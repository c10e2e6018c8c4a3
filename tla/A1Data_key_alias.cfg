\* Instance ids a and a.b share the handler-key prefix of a.
CONSTANTS
    Types <- MCTypes
    IIDs <- MCIIDsAliased
    Handlers <- MCHandlers
    Statuses <- MCStatuses
    Bodies <- MCBodies
    None = None
    MaxOps = 4
    MaxAcks = 1
    MaxSdlErrors = 0
    MaxCrashes = 0
SPECIFICATION Spec
PROPERTY StatusReadScoped
\* the bounded server stops once its requests are used up
CHECK_DEADLOCK FALSE
