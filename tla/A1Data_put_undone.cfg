\* A purge armed by an earlier DELETE removes an instance re-created by a later PUT.
CONSTANTS
    Types <- MCTypes
    IIDs <- MCIIDsPlain
    Handlers <- MCHandlers
    Statuses <- MCStatuses
    Bodies <- MCBodies
    None = None
    MaxOps = 5
    MaxAcks = 0
    MaxSdlErrors = 0
    MaxCrashes = 0
SPECIFICATION Spec
INVARIANT PutSurvives
\* the bounded server stops once its requests are used up
CHECK_DEADLOCK FALSE
