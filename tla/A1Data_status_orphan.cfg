\* A policy response racing the purge leaves a status of a purged instance.
CONSTANTS
    Types <- MCTypes
    IIDs <- MCIIDsPlain
    Handlers <- MCHandlers
    Statuses <- MCStatuses
    Bodies <- MCBodies
    None = None
    MaxOps = 5
    MaxAcks = 1
    MaxSdlErrors = 0
    MaxCrashes = 0
SPECIFICATION Spec
INVARIANT HandlerStatusOnlyForLiveInstance
\* the bounded server stops once its requests are used up
CHECK_DEADLOCK FALSE
