\* A read of the metadata after the purge removed it ends in an unhandled TypeError.
CONSTANTS
    Types <- MCTypes
    IIDs <- MCIIDsPlain
    Handlers <- MCHandlers
    Statuses <- MCStatuses
    Bodies <- MCBodies
    None = None
    MaxOps = 5
    MaxAcks = 0
    MaxSdlErrors = 0
    MaxCrashes = 0
SPECIFICATION Spec
INVARIANT ValidatedReadsAnswer
\* the bounded server stops once its requests are used up
CHECK_DEADLOCK FALSE
