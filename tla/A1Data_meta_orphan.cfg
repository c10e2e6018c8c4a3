\* A PUT racing the purge thread leaves an instance without metadata (no
\* restart, so the crash between the two PUT writes is not the trace).
CONSTANTS
    Types <- MCTypes
    IIDs <- MCIIDsPlain
    Handlers <- MCHandlers
    Statuses <- MCStatuses
    Bodies <- MCBodies
    None = None
    MaxOps = 6
    MaxAcks = 0
    MaxSdlErrors = 0
    MaxCrashes = 0
SPECIFICATION Spec
INVARIANT MetadataIffInstance
\* the bounded server stops once its requests are used up
CHECK_DEADLOCK FALSE
