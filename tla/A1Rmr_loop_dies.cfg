\* A handler's PolicyQuery races the purge of an instance.
CONSTANTS
    Types <- MCTypes
    IIDs <- MCIIDs
    Handlers <- MCHandlers
    Statuses <- MCStatuses
    Bodies <- MCBodies
    None = None
    T1 = T1
    MaxOps = 4
    MaxAcks = 0
    MaxSdlErrors = 0
    MaxCrashes = 0
    MaxSenders = 1
    MaxDrops = 0
    MaxQueries = 1
    Jobs <- MCNoJobs
    IntJobs <- MCIntJobs
    Coordinator <- MCCoordinator
    EIClients <- MCNoEIClients
SPECIFICATION RmrSpec
INVARIANT LoopAlive
\* Once the request, response and query bounds are used up the mediator
\* just keeps ticking or waits, as the real one may.
CHECK_DEADLOCK FALSE
