\* Two drain threads alive at once, each holding a work item.
CONSTANTS
    Types <- MCTypes
    IIDs <- MCIIDs
    Handlers <- MCHandlers
    Statuses <- MCStatuses
    Bodies <- MCBodies
    None = None
    T1 = T1
    MaxOps = 4
    MaxAcks = 0
    MaxSdlErrors = 0
    MaxCrashes = 0
    MaxSenders = 2
    MaxDrops = 0
    MaxQueries = 0
    Jobs <- MCNoJobs
    IntJobs <- MCIntJobs
    Coordinator <- MCCoordinator
    EIClients <- MCNoEIClients
SPECIFICATION RmrSpec
INVARIANT RequestOrderPreserved
\* Once the request, response and query bounds are used up the mediator
\* just keeps ticking or waits, as the real one may.
CHECK_DEADLOCK FALSE
