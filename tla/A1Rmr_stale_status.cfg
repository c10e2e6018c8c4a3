\* A response to the first PUT of an instance still on its way when the second PUT is accepted.
CONSTANTS
    Types <- MCTypes
    IIDs <- MCIIDs
    Handlers <- MCHandlers
    Statuses <- MCStatuses
    Bodies <- MCBodies
    None = None
    T1 = T1
    MaxOps = 3
    MaxAcks = 1
    MaxSdlErrors = 0
    MaxCrashes = 0
    MaxSenders = 1
    MaxDrops = 0
    MaxQueries = 0
    Jobs <- MCNoJobs
    IntJobs <- MCIntJobs
    Coordinator <- MCCoordinator
    EIClients <- MCNoEIClients
SPECIFICATION RmrSpec
INVARIANT StatusOfCurrentGeneration
\* Once the request, response and query bounds are used up the mediator
\* just keeps ticking or waits, as the real one may.
CHECK_DEADLOCK FALSE
