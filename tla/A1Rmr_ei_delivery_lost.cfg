\* Data deliveries with numeric and UUID job ids; no restarts, a reliable bus.
CONSTANTS
    Types <- MCTypes
    IIDs <- MCIIDs
    Handlers <- MCHandlers
    Statuses <- MCStatuses
    Bodies <- MCBodies
    None = None
    T1 = T1
    MaxOps = 2
    MaxAcks = 0
    MaxSdlErrors = 0
    MaxCrashes = 0
    MaxSenders = 1
    MaxDrops = 0
    MaxQueries = 0
    Jobs <- MCJobs
    IntJobs <- MCIntJobs
    Coordinator <- MCCoordinator
    EIClients <- MCNoEIClients
SPECIFICATION RmrSpec
PROPERTY EIDeliveryEventuallySent
\* Once the request, response and query bounds are used up the mediator
\* just keeps ticking or waits, as the real one may.
CHECK_DEADLOCK FALSE
