\* Drain threads under every interleaving with requests, responses, queries,
\* EI traffic, purges and restarts of a dead loop; one send may be dropped.
CONSTANTS
    Types <- MCTypes
    IIDs <- MCIIDs
    Handlers <- MCHandlers
    Statuses <- MCStatuses
    Bodies <- MCBodies
    None = None
    T1 = T1
    MaxOps = 3
    MaxAcks = 1
    MaxSdlErrors = 1
    MaxCrashes = 1
    MaxSenders = 2
    MaxDrops = 1
    MaxQueries = 1
    Jobs <- MCJobsSmall
    IntJobs <- MCIntJobs
    Coordinator <- MCCoordinator
    EIClients <- MCEIClients
SPECIFICATION RmrSpec
INVARIANT RmrTypeOK
PROPERTY QueueEventuallyDrained
\* Once the request, response and query bounds are used up the mediator
\* just keeps ticking or waits, as the real one may.
CHECK_DEADLOCK FALSE
