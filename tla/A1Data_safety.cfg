\* Store invariants, the refinement of the atomic registry, and the purge
\* of tombstoned instances, under every interleaving with one restart.
CONSTANTS
    Types <- MCTypes
    IIDs <- MCIIDsPlain
    Handlers <- MCHandlers
    Statuses <- MCStatuses
    Bodies <- MCBodies
    None = None
    MaxOps = 5
    MaxAcks = 2
    MaxSdlErrors = 1
    MaxCrashes = 1
SPECIFICATION Spec
INVARIANT TypeOK
INVARIANT InstanceHasType
INVARIANT KeyEncodingFaithful
PROPERTY RegistryRefined
PROPERTY DeleteCompletes
\* the bounded server stops once its requests are used up
CHECK_DEADLOCK FALSE
