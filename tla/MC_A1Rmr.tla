------------------------------ MODULE MC_A1Rmr ------------------------------
(* Model values and small sets for checking A1Rmr with TLC. *)
EXTENDS A1Rmr

CONSTANT T1   \* a policy type id (model value)

MCTypes == {T1}
MCIIDs == {<<"a">>}
MCHandlers == {"h1"}
MCStatuses == {"OK", "DELETED"}
MCBodies == {"b1"}
MCNoJobs == {}
\* a numeric job id, a UUID job id (what EI create-job uses) and none at all
MCJobs == {"7", "f81d4fae", None}
MCIntJobs == {"7"}
\* a numeric job id, and no job id at all
MCJobsSmall == {"7", None}
\* a JSON answer (any status: a non-2xx one is only logged, and the replies
\* sent by rts are not modelled), a body that is not JSON, no connection, and
\* a connection that is never answered
MCCoordinator == {"ok", "not_json", "unreachable", "hang"}
MCNoEIClients == {}
MCEIClients == {"h1"}
=============================================================================
