----------------------------- MODULE A1Registry -----------------------------
(***************************************************************************)
(* What the policy registry of the A1 mediator promises (src/a1/data.py),  *)
(* with every registry call one atomic step and no key families: the set  *)
(* of policy types, the set of policy instances, and, per instance, the   *)
(* number of armed delete timers (_delete_after threads) that have not    *)
(* fired yet.                                                             *)
(*                                                                         *)
(* A type is removed only while it has no instance; an instance is       *)
(* created only under an existing type; an instance disappears only when  *)
(* a timer armed by an accepted DELETE of it fires; a timer fires at most *)
(* once; a store error may end a timer and a restart forgets every armed  *)
(* timer.  A timer purges whatever instance it finds: the registry keeps   *)
(* no instance generations.                                                *)
(***************************************************************************)
EXTENDS Naturals

CONSTANTS Types, IIDs

VARIABLES
    types,      \* the policy types stored
    instances,  \* the (type, instance id) pairs stored
    armed       \* (type, instance id) -> timers armed and not yet fired

regVars == <<types, instances, armed>>

Pairs == Types \X IIDs

RegInit ==
    /\ types = {}
    /\ instances = {}
    /\ armed = [x \in Pairs |-> 0]

(* store_policy_type *)
CreateType(t) ==
    /\ t \notin types
    /\ types' = types \cup {t}
    /\ UNCHANGED <<instances, armed>>

(* delete_policy_type: refused while an instance of the type exists *)
DeleteType(t) ==
    /\ t \in types
    /\ \A x \in instances : x[1] # t
    /\ types' = types \ {t}
    /\ UNCHANGED <<instances, armed>>

(* store_policy_instance of a new instance *)
CreateInstance(x) ==
    /\ x[1] \in types
    /\ x \notin instances
    /\ instances' = instances \cup {x}
    /\ UNCHANGED <<types, armed>>

(* delete_policy_instance starts a _delete_after thread for a stored instance *)
ArmTimer(x) ==
    /\ x \in instances
    /\ armed' = [armed EXCEPT ![x] = @ + 1]
    /\ UNCHANGED <<types, instances>>

(* a timer fires: the instance it finds is purged *)
Purge(x) ==
    /\ armed[x] > 0
    /\ x \in instances
    /\ instances' = instances \ {x}
    /\ armed' = [armed EXCEPT ![x] = @ - 1]
    /\ UNCHANGED types

(* a timer fires and finds no instance *)
Disarm(x) ==
    /\ armed[x] > 0
    /\ x \notin instances
    /\ armed' = [armed EXCEPT ![x] = @ - 1]
    /\ UNCHANGED <<types, instances>>

(* a timer's thread ends on a store error before it has purged *)
TimerFails(x) ==
    /\ armed[x] > 0
    /\ armed' = [armed EXCEPT ![x] = @ - 1]
    /\ UNCHANGED <<types, instances>>

(* the process restarts: threads are lost, the store is kept *)
RegRestart ==
    /\ armed' = [x \in Pairs |-> 0]
    /\ UNCHANGED <<types, instances>>

TimerFires(x) == Purge(x) \/ Disarm(x)

RegNext ==
    \/ \E t \in Types : CreateType(t) \/ DeleteType(t)
    \/ \E x \in Pairs : CreateInstance(x) \/ ArmTimer(x) \/ TimerFires(x) \/ TimerFails(x)
    \/ RegRestart

(* An armed timer fires unless the process restarts first. *)
RegSpec ==
    /\ RegInit
    /\ [][RegNext]_regVars
    /\ \A x \in Pairs : WF_regVars(TimerFires(x))

=============================================================================
