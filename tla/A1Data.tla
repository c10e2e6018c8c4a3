------------------------------- MODULE A1Data -------------------------------
(***************************************************************************)
(* The policy registry of the A1 mediator (src/a1/data.py) together with   *)
(* the HTTP handlers that drive it (src/a1/controller.py).                 *)
(*                                                                         *)
(* The SDL key-value store is one function `sdl` from present keys to      *)
(* values.  A key string is the dot-join of its segments, so a key is      *)
(* modelled as the sequence of its segments and a prefix scan of a prefix  *)
(* ending in "." is a sequence-prefix test.  A policy instance id may      *)
(* itself contain dots, so it is a sequence of segments.                   *)
(*                                                                         *)
(* Concurrency: HTTP requests are served one at a time (gevent WSGIServer  *)
(* without monkey patching never yields inside a handler), but they        *)
(* interleave, one SDL call at a time, with the real threads: the rmr loop *)
(* thread writing handler statuses and one `_delete_after` thread per      *)
(* accepted instance DELETE.  Every SDL call is one atomic step.           *)
(***************************************************************************)
EXTENDS Integers, Sequences, SequencesExt, Functions, FiniteSets

CONSTANTS
    Types,      \* policy type ids (integers)
    IIDs,       \* policy instance ids, each a sequence of dot-free segments
    Handlers,   \* handler ids that may send a policy response
    Statuses,   \* status strings a handler may report
    Bodies,     \* instance bodies that pass the type's create_schema
    None,       \* model value: an unset field
    MaxOps,     \* bound on HTTP requests served
    MaxAcks,    \* bound on policy responses processed by the rmr thread
    MaxCrashes, \* bound on process restarts
    MaxSdlErrors \* bound on SDL calls that raise

VARIABLES
    sdl,                  \* the SDL namespace A1m_ns: present key -> value
    hw,                   \* the HTTP worker: request in progress and its locals
    fin,                  \* the _delete_after threads ever started, in order
    rmr,                  \* the rmr loop thread while handling a policy response
    instance_send_queue,  \* _RmrLoop.instance_send_queue (in memory); each item
                          \* also carries n, the serial of the request (history)
    resp,                 \* the last HTTP response returned
    lastMut,              \* history: last acknowledged mutation of each instance
                          \* and the serial of the last acknowledged PUT
    ops, acks, crashes,   \* bounds
    sdlErrors

dataVars == <<sdl, hw, fin, rmr, instance_send_queue, resp, lastMut, ops, acks, crashes, sdlErrors>>

-----------------------------------------------------------------------------
(* Keys (data.py _generate_*_key) *)

TYPE_PREFIX == "a1.policy_type."
INSTANCE_PREFIX == "a1.policy_instance."
METADATA_PREFIX == "a1.policy_inst_metadata."
HANDLER_PREFIX == "a1.policy_handler."

generate_type_key(t) == <<TYPE_PREFIX, t>>
generate_instance_key(t, i) == <<INSTANCE_PREFIX, t>> \o i
generate_instance_metadata_key(t, i) == <<METADATA_PREFIX, t>> \o i
generate_handler_prefix(t, i) == <<HANDLER_PREFIX, t>> \o i
\* mutant: the instance id left out of the handler key
generate_handler_key_no_iid(t, i, h) == <<HANDLER_PREFIX, t>> \o <<h>>
generate_handler_key(t, i, h) == generate_handler_prefix(t, i) \o <<h>>

(* The keys of the layout over type ids ts, instance ids ids, handlers hs *)
KeysOf(ts, ids, hs) ==
    {generate_type_key(t) : t \in ts}
    \cup {generate_instance_key(t, i) : t \in ts, i \in ids}
    \cup {generate_instance_metadata_key(t, i) : t \in ts, i \in ids}
    \cup {generate_handler_prefix(t, i) \o <<h>> : t \in ts, i \in ids, h \in hs}

(* The same keys as the strings str.format builds.  An instance id is the *)
(* dot-join of its segments; a type id is formatted with str().            *)
iid_str(i) == FoldLeft(LAMBDA acc, seg : acc \o "." \o seg, Head(i), Tail(i))

type_key_str(t) == TYPE_PREFIX \o ToString(t)
instance_key_str(t, i) == INSTANCE_PREFIX \o ToString(t) \o "." \o iid_str(i)
metadata_key_str(t, i) == METADATA_PREFIX \o ToString(t) \o "." \o iid_str(i)
\* mutant: the handler prefix without its closing "."
handler_prefix_str_no_dot(t, i) == HANDLER_PREFIX \o ToString(t) \o "." \o iid_str(i)
handler_prefix_str(t, i) == HANDLER_PREFIX \o ToString(t) \o "." \o iid_str(i) \o "."
handler_key_str(t, i, h) == handler_prefix_str(t, i) \o h
\* _get_instance_list scans "{0}{1}.".format(INSTANCE_PREFIX, policy_type_id)
instance_scan_str(t) == INSTANCE_PREFIX \o ToString(t) \o "."

(* SDL.find_and_get(A1NS, prefix).keys() *)
find_keys(prefix) == {k \in DOMAIN sdl : IsPrefix(prefix, k)}

SdlSet(k, v) == sdl' = (k :> v) @@ sdl
SdlDelete(K) == sdl' = Restrict(sdl, DOMAIN sdl \ K)

type_is_valid(t) == generate_type_key(t) \in DOMAIN sdl
instance_is_valid(t, i) ==
    type_is_valid(t) /\ generate_instance_key(t, i) \in DOMAIN sdl
\* what the two checks raise when instance_is_valid fails
instance_error(t, i) ==
    IF type_is_valid(t) THEN "PolicyInstanceNotFound" ELSE "PolicyTypeNotFound"

(* Instance metadata is {created_at, has_been_deleted[, deleted_at]}; only *)
(* has_been_deleted is kept.                                               *)
LIVE == "has_been_deleted=False"
TOMBSTONE == "has_been_deleted=True"

-----------------------------------------------------------------------------
IdleWorker == [pc |-> "idle", t |-> None, i |-> None, b |-> None,
               op |-> None, snap |-> {}, meta |-> None]
IdleRmr == [pc |-> "idle", t |-> None, i |-> None, h |-> None, s |-> None]

Init ==
    /\ sdl = <<>>
    /\ hw = IdleWorker
    /\ fin = <<>>
    /\ rmr = IdleRmr
    /\ instance_send_queue = <<>>
    /\ resp = None
    /\ lastMut = [x \in Types \X IIDs |-> [op |-> "none", put |-> 0]]
    /\ ops = 0 /\ acks = 0 /\ crashes = 0 /\ sdlErrors = 0

Reply(op, t, i, code) ==
    resp' = [op |-> op, t |-> t, i |-> i, code |-> code, body |-> None,
             deleted |-> None, status |-> None]
Done == hw' = IdleWorker

(* a1.exceptions: the subclasses of A1Error *)
A1Error == {"CantDeleteNonEmptyType", "PolicyInstanceNotFound", "PolicyTypeNotFound",
            "PolicyTypeAlreadyExists", "PolicyTypeIdMismatch"}
NotFound == {"PolicyTypeNotFound", "PolicyInstanceNotFound"}
\* the ricsdl exceptions
SdlError == {"RejectedByBackend", "NotConnected", "BackendError"}

(* _try_func_return: the code an exception of the handler is answered     *)
(* with.  An exception it does not catch (a TypeError) reaches the         *)
(* framework, which answers 500.                                           *)
HttpCode(exc) ==
    CASE exc \in (A1Error \ NotFound) \cup {"ValidationError"} -> 400
      [] exc \in NotFound -> 404
      [] exc \in SdlError -> 503
      [] OTHER -> 500

Raise(op, t, i, exc) == Reply(op, t, i, HttpCode(exc))

(* a1rmr.queue_instance_send: instance_send_queue.put(item) *)
queue_instance_send(item) == instance_send_queue' = Append(instance_send_queue, item)

(* A new request may start only when the worker is idle. *)
StartRequest == hw.pc = "idle" /\ ops < MaxOps /\ ops' = ops + 1

-----------------------------------------------------------------------------
(* Policy types: every SDL call they make is on keys no thread writes,    *)
(* so each request is one step.                                           *)

(* controller.create_policy_type + data.store_policy_type *)
store_policy_type(t, idMatches) ==
    /\ StartRequest
    /\ CASE ~idMatches ->
              Raise("PUT type", t, None, "PolicyTypeIdMismatch") /\ UNCHANGED sdl
         [] type_is_valid(t) ->
              Raise("PUT type", t, None, "PolicyTypeAlreadyExists") /\ UNCHANGED sdl
         [] OTHER ->
              Reply("PUT type", t, None, 201) /\ SdlSet(generate_type_key(t), t)
    /\ UNCHANGED <<hw, fin, rmr, instance_send_queue, lastMut, acks, crashes, sdlErrors>>

\* mutant: the type is removed without looking for its instances
delete_policy_type_unchecked(t) ==
    /\ StartRequest
    /\ IF ~type_is_valid(t)
          THEN Raise("DELETE type", t, None, "PolicyTypeNotFound") /\ UNCHANGED sdl
          ELSE Reply("DELETE type", t, None, 204) /\ SdlDelete({generate_type_key(t)})
    /\ UNCHANGED <<hw, fin, rmr, instance_send_queue, lastMut, acks, crashes, sdlErrors>>

(* controller.delete_policy_type + data.delete_policy_type *)
delete_policy_type(t) ==
    /\ StartRequest
    /\ CASE ~type_is_valid(t) ->
              Raise("DELETE type", t, None, "PolicyTypeNotFound") /\ UNCHANGED sdl
         [] find_keys(<<INSTANCE_PREFIX, t>>) # {} ->
              Raise("DELETE type", t, None, "CantDeleteNonEmptyType") /\ UNCHANGED sdl
         [] OTHER ->
              Reply("DELETE type", t, None, 204) /\ SdlDelete({generate_type_key(t)})
    /\ UNCHANGED <<hw, fin, rmr, instance_send_queue, lastMut, acks, crashes, sdlErrors>>

-----------------------------------------------------------------------------
(* controller.create_or_replace_policy_instance + data.store_policy_instance *)

\* get_policy_type, schema validation, then SDL.get of the instance key
PutInstanceBegin(t, i, b, valid) ==
    /\ StartRequest
    /\ CASE ~type_is_valid(t) ->
              Raise("PUT instance", t, i, "PolicyTypeNotFound") /\ UNCHANGED hw
         [] ~valid ->
              Raise("PUT instance", t, i, "ValidationError") /\ UNCHANGED hw
         [] generate_instance_key(t, i) \in DOMAIN sdl ->
              hw' = [IdleWorker EXCEPT !.pc = "pi_find", !.t = t, !.i = i,
                                       !.b = b, !.op = "UPDATE"]
              /\ UNCHANGED resp
         [] OTHER ->
              hw' = [IdleWorker EXCEPT !.pc = "pi_setInst", !.t = t, !.i = i,
                                       !.b = b, !.op = "CREATE"]
              /\ UNCHANGED resp
    /\ UNCHANGED <<sdl, fin, rmr, instance_send_queue, lastMut, acks, crashes, sdlErrors>>

\* _clear_handlers: find_and_get of the handler prefix ...
PutInstanceFindHandlers ==
    /\ hw.pc = "pi_find"
    /\ hw' = [hw EXCEPT !.pc = "pi_clear",
                        !.snap = find_keys(generate_handler_prefix(hw.t, hw.i))]
    /\ UNCHANGED <<sdl, fin, rmr, instance_send_queue, resp, lastMut, ops, acks, crashes, sdlErrors>>

\* ... then SDL.delete of every key found
PutInstanceClearHandlers ==
    /\ hw.pc = "pi_clear"
    /\ SdlDelete(hw.snap)
    /\ hw' = [hw EXCEPT !.pc = "pi_setInst", !.snap = {}]
    /\ UNCHANGED <<fin, rmr, instance_send_queue, resp, lastMut, ops, acks, crashes, sdlErrors>>

PutInstanceSetInstance ==
    /\ hw.pc = "pi_setInst"
    /\ SdlSet(generate_instance_key(hw.t, hw.i), hw.b)
    /\ hw' = [hw EXCEPT !.pc = "pi_setMeta"]
    /\ UNCHANGED <<fin, rmr, instance_send_queue, resp, lastMut, ops, acks, crashes, sdlErrors>>

\* fresh metadata, then a1rmr.queue_instance_send, then 202
PutInstanceSetMetadata ==
    /\ hw.pc = "pi_setMeta"
    /\ SdlSet(generate_instance_metadata_key(hw.t, hw.i), LIVE)
    /\ queue_instance_send([op |-> hw.op, t |-> hw.t, i |-> hw.i, b |-> hw.b, n |-> ops])
    /\ Reply("PUT instance", hw.t, hw.i, 202)
    /\ lastMut' = [lastMut EXCEPT ![<<hw.t, hw.i>>] = [op |-> "put", put |-> ops]]
    /\ Done
    /\ UNCHANGED <<fin, rmr, ops, acks, crashes, sdlErrors>>

-----------------------------------------------------------------------------
(* controller.delete_policy_instance + data.delete_policy_instance.        *)
(* The _instance_is_valid inside _get_metadata is folded into the first    *)
(* one: no thread creates instances, so it can only fail where the read of *)
(* the metadata or the _get_statuses check that follow fail too.           *)

DeleteInstanceBegin(t, i) ==
    /\ StartRequest
    /\ IF instance_is_valid(t, i)
          THEN hw' = [IdleWorker EXCEPT !.pc = "di_getMeta", !.t = t, !.i = i]
               /\ UNCHANGED resp
          ELSE Raise("DELETE instance", t, i, instance_error(t, i)) /\ UNCHANGED hw
    /\ UNCHANGED <<sdl, fin, rmr, instance_send_queue, lastMut, acks, crashes, sdlErrors>>

\* existing_metadata["created_at"] on a missing key raises TypeError: 500
DeleteInstanceGetMetadata ==
    /\ hw.pc = "di_getMeta"
    /\ IF generate_instance_metadata_key(hw.t, hw.i) \in DOMAIN sdl
          THEN hw' = [hw EXCEPT !.pc = "di_setMeta"] /\ UNCHANGED resp
          ELSE Raise("DELETE instance", hw.t, hw.i, "TypeError") /\ Done
    /\ UNCHANGED <<sdl, fin, rmr, instance_send_queue, lastMut, ops, acks, crashes, sdlErrors>>

DeleteInstanceSetMetadata ==
    /\ hw.pc = "di_setMeta"
    /\ SdlSet(generate_instance_metadata_key(hw.t, hw.i), TOMBSTONE)
    /\ hw' = [hw EXCEPT !.pc = "di_statuses"]
    /\ UNCHANGED <<fin, rmr, instance_send_queue, resp, lastMut, ops, acks, crashes, sdlErrors>>

\* _get_statuses (raises PolicyInstanceNotFound: 404), then Thread(_delete_after).start(),
\* then a1rmr.queue_instance_send(("DELETE", ...)), then 202.  The two TTLs only
\* choose how long the thread sleeps, and the sleep has no fixed length here.
\* mutant: the _delete_after thread is started only on the "no response" branch
DeleteInstanceStatusesNoRespOnly ==
    /\ hw.pc = "di_statuses"
    /\ IF instance_is_valid(hw.t, hw.i)
          THEN /\ fin' = IF find_keys(generate_handler_prefix(hw.t, hw.i)) = {}
                         THEN Append(fin, [t |-> hw.t, i |-> hw.i, pc |-> "f_valid", snap |-> {}])
                         ELSE fin
               /\ queue_instance_send([op |-> "DELETE", t |-> hw.t, i |-> hw.i, b |-> "", n |-> ops])
               /\ Reply("DELETE instance", hw.t, hw.i, 202)
               /\ lastMut' = [lastMut EXCEPT ![<<hw.t, hw.i>>].op = "delete"]
          ELSE /\ Raise("DELETE instance", hw.t, hw.i, instance_error(hw.t, hw.i))
               /\ UNCHANGED <<fin, instance_send_queue, lastMut>>
    /\ Done
    /\ UNCHANGED <<sdl, rmr, ops, acks, crashes, sdlErrors>>

\* mutant: the _delete_after thread is started before _get_statuses has checked the instance
DeleteInstanceStatusesArmFirst ==
    /\ hw.pc = "di_statuses"
    /\ fin' = Append(fin, [t |-> hw.t, i |-> hw.i, pc |-> "f_valid", snap |-> {}])
    /\ IF instance_is_valid(hw.t, hw.i)
          THEN /\ queue_instance_send([op |-> "DELETE", t |-> hw.t, i |-> hw.i, b |-> "", n |-> ops])
               /\ Reply("DELETE instance", hw.t, hw.i, 202)
               /\ lastMut' = [lastMut EXCEPT ![<<hw.t, hw.i>>].op = "delete"]
          ELSE /\ Raise("DELETE instance", hw.t, hw.i, instance_error(hw.t, hw.i))
               /\ UNCHANGED <<instance_send_queue, lastMut>>
    /\ Done
    /\ UNCHANGED <<sdl, rmr, ops, acks, crashes, sdlErrors>>

DeleteInstanceStatuses ==
    /\ hw.pc = "di_statuses"
    /\ IF instance_is_valid(hw.t, hw.i)
          THEN /\ fin' = Append(fin, [t |-> hw.t, i |-> hw.i, pc |-> "f_valid", snap |-> {}])
               /\ queue_instance_send([op |-> "DELETE", t |-> hw.t, i |-> hw.i, b |-> "", n |-> ops])
               /\ Reply("DELETE instance", hw.t, hw.i, 202)
               /\ lastMut' = [lastMut EXCEPT ![<<hw.t, hw.i>>].op = "delete"]
          ELSE /\ Raise("DELETE instance", hw.t, hw.i, instance_error(hw.t, hw.i))
               /\ UNCHANGED <<fin, instance_send_queue, lastMut>>
    /\ Done
    /\ UNCHANGED <<sdl, rmr, ops, acks, crashes, sdlErrors>>

-----------------------------------------------------------------------------
(* controller.get_policy_instance_status + data.get_policy_instance_status *)

GetStatusBegin(t, i) ==
    /\ StartRequest
    /\ IF instance_is_valid(t, i)
          THEN hw' = [IdleWorker EXCEPT !.pc = "gs_meta", !.t = t, !.i = i]
               /\ UNCHANGED resp
          ELSE Raise("GET status", t, i, instance_error(t, i)) /\ UNCHANGED hw
    /\ UNCHANGED <<sdl, fin, rmr, instance_send_queue, lastMut, acks, crashes, sdlErrors>>

\* metadata["instance_status"] = ... on a missing key raises TypeError: 500
GetStatusMetadata ==
    /\ hw.pc = "gs_meta"
    /\ LET mk == generate_instance_metadata_key(hw.t, hw.i) IN
       IF mk \in DOMAIN sdl
          THEN hw' = [hw EXCEPT !.pc = "gs_statuses", !.meta = sdl[mk]] /\ UNCHANGED resp
          ELSE Raise("GET status", hw.t, hw.i, "TypeError") /\ Done
    /\ UNCHANGED <<sdl, fin, rmr, instance_send_queue, lastMut, ops, acks, crashes, sdlErrors>>

(* metadata["instance_status"]: "IN EFFECT" as soon as one handler status *)
(* is "OK"                                                                  *)
instance_status(vector) == IF "OK" \in vector THEN "IN EFFECT" ELSE "NOT IN EFFECT"

\* _get_statuses, then the instance status of what it found
GetStatusStatuses ==
    /\ hw.pc = "gs_statuses"
    /\ IF instance_is_valid(hw.t, hw.i)
          THEN LET vector == {sdl[k] : k \in find_keys(generate_handler_prefix(hw.t, hw.i))}
               IN resp' = [op |-> "GET status", t |-> hw.t, i |-> hw.i, code |-> 200,
                           body |-> None, deleted |-> hw.meta = TOMBSTONE,
                           status |-> instance_status(vector)]
          ELSE Raise("GET status", hw.t, hw.i, instance_error(hw.t, hw.i))
    /\ Done
    /\ UNCHANGED <<sdl, fin, rmr, instance_send_queue, lastMut, ops, acks, crashes, sdlErrors>>

-----------------------------------------------------------------------------
(* The reads of the façade.  Only HTTP requests write type keys, so the   *)
(* type reads are one step each; an instance key may be purged by a       *)
(* _delete_after thread between the validation and the read.              *)

ReplyBody(op, t, i, b) ==
    resp' = [op |-> op, t |-> t, i |-> i, code |-> 200, body |-> b,
             deleted |-> None, status |-> None]

(* controller.get_all_policy_types + data.get_type_list *)
get_type_list ==
    /\ StartRequest
    /\ ReplyBody("GET types", None, None, {k[2] : k \in find_keys(<<TYPE_PREFIX>>)})
    /\ UNCHANGED <<sdl, hw, fin, rmr, instance_send_queue, lastMut, acks, crashes, sdlErrors>>

(* controller.get_policy_type + data.get_policy_type *)
get_policy_type(t) ==
    /\ StartRequest
    /\ IF type_is_valid(t)
          THEN ReplyBody("GET type", t, None, sdl[generate_type_key(t)])
          ELSE Raise("GET type", t, None, "PolicyTypeNotFound")
    /\ UNCHANGED <<sdl, hw, fin, rmr, instance_send_queue, lastMut, acks, crashes, sdlErrors>>

(* data.get_instance_list: the instance ids of the keys under the type's  *)
(* prefix, k.split(prefix)[1]                                              *)
get_instance_list(t) ==
    {SubSeq(k, 3, Len(k)) : k \in find_keys(<<INSTANCE_PREFIX, t>>)}

(* controller.get_all_instances_for_type *)
get_all_instances_for_type(t) ==
    /\ StartRequest
    /\ IF type_is_valid(t)
          THEN ReplyBody("GET instances", t, None, get_instance_list(t))
          ELSE Raise("GET instances", t, None, "PolicyTypeNotFound")
    /\ UNCHANGED <<sdl, hw, fin, rmr, instance_send_queue, lastMut, acks, crashes, sdlErrors>>

(* controller.get_policy_instance + data.get_policy_instance: *)
(* _instance_is_valid, then SDL.get of the instance key        *)
GetInstanceBegin(t, i) ==
    /\ StartRequest
    /\ IF instance_is_valid(t, i)
          THEN hw' = [IdleWorker EXCEPT !.pc = "gi_get", !.t = t, !.i = i]
               /\ UNCHANGED resp
          ELSE Raise("GET instance", t, i, instance_error(t, i)) /\ UNCHANGED hw
    /\ UNCHANGED <<sdl, fin, rmr, instance_send_queue, lastMut, acks, crashes, sdlErrors>>

\* SDL.get returns None for a missing key: the answer is 200 with body null
GetInstanceRead ==
    /\ hw.pc = "gi_get"
    /\ LET k == generate_instance_key(hw.t, hw.i) IN
       ReplyBody("GET instance", hw.t, hw.i, IF k \in DOMAIN sdl THEN sdl[k] ELSE None)
    /\ Done
    /\ UNCHANGED <<sdl, fin, rmr, instance_send_queue, lastMut, ops, acks, crashes, sdlErrors>>

-----------------------------------------------------------------------------
(* data._delete_after, one thread per accepted DELETE *)

FinStep(j, from, to) ==
    /\ fin[j].pc = from
    /\ fin' = [fin EXCEPT ![j].pc = to]

\* _instance_is_valid raises before the sleep: the thread dies
FinValidate(j) ==
    /\ fin[j].pc = "f_valid"
    /\ fin' = [fin EXCEPT ![j].pc = IF instance_is_valid(fin[j].t, fin[j].i)
                                     THEN "f_sleep" ELSE "f_done"]
    /\ UNCHANGED <<sdl, hw, rmr, instance_send_queue, resp, lastMut, ops, acks, crashes, sdlErrors>>

\* time.sleep(ttl) ends
FinWake(j) ==
    /\ FinStep(j, "f_sleep", "f_find")
    /\ UNCHANGED <<sdl, hw, rmr, instance_send_queue, resp, lastMut, ops, acks, crashes, sdlErrors>>

FinFindHandlers(j) ==
    /\ fin[j].pc = "f_find"
    /\ fin' = [fin EXCEPT ![j].pc = "f_clear",
                          ![j].snap = find_keys(generate_handler_prefix(fin[j].t, fin[j].i))]
    /\ UNCHANGED <<sdl, hw, rmr, instance_send_queue, resp, lastMut, ops, acks, crashes, sdlErrors>>

FinClearHandlers(j) ==
    /\ fin[j].pc = "f_clear"
    /\ SdlDelete(fin[j].snap)
    /\ fin' = [fin EXCEPT ![j].pc = "f_delInst", ![j].snap = {}]
    /\ UNCHANGED <<hw, rmr, instance_send_queue, resp, lastMut, ops, acks, crashes, sdlErrors>>

FinDeleteInstance(j) ==
    /\ FinStep(j, "f_delInst", "f_delMeta")
    /\ SdlDelete({generate_instance_key(fin[j].t, fin[j].i)})
    /\ UNCHANGED <<hw, rmr, instance_send_queue, resp, lastMut, ops, acks, crashes, sdlErrors>>

FinDeleteMetadata(j) ==
    /\ FinStep(j, "f_delMeta", "f_done")
    /\ SdlDelete({generate_instance_metadata_key(fin[j].t, fin[j].i)})
    /\ UNCHANGED <<hw, rmr, instance_send_queue, resp, lastMut, ops, acks, crashes, sdlErrors>>

-----------------------------------------------------------------------------
(* data.set_policy_instance_status, called by the rmr thread for a        *)
(* PolicyResponse; PolicyTypeNotFound/PolicyInstanceNotFound are caught    *)
(* by the loop and the response is dropped.                                *)

set_policy_instance_status(t, i, h, s) ==
    /\ rmr.pc = "idle"
    /\ acks < MaxAcks /\ acks' = acks + 1
    /\ rmr' = IF instance_is_valid(t, i)
                 THEN [pc |-> "s_set", t |-> t, i |-> i, h |-> h, s |-> s]
                 ELSE rmr
    /\ UNCHANGED <<sdl, hw, fin, instance_send_queue, resp, lastMut, ops, crashes, sdlErrors>>

SetStatusWrite ==
    /\ rmr.pc = "s_set"
    /\ SdlSet(generate_handler_key(rmr.t, rmr.i, rmr.h), rmr.s)
    /\ rmr' = IdleRmr
    /\ UNCHANGED <<hw, fin, instance_send_queue, resp, lastMut, ops, acks, crashes, sdlErrors>>

-----------------------------------------------------------------------------
(* The process restarts: threads and in-memory queues are lost, SDL keeps *)
(* every key written so far.                                               *)
Restart ==
    /\ hw' = IdleWorker /\ fin' = <<>> /\ rmr' = IdleRmr
    /\ instance_send_queue' = <<>> /\ resp' = None
    /\ UNCHANGED <<sdl, lastMut, ops, acks, sdlErrors>>

Crash == crashes < MaxCrashes /\ crashes' = crashes + 1 /\ Restart

-----------------------------------------------------------------------------
(* The steps of a _delete_after thread before it has removed the instance *)
ARMED == {"f_valid", "f_sleep", "f_find", "f_clear", "f_delInst"}

(* Store errors: an SDL call raises RejectedByBackend, NotConnected or    *)
(* BackendError.  _try_func_return answers the request in progress 503   *)
(* and keeps whatever its earlier calls wrote; _delete_after has no       *)
(* handler, so the exception ends the purge thread.                        *)
SdlRaises == sdlErrors < MaxSdlErrors /\ sdlErrors' = sdlErrors + 1

RequestOf(pc) ==
    CASE SubSeq(pc, 1, 3) = "pi_" -> "PUT instance"
      [] SubSeq(pc, 1, 3) = "di_" -> "DELETE instance"
      [] SubSeq(pc, 1, 3) = "gs_" -> "GET status"
      [] SubSeq(pc, 1, 3) = "gi_" -> "GET instance"

HttpStoreError ==
    /\ hw.pc # "idle"
    /\ SdlRaises
    /\ \E exc \in SdlError : Raise(RequestOf(hw.pc), hw.t, hw.i, exc)
    /\ Done
    /\ UNCHANGED <<sdl, fin, rmr, instance_send_queue, lastMut, ops, acks, crashes>>

FinStoreError(j) ==
    /\ fin[j].pc \in {"f_valid", "f_find", "f_clear", "f_delInst", "f_delMeta"}
    /\ SdlRaises
    /\ fin' = [fin EXCEPT ![j].pc = "f_done", ![j].snap = {}]
    /\ UNCHANGED <<sdl, hw, rmr, instance_send_queue, resp, lastMut, ops, acks, crashes>>

(* the status write raises; the exception leaves set_policy_instance_status *)
StatusStoreError ==
    /\ rmr.pc = "s_set"
    /\ SdlRaises
    /\ rmr' = IdleRmr
    /\ UNCHANGED <<sdl, hw, fin, instance_send_queue, resp, lastMut, ops, acks, crashes>>

StoreError == HttpStoreError \/ \E j \in DOMAIN fin : FinStoreError(j)

(* The requests that write the registry, and the reads that only answer. *)
HttpWrite ==
    \/ \E t \in Types, m \in BOOLEAN : store_policy_type(t, m)
    \/ \E t \in Types : delete_policy_type(t)
    \/ \E t \in Types, i \in IIDs, b \in Bodies, v \in BOOLEAN : PutInstanceBegin(t, i, b, v)
    \/ \E t \in Types, i \in IIDs : DeleteInstanceBegin(t, i)

HttpRead ==
    \/ get_type_list
    \/ \E t \in Types : get_policy_type(t) \/ get_all_instances_for_type(t)
    \/ \E t \in Types, i \in IIDs : GetInstanceBegin(t, i) \/ GetStatusBegin(t, i)

HttpRequest == HttpWrite \/ HttpRead

HttpProgress ==
    \/ PutInstanceFindHandlers \/ PutInstanceClearHandlers
    \/ PutInstanceSetInstance \/ PutInstanceSetMetadata
    \/ DeleteInstanceGetMetadata \/ DeleteInstanceSetMetadata \/ DeleteInstanceStatuses
    \/ GetStatusMetadata \/ GetStatusStatuses \/ GetInstanceRead

Finalizer ==
    \E j \in DOMAIN fin :
        \/ FinValidate(j) \/ FinWake(j) \/ FinFindHandlers(j)
        \/ FinClearHandlers(j) \/ FinDeleteInstance(j) \/ FinDeleteMetadata(j)

StatusArrives ==
    \E t \in Types, i \in IIDs, h \in Handlers, s \in Statuses :
        set_policy_instance_status(t, i, h, s)

Next ==
    \/ HttpRequest \/ HttpProgress \/ Finalizer
    \/ StatusArrives \/ SetStatusWrite \/ Crash
    \/ StoreError \/ StatusStoreError

(* A request in progress, a started thread and a status write being made *)
(* all run to completion; new requests and responses need not arrive.     *)
Fairness ==
    /\ WF_dataVars(HttpProgress)
    /\ WF_dataVars(Finalizer)
    /\ WF_dataVars(SetStatusWrite)

Spec == Init /\ [][Next]_dataVars /\ Fairness

-----------------------------------------------------------------------------
(* Properties *)

(* The persisted key layout: a1.policy_type.<t>, a1.policy_instance.<t>.<i>, *)
(* a1.policy_inst_metadata.<t>.<i> and a1.policy_handler.<t>.<i>.<h>.        *)
Keys == KeysOf(Types, IIDs, Handlers)

TypeOK ==
    /\ DOMAIN sdl \subseteq Keys
    /\ hw.pc \in {"idle", "pi_find", "pi_clear", "pi_setInst", "pi_setMeta",
                   "di_getMeta", "di_setMeta", "di_statuses", "gs_meta", "gs_statuses", "gi_get"}
    /\ \A j \in DOMAIN fin :
         fin[j].pc \in {"f_valid", "f_sleep", "f_find", "f_clear", "f_delInst", "f_delMeta", "f_done"}
    /\ rmr.pc \in {"idle", "s_set"}
    /\ lastMut \in [Types \X IIDs -> [op: {"none", "put", "delete"}, put: 0..MaxOps]]
    /\ ops \in 0..MaxOps /\ acks \in 0..MaxAcks /\ crashes \in 0..MaxCrashes
    /\ sdlErrors \in 0..MaxSdlErrors

InstanceExists(t, i) == generate_instance_key(t, i) \in DOMAIN sdl
MetaExists(t, i) == generate_instance_metadata_key(t, i) \in DOMAIN sdl

(* No request, status write or purge is half done: "between transactions". *)
Quiescent ==
    /\ hw.pc = "idle"
    /\ rmr.pc = "idle"
    /\ \A j \in DOMAIN fin : fin[j].pc \in {"f_valid", "f_sleep", "f_done"}

(* Spec invariant 1: an instance key exists only while its type key does. *)
(* delete_policy_type must see every instance of the type, including one  *)
(* whose finalizer is still running.                                      *)
InstanceHasType ==
    \A t \in Types, i \in IIDs : InstanceExists(t, i) => type_is_valid(t)

(* Spec invariant 2: between transactions the metadata key of an instance *)
(* exists exactly when its instance key does; store_policy_instance and   *)
(* _delete_after write the two keys in separate SDL calls.                *)
MetadataIffInstance ==
    Quiescent => \A t \in Types, i \in IIDs : InstanceExists(t, i) <=> MetaExists(t, i)

(* Spec invariant 3: between transactions a handler status exists only    *)
(* for an existing instance; set_policy_instance_status checks the         *)
(* instance and writes the status in separate SDL calls.                   *)
HandlerStatusOnlyForLiveInstance ==
    Quiescent =>
        \A t \in Types, i \in IIDs, h \in Handlers :
            generate_handler_key(t, i, h) \in DOMAIN sdl => InstanceExists(t, i)

(* Instance lifecycle: only a DELETE leads to the purge.  If the last     *)
(* request on an instance to be acknowledged was a PUT (202), the         *)
(* instance is still there; a _delete_after thread armed by an earlier    *)
(* DELETE must not remove it.                                              *)
PutSurvives ==
    \A t \in Types, i \in IIDs : lastMut[<<t, i>>].op = "put" => InstanceExists(t, i)

(* A status read answers with the statuses of that instance only: the    *)
(* 200 response of get_policy_instance_status says "IN EFFECT" exactly     *)
(* when a handler key of that very instance holds "OK".                     *)
StatusReadScoped ==
    [][ (hw.pc = "gs_statuses" /\ resp' # resp /\ resp'.code = 200) =>
          ((resp'.status = "IN EFFECT") <=>
              \E h \in Handlers : LET k == generate_handler_key(hw.t, hw.i, h)
                                   IN k \in DOMAIN sdl /\ sdl[k] = "OK") ]_dataVars

(* A read that validated the instance answers from what it validated, as  *)
(* the error table of the façade says: a failure is 400, 404 or 503, never *)
(* an unhandled exception (500), and GET instance answers 200 with the     *)
(* instance document, never with a document a concurrent purge removed    *)
(* between _instance_is_valid and the SDL.get that follows it.            *)
ValidatedReadsAnswer ==
    resp # None =>
        /\ resp.code # 500
        /\ resp.op = "GET instance" /\ resp.code = 200 => resp.body # None

(* An instance that is tombstoned by an accepted DELETE is eventually     *)
(* purged (or revived by a PUT) unless a fault comes first: the           *)
(* _delete_after thread always runs.  A restart may lose the thread, and  *)
(* a store error may end it or the DELETE before it starts the thread;    *)
(* the spec tolerates that (a new DELETE re-arms it).                      *)
NoFault == crashes = 0 /\ sdlErrors = 0

DeletePending(t, i) ==
    InstanceExists(t, i) /\ MetaExists(t, i)
    /\ sdl[generate_instance_metadata_key(t, i)] = TOMBSTONE

DeleteCompletes ==
    \A t \in Types, i \in IIDs :
        DeletePending(t, i) /\ NoFault ~> ~DeletePending(t, i) \/ ~NoFault

(* The key encoding.  KeyStr(k) is the string data.py builds for the      *)
(* segment key k, and CodeScans the prefix scans the code makes: the type  *)
(* list, the instance list of a type, the handler statuses of an instance. *)
KeyStr(k) ==
    CASE k[1] = TYPE_PREFIX -> type_key_str(k[2])
      [] k[1] = HANDLER_PREFIX -> handler_key_str(k[2], SubSeq(k, 3, Len(k) - 1), k[Len(k)])
      [] k[1] = INSTANCE_PREFIX -> instance_key_str(k[2], SubSeq(k, 3, Len(k)))
      [] k[1] = METADATA_PREFIX -> metadata_key_str(k[2], SubSeq(k, 3, Len(k)))

CodeScans(ts, ids) ==
    {<<<<TYPE_PREFIX>>, TYPE_PREFIX>>}
    \cup {<<<<INSTANCE_PREFIX, t>>, instance_scan_str(t)>> : t \in ts}
    \cup {<<generate_handler_prefix(t, i), handler_prefix_str(t, i)>> : t \in ts, i \in ids}

\* over the keys K: distinct segment keys are distinct strings, and each scan
\* of the segment model finds a key exactly when SDL's string scan does
EncodingAgrees(K, ts, ids) ==
    /\ \A k1, k2 \in K : KeyStr(k1) = KeyStr(k2) => k1 = k2
    /\ \A p \in CodeScans(ts, ids), k \in K : IsPrefix(p[1], k) <=> IsPrefix(p[2], KeyStr(k))

\* type ids 1 and 11, ids of one or two segments over "a" and "ab" (one
\* segment's text extends the other's), handler h1 (no id segment)
SampleIIDs == {<<x>> : x \in {"a", "ab"}} \cup {<<x, y>> : x, y \in {"a", "ab"}}
SampleAgrees == EncodingAgrees(KeysOf({1, 11}, SampleIIDs, {"h1"}), {1, 11}, SampleIIDs)

(* The segment keys of this model stand for the strings data.py builds:    *)
(* on a sample where type ids and instance ids extend one another, and on   *)
(* every store the model reaches, distinct keys are distinct strings and   *)
(* find_keys finds the keys SDL.find_and_get finds for the same prefix     *)
(* string.  Only handler ids that are not id segments are covered: the      *)
(* instance-id aliasing of data_key_alias is a property of the strings too. *)
KeyEncodingFaithful == SampleAgrees /\ EncodingAgrees(DOMAIN sdl, Types, IIDs)

-----------------------------------------------------------------------------
(* Refinement: the registry as A1Registry sees it.  A type or an instance *)
(* is stored while its key is; a timer is armed while its _delete_after   *)
(* thread has not yet reached the deletion of the instance key.           *)

ArmedThreads(x) ==
    {j \in DOMAIN fin : fin[j].pc \in ARMED /\ <<fin[j].t, fin[j].i>> = x}

Registry == INSTANCE A1Registry WITH
    types <- {t \in Types : type_is_valid(t)},
    instances <- {x \in Types \X IIDs : InstanceExists(x[1], x[2])},
    armed <- [x \in Types \X IIDs |-> Cardinality(ArmedThreads(x))]

(* The multi-step SDL calls of the registry implement its atomic contract: *)
(* a type is deleted only while none of its instance keys exist, even one *)
(* written by a PUT in progress; an instance key disappears only in the   *)
(* step of a _delete_after thread armed for that instance since the last  *)
(* restart; a thread is started only for a stored instance; and every     *)
(* armed thread eventually reaches its purge (WF on the finalizers).      *)
RegistryRefined == Registry!RegSpec

=============================================================================
