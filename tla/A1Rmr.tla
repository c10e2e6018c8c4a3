------------------------------- MODULE A1Rmr --------------------------------
(***************************************************************************)
(* The RMR side of the A1 mediator (src/ric-plt-a1/a1/a1rmr.py) composed   *)
(* with the registry of A1Data: the loop thread that receives and          *)
(* dispatches messages, the _handle_sends threads it starts on every tick, *)
(* the bus, and the policy handlers (xApps) at the other end.              *)
(*                                                                         *)
(* The loop thread is the one that runs set_policy_instance_status, so     *)
(* the `rmr` record of A1Data is the loop thread between its two SDL       *)
(* calls and every other loop step waits for it.  A send of _send_msg or   *)
(* _rts_msg either puts the message on the bus or gives up after           *)
(* RETRY_TIMES (a drop).  RMR keeps one connection per endpoint, so the    *)
(* bus to one handler is FIFO.                                             *)
(***************************************************************************)
EXTENDS A1Data

CONSTANTS
    MaxSenders,  \* bound on _handle_sends threads alive at once
    MaxDrops,    \* bound on sends given up after RETRY_TIMES
    MaxQueries,  \* bound on PolicyQuery and EI messages sent by handlers
    Jobs,        \* "job" values a data-delivery POST may carry (None: absent)
    IntJobs,     \* the members of Jobs that int() accepts
    Coordinator, \* answers the EI coordinator may give an HTTP call
    EIClients    \* handlers that also use the EI bridge

VARIABLES
    loop,       \* the loop thread: alive, pc, batch being dispatched, query locals
    senders,    \* the _handle_sends threads still running, in start order
    toA1,       \* messages waiting in A1's RMR receive ring
    toHandler,  \* per handler: messages on its connection, in order
    enforced,   \* per handler: the instances it currently enforces
    rcvLog,     \* per handler: queued requests received, as [n, t, i] (history)
    ei_job_result_queue,   \* _RmrLoop.ei_job_result_queue: [job, n] items
    restarted,  \* whether the process has restarted (history)
    eiSent,     \* EI delivery messages sent or given up after retries (history)
    ackGen,     \* serial of the request answered by the response being recorded (history)
    statusGen,  \* per handler key: serial of the request its stored status answers (history)
    hacks, drops, queries  \* bounds

handlerVars == <<enforced, rcvLog, hacks, queries, ackGen, statusGen>>
eiVars == <<ei_job_result_queue, eiSent, restarted>>
rmrVars == <<loop, senders, toA1, toHandler, drops, handlerVars, eiVars>>
vars == <<dataVars, rmrVars>>

-----------------------------------------------------------------------------
(* messages.a1_to_handler *)

\* mutant: the type and instance ids passed in each other's place
a1_to_handler_swapped(operation, policy_type_id, policy_instance_id, payload) ==
    [operation |-> operation, policy_type_id |-> policy_instance_id,
     policy_instance_id |-> policy_type_id, payload |-> payload]

a1_to_handler(operation, policy_type_id, policy_instance_id, payload) ==
    [operation |-> operation, policy_type_id |-> policy_type_id,
     policy_instance_id |-> policy_instance_id, payload |-> payload]

(* A message on a handler's connection: the request, the serial n of the  *)
(* queued work item it carries (0 for a reply to a PolicyQuery), and g,     *)
(* the serial of the PUT whose body it carries or of a later request (the  *)
(* last one A1 accepted for a reply to a PolicyQuery).  n and g are history: *)
(* the message itself has neither.                                           *)
OnBus(req, n, g) == [req |-> req, n |-> n, g |-> g]

(* _send_msg / _rts_msg: the message reaches handler h, or every one of   *)
(* the RETRY_TIMES attempts fails and it is dropped.                       *)
Transmit(h, m) ==
    \/ toHandler' = [toHandler EXCEPT ![h] = Append(@, m)] /\ UNCHANGED drops
    \/ drops < MaxDrops /\ drops' = drops + 1 /\ UNCHANGED toHandler

(* messages.ei_to_handler: the payload of a data delivery; the POST body  *)
(* is named by the serial of the request that carried it.                 *)
ei_to_handler(ei_job_id, payload) == [ei_job_id |-> ei_job_id, payload |-> payload]

-----------------------------------------------------------------------------
LoopInit == [alive |-> TRUE, pc |-> "tick", batch |-> <<>>,
             qt |-> None, qh |-> None, qi |-> None, qlist |-> {}]

RmrInit ==
    /\ Init
    /\ loop = LoopInit
    /\ senders = <<>>
    /\ toA1 = <<>>
    /\ toHandler = [h \in Handlers |-> <<>>]
    /\ enforced = [h \in Handlers |-> {}]
    /\ rcvLog = [h \in Handlers |-> <<>>]
    /\ ackGen = 0 /\ statusGen = [x \in Types \X IIDs \X Handlers |-> 0]
    /\ ei_job_result_queue = <<>> /\ eiSent = {} /\ restarted = FALSE
    /\ hacks = 0 /\ drops = 0 /\ queries = 0

(* The loop thread runs, and is not inside set_policy_instance_status. *)
LoopFree == loop.alive /\ rmr.pc = "idle"

\* mutant: a drain thread is started only on a tick that received messages
LoopTickOnMail ==
    /\ LoopFree /\ loop.pc = "tick"
    /\ Len(senders) < MaxSenders
    /\ senders' = IF toA1 # <<>> THEN Append(senders, [pc |-> "inst_check", item |-> None])
                                 ELSE senders
    /\ loop' = [loop EXCEPT !.pc = "dispatch", !.batch = toA1]
    /\ toA1' = <<>>
    /\ UNCHANGED <<dataVars, toHandler, drops, handlerVars, eiVars>>

(* loop: Thread(target=self._handle_sends).start(), then self.rcv_func()  *)
(* takes every message waiting in the ring.                               *)
LoopTick ==
    /\ LoopFree /\ loop.pc = "tick"
    /\ Len(senders) < MaxSenders
    /\ senders' = Append(senders, [pc |-> "inst_check", item |-> None])
    /\ loop' = [loop EXCEPT !.pc = "dispatch", !.batch = toA1]
    /\ toA1' = <<>>
    /\ UNCHANGED <<dataVars, toHandler, drops, handlerVars, eiVars>>

(* The batch is done: self.last_ran = time.time(); time.sleep(1). *)
LoopEndTick ==
    /\ LoopFree /\ loop.pc = "dispatch" /\ loop.batch = <<>>
    /\ loop' = [loop EXCEPT !.pc = "tick"]
    /\ UNCHANGED <<dataVars, senders, toA1, toHandler, drops, handlerVars, eiVars>>

(* The next message of the batch has type mtype.  rmr_rcvall_msgs_raw     *)
(* returns only messages whose summary has one of the four types A1 asks   *)
(* for, so the read of msg[rmr.RMR_MS_MSG_TYPE] never fails.               *)
Dispatching(mtype) ==
    LoopFree /\ loop.pc = "dispatch" /\ loop.batch # <<>>
    /\ Head(loop.batch).mtype = mtype

(* A1_POLICY_RESPONSE: set_policy_instance_status; PolicyTypeNotFound and *)
(* PolicyInstanceNotFound are caught and the response is dropped.          *)
LoopPolicyResponse ==
    /\ Dispatching("A1_POLICY_RESPONSE")
    /\ LET m == Head(loop.batch) IN
       set_policy_instance_status(m.t, m.i, m.h, m.s)
       /\ ackGen' = IF rmr'.pc = "s_set" THEN m.g ELSE 0
    /\ loop' = [loop EXCEPT !.batch = Tail(loop.batch)]
    /\ UNCHANGED <<senders, toA1, toHandler, drops, enforced, rcvLog, hacks, queries, statusGen, eiVars>>

(* The SDL.set of set_policy_instance_status. *)
StatusRecorded ==
    /\ SetStatusWrite
    /\ statusGen' = [statusGen EXCEPT ![<<rmr.t, rmr.i, rmr.h>>] = ackGen]
    /\ ackGen' = 0
    /\ UNCHANGED <<loop, senders, toA1, toHandler, drops, enforced, rcvLog, hacks, queries, eiVars>>

(* The status write raises a store error: the loop catches only the       *)
(* registry errors and malformed payloads ("TODO: in the future we may also *)
(* have to catch SDL errors"), so the exception ends the loop thread.       *)
LoopStoreError ==
    /\ StatusStoreError
    /\ loop' = [loop EXCEPT !.alive = FALSE]
    /\ ackGen' = 0
    /\ UNCHANGED <<senders, toA1, toHandler, drops, enforced, rcvLog, hacks, queries, statusGen, eiVars>>

(* A1_POLICY_QUERY: get_instance_list (PolicyTypeNotFound is caught). *)
LoopPolicyQuery ==
    /\ Dispatching("A1_POLICY_QUERY")
    /\ LET m == Head(loop.batch) IN
       IF type_is_valid(m.t)
          THEN loop' = [loop EXCEPT !.pc = "q_next", !.qt = m.t, !.qh = m.h,
                                         !.qlist = get_instance_list(m.t)]
          ELSE loop' = [loop EXCEPT !.batch = Tail(loop.batch)]
    /\ UNCHANGED <<dataVars, senders, toA1, toHandler, drops, handlerVars, eiVars>>

(* for pii in instance_list: get_policy_instance first runs               *)
(* _instance_is_valid.  PolicyTypeNotFound ends the query (caught);        *)
(* PolicyInstanceNotFound is not caught by the loop: the thread dies.      *)
LoopQueryValidate ==
    /\ LoopFree /\ loop.pc = "q_next" /\ loop.qlist # {}
    /\ \E i \in loop.qlist :
         CASE ~type_is_valid(loop.qt) ->
                loop' = [loop EXCEPT !.pc = "dispatch", !.batch = Tail(loop.batch)]
           [] ~InstanceExists(loop.qt, i) ->
                loop' = [loop EXCEPT !.alive = FALSE]
           [] OTHER ->
                loop' = [loop EXCEPT !.pc = "q_get", !.qi = i, !.qlist = loop.qlist \ {i}]
    /\ UNCHANGED <<dataVars, senders, toA1, toHandler, drops, handlerVars, eiVars>>

(* ... then SDL.get of the instance (None if it is gone by now), and the  *)
(* CREATE is returned to the querying handler with _rts_msg.              *)
LoopQueryGet ==
    /\ LoopFree /\ loop.pc = "q_get"
    /\ LET k == generate_instance_key(loop.qt, loop.qi)
           body == IF k \in DOMAIN sdl THEN sdl[k] ELSE None
       IN Transmit(loop.qh, OnBus(a1_to_handler("CREATE", loop.qt, loop.qi, body), 0,
                                  lastMut[<<loop.qt, loop.qi>>].put))
    /\ loop' = [loop EXCEPT !.pc = "q_next", !.qi = None]
    /\ UNCHANGED <<dataVars, senders, toA1, handlerVars, eiVars>>

(* A coordinator call has no timeout: a coordinator that never answers    *)
(* blocks the loop thread in the call for good, alive but no longer ticking *)
Hang(l) == [l EXCEPT !.pc = "hung"]

(* A1_EI_QUERY_ALL: requests.get(ESC_EI_TYPE_PATH) with no timeout and no *)
(* try.  An unreachable coordinator raises ConnectionError and resp.json()  *)
(* of a body that is not JSON raises JSONDecodeError: either ends the loop   *)
(* thread.  Otherwise resp.content is returned with _rts_msg.                *)
LoopEIQueryAll ==
    /\ Dispatching("A1_EI_QUERY_ALL")
    /\ \E answer \in Coordinator :
         loop' = CASE answer \in {"unreachable", "not_json"} -> [loop EXCEPT !.alive = FALSE]
                   [] answer = "hang" -> Hang(loop)
                   [] OTHER -> [loop EXCEPT !.batch = Tail(loop.batch)]
    /\ UNCHANGED <<dataVars, senders, toA1, toHandler, drops, handlerVars, eiVars>>

(* A1_EI_CREATE_JOB: payload["job-id"] (KeyError when absent) and         *)
(* requests.put(ECS_EI_JOB_PATH + uuidStr), outside any try: a missing job *)
(* id or an unreachable coordinator ends the loop thread.  A 200/201 is     *)
(* answered with _rts_msg, any other status only logged.                    *)
LoopEICreateJob ==
    /\ Dispatching("A1_EI_CREATE_JOB")
    /\ \E answer \in Coordinator :
         loop' = CASE Head(loop.batch).job = None \/ answer = "unreachable" ->
                        [loop EXCEPT !.alive = FALSE]
                   [] answer = "hang" -> Hang(loop)
                   [] OTHER -> [loop EXCEPT !.batch = Tail(loop.batch)]
    /\ UNCHANGED <<dataVars, senders, toA1, toHandler, drops, handlerVars, eiVars>>

LoopQueryDone ==
    /\ LoopFree /\ loop.pc = "q_next" /\ loop.qlist = {}
    /\ loop' = [loop EXCEPT !.pc = "dispatch", !.batch = Tail(loop.batch),
                            !.qt = None, !.qh = None]
    /\ UNCHANGED <<dataVars, senders, toA1, toHandler, drops, handlerVars, eiVars>>

-----------------------------------------------------------------------------
(* _handle_sends, one thread per tick *)

\* while not self.instance_send_queue.empty(); then on to the EI queue
SendCheck(j) ==
    /\ senders[j].pc = "inst_check"
    /\ senders' = [senders EXCEPT ![j].pc = IF instance_send_queue # <<>>
                                            THEN "inst_get" ELSE "ei_check"]
    /\ UNCHANGED <<dataVars, loop, toA1, toHandler, drops, handlerVars, eiVars>>

\* get(block=False) raises queue.Empty when another thread took the last
\* item since the check: the exception ends the thread
SendGet(j) ==
    /\ senders[j].pc = "inst_get"
    /\ IF instance_send_queue = <<>>
          THEN senders' = RemoveAt(senders, j) /\ UNCHANGED instance_send_queue
          ELSE /\ senders' = [senders EXCEPT ![j] = [pc |-> "inst_send",
                                                     item |-> Head(instance_send_queue)]]
               /\ instance_send_queue' = Tail(instance_send_queue)
    /\ UNCHANGED <<sdl, hw, fin, rmr, resp, lastMut, ops, acks, crashes, sdlErrors>>
    /\ UNCHANGED <<loop, toA1, toHandler, drops, handlerVars, eiVars>>

\* a1_to_handler(*work_item), then _send_msg to the route of the type
SendPolicyRequest(j) ==
    /\ senders[j].pc = "inst_send"
    /\ LET w == senders[j].item IN
       \E h \in Handlers : Transmit(h, OnBus(a1_to_handler(w.op, w.t, w.i, w.b), w.n, w.n))
    /\ senders' = [senders EXCEPT ![j] = [pc |-> "inst_check", item |-> None]]
    /\ UNCHANGED <<dataVars, loop, toA1, handlerVars, eiVars>>

\* while not self.ei_job_result_queue.empty(); an empty queue ends the thread
SendEICheck(j) ==
    /\ senders[j].pc = "ei_check"
    /\ senders' = IF ei_job_result_queue # <<>>
                     THEN [senders EXCEPT ![j].pc = "ei_get"]
                     ELSE RemoveAt(senders, j)
    /\ UNCHANGED <<dataVars, loop, toA1, toHandler, drops, handlerVars, eiVars>>

\* get(block=False) (queue.Empty ends the thread), ei_to_handler, then
\* int(work_item[0]): a job id int() rejects raises ValueError (TypeError for
\* None) and ends the thread, with the item already taken off the queue
SendEIGet(j) ==
    /\ senders[j].pc = "ei_get"
    /\ IF ei_job_result_queue = <<>>
          THEN senders' = RemoveAt(senders, j) /\ UNCHANGED ei_job_result_queue
          ELSE /\ ei_job_result_queue' = Tail(ei_job_result_queue)
               /\ senders' = IF Head(ei_job_result_queue).job \in IntJobs
                                THEN [senders EXCEPT ![j] = [pc |-> "ei_send",
                                        item |-> ei_to_handler(Head(ei_job_result_queue).job,
                                                               Head(ei_job_result_queue).n)]]
                                ELSE RemoveAt(senders, j)
    /\ UNCHANGED <<dataVars, loop, toA1, toHandler, drops, handlerVars, eiSent, restarted>>

\* _send_msg(payload, A1_EI_DATA_DELIVERY, ei_job_id): sent, or given up
SendEIDelivery(j) ==
    /\ senders[j].pc = "ei_send"
    /\ eiSent' = eiSent \cup {senders[j].item}
    /\ senders' = [senders EXCEPT ![j] = [pc |-> "ei_check", item |-> None]]
    /\ UNCHANGED <<dataVars, loop, toA1, toHandler, drops, handlerVars, ei_job_result_queue, restarted>>

-----------------------------------------------------------------------------
(* The policy handlers.  They are xApps outside this repository: a handler *)
(* applies each request in order and answers with a PolicyResponse (OK, or *)
(* DELETED for a DELETE), and may at any time send a PolicyQuery.          *)

HandlerReceive(h) ==
    /\ toHandler[h] # <<>>
    /\ LET m == Head(toHandler[h])
           key == <<m.req.policy_type_id, m.req.policy_instance_id>>
           del == m.req.operation = "DELETE"
       IN /\ enforced' = [enforced EXCEPT ![h] = IF del THEN @ \ {key} ELSE @ \cup {key}]
          /\ rcvLog' = IF m.n > 0
                          THEN [rcvLog EXCEPT ![h] = Append(@, [n |-> m.n, t |-> key[1], i |-> key[2]])]
                          ELSE rcvLog
          /\ IF hacks < MaxAcks
                THEN /\ toA1' = Append(toA1, [mtype |-> "A1_POLICY_RESPONSE", t |-> key[1],
                                              i |-> key[2], h |-> h, g |-> m.g,
                                              s |-> IF del THEN "DELETED" ELSE "OK"])
                     /\ hacks' = hacks + 1
                ELSE UNCHANGED <<toA1, hacks>>
    /\ toHandler' = [toHandler EXCEPT ![h] = Tail(@)]
    /\ UNCHANGED <<dataVars, loop, senders, drops, queries, ackGen, statusGen, eiVars>>

HandlerQuery(h, t) ==
    /\ queries < MaxQueries /\ queries' = queries + 1
    /\ toA1' = Append(toA1, [mtype |-> "A1_POLICY_QUERY", t |-> t, h |-> h])
    /\ UNCHANGED <<dataVars, loop, senders, toHandler, drops, enforced, rcvLog, hacks, ackGen, statusGen, eiVars>>

HandlerEIQueryAll(h) ==
    /\ h \in EIClients
    /\ queries < MaxQueries /\ queries' = queries + 1
    /\ toA1' = Append(toA1, [mtype |-> "A1_EI_QUERY_ALL", h |-> h])
    /\ UNCHANGED <<dataVars, loop, senders, toHandler, drops, enforced, rcvLog, hacks, ackGen, statusGen, eiVars>>

\* job is None when the payload carries no "job-id"
HandlerEICreateJob(h, job) ==
    /\ h \in EIClients
    /\ queries < MaxQueries /\ queries' = queries + 1
    /\ toA1' = Append(toA1, [mtype |-> "A1_EI_CREATE_JOB", h |-> h, job |-> job])
    /\ UNCHANGED <<dataVars, loop, senders, toHandler, drops, enforced, rcvLog, hacks, ackGen, statusGen, eiVars>>

(* a1rmr.queue_ei_job_result: ei_job_result_queue.put(item) *)
queue_ei_job_result(item) == ei_job_result_queue' = Append(ei_job_result_queue, item)

(* controller.data_delivery: the POST body's "job" (None when absent) and  *)
(* the body are put on ei_job_result_queue, and the answer is 200.          *)
data_delivery(job) ==
    /\ StartRequest
    /\ queue_ei_job_result([job |-> job, n |-> ops + 1])
    /\ Reply("POST delivery", None, None, 200)
    /\ UNCHANGED <<sdl, hw, fin, rmr, instance_send_queue, lastMut, acks, crashes, sdlErrors>>
    /\ UNCHANGED <<loop, senders, toA1, toHandler, drops, handlerVars, eiSent, restarted>>

(* A restart of A1 also loses the loop, its drain threads and the RMR ring; *)
(* run.py starts a new loop thread.                                          *)
RmrRestart ==
    /\ Restart
    /\ loop' = LoopInit /\ senders' = <<>> /\ toA1' = <<>>
    /\ ei_job_result_queue' = <<>> /\ restarted' = TRUE
    /\ UNCHANGED <<toHandler, drops, handlerVars, eiSent>>

RmrCrash == crashes < MaxCrashes /\ crashes' = crashes + 1 /\ RmrRestart

(* The liveness probe (get_healthcheck, healthcheck_rmr_thread) fails once *)
(* the loop thread is dead, or alive but has not stamped last_ran for 30 s: *)
(* every tick that ends takes far less, so only a thread hung in a call is  *)
(* stale.  Kubernetes then restarts the process.                           *)
LoopHealthy == loop.alive /\ loop.pc # "hung"

\* mutant: the probe checks only is_alive, not the age of last_ran
HealthRestartDeadOnly == ~loop.alive /\ RmrRestart /\ UNCHANGED crashes

HealthRestart == ~LoopHealthy /\ RmrRestart /\ UNCHANGED crashes

-----------------------------------------------------------------------------
DataStep ==
    \/ (HttpWrite \/ HttpProgress \/ Finalizer \/ StoreError) /\ UNCHANGED rmrVars
    \/ \E job \in Jobs : data_delivery(job)

LoopStep ==
    \/ LoopTick \/ LoopEndTick \/ LoopPolicyResponse \/ LoopPolicyQuery
    \/ LoopQueryValidate \/ LoopQueryGet \/ LoopQueryDone
    \/ LoopEIQueryAll \/ LoopEICreateJob
    \/ StatusRecorded

SenderStep(j) ==
    /\ j \in DOMAIN senders
    /\ \/ SendCheck(j) \/ SendGet(j) \/ SendPolicyRequest(j)
       \/ SendEICheck(j) \/ SendEIGet(j) \/ SendEIDelivery(j)

HandlerStep ==
    \E h \in Handlers :
        \/ HandlerReceive(h)
        \/ \E t \in Types : HandlerQuery(h, t)
        \/ HandlerEIQueryAll(h)
        \/ \E job \in Jobs : HandlerEICreateJob(h, job)

RmrNext ==
    \/ DataStep \/ LoopStep \/ \E j \in 1..MaxSenders : SenderStep(j)
    \/ HandlerStep \/ RmrCrash \/ HealthRestart \/ LoopStoreError

(* Running threads make progress: the request in progress, the purge     *)
(* threads, the loop thread and every drain thread; a dead loop thread is  *)
(* eventually noticed by the liveness probe.  Clients and handlers need    *)
(* not send anything.                                                      *)
RmrFairness ==
    /\ WF_vars(HttpProgress /\ UNCHANGED rmrVars)
    /\ WF_vars(Finalizer /\ UNCHANGED rmrVars)
    /\ WF_vars(LoopStep)
    /\ WF_vars(HealthRestart)
    /\ \A j \in 1..MaxSenders : WF_vars(SenderStep(j))

RmrSpec == RmrInit /\ [][RmrNext]_vars /\ RmrFairness

-----------------------------------------------------------------------------
(* Properties *)

PolicyRequests ==
    [operation: {"CREATE", "UPDATE", "DELETE"}, policy_type_id: Types,
     policy_instance_id: IIDs, payload: Bodies \cup {"", None}]

RmrTypeOK ==
    /\ TypeOK
    /\ loop.alive \in BOOLEAN
    /\ loop.pc \in {"tick", "dispatch", "q_next", "q_get", "hung"}
    /\ Len(senders) <= MaxSenders
    /\ \A j \in DOMAIN senders : senders[j].pc \in {"inst_check", "inst_get", "inst_send",
                                                        "ei_check", "ei_get", "ei_send"}
    /\ \A h \in Handlers : \A x \in DOMAIN toHandler[h] : toHandler[h][x].req \in PolicyRequests
    /\ enforced \in [Handlers -> SUBSET (Types \X IIDs)]
    /\ hacks \in 0..MaxAcks /\ drops \in 0..MaxDrops /\ queries \in 0..MaxQueries

(* The loop thread survives every message it receives: a1rmr.loop catches  *)
(* the registry errors a PolicyResponse or PolicyQuery may raise, so the   *)
(* healthcheck never sees a dead thread.                                    *)
LoopAlive == loop.alive

(* Requests for one instance reach a handler in the order A1 accepted them *)
(* (202): instance_send_queue is FIFO, and each tick's _handle_sends thread *)
(* drains it; a DELETE must not overtake the PUT it follows.               *)
RequestOrderPreserved ==
    \A h \in Handlers : \A x, y \in DOMAIN rcvLog[h] :
        x < y /\ rcvLog[h][x].t = rcvLog[h][y].t /\ rcvLog[h][x].i = rcvLog[h][y].i
            => rcvLog[h][x].n < rcvLog[h][y].n

(* Every work item queued by a PUT or DELETE is eventually taken off       *)
(* instance_send_queue by a drain thread (or lost with the process): the    *)
(* loop starts a _handle_sends thread on every tick, mail or no mail.  The  *)
(* queue is FIFO, so it is empty again only once every item that was in it  *)
(* has left.                                                                 *)
QueueEventuallyDrained ==
    instance_send_queue # <<>> ~> instance_send_queue = <<>>

EIQueued(k) == \E x \in DOMAIN ei_job_result_queue : ei_job_result_queue[x].n = k

(* Every data delivery the façade accepted (200) is eventually sent to its *)
(* consumer, or given up after RETRY_TIMES: _handle_sends drains            *)
(* ei_job_result_queue on every tick, with subid = int(job id).             *)
EIDeliveryEventuallySent ==
    \A k \in 1..MaxOps : EIQueued(k) ~> \E m \in eiSent : m.payload = k

(* A DELETE of instance (t, i) that A1 accepted, or is still to reach       *)
(* handler h: in instance_send_queue, held by a drain thread, or on h's    *)
(* connection.                                                              *)
DeleteUndelivered(h, t, i) ==
    LET isDel(w) == w.op = "DELETE" /\ w.t = t /\ w.i = i IN
    \/ \E x \in DOMAIN instance_send_queue : isDel(instance_send_queue[x])
    \/ \E j \in DOMAIN senders : senders[j].pc = "inst_send" /\ isDel(senders[j].item)
    \/ \E x \in DOMAIN toHandler[h] :
         LET r == toHandler[h][x].req IN
         r.operation = "DELETE" /\ r.policy_type_id = t /\ r.policy_instance_id = i

(* Once the last request A1 accepted for an instance is a DELETE, a handler *)
(* enforces it only until that DELETE reaches it: nothing A1 sends later    *)
(* (a queued request or a PolicyQuery replay) re-creates it at the handler. *)
(* A restart (queues lost) or a send given up after RETRY_TIMES may lose    *)
(* the DELETE itself; the bus is best-effort by design, so the property is  *)
(* stated for runs without either.                                          *)
NoEnforcementAfterDelete ==
    ~restarted /\ drops = 0 =>
    \A h \in Handlers, t \in Types, i \in IIDs :
        <<t, i>> \in enforced[h] /\ lastMut[<<t, i>>].op = "delete" => DeleteUndelivered(h, t, i)

(* Statuses belong to the current generation of an instance (spec,       *)
(* Lifecycles): between transactions, a handler status stored for an      *)
(* instance answers a request A1 sent no earlier than the last PUT it      *)
(* accepted (202) for that instance.  store_policy_instance clears the     *)
(* statuses on an UPDATE, but a PolicyResponse carries no version, so an  *)
(* answer to the previous body still on its way is recorded afterwards.   *)
StatusOfCurrentGeneration ==
    Quiescent =>
        \A t \in Types, i \in IIDs, h \in Handlers :
            generate_handler_key(t, i, h) \in DOMAIN sdl =>
                statusGen[<<t, i, h>>] >= lastMut[<<t, i>>].put

=============================================================================
