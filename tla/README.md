# TLA+ models of the A1 policy mediator

This directory holds TLA+ models of the A1 mediator in `src/`. They cover the
policy registry over SDL (`src/a1/data.py`), the HTTP handlers
(`src/a1/controller.py`), the instance-delete purge threads, and the RMR bus
loop (`src/ric-plt-a1/a1/a1rmr.py`), together with an abstract specification
of the registry that the detailed model is shown to implement. It also lists
what the TLC runs show about the code.

| Module | Models |
|---|---|
| `A1Registry.tla` | the registry's contract: atomic type and instance operations and armed delete timers (section 3a) |
| `A1Data.tla` | the SDL store, the registry, the facade's policy handlers, the purge threads, the status writes; refines A1Registry (section 3) |
| `A1Rmr.tla` | EXTENDS A1Data with the rmr loop, the drain threads, the bus, the handlers, the EI bridge and restarts (section 4) |
| `MC_A1Data.tla`, `MC_A1Rmr.tla` | the constants TLC runs them with (section 5) |

## 1. Inventory of the system

| Component | Source | State it keeps | Operations |
|---|---|---|---|
| Store adapter | `data.py` 28-80 | SDL namespace `A1m_ns`: keys `a1.policy_type.<t>`, `a1.policy_instance.<t>.<i>`, `a1.policy_inst_metadata.<t>.<i>`, `a1.policy_handler.<t>.<i>.<h>` | `SDL.get/set/delete/find_and_get` |
| Policy registry | `data.py` 83-291 | only the SDL keys above | `store_policy_type`, `delete_policy_type`, `store_policy_instance`, `delete_policy_instance`, `set_policy_instance_status`, `get_policy_instance_status` and the reads |
| Delete finalizer | `data.py` 138-151, 254-264 | one sleeping thread per accepted instance DELETE | validate, sleep TTL, clear statuses, delete instance, delete metadata |
| Request facade | `controller.py` | none (counters only) | one handler per HTTP verb; `_try_func_return` maps exceptions to 400/404/503; PUT/DELETE instance enqueue a send; `data_delivery` enqueues an EI result |
| Bus loop | `a1rmr.py` 59-282 | `instance_send_queue`, `ei_job_result_queue`, `last_ran`, `keep_going`, the loop thread | every tick: start a `_handle_sends` thread, receive a batch, dispatch PolicyResponse / PolicyQuery / EI query / EI create job, free buffers, stamp `last_ran`, sleep 1 s |
| Send workers | `a1rmr.py` 124-180 | the work item being sent | drain both queues; `_send_msg` / `_rts_msg` retry up to `RETRY_TIMES` while RMR says RETRY, then drop |
| EI bridge | `a1rmr.py` 237-272 | none | HTTP GET/PUT to the EI coordinator, reply by RTS |
| Message codec | `messages.py` | none | `a1_to_handler`, `ei_to_handler` |
| Health, metrics | `controller.py` 71-85, `a1rmr.py` 330-336, `__init__.py` | none | loop thread alive and ticked within 30 s, SDL healthy |
| Entrypoint, packaging | `run.py`, `setup.py`, `docs/conf.py` | none | start the loop, then the web server |

How they interact:

- The facade calls the registry synchronously. PUT and DELETE of an instance
  then push a work item onto `instance_send_queue`, a shared in-memory queue.
- The registry's `delete_policy_instance` starts a `_delete_after` thread. The
  thread shares SDL with everything else.
- The rmr loop thread calls `set_policy_instance_status` for every
  PolicyResponse. For a PolicyQuery it reads the registry and answers with
  `rts`.
- Each tick the loop starts a new `_handle_sends` thread, which drains the
  queues onto the bus. Earlier drain threads may still be running.
- Handlers (xApps, outside this repository) receive PolicyRequests and send
  PolicyResponses and PolicyQueries. RMR guarantees nothing about delivery.

Concurrency is what makes this code hard. HTTP requests are served one at a
time: `run.py` uses gevent's `WSGIServer` without monkey patching, so a
handler never yields. But requests interleave, one SDL call at a time, with
three kinds of real OS threads:

- the rmr loop;
- any number of drain threads;
- any number of purge threads.

No SDL call sequence is atomic. On a restart, threads and queues are lost and
SDL keeps its keys.

Properties that make each component correct (spec §3, §8):

- Registry: an instance has a type (inv. 1); metadata exists iff the instance
  does (inv. 2); statuses exist only for a live instance (inv. 3) and
  belong to its current generation (Lifecycles); only a
  DELETE leads to a purge; the status of an instance reflects its own
  handlers only.
- Facade: every failure maps to 400/404/503; no request ends in a 500.
- Finalizer: every accepted DELETE eventually purges the instance.
- Bus loop: the loop thread survives every input; every queued request is
  eventually sent (or dropped after retries); requests for one instance reach
  a handler in the order they were accepted; a PolicyQuery answers with every
  live instance.
- End to end: with a reliable bus, once requests stop, the handlers' view
  equals the registry's live instances.

## 2. Plan

Modules, in the order they are built (the most important behaviour first):

1. **A1Data** (done): the SDL store, the registry, the facade's policy
   handlers, the purge threads, and the status writes of the rmr thread.
   The writes are driven by arbitrary responses here.
2. **A1Rmr** (done): EXTENDS A1Data with the loop thread, the drain
   threads, the bus, the handlers, the EI bridge, `data_delivery` and the
   restart after a dead loop (section 4), and the
   generation of stored statuses (`StatusOfCurrentGeneration`). The eventual
   agreement of a handler's view with the registry after a PolicyQuery
   replay is not stated. It fails on the paths two violation runs already
   show: the reordering of two drain threads (`rmr_reorder`) and the replay
   of tombstoned instances (`rmr_replay_resurrects`).
3. **A1Registry** (done, section 3a): the registry as atomic operations
   with armed delete timers; A1Data implements it (`RegistryRefined`). A
   lifecycle version with `absent / live / tombstoned` and a purge allowed
   only from `tombstoned` is what the spec describes, but the code violates
   it in the ways the violation runs already show (the purge of a revived
   instance, a PUT between the two purge deletes), so the checked contract
   is the one the code keeps; `PutSurvives` states the rest.
4. Key encoding (done, in A1Data): the strings `str.format` builds for each
   key (`*_str`, with `iid_str` folding the segments with ".") are checked
   against the segment-sequence keys the model uses (`KeyEncodingFaithful`).
5. Health (done): `healthcheck_rmr_thread` is the predicate `LoopHealthy`
   of the loop state. A coordinator that never answers hangs the loop thread
   (its tick never ends), the probe finds `last_ran` stale, and the pod is
   restarted. `rmr_drain` checks that the queue still empties; a probe that
   tests only `is_alive` is a mutant it catches.
6. Store errors (done): an SDL call of a request, a purge thread or the
   status write may raise (`MaxSdlErrors`).
7. Errors and codec (done): every error answer names its exception and
   goes through `_try_func_return`'s mapping (`HttpCode`); the queue `put`s
   and both message builders of `messages.py` are operators of their own.

## 3. Module A1Data

State (all in `A1Data.tla`):

- `sdl`: present key -> value.
  - A key is the sequence of its dot-separated segments. An instance id is a
    sequence of segments, so `"a.b"` is `<<"a","b">>`.
  - `find_and_get(prefix)` (prefix ending in ".") becomes `IsPrefix` on
    sequences. That is exactly what the string prefix test does on dot-joined
    keys, as long as no handler id is also an id segment.
    `KeyEncodingFaithful` checks this against the strings themselves. The
    check runs on a sample (type ids 1 and 11; ids of one or two segments
    over "a" and "ab", so one segment's text extends another's) and on every
    store the model reaches. It covers both exact keys and the three prefix
    scans the code makes.
  - Type bodies and instance bodies are model values. Metadata keeps only
    `has_been_deleted`; timestamps are never compared by the code.
- `hw`: the HTTP worker. It holds the request in progress (`pc`) and its
  locals: the type, the instance, the CREATE/UPDATE flag, the handler keys
  found and the metadata read.
- `fin`: one record per `_delete_after` thread, with its `pc`.
- `rmr`: the rmr thread between validating a PolicyResponse and writing it.
- `instance_send_queue`: the queue the facade appends to.
- `resp`: the last HTTP response. `lastMut` records, per instance, whether
  the last acknowledged request was a PUT or a DELETE, and the serial of the
  last acknowledged PUT (its generation); it is used only by properties.
- `ops`, `acks`, `crashes`: named bounds.

Actions. Each is one SDL call, or a run of calls no other thread can
disturb.

- Type requests (`store_policy_type`, `delete_policy_type`) are one step
  each. Only the HTTP worker writes type keys, and nothing creates instances
  concurrently.
- A PUT of an instance is five steps:
  1. `PutInstanceBegin`: type check, schema check, read the instance;
  2. `PutInstanceFindHandlers`: find the handler keys (UPDATE only);
  3. `PutInstanceClearHandlers`: delete them (UPDATE only);
  4. `PutInstanceSetInstance`: write the instance;
  5. `PutInstanceSetMetadata`: write the metadata, enqueue, answer 202.
- A DELETE of an instance is four steps:
  1. validate the instance;
  2. read the metadata (missing: 500);
  3. write the tombstone;
  4. `_get_statuses`, start the thread, enqueue, answer 202.
- A status GET is three steps: validate, read the metadata, read the statuses.
- The type list, GET of a type and the instance list of a type are one step
  each (`get_type_list`, `get_policy_type`, `get_all_instances_for_type`):
  only the HTTP worker writes type keys, and the instance list is one
  `find_and_get`.
- A GET of an instance is two steps: `GetInstanceBegin` validates and
  `GetInstanceRead` reads the instance key. A missing key reads as None,
  which is answered 200 with a null body.
- Error answers name the exception the code raises at that point
  (`Raise(op, t, i, exc)`, for example `instance_error(t, i)` for what
  `_instance_is_valid` raises). `HttpCode` is the mapping in
  `_try_func_return`:
  - the other `A1Error` subclasses and `ValidationError` give 400;
  - `PolicyTypeNotFound` and `PolicyInstanceNotFound` give 404;
  - the ricsdl errors give 503;
  - anything else (the `TypeError` of a missing metadata read) gives 500.
- `queue_instance_send` and `queue_ei_job_result` are the `put` of the two
  in-memory queues. The facade calls them after the store writes.
- `instance_status` is the "IN EFFECT" rule of `get_policy_instance_status`.
- `HttpWrite` and `HttpRead` group the requests that write and those that
  only answer. A1Rmr uses only `HttpWrite`: none of its properties looks at
  a response.
- A purge thread is six steps: `FinValidate`, `FinWake`, `FinFindHandlers`,
  `FinClearHandlers`, `FinDeleteInstance`, `FinDeleteMetadata`.
- `set_policy_instance_status` validates. `SetStatusWrite` writes.
- `Crash` is a process restart: threads, queue and the request in progress
  are lost.
- Store errors (`SdlRaises`, bounded by `MaxSdlErrors`), each at the SDL
  call where it bites:
  - `HttpStoreError`: the next SDL call of the request in progress raises.
    `_try_func_return` answers 503, and what earlier calls wrote stays. A
    PUT may leave an instance without metadata. A DELETE may leave a
    tombstone and start no purge thread.
  - `FinStoreError`: a purge thread's call raises, and the thread ends.
  - `StatusStoreError`: the status write raises. In A1Rmr this is
    `LoopStoreError`, and the loop thread dies (`a1rmr.py:202` has a TODO to
    catch SDL errors).

  A store error on the first SDL call of a request changes nothing but the
  answer (503), so it is not a separate action.

Repeated `_instance_is_valid` calls inside one request are folded into one.
No thread creates instances, so a later check can only fail where a later
step of the model fails too.

The TTLs only set the length of the sleep. The model lets the sleep end at
any moment, so both TTL branches behave alike.

Fairness: weak fairness on the steps of a request already in progress, on
the purge threads, and on the status write. These are running threads, and
the sleep is finite. There is no fairness on new requests or new responses:
clients and handlers may stay silent.

Refinement. `Registry == INSTANCE A1Registry WITH ...` maps the store to
the abstract state: a type is in `types` while its key is in `sdl`, an
instance is in `instances` while its instance key is, and `armed[x]` is the
number of `_delete_after` threads for x that have not yet reached the
deletion of the instance key (`ARMED`). `RegistryRefined == Registry!RegSpec`
is checked as a PROPERTY: every step of A1Data is a step of A1Registry or
leaves the mapped state unchanged, and the abstract fairness holds (every
armed timer fires unless a restart forgets it or a store error ends it).

`DeleteCompletes` is stated for behaviours without a fault (`NoFault`: no
restart and no store error when the instance is tombstoned). The spec
accepts that a restart or an error loses the purge thread, even between the
tombstone write and `Thread.start`.

## 3a. Module A1Registry

`A1Registry.tla` is the contract of `data.py` without key families or
intermediate steps. Its state is `types`, `instances` (pairs of type and
instance id) and `armed` (per instance, the number of delete timers armed
and not yet fired). Its actions:

- `CreateType`, and `DeleteType` only while the type has no instance;
- `CreateInstance` under an existing type;
- `ArmTimer` for a stored instance (an accepted DELETE);
- `Purge` (a timer fires and removes the instance) and `Disarm` (a timer
  fires and finds none);
- `TimerFails`: a timer's thread ends on a store error without purging;
- `RegRestart`, which forgets every armed timer.

`RegSpec` has weak fairness on each instance's timers firing. A timer purges
whatever instance it finds: the contract has no generations, which is what
lets the code implement it.

## 4. Module A1Rmr

`A1Rmr.tla` EXTENDS A1Data and adds (all from `a1rmr.py` unless noted):

- `loop`: the loop thread. `alive` becomes FALSE when an exception escapes
  `loop()`. `pc` is one of `tick`, `dispatch` (working through `batch`, the
  messages one `rcv_func()` returned), `q_next` and `q_get` (inside a
  PolicyQuery, with the type, the querying handler and the ids still to
  answer). The rmr record of A1Data is this thread between the two SDL calls
  of `set_policy_instance_status`; every other loop step waits for it.
- `senders`: the `_handle_sends` threads still running. Each has a `pc` for
  the step it is at: check, get or send, first on `instance_send_queue`, then
  on `ei_job_result_queue`.
- `toA1`: the RMR receive ring.
- `toHandler[h]`: the connection to handler h, FIFO.
- `ei_job_result_queue`.
- Handler state and history: `enforced[h]`, `rcvLog[h]` (serials of the
  queued requests h received), `eiSent`, `restarted`.
- Status history: a message to a handler carries, as history, the serial
  `g` of the request it stands for (for a PolicyQuery reply, the last PUT
  accepted when it was sent); the handler's answer carries it back;
  `ackGen` holds it while the loop records the answer, and `statusGen` keeps
  it per handler key. The real messages carry no such field.

Actions:

- `LoopTick` starts a drain thread and takes the whole ring as the batch.
- One dispatch action per message type:
  - `LoopPolicyResponse` calls A1Data's `set_policy_instance_status`.
  - `LoopPolicyQuery`, `LoopQueryValidate`, `LoopQueryGet` and
    `LoopQueryDone` run the query branch. The `_instance_is_valid` of
    `get_policy_instance` is its own step: its PolicyInstanceNotFound is not
    caught.
  - `LoopEIQueryAll` and `LoopEICreateJob`. The coordinator answers with a
    member of `Coordinator`: ok (any JSON answer: a non-2xx one is only
    logged), not_json, unreachable, or hang: the call has no timeout, and
    `Hang` leaves the loop thread alive at `pc = "hung"` for good.
- `LoopEndTick` stamps `last_ran` and sleeps.
- `LoopStoreError`: the status write of a policy response raises. Nothing
  in `_rmr_loop` catches SDL errors (the TODO at `a1rmr.py:202`), so the
  loop thread dies with the batch it held.
- The drain thread's steps are `SendCheck`, `SendGet`, `SendPolicyRequest`,
  `SendEICheck`, `SendEIGet` and `SendEIDelivery`. `empty()` and
  `get(block=False)` are separate steps, so the queue.Empty race is in the
  model. A send either reaches the handler or is dropped after
  `RETRY_TIMES` (`Transmit`, bounded by `MaxDrops`).
- `data_delivery` is the façade's POST: it is answered 200 and queued.
- `RmrCrash` is a bounded process restart. `HealthRestart` is the restart
  the liveness probe triggers once `LoopHealthy` fails (`get_healthcheck`
  answers 500, and Kubernetes restarts the pod, as the comment at
  `a1rmr.py:197` relies on). `healthcheck_rmr_thread` requires the thread to
  be alive and `last_ran` to be less than 30 s old. Every tick that ends
  takes far less than that, so the model reads a stale `last_ran` as a
  thread hung in a call. Both lose the threads, both queues and the ring.
- The handlers are xApps outside this repository, modelled from the spec:
  - `HandlerReceive` applies a request in order and answers OK, or DELETED
    for a DELETE.
  - `HandlerQuery`, `HandlerEIQueryAll` and `HandlerEICreateJob` send the
    inbound messages. A create-job may lack its job id.

Fairness is weak fairness on the loop thread, on every drain thread (per
slot), on the request in progress, on the purge threads and on
`HealthRestart` (the probe runs periodically). Handlers and clients get no
fairness.

`RMR` routing sends a PolicyRequest to one handler of the type's route. The
runs use one handler. A drain thread builds the EI delivery with
`ei_to_handler` before `int()` of the job id, and `eiSent` records the
messages sent. The coordinator's answers are a small constant set, and
their contents are left out.

## 5. Runs

All runs use `MC_A1Data.tla`, which gives:

- one type `{1}`;
- instance ids `{<<"a">>}`, or `{<<"a">>, <<"a","b">>}` for the aliasing
  question;
- one handler;
- statuses `{"OK","DELETED"}`;
- one body.

`CHECK_DEADLOCK FALSE` everywhere: once the request bound is used up, the
server just waits, which the real server may do too.

| Run | Expect | Bounds | What it shows |
|---|---|---|---|
| `data_safety` (TypeOK, InstanceHasType, KeyEncodingFaithful, RegistryRefined, DeleteCompletes) | pass | 5 requests, 2 responses, 1 restart, 1 store error; 0.51 M states, about 1.5 min | keys stay in the persisted layout and no instance outlives its type; the segment keys agree with the strings `data.py` builds; A1Data implements A1Registry (a type is deleted only while empty, an instance key disappears only in the step of a purge thread armed for it since the last restart, a thread is started only for a stored instance, armed threads fire unless they fail); without a fault every tombstoned instance is eventually purged or revived by a PUT |
| `data_put_undone` (PutSurvives) | violation | 5 requests | DELETE, then PUT within the grace window (202), then the old purge thread erases the new instance |
| `data_meta_orphan` (MetadataIffInstance) | violation | 6 requests, no restart | the purge deletes the instance; a PUT re-creates instance and metadata; the purge then deletes the new metadata. DELETE and status GET of that instance now fail with 500 forever, and the type can never be deleted |
| `data_status_orphan` (HandlerStatusOnlyForLiveInstance) | violation | 5 requests, 1 response | a PolicyResponse validated before the purge is written after it |
| `data_server_error` (ValidatedReadsAnswer) | violation | 5 requests | a GET of an instance validates it, the purge removes it, and the SDL.get returns None: 200 with a null body instead of 404. The same race on a second DELETE or a status GET reads the metadata as None and fails with TypeError, HTTP 500 (TLC reports the shorter GET trace first) |
| `data_key_alias` (StatusReadScoped) | violation | ids `a`, `a.b`; 4 requests, 1 response | `a` is reported IN EFFECT because of an OK of `a.b` |

`data_meta_orphan` allows no restart. With one, TLC first reports a
shorter trace of the same state: a restart between the instance write and
the metadata write of `store_policy_instance` (`data.py:217`). Without
restarts the trace left is the purge race above.

A1Rmr runs use `MC_A1Rmr.tla`: one type (a model value `T1`), instance
`a`, handler `h1`, and the job ids `"7"` (numeric), `"f81d4fae"` (a UUID, as
EI create-job uses) and none.

| Run | Expect | Bounds | What it shows |
|---|---|---|---|
| `rmr_drain` (RmrTypeOK, QueueEventuallyDrained) | pass | 3 requests, 1 response, 1 restart, 2 drain threads, 1 dropped send, 1 handler message (policy query, EI query or create-job), job ids `7`/none, every coordinator answer including a hang, 1 store error; 1.1 M states, about 2 min | every queued request eventually leaves `instance_send_queue` (sent, dropped after retries, or lost in a restart), even when a drain thread dies on queue.Empty; bus messages keep the PolicyRequest shape |
| `rmr_loop_dies` (LoopAlive) | violation | 4 requests, 1 query | the query lists `a`, the purge removes it, `get_policy_instance` raises PolicyInstanceNotFound and the loop thread dies |
| `rmr_reorder` (RequestOrderPreserved) | violation | 4 requests, 2 drain threads | thread 1 takes the CREATE, thread 2 takes and sends the DELETE, then thread 1 sends the CREATE |
| `rmr_ei_delivery_lost` (EIDeliveryEventuallySent) | violation | 2 requests | a delivery for job `f81d4fae` is answered 200, dequeued, and lost when `int()` raises |
| `rmr_stale_status` (StatusOfCurrentGeneration) | violation | 3 requests, 1 response, 1 drain thread | the CREATE of `a` is on its way when an UPDATE is accepted (statuses cleared); the handler's OK for the CREATE is recorded afterwards, and GET status says IN EFFECT for a body no handler has received |
| `rmr_replay_resurrects` (NoEnforcementAfterDelete) | violation | 4 requests, 1 query, 1 drain thread, reliable bus, no restart | the query lists `a`; DELETE is accepted and delivered; the replay's CREATE of the tombstoned `a` follows it and the handler enforces a deleted policy |

With an EI client and a coordinator that may be down, LoopAlive fails in two
steps: an EI query meets an unreachable coordinator and ConnectionError ends
the loop thread (`a1rmr.py:241`, also a missing job-id at 255).
`rmr_loop_dies` has neither, so that it shows the race with the purge;
`rmr_drain` has both, and a coordinator that hangs. It shows that every queued request
still leaves the queue, through the restart the liveness probe triggers when
the thread is dead or stale.

`rmr_replay_resurrects` uses one drain thread, so the reordering of
`rmr_reorder` cannot be the cause. `NoEnforcementAfterDelete` is stated for
runs without restarts and dropped sends: those lose a DELETE by design (the
bus is best-effort).

Five requests are enough for each race above: create the type, PUT, DELETE,
and then a PUT, DELETE or GET while the purge runs, plus one spare (the
violation runs that need it use six).

Each property of a passing run has a mutant in `PROJECT.json` that TLC
catches:

- a handler key built without the instance id breaks TypeOK;
- `delete_policy_type` without its emptiness check breaks InstanceHasType;
- the purge thread started only on the no-response branch breaks
  DeleteCompletes;
- a handler prefix without its closing "." breaks KeyEncodingFaithful (the
  scan of id `a` finds the keys of id `ab`);
- the purge thread started before `_get_statuses` has checked the instance
  breaks RegistryRefined (a timer armed for an instance that a running purge
  already removed);
- `a1_to_handler` with type and instance ids swapped breaks RmrTypeOK;
- a tick that starts a drain thread only when it received messages breaks
  QueueEventuallyDrained;
- a healthcheck that tests only `is_alive`, not the age of `last_ran`,
  breaks QueueEventuallyDrained too: a hung loop starts no drain thread and
  is never restarted.

## 6. Not modelled (yet) and why

- Schema validation is an input (`valid` TRUE/FALSE). The JSON-Schema engine
  is out of scope.
- Counters, logging and the OpenAPI layer (the TID range check lives in the
  OpenAPI spec, not in `src/`) are left out.
- `stop_rmr_thread` (`keep_going`) is only called by tests.
- `SDL.healthcheck()` in `get_healthcheck` is a call into the SDL client
  library. Store errors are single failed calls (`MaxSdlErrors`), not an
  outage the probe would see.
- The configuration values are taken at their defaults:
  - `RETRY_TIMES` is at least 1. With 0 every send raises; this is listed as
    a hazard.
  - The TTLs are non-negative. A negative TTL makes every purge thread raise
    at its sleep, the same effect as `FinStoreError`.
- Wall-clock steps of `last_ran` act as a restart (`RmrCrash`) or as a late
  probe.
- A coordinator that answers late (after more than 30 s, but eventually) is
  modelled as one that never answers: the probe restarts the pod in both
  cases.
- The replies sent with `rts` to EI queries and create-job are not observed
  by any property.
