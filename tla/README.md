# TLA+ models of cyctron

cyctron is a small application server in C: one process that serves HTTP, a
WebSocket endpoint and server-sent events (SSE) through mongoose, and lets
clients call functions of native plugins.  This directory holds TLA+ models of
the parts of it that keep state, the TLC instances that check them, and proofs
for TLAPS.  Paths below are relative to the repository (`src/src/...` are the C
sources).

## The system

### Components

| component | source | state it keeps | operations |
|---|---|---|---|
| call worker pool | `src/ws_worker.c` | FIFO of calls, done list, pending count per slot, mutex per slot, statistics, running/initialised flags, threads | init, submit, drain, shutdown, stats; `worker_loop` |
| WebSocket connections and commands | `src/handler_ws.c` | table of 32 connections, broadcast target `g_ws_conn` | upgrade, message (`bind`, `remove`, `status`, `msg`, `call`, `ping`, echo), close frame, close, hand-out of call responses |
| task scheduler | `src/realtime.c` | linked list of tasks, their nng listeners, count, id counter | create, start, remove, remove by connection, find, count |
| event pusher | `src/event_pusher.c` | nng PUB socket, push counter | push to the broadcast target or to one connection |
| SSE streams | `src/handler_sse.c` | table of 32 streams: last id, sequence number, once/done | accept or refuse, poll, close |
| SSE event source | `examples/sse_demo` | one sequence number | `sse_next`, `sse_reset`, `process_init` |
| main loop | `src/main.c` | none | `mg_mgr_poll`, then `ws_drain_call_results`, for ever |
| HTTP dispatcher | `src/handler.c`, `core/uri.c` | none | chooses a handler by method and path |
| plugin paths | `src/plugin_path.c` | none (file system) | name to library path |
| dynamic calls | `src/calldyn.c` | cache of 32 library handles | look up or load, call a symbol |
| parsing and formatting | `src/ws_call.c`, `ws_command.c`, `ws_message.c`, `event_format.c` | none | request text to record or error code, event text |
| plugin and static handlers | `src/handler_libary.c`, `handler_static.c` | none | reply to one request |
| clients, example plugins, vendored libraries | `ts/`, `examples/`, `crates/` | | outside the server's own logic |

### How they interact

Everything except the two worker threads runs on the main thread, one mongoose
event handler at a time.  A `call` message goes from `ws_ev_handler` through
`handle_call` to `ws_worker_submit`; a worker thread runs the plugin function
and puts the response on the done list; after every `mg_mgr_poll`, `main` drains
the list and `ws_call_done` looks the connection up again by its id.  `bind`
creates a task owned by the connection, opens an nng listener for it and starts
its plugin on the main thread; closing the connection removes its tasks.  Every
scheduler event is broadcast to `g_ws_conn`, the connection that upgraded last.
SSE streams are polled by mongoose's `MG_EV_POLL` and ask the event source for
the next event after the last id they sent.

### What is hard about it

* threads: the main thread and the workers share the queue, the done list, the
  counters and the condition variable; shutdown joins threads that may be in
  any state;
* one connection is remembered in several places (table, broadcast target, owner
  of tasks, calls on their way) and freed by mongoose after `MG_EV_CLOSE`, which
  may come with or without a close frame and after errors;
* responses come back when their connection may be gone or its table entry
  reused;
* limits: queue of 64, 16 pending calls per slot, tables of 32;
* failing allocations, threads, listeners and plugin calls, each half way
  through an operation;
* SSE clients that reconnect with an id to a source that may have been reset.

What makes each component correct is the list of its properties below; the
hazards they answer are listed, line by line, in `PROJECT.json`.

## Modules

| module | models | extends / instantiates |
|---|---|---|
| `WsWorker` | `ws_worker.c`, critical section by critical section | |
| `CallService` | abstract specification of the pool: what "call" promises, without threads | |
| `WsWorkerRefinement` | the refinement mapping from `WsWorker` to `CallService` | `WsWorker`, `CallService` |
| `WsWorkerInv` | the inductive invariants of `WsWorker` | `WsWorker` |
| `WsWorkerProofs` | theorems about the threads, locks and counters of `WsWorker` | `WsWorkerInv` |
| `WsWorkerLifeProofs` | theorems about the life of a call, and the refinement | `WsWorkerProofs`, `WsWorkerRefinement` |
| `WsHub` | `handler_ws.c`, `realtime.c`, `event_pusher.c`, the `/soket` and `/api` branches of `handler.c`, with the inductive invariant | |
| `WsHubProofs` | theorems about `WsHub` | `WsHub` |
| `WsServer` | abstract specification of `call` end to end: the hub composed with the call service | `WsHub`, `CallService` |
| `WsServerProofs` | theorems about `WsServer` | `WsServer`, `WsHubProofs` |
| `ServerThreads` | `call` end to end with the worker threads: the hub composed with `WsWorker`, and the refinement mapping to `WsServer` | `WsWorkerRefinement`, `WsServer` |
| `ServerThreadsProofs` | theorems about `ServerThreads`, and the refinement | `ServerThreads`, `WsWorkerLifeProofs`, `WsServerProofs` |
| `Sse` | `handler_sse.c`, `sse_demo`, reconnecting clients, with the inductive invariant | |
| `SseProofs` | theorems about `Sse` | `Sse` |
| `DlCache` | the handle cache of `calldyn.c` (`dl_get`), with the inductive invariant | |
| `DlService` | abstract specification of the cache: look up or load, in one step | |
| `DlCacheRefinement` | the refinement mapping from `DlCache` to `DlService` | `DlCache`, `DlService` |
| `DlCacheProofs` | theorems about `DlCache`, and the refinement | `DlCacheRefinement` |
| `PluginPath` | the candidates of `plugin_path.c` and their order | |
| `HttpRoutes` | the choice of a handler by `handler.c`, and of a reply by `handler_static.c` | |
| `CallRequest` | the tests of `ws_call_parse`, and `ws_call_map_rc` | |
| `Requests` | from a request to the plugin function, while files come and go | `PluginPath`, `HttpRoutes`, `CallRequest`, `DlService` |
| `RequestsInv` | the inductive invariant of `Requests` | `Requests` |
| `RequestsProofs` | theorems about `Requests` | `RequestsInv` |
| `MCWsWorker`, `MCWsHub`, `MCServerThreads`, `MCSse`, `MCDlCache`, `MCRequests` | values for TLC | |

An operator named `X_Y` (`HasRoom_OffByOne`, `AfterClose_Leaks`) is a faulty
variant of the operator `X` that follows it.  No specification uses it: replacing
the body of `X` by it shows that a property notices that fault of the code.
`PROJECT.json` ("mutants") names one such fault for every property.

### WsWorker: the worker pool

A step is a critical section of `g_mutex`, or a stretch of code between two of
them whose order matters to others.  `pc[w]` says where worker `w` is:

| `pc` | in `worker_loop` |
|---|---|
| `off` | not created, or joined |
| `loop` | about to take `g_mutex` and look at the queue |
| `waiting` | in `pthread_cond_wait` |
| `taken` | call unlinked, deadline not compared yet |
| `lockwait` | in time, at the mutex of the connection's slot |
| `exec` | in the plugin function, mutex held |
| `respond` | result known, response to be pushed |
| `record` | pushed, result to be counted |
| `release` | pending place to be given back |
| `exited` | returned, to be joined |

The main thread's operations are `WorkerInit`, four outcomes of submit
(`SubmitAccept`, `SubmitBusy`, `SubmitNoMemory`, `SubmitNoPool`), `Drain`, and
shutdown in two steps, before and after the joins.  In between the main thread
does nothing else (`mainPc = "join"`), which is how the C code behaves:
`ws_worker_shutdown` blocks.  The server itself never calls it, the tests do; a
pool stopped and started again by the next submit is part of the model.

A call is its number.  Its id, library, symbol and arguments are left out; its
connection, its slot (`conn_id % WS_CONN_LOCKS`) and whether it has a deadline
are constants, so TLC can be given the collisions that matter.  Time is the set
`expired`, which a call may join at any moment from submit to the start of its
execution; the code compares the deadline once, after the pop, and so does
`TimeOut`.  The result of the plugin is any of ok and error.  `delivered` and
`dropped` are history variables.

### WsHub: connections, tasks, events

An action is a whole event handler.  `phase[c]` is "http" until `GET /soket`,
then "ws", or "plain" when mongoose refused the upgrade but the handler registered
the connection all the same, and "gone" after `MG_EV_CLOSE`.  Connections are ids,
which mongoose never reuses; a pointer to a connection dangles when the phase is
"gone".  `closing` is the time between `is_closing` and `MG_EV_CLOSE`.  `out` is
what the last handler sent, so that a property can speak of where frames go.
A uuid is a model value together with what is left of it after `strncpy` into
`task.uuid[64]` (`Stored`).

Two habits of mongoose are kept because they break naive assumptions.
`mg_ws_cb` hands over every frame in the buffer without looking at `is_closing` or
`is_draining`, so a connection that has sent a close frame, or was refused a table
entry, goes on sending commands (`Reading`); and a request whose announced body
never came is handed to `ev_handler` when the connection closes, so that a closing
connection can still be upgraded (`Upgrade`).

The `MG_EV_WS_OPEN` branch of `ws_ev_handler` is not an action: mongoose raises the
event inside `mg_ws_upgrade`, when the connection's handler still is `ev_handler`,
which ignores it.

### WsServer and ServerThreads: a call end to end

`WsServer` is `WsHub` and `CallService` side by side.  `HandleCall` submits, `WorkerAnswers` is a
worker finishing at any time, `DrainCalls` takes the list of responses and `CallDone`
hands one of them out, through `ws_conn_find`, which clears entries of closing
connections on its way.  The main thread handles no event between `DrainCalls` and
the last `CallDone` (`Polling`), but workers go on and may append to the next list.
The server never stops the pool, so `Stop` is not among the steps.

`ServerThreads` has `WsWorker` in the place of the service.  `main` starts the pool
before it listens (`Start`, `main.c:50-53`), then the main thread handles events
(`HubEvent`, `HandleCall`) and drains (`DrainCalls`, `CallDone`), while each critical
section of a worker is a step of its own (`ThreadStep`).  It implements `WsServer`
(`ImplementsServer`): the variables of the hub, the batch and `told` are the same,
and the pool is seen as `WsWorkerRefinement` sees it, with `waiting` the accepted calls
that are neither answered nor dropped.  A property of `WsServer` is a property of
`ServerThreads` under this mapping.

### Sse: event streams

The server's table, the source's counter, the bytes on the wire (as event ids) and
EventSource clients that may lose a connection at any time, long before the
server notices, and come back with the last id they received.  Intervals and
keepalive comments only decide when a poll sends; `Poll` may happen at any time.  The
order of a stream is kept twice in the code: the source is asked for an id above the
entry's last one (`NextId`), and an id that is not is dropped (`IsNew`,
`handler_sse.c:150`); both rest on the entry recording what it sent (`AfterDefault`).
`Restart` is a crash of the server process: its tables and the source are lost.

### DlCache: the handle cache

The workers and the main thread all load plugins through `dl_get`.  `pc[t]` is the
place of thread `t` in it: `start` before the count is read, `scan` in the scan
without the lock, `lock` at the mutex, `locked` behind it, `opened` with the path
written, `filled` with the handle written too, `unlock` with the result settled.
The scan is one step: it reads only entries below the count it read before, and
`PublishedStable` says that these do not change.  That the memory barrier makes the
entry visible before the count is in the order of `WriteHandle` and `Publish`; weaker
memory orders are not modelled.  A handle is the path it was opened for.  Paths in
`Long` are cut by `snprintf`; a cut path is taken to equal no requested one, since
the paths are built as `dir/name/name.so` and the cut one lacks its ending.  On
Windows `dl_get` has no mutex; the model is of the other builds.

`DlService` says what a caller may rely on: one step finds, loads or denies.  In
`DlCacheRefinement` a library is known from the moment the count covers its entry
and a call is settled when its result is, before the mutex is given back.

### PluginPath, HttpRoutes, CallRequest and Requests: from a request to a function

The first three modules hold what is pure: where a library may lie and in which
order the system calls of `plugin_resolve_path` look (`Looks`), the comparisons of
`ev_handler` with their lengths (`Tests`), the tests of `ws_call_parse` (`Refusals`)
and the translation of return codes (`MapRc`).  A uri is the longest literal path
it begins with and its length, which is what `strncmp` with a length sees of it; a
call message is, for each field, which test it would fail.  `/index.html` is one of the
literals, since `ev_handler_static` answers it with the built-in page like `/`.

`Requests` puts them to work.  The main thread handles an HTTP request from
`Dispatch` to `Rest`: `ev_handler` resolves the name once, throws the path away, and
`ev_handler_libary` resolves it again.  Workers take parsed calls, resolve the name
and go on with whatever the buffer holds, found or not.  Every stat, readdir and
`dlopen` is a step of its own (`Look`, `Get`), and between any two of them another
process may add, replace or remove a file (`Change`).  The handle cache is
`DlService`, which `DlCache` implements.

Left out here: the queue's limits, the deadlines and the mutexes (in `WsWorker`); the
text of JSON and of symbol names; names too long for the buffers of
`plugin_path.c`; the case of several other libraries in one directory, which are
one spot; the directory scan on Windows.

## Checks

All runs use two TLC workers and end within about two minutes each.

| run | instance | properties | result |
|---|---|---|---|
| `WsWorker_safety` | 4 calls of 3 connections over 2 slots, 2 workers, queue of 2, 2 pending per slot, one deadline, failing allocations | 9 safety invariants (`NeverStuck` and `StartsInOrder` among them), the inductive invariant `PoolInv`, `OutcomeFinal`, `ImplementsService` | holds |
| `WsWorker_live` | 3 calls of 2 connections, 2 deadlines, memory available | `CallFinishes`, `ShutdownCompletes`, `ImplementsFairService` | holds |
| `WsWorker_slotlimit` | connections 1 and 3 share a slot of two | `RefusedByOwnConnOnly` | violated |
| `WsWorker_order` | two calls of one connection | `SameConnInOrder` | violated |
| `WsHub_safety` | 3 connections, table of 2, 2 tasks, a uuid that fits and one that is cut to it | 4 safety invariants, the inductive invariant `HubInv`, `OthersTasksSurvive` | holds |
| `WsHub_status` | 2 connections | `StatusTruthful` | violated |
| `Sse_safety` | 3 connections, table of 2, a resuming and a once client, ids up to 3 | 3 safety invariants, the inductive invariant `SseInv`, `ResumeMonotone` | holds |
| `Sse_once` | 2 connections, a once client | `OnceOneCall` | violated |
| `ServerThreads_call` | 2 connections that share one table entry, a call each, 2 workers, queue of 1, no tasks | `ResponseToCaller`, `ResponseNotLost`, `ImplementsServer`, `CallAnswered` | holds |
| `DlCache_safety` | 3 threads, 4 libraries of which one cannot be loaded and one has a long path, table of 2, 3 calls | 3 safety invariants, the inductive invariant `CacheInv`, `PublishedStable`, `CallReturns`, `ImplementsDlService` | holds |
| `Requests_safety` | every kind of HTTP request and of call message, one worker, a plugin in 9 initial places, one name with a slash, a web file, a change of a file | `ResolvesBest`, `RefusalJustified`, `OneLibraryPerName` | holds |
| `Requests_routes` | every route with every method, exact and with up to two characters more | `DocumentedRoutes` | violated |

The type invariant of a component is a conjunct of its inductive invariant.

The five violated properties state what the project's documents say:

* `RefusedByOwnConnOnly`: `todo/socket-call.md:557` limits pending calls per
  connection; the code counts per `conn_id % 16` (`ws_worker.c:295-297`).
* `SameConnInOrder`: `todo/socket-call.md:356` expects calls of one connection to
  complete in order; the pop and the connection's mutex are two steps
  (`ws_worker.c:132-153`), so two workers may swap two calls.
* `StatusTruthful`: `docs/http-api.md:48` says the field is the current connection
  state; a refused upgrade takes the place of the client (`handler.c:46-50`).
* `OnceOneCall`: `docs/sse.md:21` says once=1 calls once; only a successful call
  counts (`handler_sse.c:102-121`).
* `DocumentedRoutes`: `docs/http-api.md:26` lists `POST /api/push` as the way to push an
  event; the code compares ten characters with a literal of nine (`handler.c:61`),
  so the request goes to the plugin handler.  `POST /api/log` is missed too: its test
  asks for ten characters where the path has eight (`handler.c:108`).

### What the properties say

Pool.  `SerialExec`: never two calls of one connection in the plugin at once.
`PendingExact`: the hand-kept counter of a slot is exact and within its limit (that of
the queue, `QueueLenExact`, is a part of `PoolInv`).  `StatsConserved`: total is ok plus failed plus what is still on its way.
`NoCallLost`, `AnsweredOnce`: an accepted call is in exactly one place, and gets at
most one response.  `NoIdleWhileWork`: no lost wakeup.  `NeverStuck`: sleepers,
connection mutexes and joins never wait on each other; while there is work, or a
shutdown joins, somebody can go on.  It is the safety half of `CallFinishes` and
`ShutdownCompletes`: `CanGoOn(w)` says of a state when a step of the worker is enabled.
`StartsInOrder`: calls leave the queue in the order of submission (that they may still
overtake each other behind it is `SameConnInOrder`).  `NoCallFreedUnrun`: a shutdown
leaves no accepted call unrun.
`OutcomeFinal`: no second run, and no timeout of a running call.

Hub.  `NoDangling`: no reference to a freed connection.  `TargetKept`: broadcasts
have a target while anybody is registered.  `NoOrphanTask`, `OthersTasksSurvive`: a
closing connection takes all of its tasks and no other's.  `TaskTableSound`: the count
is right and only truncation duplicates a uuid.  `ListenersExact`, a part of `HubInv`:
nng listeners are those of the tasks.

SSE.  `SlotsSound`: one table entry per open stream and none else.  `StreamOrdered`:
ids on a stream increase.  `ResumeMonotone`: a client never gets an old id again,
across reconnects, resets and restarts.  `OnceOneEvent`: one event per once stream.

Server.  `ResponseToCaller`: a response goes to the connection that called or to
nobody, and once.  `ResponseNotLost`: a response that was taken from the pool is still to
be handed out, was sent, or has nobody left to be sent to.  `CallAnswered`: a client
that stays gets its response.  `ImplementsServer`: threads, queue and locks show a
client nothing that the server with the abstract service does not.

Cache.  `HandleRight`: nobody gets another library's handle.  `NullOnlyWhenFull`: a
loadable library is refused only for want of an entry.  `ReopenedOnlyLong`: threads
that miss a library together open it once.  `PublishedStable`: what is read without
the lock does not change.  `CallReturns`: the mutex is given back on every path.
`ImplementsDlService`: all of it together looks like one indivisible look-up-or-load.

Requests.  `ResolvesBest`: a resolution interrupted by changes of files does not miss
a library that was there all the time, nor prefer a worse one.  `RefusalJustified`: a
request ends without a library only for a reason that can be named.
`OneLibraryPerName`: HTTP and call requests for a name run the same library, so they
share its static state, unless its files changed.

### Bounds

| constant | in the code | checked | why that is enough |
|---|---|---|---|
| `MaxQueue` | 64 | 2 (1 in `ServerThreads_call`) | the queue is full with both workers busy and another call arriving; with two calls and a queue of 1, the second is refused until a worker has taken the first |
| `MaxPerConn` | 16 | 2 | reached with one call queued and one held, or both held |
| `ConnLocks` | 16 | 2 | collisions and non-collisions both occur |
| `Workers` | 2 | 2 | the number the server starts |
| `MaxJobs` | unbounded | 4 (3 for liveness, 2 in `ServerThreads_call`) | one call more than pool and queue of a slot hold; with two, both workers answer while the main thread hands out |
| `TableSize` | 32 | 2 (1 in `ServerThreads_call`) | fewer than the connections, so the full table occurs |
| `MaxTasks` | unbounded | 2 (0 in `ServerThreads_call`) | two tasks of one connection, or of two, or with one stored uuid |
| `MaxClients` | 32 | 2 | fewer than the connections |
| `MaxConns`, `MaxId` | unbounded | 3 (`MaxConns` 2 in `ServerThreads_call`), 3 | a stream is lost and replaced twice, and a source is reset and overtaken; an entry of the table is left by one caller and taken by the other |
| `AllocFails`, `Timed` of `ServerThreads_call` | | none | failing allocations and deadlines are in the runs of `WsWorker`; the theorems about `ServerThreads` have them |
| `CacheMax` | 32 | 2 | filled by two of the three calls, refused to the third |
| `Threads`, calls of `DlCache` | 3, unbounded | 3, 3 | every thread is at the mutex for the same library at once |
| `Workers`, `MaxQueued` of `Requests` | 2, 64 | 1, 1 | a worker and the main thread resolve and load the same name at once; the two workers do the same thing |
| `MaxChanges`, `Moving` | unbounded | 1, all spots of one name | a change falls between any two system calls of one resolution or between the two resolutions of one request; 0 in `Requests_routes`, which is about routes |
| `CacheMax` of `Requests` | 32 | 2 | a third library, after a change of files, is refused |

A connection of `WsHub` has at most 8 tasks, since the array of
`rt_remove_tasks_by_conn` then grows once at most.  In `Sse` an event is sent only
while ids stay below `MaxId`.  `SYMMETRY` over the workers is used in the safety
run only.

### Fairness

`WF` of each worker's steps, of `Drain` and of the second half of shutdown.  Weak
fairness of a worker is justified by the scheduler: a thread that can run does,
and a plugin function is assumed to return.  For the mutexes it says more than
POSIX does: a thread waiting for a connection's mutex that is freed and taken
again could starve under weak fairness.  It does not here because calls are
bounded in number, and in the code the other worker takes the mutex again only
if there is another call of the slot.  `Drain` is fair because `main` calls it
after every poll, and `mg_mgr_poll` returns within 50 ms.  Nothing obliges
clients to call, spurious wakeups to occur, deadlines to expire or anybody to
shut down.  `ServerThreads` assumes the same of its workers, of `DrainCalls` and of
`CallDone`, the loop over the list that was taken.  In `DlCache` each thread
is fair inside `dl_get`, `dlopen` is assumed to return, and since the calls are
bounded nobody is overtaken at the mutex for ever.  The runs of `DlCache` and
`ServerThreads` do not check deadlock, since they end when the calls, or connections,
are used up; nor do those of `Requests`, where clients need not send anything.

## Proofs

Every theorem holds for all values of the constants that the named assumptions of
its component allow: any number of calls, workers, connections, tasks, clients,
threads, libraries, and any limit.

### The pool (`WsWorkerProofs`, `WsWorkerLifeProofs`)

Assumptions: `SizeAssumption`, `JobAssumption`, `ThreadAssumption` of `WsWorker`.

| theorem | statement |
|---|---|
| `Invariance` | `Spec => []IInv` |
| `TypeCorrect` | `Spec => []TypeOK` |
| `QueueBounded` | `Spec => []QueueLenExact` |
| `Serialised` | `Spec => []SerialExec` |
| `PendingCounted` | `Spec => []PendingExact` |
| `NoLostWakeup` | `Spec => []NoIdleWhileWork` |
| `ShutdownWakes` | `Spec => []ShutdownWakesAll` |
| `PoolInvariance` | `Spec => []PoolInv` |
| `CallsKept` | `Spec => []NoCallLost` |
| `OneAnswer` | `Spec => []AnsweredOnce` |
| `StatsBalance` | `Spec => []StatsConserved` |
| `ShutdownFreesNoCall` | `Spec => []NoCallFreedUnrun` |
| `OutcomeKept` | `Spec => OutcomeFinal` |
| `PoolNeverStuck` | `Spec => []NeverStuck` |
| `FirstComeFirstServed` | `Spec => []StartsInOrder` |
| `PoolImplementsService` | `Spec => ImplementsService` |

The inductive invariant `IInv` (module `WsWorkerInv`) adds to the properties what a
single step needs to know of its past.  `SerialExec` holds because two workers in
the plugin for one connection would both own the mutex of its slot, which needs
`LockInv`: the owner of a mutex is executing a call of that slot.  `PendingExact`
counts calls, so a call must be in one place only: `OwnerInv` says the queue has no
duplicate, a held call is not queued, and no two workers hold the same one; that
in turn needs every call in the pool to be at most `submitted`, so that a new one
is new.  `HoldInv` ties the job pointer to the program counter.  `NoIdleWhileWork`
counts the workers at the top of the loop, and is kept because submit's signal
moves a sleeper there for each call appended, and a worker sleeps only over an
empty queue; a shutdown (`PhaseInv`) leaves nobody asleep.

`PoolInv` adds the life of a call.  `LifeInv` follows it past the pool: queued or
unanswered calls are neither answered nor dropped, a worker that has only to count
or to release holds one that is, and the lists of responses have no duplicates and
nothing in common.  A shutdown finds the queue empty, because it joined a worker
that exited over an empty queue (`EmptyAtShutdown`), so it drops responses only.
`OutcomeInv` ties the outcome to the program counter of the worker that holds the
call; no other worker can change it since no other holds it (`OwnerInv`).
`StatsConserved` is inductive on top of these: each step moves one unit between the
sides of the balance (`BalanceFacts`), and the set of calls still to be counted gains
or loses exactly one element (`UnrecordedStep`).

`PoolNeverStuck` needs no invariant of its own.  If no worker can go on, all of them
sleep, have exited or wait for a mutex; a mutex that is not free is owned by a
worker that executes a call (`LockInv`), and that one could go on, so nobody waits
for a mutex and no call is held.  A call in the queue would be one that sleepers do not
see, against `NoIdleWhileWork`, and a sleeper during a shutdown is against `PhaseInv`.
`FirstComeFirstServed` adds that the queue is in ascending order (`OrderInv`): a
submitted call is above all earlier ones and goes to the end, and what is taken is
the first.

`PoolImplementsService` is a step simulation under `PoolInv`: submit accepts or
refuses, `PushDone` answers, a failed allocation loses, `Drain` fetches, the end of a
shutdown stops the service or changes nothing it sees, and every other step is a
stutter.  Its one arithmetical point is the limit: the calls the service sees
waiting in a slot are among those the counter counts (`AwaitingFacts`).

### The hub (`WsHubProofs`)

Assumption: `HubAssumption`.

| theorem | statement |
|---|---|
| `HubInvariance` | `HubSpec => []HubInv` |
| `HubTypes` | `HubSpec => []HubTypeOK` |
| `NothingDangles` | `HubSpec => []NoDangling` |
| `TargetStays` | `HubSpec => []TargetKept` |
| `NoOrphans` | `HubSpec => []NoOrphanTask` if allocations succeed |
| `ListenersCounted` | `HubSpec => []ListenersExact` |
| `TasksSound` | `HubSpec => []TaskTableSound` |
| `OthersSurvive` | `HubSpec => OthersTasksSurvive` |

A connection is remembered in three places, and each property is about one of
them, so `HubInv` is nearly their conjunction.  What has to be added is that task ids
are below the counter and tasks finitely many (`TaskIdInv`), for the count and for
the uniqueness of ids.  The table and the target are inductive together only
(`ConnStep`): a target that goes away is replaced by the last used entry, which exists
if the table is not empty (`LastUsed`, by well-founded induction over the entries
above an entry) and is a live connection by `NoDangling`.  `NoOrphans` has its premise
because `rt_remove_tasks_by_conn` gives up when `realloc` fails.

### The server (`WsServerProofs`)

Assumption: `HubAssumption`, and for `ResponsesReachCallers` that callers are connections.

| theorem | statement |
|---|---|
| `ServerInvariance` | `Spec => []ServerInv` |
| `ResponsesToCallers` | `Spec => []ResponseToCaller` |
| `ServerDanglesNot` | `Spec => []NoDangling` |
| `ResponsesReachCallers` | `Spec => []ResponseNotLost` |

`ServerInv` joins what the hub's proofs need (`HubCore`) with an account of calls: they
are numbered as they are asked for, and a call is waiting, in the ready list, in the
batch or told, never in two of these nor twice in a list (`ResponsesInv`).  A response
goes to the entry found, which holds the caller (`FirstEntry`).  The sweeping of
`ws_conn_find` empties entries only, so the table stays sound although the broadcast
target may be one of those swept (`WalkKeeps`); its close event replaces it.

For `ResponsesReachCallers` a response that found no connection must stay without one.
The caller of a call was a WebSocket connection once, so it is never "http" again
(`DeliveryInv`), and a connection that is not "http" enters the table no more: once
unreachable it stays so, by events (`NoReturn`) and by the hand-out (`StaysUnreachable`).

### The server with its threads (`ServerThreadsProofs`)

Assumptions: those of the pool, and `ThreadsAssumption`.

| theorem | statement |
|---|---|
| `PoolInServer` | `ServerSpec => []PoolInv` |
| `ThreadsImplementServer` | `ServerSpec => ImplementsServer` |
| `ThreadsRespondToCaller` | `ServerSpec => []ResponseToCaller` |
| `ThreadsDangleNot` | `ServerSpec => []NoDangling` |
| `ThreadsKeepResponses` | `ServerSpec => []ResponseNotLost` |
| `ResponsesAreTrue` | `ServerSpec => []ToldAfterRun` |

A step of the server is a step of its pool or leaves the pool alone (`StepOfPool`), so
the pool's invariant holds, and under it every step is one of `WsServer` or a stutter
(`ServerStep`); the lemmas of `PoolImplementsService` are used again, step by step.
The theorems of `WsServerProofs` are then taken over as they are: `Proved` instantiates
that module with the refinement mapping, and `ConnectionsFit` discharges its
assumptions.  `ResponsesAreTrue` is about what `WsServer` does not see, the outcome of a
call: a response handed out was taken by drain (`HandedOut`), hence answered, hence run or
timed out (`OutcomeInv`).

### The streams (`SseProofs`)

Assumption: `SseAssumption`.

| theorem | statement |
|---|---|
| `SseInvariance` | `SseSpec => []SseInv` |
| `EntriesSound` | `SseSpec => []SlotsSound` |
| `OnceMeansOne` | `SseSpec => []OnceOneEvent` |
| `StreamsOrdered` | `SseSpec => []StreamOrdered` |
| `NeverAgain` | `SseSpec => ResumeMonotone` |

`SseInv` follows an id from the source to the client.  The entry of a stream is ahead
of its wire: in default mode no id on the wire, nor the last one the client has, is
above the entry's last id, and only an id above it is sent (`IsNew`), whatever the
source has forgotten; in custom mode the entry's number is the count of events sent
(`EntryInv`).  What is on the wire goes up from what the client has (`StreamInv`), so
receiving never goes back (`NeverAgain`), and a new stream starts at the client's
last id.  `OnceOneEvent` needs the entry to be done once it has sent.

### The handle cache (`DlCacheProofs`)

Assumption: `CacheAssumption`.

| theorem | statement |
|---|---|
| `CacheInvariance` | `Spec => []CacheInv` |
| `RightHandle` | `Spec => []HandleRight` |
| `NullMeansFull` | `Spec => []NullOnlyWhenFull` |
| `OpenedOnce` | `Spec => []ReopenedOnlyLong` |
| `StableEntries` | `Spec => PublishedStable` |
| `ImplementsService` | `Spec => ImplementsDlService` |

`CacheInv` says that the mutex is held by the one thread between lock and unlock
(`MutexInv`), so that only this thread writes, and only the entry behind the
published ones (`FillInv`); published entries are therefore complete (`EntryInv`), and
a count read earlier covers nothing else (`ThreadInv`).  A library opened is published
or about to be (`OpenedInv`), hence found by whoever holds the mutex next.  In the
refinement a hit of either scan finds, a publication loads, a full table or a failed
`dlopen` denies, and everything else is invisible; denying is right because whoever
holds the mutex has scanned all entries there are (`KnownIsFound`).

### From a request to a function (`RequestsProofs`)

Assumptions: `NameAssumption`, `RequestAssumption`.

| theorem | statement |
|---|---|
| `RequestInvariance` | `Spec => []RequestInv` |
| `ResolutionBest` | `Spec => []ResolvesBest` |
| `RefusedForReason` | `Spec => []RefusalJustified` |
| `OneLibrary` | `Spec => []OneLibraryPerName` |

`RequestInv` (module `RequestsInv`) says what a thread knows of the files, and how long
it may rely on it.  The looks it has done have excluded what was there all along, and
while no file of the name changes there is nothing where it looked (`Passed`); so the
first hit is the best (`BestFacts`), for safe and unsafe names alike (`LooksFacts`).
The path dl_get is asked for is then the best, or nothing is there at all (`Meant`),
and whatever it opens may be run under its name (`Right`), today or from the cache.  A
change of a file disturbs only threads and libraries of its name (`ChangeKeeps`), a
step of a thread only that thread (`StepOfOne`, `OthersKept`).

### Only model-checked

TLC checks the inductive invariants `PoolInv`, `HubInv`, `SseInv` and `CacheInv` too.
Liveness under fairness (`CallFinishes`, `ShutdownCompletes`, `CallAnswered`,
`CallReturns`, `ImplementsFairService`) is out of reach of the proof system's back
ends, and so is ENABLED: that `CanGoOn` is the enabledness of a worker's step is read off
its actions.  `PoolNeverStuck` is what is proved towards liveness.  Every safety property of a passing run is proved.

## Not modelled

* `rt_run`, `rt_stop`, `rt_stop_task`, `rt_cleanup`, `rt_send_msg`, `rt_broadcast`:
  nothing in the server calls them.
* The nng copy of each broadcast, `g_push_count`, the two duration fields of the
  statistics: no decision depends on them.
* JSON parsing and printing, `ws_command_parse`, `event_format.c`: pure text work.
  The texts of messages, HTTP headers and logs.
* Failing allocations in the hub: `BindRefused` and `Victims` have them, and so have the
  theorems; the checked instance has memory.
* Head-of-line blocking: both workers may wait for one slow connection while calls
  of others are queued (`ws_worker.c:152`).  It delays calls and loses none.
* Serving a static file (one mongoose call), the command line, `call_nng_dynlib`
  (its outcome is the status argument of `Bind`), the Windows builds.
* The TypeScript clients, the example plugins other than `sse_demo`, and the vendored
  libraries (mongoose, nng, libev, libffi), which are by far most of the
  repository's C code.  What the handlers meet of them is in the models, marked
  external where it is not read off the server's code.

Behaviour that was seen while modelling, that no run states as a property:

* `ws_call_map_rc` gives a plugin's own return values -1, -2 and -100 the codes of a
  missing library, a missing symbol and missing arguments (`MapRc`).
* When nothing is found `plugin_resolve_path` leaves `./libary/lib<name><ext>` behind,
  where its header promises `./libary/<name><ext>` (`Leftover`).
* A library that was removed from disk goes on answering from the cache, if the
  path left behind is its own.
* A library with a path of more than 255 bytes is opened anew by every call, each
  time in one more entry; `ReopenedOnlyLong` excepts exactly these.
* A library that appears and goes again between `plugin_resolve_path` and `dlopen` fails
  the request although one of lower rank was there all the time: nothing looks twice.
* A response whose list node cannot be allocated is freed and counted as answered
  (`PushDoneNoMemory`); the call properties except such calls by name (`dropped`).
* `ws_worker_stats` may not count yet a response that was handed out (`RecordResult` is
  a section of its own).
* A bind that failed leaves its task, so that the same bind is refused until the task is
  removed, and any connection may remove any task by its uuid.

`PROJECT.json` lists these among the hazards with a note instead of a property where
the code does what it says and no document promises more.

## Plan

All components that keep state are modelled, and every safety property that the
passing runs check is proved.  What is left:

1. `ServerThreads` with a deadline takes four and a half minutes, with failing allocations
   five and a half, with a third call or with tasks more.  The theorems cover all of
   these; only `CallAnswered` would gain.
2. The composition of `Requests` with `ServerThreads`: what a call runs and who is told of
   it are proved apart, joined by the call's name only.
