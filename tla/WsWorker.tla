------------------------------ MODULE WsWorker ------------------------------
(***************************************************************************)
(* The worker pool behind the WebSocket "call" command                     *)
(* (src/src/ws_worker.c).                                                  *)
(*                                                                         *)
(* The main thread submits calls, drains responses and starts or stops the *)
(* pool; the worker threads take calls off one FIFO queue, run the plugin  *)
(* function under a per-connection lock and push the response onto a done  *)
(* list.  Everything between a lock and an unlock of g_mutex is one action *)
(* here; the program counters say where a thread is between two critical   *)
(* sections.  The main thread is the only caller of submit, drain, init    *)
(* and shutdown.                                                           *)
(*                                                                         *)
(* Calls are numbered in the order they are submitted.  A clock is kept as *)
(* the set of calls whose timeout_ms has gone by since submit_ms; memory   *)
(* allocation may fail when AllocFails holds.                              *)
(*                                                                         *)
(* An operator named X_Y is a faulty variant of the operator X below it;   *)
(* no action uses it.  Substituted for X it shows that a property fails    *)
(* when the code has that fault (see the README).                          *)
(***************************************************************************)
EXTENDS Functions, Sequences, FiniteSets

CONSTANTS
  MaxJobs,      \* bound: how many calls are ever submitted
  ConnOf,       \* the connection id (conn_id) of each call
  Timed,        \* the calls with timeout_ms > 0
  Workers,      \* the worker threads that ws_worker_init may create
  MaxQueue,     \* WS_WORKER_MAX_QUEUE
  MaxPerConn,   \* WS_WORKER_MAX_PER_CONN
  ConnLocks,    \* WS_CONN_LOCKS
  AllocFails,   \* may malloc/calloc return NULL?
  None          \* no thread, no call

Jobs  == 1 .. MaxJobs
Slots == 0 .. ConnLocks - 1

ASSUME SizeAssumption ==
  /\ MaxJobs \in Nat
  /\ MaxQueue \in Nat \ {0}
  /\ MaxPerConn \in Nat \ {0}
  /\ ConnLocks \in Nat \ {0}

ASSUME JobAssumption ==
  /\ ConnOf \in [Jobs -> Nat]
  /\ Timed \subseteq Jobs

ASSUME ThreadAssumption ==
  /\ IsFiniteSet(Workers)
  /\ Workers # {}
  /\ None \notin Workers
  /\ None \notin Jobs
  /\ AllocFails \in BOOLEAN

\* The slot of g_conn_pending and g_conn_locks that a call uses.
SlotOf(j) == ConnOf[j] % ConnLocks

VARIABLES
  queue,        \* g_head .. g_tail
  queueLen,     \* g_queue_len
  doneList,     \* g_done_head .. g_done_tail: calls with a response to send
  connPending,  \* g_conn_pending
  stats,        \* g_stats (the two duration fields are left out)
  running,      \* g_running
  inited,       \* g_inited
  threads,      \* g_threads[0 .. g_thread_count - 1]
  pc,           \* where each worker thread is in worker_loop
  job,          \* the call each worker thread holds
  connLock,     \* which worker holds each mutex of g_conn_locks
  mainPc,       \* "run", or "join" inside ws_worker_shutdown
  submitted,    \* how many calls have been submitted
  refused,      \* calls for which ws_worker_submit returned -1
  outcome,      \* what the response of a call says: "ok", "error", "timeout"
  expired,      \* calls submitted more than timeout_ms ago
  delivered,    \* history: calls whose response drain handed out, in order
  dropped       \* history: calls whose response was freed, or never built

poolVars == <<running, inited, threads, mainPc>>
backlog  == <<queue, queueLen, doneList, connPending>>
history  == <<submitted, refused, delivered, dropped>>
vars == <<queue, queueLen, doneList, connPending, stats, running, inited,
          threads, pc, job, connLock, mainPc, submitted, refused, outcome,
          expired, delivered, dropped>>

NoStats == [total |-> 0, ok |-> 0, failed |-> 0, timeouts |-> 0, busy |-> 0]

Waiting == {w \in Workers : pc[w] = "waiting"}

\* Threads about to lock g_mutex and look at the queue.
AtLoopTop == {w \in Workers : pc[w] = "loop"}

Accepted == 1 .. submitted \ refused

-----------------------------------------------------------------------------
Init ==
  /\ queue = <<>>
  /\ queueLen = 0
  /\ doneList = <<>>
  /\ connPending = [s \in Slots |-> 0]
  /\ stats = NoStats
  /\ running = FALSE
  /\ inited = FALSE
  /\ threads = {}
  /\ pc = [w \in Workers |-> "off"]
  /\ job = [w \in Workers |-> None]
  /\ connLock = [s \in Slots |-> None]
  /\ mainPc = "run"
  /\ submitted = 0
  /\ refused = {}
  /\ outcome = [j \in Jobs |-> "none"]
  /\ expired = {}
  /\ delivered = <<>>
  /\ dropped = {}

-----------------------------------------------------------------------------
(* The main thread.                                                        *)

\* ws_worker_init: create the threads under g_mutex; pthread_create may fail
\* for the first one (the pool stays down) or for a later one.  A submit that
\* finds the pool down is this action and then a Submit action: init has given
\* g_mutex back before submit takes it.
WorkerInit(created) ==
  /\ mainPc = "run"
  /\ ~inited
  /\ stats' = NoStats
  /\ running' = (created # {})
  /\ inited' = (created # {})
  /\ threads' = created
  /\ pc' = [w \in Workers |-> IF w \in created THEN "loop" ELSE "off"]
  /\ UNCHANGED <<backlog, job, connLock, mainPc, outcome, expired, history>>

\* pthread_cond_signal: wakes one thread blocked in pthread_cond_wait.
SignalOne_FirstOnly ==
  IF queue = <<>> /\ Waiting # {} THEN \E w \in Waiting : pc' = [pc EXCEPT ![w] = "loop"]
                                  ELSE UNCHANGED pc
SignalOne_Never == UNCHANGED pc
SignalOne ==
  IF Waiting = {} THEN UNCHANGED pc
                  ELSE \E w \in Waiting : pc' = [pc EXCEPT ![w] = "loop"]

\* pthread_cond_broadcast.
WakeAll == pc' = [w \in Workers |-> IF pc[w] = "waiting" THEN "loop" ELSE pc[w]]

\* What the two limits of ws_worker_submit look at.
HasRoom_OffByOne(j) ==
  /\ queueLen <= MaxQueue
  /\ connPending[SlotOf(j)] < MaxPerConn
HasRoom(j) ==
  /\ queueLen < MaxQueue
  /\ connPending[SlotOf(j)] < MaxPerConn

\* The list append of ws_worker_submit.
Enqueue_Uncounted(j) == queue' = Append(queue, j) /\ UNCHANGED queueLen
Enqueue_Front(j) == queue' = <<j>> \o queue /\ queueLen' = queueLen + 1
Enqueue(j) == queue' = Append(queue, j) /\ queueLen' = queueLen + 1

\* ws_worker_submit is called by a main thread that is in the event loop.
Submitting(j) ==
  /\ mainPc = "run"
  /\ j = submitted + 1
  /\ submitted' = j

SubmitAccept(j) ==
  /\ Submitting(j)
  /\ inited
  /\ HasRoom(j)
  /\ Enqueue(j)
  /\ connPending' = [connPending EXCEPT ![SlotOf(j)] = @ + 1]
  /\ stats' = [stats EXCEPT !.total = @ + 1]
  /\ SignalOne
  /\ UNCHANGED <<doneList, job, connLock, poolVars, refused, outcome, expired,
                 delivered, dropped>>

SubmitBusy(j) ==
  /\ Submitting(j)
  /\ inited
  /\ ~HasRoom(j)
  /\ refused' = refused \cup {j}
  /\ stats' = [stats EXCEPT !.busy = @ + 1]
  /\ UNCHANGED <<backlog, pc, job, connLock,
                 poolVars, outcome, expired, delivered, dropped>>

\* calloc or dup_str failed: -1 before the limits are looked at.
SubmitNoMemory(j) ==
  /\ AllocFails
  /\ Submitting(j)
  /\ inited
  /\ refused' = refused \cup {j}
  /\ UNCHANGED <<backlog, stats, pc, job,
                 connLock, poolVars, outcome, expired, delivered, dropped>>

\* The lazy ws_worker_init inside submit could not create a thread.
SubmitNoPool(j) ==
  /\ Submitting(j)
  /\ ~inited
  /\ refused' = refused \cup {j}
  /\ stats' = NoStats
  /\ UNCHANGED <<backlog, pc, job, connLock,
                 poolVars, outcome, expired, delivered, dropped>>

\* g_done_head = g_done_tail = NULL.
AfterDrain_Kept == doneList
AfterDrain == <<>>

\* ws_worker_drain takes the whole list in one critical section; its
\* callbacks run on the main thread and touch nothing of the pool.
Drain ==
  /\ mainPc = "run"
  /\ doneList # <<>>
  /\ delivered' = delivered \o doneList
  /\ doneList' = AfterDrain
  /\ UNCHANGED <<queue, queueLen, connPending, stats, poolVars, pc, job,
                 connLock, submitted, refused, outcome, expired, dropped>>

\* ws_worker_shutdown up to the joins.
BeginShutdown ==
  /\ mainPc = "run"
  /\ inited
  /\ running' = FALSE
  /\ mainPc' = "join"
  /\ WakeAll
  /\ UNCHANGED <<backlog, stats, inited, threads,
                 job, connLock, outcome, expired, history>>

\* ws_worker_shutdown after the last pthread_join: free what is left.
FinishShutdown ==
  /\ mainPc = "join"
  /\ \A w \in threads : pc[w] = "exited"
  /\ dropped' = dropped \cup Range(queue) \cup Range(doneList)
  /\ queue' = <<>>
  /\ queueLen' = 0
  /\ doneList' = <<>>
  /\ connPending' = [s \in Slots |-> 0]
  /\ threads' = {}
  /\ pc' = [w \in Workers |-> "off"]
  /\ inited' = FALSE
  /\ mainPc' = "run"
  /\ UNCHANGED <<stats, running, job, connLock, submitted, refused, outcome,
                 expired, delivered>>

-----------------------------------------------------------------------------
(* A worker thread.                                                        *)

Goto(w, from, to) ==
  /\ pc[w] = from
  /\ pc' = [pc EXCEPT ![w] = to]

\* g_head = job->next.
AfterPop_Kept == queue
AfterPop == Tail(queue)

\* Top of the loop with a call queued: unlink the head.
Take(w) ==
  /\ Goto(w, "loop", "taken")
  /\ queue # <<>>
  /\ job' = [job EXCEPT ![w] = Head(queue)]
  /\ queue' = AfterPop
  /\ queueLen' = queueLen - 1
  /\ UNCHANGED <<doneList, connPending, stats, poolVars, connLock, outcome,
                 expired, history>>

\* Top of the loop, nothing queued: pthread_cond_wait releases g_mutex.
Sleep(w) ==
  /\ Goto(w, "loop", "waiting")
  /\ queue = <<>>
  /\ running
  /\ UNCHANGED <<backlog, stats, poolVars, job,
                 connLock, outcome, expired, history>>

\* Top of the loop, nothing queued and the pool is being stopped.
Exit_Early(w) ==
  /\ Goto(w, "loop", "exited")
  /\ ~running
  /\ UNCHANGED <<backlog, stats, poolVars, job, connLock, outcome, expired, history>>
Exit(w) ==
  /\ Goto(w, "loop", "exited")
  /\ queue = <<>>
  /\ ~running
  /\ UNCHANGED <<backlog, stats, poolVars, job,
                 connLock, outcome, expired, history>>

\* pthread_cond_wait may return without a signal.
SpuriousWakeup(w) ==
  /\ Goto(w, "waiting", "loop")
  /\ UNCHANGED <<backlog, stats, poolVars, job,
                 connLock, outcome, expired, history>>

\* waited > timeout_ms: answer -7 without running the call.
TimeOut(w) ==
  /\ Goto(w, "taken", "respond")
  /\ job[w] \in expired
  /\ outcome' = [outcome EXCEPT ![job[w]] = "timeout"]
  /\ UNCHANGED <<backlog, stats, poolVars, job, connLock, expired, history>>

\* In time: resolve the library path, then go for the connection's lock.
PassDeadline(w) ==
  /\ Goto(w, "taken", "lockwait")
  /\ job[w] \notin expired
  /\ UNCHANGED <<backlog, stats, poolVars, job,
                 connLock, outcome, expired, history>>

MutexFree_Ignored(s) == TRUE
MutexFree(s) == connLock[s] = None

LockConn(w) ==
  /\ Goto(w, "lockwait", "exec")
  /\ MutexFree(SlotOf(job[w]))
  /\ connLock' = [connLock EXCEPT ![SlotOf(job[w])] = w]
  /\ UNCHANGED <<backlog, stats, poolVars, job, outcome, expired, history>>

\* g_exec returned (the plugin's rc is 0 or not) and the lock is released.
ExecReturn(w, result) ==
  /\ Goto(w, "exec", "respond")
  /\ outcome' = [outcome EXCEPT ![job[w]] = result]
  /\ connLock' = [connLock EXCEPT ![SlotOf(job[w])] = None]
  /\ UNCHANGED <<backlog, stats, poolVars, job, expired, history>>

\* g_done_tail->next = d.
Pushed_Overwrites(j) == <<j>>
Pushed(j) == Append(doneList, j)

PushDone(w) ==
  /\ Goto(w, "respond", "record")
  /\ doneList' = Pushed(job[w])
  /\ UNCHANGED <<queue, queueLen, connPending, stats, poolVars, job, connLock,
                 outcome, expired, history>>

\* push_done could not allocate its list node: the response is freed, and the
\* call is recorded all the same.
PushDoneNoMemory(w) ==
  /\ AllocFails
  /\ Goto(w, "respond", "record")
  /\ dropped' = dropped \cup {job[w]}
  /\ UNCHANGED <<backlog, stats, poolVars, job,
                 connLock, outcome, expired, submitted, refused, delivered>>

\* ws_call_build_ok/_error left resp.json NULL: no response and no record.
BuildNoMemory_Leaks(w) ==
  /\ AllocFails
  /\ Goto(w, "respond", "loop")
  /\ dropped' = dropped \cup {job[w]}
  /\ job' = [job EXCEPT ![w] = None]
  /\ UNCHANGED <<backlog, stats, poolVars, connLock, outcome, expired, submitted, refused, delivered>>
BuildNoMemory(w) ==
  /\ AllocFails
  /\ Goto(w, "respond", "release")
  /\ dropped' = dropped \cup {job[w]}
  /\ UNCHANGED <<backlog, stats, poolVars, job,
                 connLock, outcome, expired, submitted, refused, delivered>>

CountFailed(st)  == [st EXCEPT !.failed = @ + 1]
CountTimeout_AndFailed(st) == [st EXCEPT !.timeouts = @ + 1, !.failed = @ + 1]
CountTimeout(st) == [st EXCEPT !.timeouts = @ + 1]

\* record_result, a critical section of its own after push_done.
RecordResult(w) ==
  /\ Goto(w, "record", "release")
  /\ stats' = CASE outcome[job[w]] = "ok" -> [stats EXCEPT !.ok = @ + 1]
                [] outcome[job[w]] = "timeout" -> CountTimeout(CountFailed(stats))
                [] OTHER -> CountFailed(stats)
  /\ UNCHANGED <<backlog, poolVars, job, connLock, outcome, expired, history>>

\* The last critical section of an iteration gives the pending place back.
Release(w) ==
  /\ Goto(w, "release", "loop")
  /\ connPending' = [connPending EXCEPT
                       ![SlotOf(job[w])] = IF @ > 0 THEN @ - 1 ELSE @]
  /\ job' = [job EXCEPT ![w] = None]
  /\ UNCHANGED <<queue, queueLen, doneList, stats, poolVars, connLock, outcome,
                 expired, history>>

WorkerStep(w) ==
  \/ Take(w) \/ Sleep(w) \/ Exit(w)
  \/ TimeOut(w) \/ PassDeadline(w) \/ LockConn(w)
  \/ \E result \in {"ok", "error"} : ExecReturn(w, result)
  \/ PushDone(w) \/ PushDoneNoMemory(w) \/ BuildNoMemory(w)
  \/ RecordResult(w) \/ Release(w)

\* Time: the deadline of a call that has not started yet goes by.
Expire(j) ==
  /\ j \in Timed \ expired
  /\ \/ j \in Range(queue)
     \/ \E w \in Workers : job[w] = j /\ pc[w] \in {"taken", "lockwait"}
  /\ expired' = expired \cup {j}
  /\ UNCHANGED <<backlog, stats, poolVars, pc, job, connLock, outcome, history>>

MainStep ==
  \/ \E created \in SUBSET Workers : WorkerInit(created)
  \/ \E j \in Jobs : SubmitAccept(j) \/ SubmitBusy(j) \/ SubmitNoMemory(j)
                     \/ SubmitNoPool(j)
  \/ Drain
  \/ BeginShutdown
  \/ FinishShutdown

Next ==
  \/ MainStep
  \/ \E w \in Workers : WorkerStep(w) \/ SpuriousWakeup(w)
  \/ \E j \in Jobs : Expire(j)

Spec == Init /\ [][Next]_vars

\* A thread that can run is eventually scheduled, a plugin function returns,
\* and main() drains once per turn of its loop.  Nothing obliges a client to
\* submit, the host to stop the pool, or a wakeup to be spurious.
Fairness ==
  /\ \A w \in Workers : WF_vars(WorkerStep(w))
  /\ WF_vars(Drain)
  /\ WF_vars(FinishShutdown)

FairSpec == Spec /\ Fairness

-----------------------------------------------------------------------------
(* Where a call can be.                                                    *)

Held       == {job[w] : w \in Workers} \ {None}
InPool     == Range(queue) \cup Held
SlotCalls(s) == {j \in InPool : SlotOf(j) = s}
Answered   == Range(doneList) \cup Range(delivered)

\* Taken by worker w, no response pushed yet.
Unanswered(w) == pc[w] \in {"taken", "lockwait", "exec", "respond"}

\* Accepted calls whose result record_result has not counted (yet).
Unrecorded == Range(queue) \cup {job[w] : w \in {v \in Workers :
                                   Unanswered(v) \/ pc[v] = "record"}}

Stats == [total : Nat, ok : Nat, failed : Nat, timeouts : Nat, busy : Nat]

\* Where a thread can be: not created; about to lock g_mutex at the top of the
\* loop; in pthread_cond_wait; call unlinked; at the connection lock; in the
\* plugin; response to push; result to count; place to give back; returned.
PcLabels == {"off", "loop", "waiting", "taken", "lockwait", "exec", "respond",
             "record", "release", "exited"}

TypeOK ==
  /\ queue \in Seq(Jobs)
  /\ queueLen \in Nat
  /\ doneList \in Seq(Jobs)
  /\ connPending \in [Slots -> Nat]
  /\ stats \in Stats
  /\ running \in BOOLEAN
  /\ inited \in BOOLEAN
  /\ threads \in SUBSET Workers
  /\ pc \in [Workers -> PcLabels]
  /\ job \in [Workers -> Jobs \cup {None}]
  /\ connLock \in [Slots -> Workers \cup {None}]
  /\ mainPc \in {"run", "join"}
  /\ submitted \in 0 .. MaxJobs
  /\ refused \in SUBSET Jobs
  /\ outcome \in [Jobs -> {"none", "ok", "error", "timeout"}]
  /\ expired \in SUBSET Jobs
  /\ delivered \in Seq(Jobs)
  /\ dropped \in SUBSET Jobs

-----------------------------------------------------------------------------
(* Safety.                                                                 *)

\* Two calls of one connection never run at the same time: the lock taken in
\* worker_loop is chosen by conn_id % WS_CONN_LOCKS.
SerialExec ==
  \A v, w \in Workers :
    /\ pc[v] = "exec"
    /\ pc[w] = "exec"
    /\ ConnOf[job[v]] = ConnOf[job[w]]
    => v = w

\* g_conn_pending[s] is the number of calls of slot s that are queued or held
\* by a worker, so the limit is neither leaked nor exceeded.
PendingExact ==
  \A s \in Slots :
    /\ connPending[s] = Cardinality(SlotCalls(s))
    /\ connPending[s] <= MaxPerConn

\* g_queue_len, kept by hand in three functions, is the length of the list and
\* stays within WS_WORKER_MAX_QUEUE.
QueueLenExact == queueLen = Len(queue) /\ queueLen <= MaxQueue

\* ws_worker_stats: a call counted in total is counted in ok or failed once it
\* is over, and is in the pool until then.  Only a call that got no response for
\* want of memory may be in neither.
StatsConserved ==
  LET counted == stats.ok + stats.failed + Cardinality(Unrecorded)
  IN  /\ stats.timeouts <= stats.failed
      /\ counted <= stats.total
      /\ stats.total <= counted + (IF AllocFails THEN Cardinality(dropped) ELSE 0)

\* An accepted call is queued, held by a worker, answered or dropped: none
\* disappears, whatever the order of pops, pushes, drains and shutdowns.
NoCallLost == Accepted = InPool \cup Answered \cup dropped

\* One response at most for a call, and none while the call is still queued or
\* being worked on: never two workers with one call, never two list nodes.
AnsweredOnce ==
  LET responses == doneList \o delivered
  IN  /\ \A i, k \in DOMAIN responses : responses[i] = responses[k] => i = k
      /\ \A j \in Answered \cup dropped :
           /\ j \notin Range(queue)
           /\ \A w \in Workers : Unanswered(w) => job[w] # j
      /\ Answered \cap dropped = {}
      /\ \A v, w \in Workers : job[v] = job[w] /\ job[v] # None => v = w

\* No call waits in the queue while a worker sleeps on g_cond, except for the
\* calls that an already woken worker is about to look at: a submission always
\* wakes enough threads, and a thread never falls asleep over a queued call.
NoIdleWhileWork ==
  Waiting # {} =>
    Len(queue) <= Cardinality(AtLoopTop)

\* Once g_running is cleared no worker is left in pthread_cond_wait, so the
\* joins of ws_worker_shutdown cannot hang on a sleeping thread.
ShutdownWakesAll == ~running => Waiting = {}

\* Calls are taken in the order they were submitted, whichever worker takes them
\* and whatever the limits refuse in between: none overtakes a queued one.
StartsInOrder ==
  \A j \in Range(queue), k \in Accepted : k > j => k \in Range(queue)

\* No thread blocks worker w: its next step in worker_loop can be taken.
CanGoOn(w) ==
  \/ pc[w] \in {"loop", "taken", "exec", "respond", "record", "release"}
  \/ pc[w] = "lockwait" /\ MutexFree(SlotOf(job[w]))

\* Sleeping threads, connection mutexes and joins never wait on each other:
\* while a call is queued or held, or ws_worker_shutdown is joining, some worker
\* can go on or the last join has returned.
NeverStuck ==
  queue # <<>> \/ Held # {} \/ mainPc = "join" =>
    \/ \E w \in Workers : CanGoOn(w)
    \/ mainPc = "join" /\ \A w \in threads : pc[w] = "exited"

\* The workers empty the queue before they exit: a call that shutdown frees
\* has been run or timed out, so its loop over g_head never finds one.
NoCallFreedUnrun == \A j \in dropped : outcome[j] # "none"

\* A call is run (or timed out) once: its outcome never changes afterwards,
\* and it does not become "timeout" for a call already running.
OutcomeFinal ==
  [][\A j \in Jobs :
       /\ outcome[j] # "none" => outcome'[j] = outcome[j]
       /\ (\E w \in Workers : pc[w] = "exec" /\ job[w] = j) =>
             outcome'[j] # "timeout"]_vars

-----------------------------------------------------------------------------
(* Liveness.                                                               *)

\* Every accepted call is answered to drain's callback, or dropped by a
\* shutdown (or for want of memory).
CallFinishes ==
  \A j \in Jobs : j \in Accepted ~> j \in Range(delivered) \cup dropped

\* ws_worker_shutdown returns, with calls queued or running when it starts.
ShutdownCompletes == mainPc = "join" ~> mainPc = "run" /\ ~inited

-----------------------------------------------------------------------------
(* What the project's notes say and the code does not do: see the README.  *)

\* "At most 16 pending calls per connection, beyond that -6": a call is refused
\* only when the queue is full or its own connection has MaxPerConn calls that
\* are not answered yet.
RefusedByOwnConnOnly ==
  [][\A j \in refused' \ refused :
       inited => \/ Len(queue) = MaxQueue
                 \/ Cardinality({k \in InPool : ConnOf[k] = ConnOf[j]})
                      >= MaxPerConn]_vars

\* "10 concurrent calls on one connection complete in order".
SameConnInOrder ==
  \A i, k \in DOMAIN delivered :
    ConnOf[delivered[i]] = ConnOf[delivered[k]] /\ i < k
      => delivered[i] < delivered[k]
=============================================================================
