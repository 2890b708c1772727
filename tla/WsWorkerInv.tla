---------------------------- MODULE WsWorkerInv ----------------------------
(***************************************************************************)
(* The inductive invariant of the worker pool: what has to be remembered   *)
(* about threads, calls and locks for the safety properties of WsWorker to *)
(* be preserved by every step.                                             *)
(***************************************************************************)
EXTENDS WsWorker

\* Worker w has a call from the moment it unlinks it until it gives the
\* pending place back.
Holding(w) == pc[w] \in {"taken", "lockwait", "exec", "respond", "record",
                         "release"}

\* Threads exist only in an initialised pool; g_running is cleared exactly by
\* a shutdown in progress; a thread sleeps only while it is set and exits only
\* after it was cleared.
PhaseInv ==
  /\ inited <=> threads # {}
  /\ running <=> (inited /\ mainPc = "run")
  /\ mainPc = "join" => inited
  /\ \A w \in Workers :
       /\ pc[w] = "off" <=> w \notin threads
       /\ pc[w] = "waiting" => running
       /\ pc[w] = "exited" => ~running /\ queue = <<>>

\* A worker's local job pointer is set exactly while it holds a call.
HoldInv == \A w \in Workers : job[w] # None <=> Holding(w)

\* A connection mutex is owned by the worker that executes a call of its slot.
LockInv ==
  /\ \A w \in Workers : pc[w] = "exec" => connLock[SlotOf(job[w])] = w
  /\ \A s \in Slots : connLock[s] # None =>
       /\ pc[connLock[s]] = "exec"
       /\ SlotOf(job[connLock[s]]) = s

\* Queued and held calls were submitted; a call is queued once, or held by one
\* worker and not queued any more.
OwnerInv ==
  /\ IsInjective(queue)
  /\ \A j \in Range(queue) : j <= submitted
  /\ \A w \in Workers : Holding(w) =>
       /\ job[w] <= submitted
       /\ job[w] \notin Range(queue)
       /\ \A v \in Workers : v # w => job[v] # job[w]

IInv ==
  /\ TypeOK
  /\ QueueLenExact
  /\ PhaseInv
  /\ HoldInv
  /\ LockInv
  /\ OwnerInv
  /\ PendingExact
  /\ NoIdleWhileWork

-----------------------------------------------------------------------------
(* The life of a call, on top of IInv.                                     *)

\* An accepted call is in one place: in the queue or with a worker that has not
\* pushed its response, or answered (fetched or not), or dropped; the worker
\* that still has to count or release it holds an answered or dropped one.
LifeInv ==
  /\ NoCallLost
  /\ refused \subseteq 1 .. submitted
  /\ ~inited => queue = <<>>
  /\ Answered \cap dropped = {}
  /\ IsInjective(doneList)
  /\ IsInjective(delivered)
  /\ Range(doneList) \cap Range(delivered) = {}
  /\ Range(queue) \cap (Answered \cup dropped) = {}
  /\ \A w \in Workers :
       /\ Unanswered(w) => job[w] \notin Answered \cup dropped
       /\ pc[w] \in {"record", "release"} => job[w] \in Answered \cup dropped

\* The outcome of a call is set when its plugin function returns or its deadline
\* is found to have passed, and not before.
OutcomeInv ==
  /\ \A j \in Jobs : j > submitted \/ j \in Range(queue) => outcome[j] = "none"
  /\ \A w \in Workers :
       /\ pc[w] \in {"taken", "lockwait", "exec"} => outcome[job[w]] = "none"
       /\ pc[w] \in {"respond", "record", "release"} => outcome[job[w]] # "none"
  /\ \A j \in Answered \cup dropped : outcome[j] # "none"

PoolInv == IInv /\ LifeInv /\ OutcomeInv /\ StatsConserved
=============================================================================
