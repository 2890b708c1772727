--------------------------- MODULE WsWorkerProofs ---------------------------
(***************************************************************************)
(* Safety of the worker pool for any number of calls, connections, worker  *)
(* threads and any limits.                                                 *)
(***************************************************************************)
EXTENDS WsWorkerInv, FiniteSetTheorems, SequenceTheorems, TLAPS

\* conn_id % WS_CONN_LOCKS is an index of g_conn_pending and g_conn_locks.
LEMMA SlotType == \A j \in Jobs : SlotOf(j) \in Slots
  BY SizeAssumption, JobAssumption, SMTT(30) DEF SlotOf, Slots

\* Unlinking the head of a list of calls leaves the rest, shifted by one.
LEMMA PopFacts ==
  ASSUME NEW q \in Seq(Jobs), q # <<>>
  PROVE  /\ Head(q) \in Jobs /\ Head(q) = q[1]
         /\ Tail(q) \in Seq(Jobs)
         /\ Len(Tail(q)) = Len(q) - 1
         /\ Len(q) \in Nat \ {0}
         /\ \A i \in 1 .. Len(Tail(q)) : Tail(q)[i] = q[i + 1]
  BY SMTT(30)

\* As a set, the list loses its head, which occurs nowhere else in it.
LEMMA PopRange ==
  ASSUME NEW q \in Seq(Jobs), q # <<>>, IsInjective(q)
  PROVE  /\ Range(q) = Range(Tail(q)) \cup {Head(q)}
         /\ Head(q) \notin Range(Tail(q))
         /\ IsInjective(Tail(q))
<1>1. /\ DOMAIN q = 1 .. Len(q) /\ DOMAIN Tail(q) = 1 .. Len(Tail(q))
      /\ Len(q) \in Nat \ {0} /\ Len(Tail(q)) = Len(q) - 1
      /\ Head(q) = q[1]
      /\ \A i \in 1 .. Len(Tail(q)) : Tail(q)[i] = q[i + 1]
  BY PopFacts, LenProperties
<1>2. \A i \in 1 .. Len(q) : i = 1 \/ (i - 1 \in 1 .. Len(Tail(q)) /\ q[i] = Tail(q)[i - 1])
  BY <1>1
<1>3. Range(q) \subseteq Range(Tail(q)) \cup {Head(q)}
  <2> SUFFICES ASSUME NEW i \in 1 .. Len(q)
               PROVE  q[i] \in Range(Tail(q)) \cup {Head(q)}
    BY <1>1 DEF Range
  <2>1. CASE i = 1
    BY <2>1, <1>1
  <2>2. CASE i - 1 \in 1 .. Len(Tail(q)) /\ q[i] = Tail(q)[i - 1]
    BY <2>2, <1>1 DEF Range
  <2> QED
    BY <2>1, <2>2, <1>2
<1>4. \A i \in 1 .. Len(Tail(q)) : i + 1 \in 1 .. Len(q) /\ i + 1 # 1
  BY <1>1
<1>5. Range(Tail(q)) \cup {Head(q)} \subseteq Range(q)
  BY <1>1, <1>4 DEF Range
<1>6. Head(q) \notin Range(Tail(q))
  BY <1>1, <1>4 DEF Range, IsInjective
<1>7. IsInjective(Tail(q))
  <2> SUFFICES ASSUME NEW i \in 1 .. Len(Tail(q)), NEW k \in 1 .. Len(Tail(q)),
                      Tail(q)[i] = Tail(q)[k]
               PROVE  i = k
    BY <1>1 DEF IsInjective
  <2>1. q[i + 1] = q[k + 1] /\ i + 1 \in DOMAIN q /\ k + 1 \in DOMAIN q
    BY <1>1, <1>4
  <2>2. i + 1 = k + 1
    BY <2>1 DEF IsInjective
  <2> QED
    BY <2>2
<1> QED
  BY <1>3, <1>5, <1>6, <1>7

\* Appending a call adds it to the set, and a new call keeps the list injective.
LEMMA AppendRange ==
  ASSUME NEW q \in Seq(Jobs), NEW j \in Jobs
  PROVE  /\ Range(Append(q, j)) = Range(q) \cup {j}
         /\ IsInjective(q) /\ j \notin Range(q) => IsInjective(Append(q, j))
<1> DEFINE r == Append(q, j)
<1>1. /\ DOMAIN q = 1 .. Len(q) /\ DOMAIN r = 1 .. Len(q) + 1
      /\ Len(q) \in Nat /\ r[Len(q) + 1] = j
      /\ \A i \in 1 .. Len(q) : r[i] = q[i]
  BY AppendProperties, LenProperties
<1>2. \A i \in 1 .. Len(q) + 1 : i = Len(q) + 1 \/ i \in 1 .. Len(q)
  BY <1>1
<1>3. \A i \in 1 .. Len(q) : i \in 1 .. Len(q) + 1 /\ i # Len(q) + 1
  BY <1>1
<1>4. Len(q) + 1 \in 1 .. Len(q) + 1
  BY <1>1
<1> HIDE DEF r
<1>5. Range(r) = Range(q) \cup {j}
  BY <1>1, <1>2, <1>3, <1>4 DEF Range
<1>6. IsInjective(q) /\ j \notin Range(q) => IsInjective(r)
  BY <1>1, <1>2, <1>3 DEF Range, IsInjective
<1> QED
  BY <1>5, <1>6 DEF r

\* Counting one call keeps g_stats well typed.
LEMMA StatsBump ==
  ASSUME NEW st \in Stats
  PROVE  /\ [st EXCEPT !.total = @ + 1] \in Stats
         /\ [st EXCEPT !.busy = @ + 1] \in Stats
         /\ [st EXCEPT !.ok = @ + 1] \in Stats
         /\ CountFailed(st) \in Stats
         /\ CountTimeout(st) \in Stats
  BY DEF Stats, CountFailed, CountTimeout

\* The initial state has every part of the invariant.
LEMMA InitType == Init => TypeOK
<1> SUFFICES ASSUME Init PROVE TypeOK
  OBVIOUS
<1> USE SizeAssumption, ThreadAssumption DEF Init
<1>1. queue \in Seq(Jobs) /\ queueLen \in Nat /\ doneList \in Seq(Jobs) /\ delivered \in Seq(Jobs)
  OBVIOUS
<1>2. connPending \in [Slots -> Nat]
  OBVIOUS
<1>3. stats \in Stats
  BY DEF NoStats, Stats
<1>4. /\ running \in BOOLEAN /\ inited \in BOOLEAN /\ mainPc \in {"run", "join"}
      /\ threads \in SUBSET Workers
  OBVIOUS
<1>5. submitted \in 0 .. MaxJobs
  OBVIOUS
<1>6. /\ job \in [Workers -> Jobs \cup {None}] 
      /\ connLock \in [Slots -> Workers \cup {None}]
  OBVIOUS
<1>7. pc \in [Workers -> PcLabels]
  BY DEF PcLabels
<1> QED BY ONLY <1>1, <1>2, <1>3, <1>4, <1>5, <1>6, <1>7, Init DEF TypeOK, Init

\* g_queue_len > 0 whenever the list is not empty, so Take keeps it a number.
LEMMA TypeStep ==
  ASSUME TypeOK, QueueLenExact, HoldInv, [Next]_vars
  PROVE  TypeOK'
<1> USE SizeAssumption, ThreadAssumption DEF TypeOK, poolVars, history, backlog
<1>1. ASSUME NEW created \in SUBSET Workers, WorkerInit(created)
      PROVE  TypeOK'
  BY <1>1 DEF WorkerInit, NoStats, Stats, PcLabels
<1>2. ASSUME NEW j \in Jobs, SubmitAccept(j)
      PROVE  TypeOK'
  <2>1. stats' \in Stats
    BY <1>2, StatsBump DEF SubmitAccept, Enqueue
  <2>2. pc' \in [Workers -> PcLabels]
    <3>1. "loop" \in PcLabels
      BY DEF PcLabels
    <3>2. pc' = pc \/ \E w \in Workers : pc' = [pc EXCEPT ![w] = "loop"]
      BY <1>2 DEF SubmitAccept, SignalOne, Waiting
    <3> QED BY <3>1, <3>2
  <2>3. queue' \in Seq(Jobs) /\ queueLen' \in Nat /\ connPending' \in [Slots -> Nat]
    BY <1>2, SlotType DEF SubmitAccept, Enqueue
  <2>4. submitted' \in 0 .. MaxJobs
    BY <1>2 DEF SubmitAccept, Enqueue, Submitting, Jobs
  <2> QED
    BY <2>1, <2>2, <2>3, <2>4, <1>2 DEF SubmitAccept, Enqueue
<1>3. ASSUME NEW j \in Jobs, SubmitBusy(j)
      PROVE  TypeOK'
  <2>1. stats' \in Stats
    BY <1>3, StatsBump DEF SubmitBusy
  <2> QED
    BY <2>1, <1>3 DEF SubmitBusy, Submitting, Jobs
<1>4. ASSUME NEW j \in Jobs, SubmitNoMemory(j)
      PROVE  TypeOK'
  BY <1>4 DEF SubmitNoMemory, Submitting, Jobs
<1>5. ASSUME NEW j \in Jobs, SubmitNoPool(j)
      PROVE  TypeOK'
  BY <1>5 DEF SubmitNoPool, Submitting, Jobs, NoStats, Stats
<1>6. CASE Drain
  BY <1>6 DEF Drain, AfterDrain
<1>7. CASE BeginShutdown
  BY <1>7 DEF BeginShutdown, WakeAll, PcLabels
<1>8. CASE FinishShutdown
  <2>1. Range(queue) \subseteq Jobs /\ Range(doneList) \subseteq Jobs
    BY RangeOfSeq
  <2>2. dropped' \in SUBSET Jobs
    BY <2>1, <1>8 DEF FinishShutdown
  <2>3. queue' \in Seq(Jobs) /\ queueLen' \in Nat /\ doneList' \in Seq(Jobs)
    BY <1>8 DEF FinishShutdown
  <2>4. connPending' \in [Slots -> Nat] /\ pc' \in [Workers -> PcLabels]
    BY <1>8 DEF FinishShutdown, PcLabels
  <2> QED
    BY <2>2, <2>3, <2>4, <1>8 DEF FinishShutdown
<1>9. ASSUME NEW w \in Workers, Take(w)
      PROVE  TypeOK'
  BY <1>9, PopFacts DEF Take, AfterPop, Goto, QueueLenExact, PcLabels
<1>10. ASSUME NEW w \in Workers, Sleep(w) \/ Exit(w) \/ SpuriousWakeup(w)
       PROVE  TypeOK'
  BY <1>10 DEF Sleep, Exit, SpuriousWakeup, Goto, PcLabels
<1>11. ASSUME NEW w \in Workers, TimeOut(w) \/ PassDeadline(w)
       PROVE  TypeOK'
  BY <1>11 DEF TimeOut, PassDeadline, Goto, PcLabels
<1>12. ASSUME NEW w \in Workers, LockConn(w)
       PROVE  TypeOK'
  BY <1>12 DEF LockConn, MutexFree, Goto, PcLabels
<1>13. ASSUME NEW w \in Workers, NEW result \in {"ok", "error"}, ExecReturn(w, result)
       PROVE  TypeOK'
  BY <1>13 DEF ExecReturn, Goto, PcLabels
<1>14. ASSUME NEW w \in Workers, PushDone(w) \/ PushDoneNoMemory(w) \/ BuildNoMemory(w)
       PROVE  TypeOK'
  <2>1. job[w] \in Jobs
    BY <1>14 DEF PushDone, Pushed, PushDoneNoMemory, BuildNoMemory, Goto, HoldInv, Holding
  <2>2. dropped' \in SUBSET Jobs
    BY <2>1, <1>14 DEF PushDone, Pushed, PushDoneNoMemory, BuildNoMemory
  <2>4. doneList' \in Seq(Jobs)
    <3>1. CASE doneList' = doneList
      BY <3>1
    <3>2. CASE doneList' = Append(doneList, job[w])
      BY <3>2, <2>1, AppendProperties
    <3> QED
      BY <3>1, <3>2, <1>14 DEF PushDone, Pushed, PushDoneNoMemory, BuildNoMemory
  <2>3. pc' \in [Workers -> PcLabels]
    <3>1. \E l \in {"record", "release"} : pc' = [pc EXCEPT ![w] = l]
      BY <1>14, Zenon DEF PushDone, PushDoneNoMemory, BuildNoMemory, Goto
    <3> QED BY <3>1 DEF PcLabels
  <2> QED
    BY <2>2, <2>3, <2>4, <1>14 DEF PushDone, Pushed, PushDoneNoMemory, BuildNoMemory
<1>15. ASSUME NEW w \in Workers, RecordResult(w)
       PROVE  TypeOK'
  <2>1. stats' \in Stats
    BY <1>15, StatsBump DEF RecordResult
  <2> QED
    BY <2>1, <1>15 DEF RecordResult, Goto, PcLabels
<1>16. ASSUME NEW w \in Workers, Release(w)
       PROVE  TypeOK'
  <2>1. connPending' \in [Slots -> Nat]
    <3> DEFINE s == SlotOf(job[w])
               n == connPending[s]
    <3>1. connPending' = [connPending EXCEPT ![s] = IF n > 0 THEN n - 1 ELSE n]
      BY <1>16 DEF Release
    <3>2. s \in Slots => (IF n > 0 THEN n - 1 ELSE n) \in Nat
      OBVIOUS
    <3> HIDE DEF s, n
    <3> QED
      BY <3>1, <3>2
  <2>2. pc' \in [Workers -> PcLabels]
    BY <1>16 DEF Release, Goto, PcLabels
  <2>3. job' \in [Workers -> Jobs \cup {None}]
    BY <1>16 DEF Release
  <2> QED
    BY <2>1, <2>2, <2>3, <1>16 DEF Release
<1>17. ASSUME NEW j \in Jobs, Expire(j)
       PROVE  TypeOK'
  BY <1>17 DEF Expire
<1>18. CASE UNCHANGED vars
  BY <1>18 DEF vars
<1> QED
  BY <1>1, <1>2, <1>3, <1>4, <1>5, <1>6, <1>7, <1>8, <1>9, <1>10, <1>11, <1>12,
     <1>13, <1>14, <1>15, <1>16, <1>17, <1>18
  DEF Next, MainStep, WorkerStep

-----------------------------------------------------------------------------
\* submit, the pop of a worker and shutdown keep g_queue_len equal to the
\* length of the list, and submit checks the limit before it appends.
LEMMA QueueLenStep ==
  ASSUME TypeOK, QueueLenExact, [Next]_vars
  PROVE  QueueLenExact'
<1> USE SizeAssumption DEF TypeOK, QueueLenExact, backlog
<1>1. ASSUME NEW j \in Jobs, SubmitAccept(j)
      PROVE  QueueLenExact'
  BY <1>1 DEF SubmitAccept, Enqueue, HasRoom
<1>2. ASSUME NEW w \in Workers, Take(w)
      PROVE  QueueLenExact'
  BY <1>2, PopFacts DEF Take, AfterPop
<1>3. CASE FinishShutdown
  BY <1>3 DEF FinishShutdown
<1>4. CASE UNCHANGED <<queue, queueLen>>
  BY <1>4
<1> QED
  BY <1>1, <1>2, <1>3, <1>4
  DEF Next, MainStep, WorkerStep, vars, WorkerInit, SubmitBusy, SubmitNoMemory,
      SubmitNoPool, Drain, BeginShutdown, Sleep, Exit, SpuriousWakeup, TimeOut,
      PassDeadline, LockConn, ExecReturn, PushDone, PushDoneNoMemory,
      BuildNoMemory, RecordResult, Release, Expire

\* Threads are created and joined with the pool, sleep only while it runs and
\* return only once it is being stopped and nothing is queued.
LEMMA PhaseStep ==
  ASSUME TypeOK, PhaseInv, [Next]_vars
  PROVE  PhaseInv'
<1> USE DEF TypeOK, PhaseInv, poolVars, history, backlog
<1>1. ASSUME NEW created \in SUBSET Workers, WorkerInit(created)
      PROVE  PhaseInv'
  BY <1>1 DEF WorkerInit
<1>2. ASSUME NEW j \in Jobs, SubmitAccept(j)
      PROVE  PhaseInv'
  BY <1>2 DEF SubmitAccept, Enqueue, Submitting, SignalOne, Waiting
<1>3. ASSUME NEW j \in Jobs, SubmitBusy(j) \/ SubmitNoMemory(j) \/ SubmitNoPool(j)
      PROVE  PhaseInv'
  BY <1>3 DEF SubmitBusy, SubmitNoMemory, SubmitNoPool
<1>4. CASE Drain
  BY <1>4 DEF Drain, AfterDrain
<1>5. CASE BeginShutdown
  BY <1>5 DEF BeginShutdown, WakeAll
<1>6. CASE FinishShutdown
  BY <1>6 DEF FinishShutdown
<1>7. ASSUME NEW w \in Workers, Take(w)
      PROVE  PhaseInv'
  BY <1>7 DEF Take, AfterPop, Goto
<1>8. ASSUME NEW w \in Workers, Sleep(w) \/ Exit(w) \/ SpuriousWakeup(w)
      PROVE  PhaseInv'
  BY <1>8 DEF Sleep, Exit, SpuriousWakeup, Goto
<1>9. ASSUME NEW w \in Workers, TimeOut(w) \/ PassDeadline(w) \/ LockConn(w)
      PROVE  PhaseInv'
  BY <1>9 DEF TimeOut, PassDeadline, LockConn, MutexFree, Goto
<1>10. ASSUME NEW w \in Workers, NEW result \in {"ok", "error"}, ExecReturn(w, result)
       PROVE  PhaseInv'
  BY <1>10 DEF ExecReturn, Goto
<1>11. ASSUME NEW w \in Workers, PushDone(w) \/ PushDoneNoMemory(w) \/ BuildNoMemory(w)
       PROVE  PhaseInv'
  BY <1>11 DEF PushDone, Pushed, PushDoneNoMemory, BuildNoMemory, Goto
<1>12. ASSUME NEW w \in Workers, RecordResult(w) \/ Release(w)
       PROVE  PhaseInv'
  BY <1>12 DEF RecordResult, Release, Goto
<1>13. CASE UNCHANGED <<poolVars, pc, queue>>
  BY <1>13
<1> QED
  BY <1>1, <1>2, <1>3, <1>4, <1>5, <1>6, <1>7, <1>8, <1>9, <1>10, <1>11, <1>12, <1>13
  DEF Next, MainStep, WorkerStep, vars, Expire

\* A worker's call pointer is set by the pop and cleared by the release only.
LEMMA HoldStep ==
  ASSUME TypeOK, PhaseInv, HoldInv, [Next]_vars
  PROVE  HoldInv'
<1> USE ThreadAssumption DEF TypeOK, HoldInv, Holding, backlog
<1>1. ASSUME NEW created \in SUBSET Workers, WorkerInit(created)
      PROVE  HoldInv'
  BY <1>1 DEF WorkerInit, PhaseInv
<1>2. ASSUME NEW j \in Jobs, SubmitAccept(j)
      PROVE  HoldInv'
  BY <1>2 DEF SubmitAccept, Enqueue, SignalOne, Waiting
<1>3. CASE BeginShutdown
  BY <1>3 DEF BeginShutdown, WakeAll
<1>4. CASE FinishShutdown
  BY <1>4 DEF FinishShutdown, PhaseInv
<1>5. ASSUME NEW w \in Workers, Take(w)
      PROVE  HoldInv'
  BY <1>5, PopFacts DEF Take, AfterPop, Goto
<1>6. ASSUME NEW w \in Workers, Sleep(w) \/ Exit(w) \/ SpuriousWakeup(w)
      PROVE  HoldInv'
  <2>1. job' = job /\ pc[w] \in {"loop", "waiting"}
    BY <1>6, Zenon DEF Sleep, Exit, SpuriousWakeup, Goto
  <2>2. \E l \in {"loop", "waiting", "exited"} : pc' = [pc EXCEPT ![w] = l]
    BY <1>6, Zenon DEF Sleep, Exit, SpuriousWakeup, Goto
  <2> QED BY <2>1, <2>2
<1>7. ASSUME NEW w \in Workers, TimeOut(w) \/ PassDeadline(w) \/ LockConn(w)
      PROVE  HoldInv'
  BY <1>7 DEF TimeOut, PassDeadline, LockConn, MutexFree, Goto
<1>8. ASSUME NEW w \in Workers, NEW result \in {"ok", "error"}, ExecReturn(w, result)
      PROVE  HoldInv'
  BY <1>8 DEF ExecReturn, Goto
<1>9. ASSUME NEW w \in Workers, PushDone(w) \/ PushDoneNoMemory(w) \/ BuildNoMemory(w)
      PROVE  HoldInv'
  BY <1>9 DEF PushDone, Pushed, PushDoneNoMemory, BuildNoMemory, Goto
<1>10. ASSUME NEW w \in Workers, RecordResult(w)
       PROVE  HoldInv'
  BY <1>10 DEF RecordResult, Goto
<1>11. ASSUME NEW w \in Workers, Release(w)
       PROVE  HoldInv'
  BY <1>11 DEF Release, Goto
<1>12. CASE UNCHANGED <<pc, job>>
  BY <1>12
<1> QED
  BY <1>1, <1>2, <1>3, <1>4, <1>5, <1>6, <1>7, <1>8, <1>9, <1>10, <1>11, <1>12
  DEF Next, MainStep, WorkerStep, vars, Expire, Drain, AfterDrain, SubmitBusy,
      SubmitNoMemory, SubmitNoPool

\* A worker executes only while it owns the mutex of its call's slot, and an
\* owned mutex belongs to such a worker: LockConn waits for a free mutex and
\* ExecReturn frees the one it took.
LEMMA LockStep ==
  ASSUME TypeOK, PhaseInv, HoldInv, LockInv, [Next]_vars
  PROVE  LockInv'
<1> USE ThreadAssumption DEF TypeOK, LockInv
<1>1. ASSUME NEW created \in SUBSET Workers, WorkerInit(created)
      PROVE  LockInv'
  BY <1>1 DEF WorkerInit, PhaseInv
<1>2. ASSUME NEW j \in Jobs, SubmitAccept(j)
      PROVE  LockInv'
  BY <1>2 DEF SubmitAccept, Enqueue, SignalOne, Waiting
<1>3. CASE BeginShutdown
  BY <1>3 DEF BeginShutdown, WakeAll
<1>4. CASE FinishShutdown
  BY <1>4 DEF FinishShutdown, PhaseInv
<1>5. ASSUME NEW w \in Workers, Take(w)
      PROVE  LockInv'
  BY <1>5 DEF Take, AfterPop, Goto
<1>6. ASSUME NEW w \in Workers, Sleep(w) \/ Exit(w) \/ SpuriousWakeup(w)
      PROVE  LockInv'
  BY <1>6 DEF Sleep, Exit, SpuriousWakeup, Goto
<1>7. ASSUME NEW w \in Workers, TimeOut(w) \/ PassDeadline(w)
      PROVE  LockInv'
  BY <1>7 DEF TimeOut, PassDeadline, Goto
<1>8. ASSUME NEW w \in Workers, LockConn(w)
      PROVE  LockInv'
  <2>1. job[w] \in Jobs /\ SlotOf(job[w]) \in Slots
    BY <1>8, SlotType DEF LockConn, MutexFree, Goto, HoldInv, Holding
  <2> QED
    BY <1>8, <2>1, SMTT(30) DEF LockConn, MutexFree, Goto
<1>9. ASSUME NEW w \in Workers, NEW result \in {"ok", "error"}, ExecReturn(w, result)
      PROVE  LockInv'
  <2>1. job[w] \in Jobs /\ SlotOf(job[w]) \in Slots
    BY <1>9, SlotType DEF ExecReturn, Goto, HoldInv, Holding
  <2> QED
    BY <1>9, <2>1 DEF ExecReturn, Goto
<1>10. ASSUME NEW w \in Workers, PushDone(w) \/ PushDoneNoMemory(w) \/ BuildNoMemory(w)
       PROVE  LockInv'
  BY <1>10 DEF PushDone, Pushed, PushDoneNoMemory, BuildNoMemory, Goto
<1>11. ASSUME NEW w \in Workers, RecordResult(w)
       PROVE  LockInv'
  BY <1>11 DEF RecordResult, Goto
<1>13. ASSUME NEW w \in Workers, Release(w)
       PROVE  LockInv'
  <2>1. \A s \in Slots : connLock[s] # w
    BY <1>13 DEF Release, Goto
  <2>2. \A v \in Workers : v # w => pc'[v] = pc[v] /\ job'[v] = job[v]
    BY <1>13 DEF Release, Goto
  <2>3. pc'[w] = "loop" /\ connLock' = connLock
    BY <1>13 DEF Release, Goto
  <2> QED
    BY <2>1, <2>2, <2>3
<1>12. CASE UNCHANGED <<pc, job, connLock>>
  BY <1>12
<1> QED
  BY <1>1, <1>2, <1>3, <1>4, <1>5, <1>6, <1>7, <1>8, <1>9, <1>10, <1>11, <1>12,
     <1>13
  DEF Next, MainStep, WorkerStep, vars, Expire, Drain, AfterDrain, SubmitBusy,
      SubmitNoMemory, SubmitNoPool

\* What is at most the number of calls submitted still is after one more.
LEMMA NextNumber ==
  ASSUME NEW n \in Nat, NEW k \in Nat, k <= n
  PROVE  k <= n + 1 /\ k # n + 1
  OBVIOUS

\* Each call has one owner: submit appends a number above all others, the pop
\* moves the head of the queue to the worker, release lets go of it.
LEMMA OwnerStep ==
  ASSUME TypeOK, PhaseInv, HoldInv, OwnerInv, [Next]_vars
  PROVE  OwnerInv'
<1> USE ThreadAssumption DEF OwnerInv, backlog
<1>0. /\ queue \in Seq(Jobs) /\ Range(queue) \subseteq Jobs
      /\ submitted \in Nat /\ Jobs \subseteq Nat
      /\ job \in [Workers -> Jobs \cup {None}] /\ pc \in [Workers -> PcLabels]
      /\ \A w \in Workers : Holding(w) => job[w] \in Jobs
      /\ \A w \in Workers : ~Holding(w) => job[w] = None
  <2>1. Range(queue) \subseteq Jobs
    BY RangeOfSeq DEF TypeOK
  <2>2. submitted \in Nat /\ Jobs \subseteq Nat
    BY SizeAssumption DEF TypeOK, Jobs
  <2> QED
    BY <2>1, <2>2 DEF TypeOK, HoldInv
<1>1. ASSUME NEW created \in SUBSET Workers, WorkerInit(created)
      PROVE  OwnerInv'
  BY <1>1, <1>0 DEF WorkerInit, history, Holding
<1>2. ASSUME NEW j \in Jobs, SubmitAccept(j)
      PROVE  OwnerInv'
  <2>1. j = submitted + 1 /\ submitted' = j /\ job' = job /\ queue' = Append(queue, j)
    BY <1>2 DEF SubmitAccept, Enqueue, Submitting
  <2>2. \A w \in Workers : Holding(w)' <=> Holding(w)
    BY <1>2, <1>0 DEF SubmitAccept, Enqueue, SignalOne, Waiting, Holding
  <2>3. j \notin Range(queue)
    BY <2>1, <1>0
  <2>4. Range(queue') = Range(queue) \cup {j} /\ IsInjective(queue')
    BY <2>1, <2>3, <1>0, AppendRange
  <2>5. \A k \in Range(queue') : k <= submitted'
    <3>1. \A k \in Range(queue) : k <= submitted + 1
      BY <1>0, NextNumber
    <3>2. submitted + 1 <= submitted + 1
      BY <1>0
    <3> QED
      BY <2>1, <2>4, <3>1, <3>2
  <2>6. ASSUME NEW w \in Workers, Holding(w)'
        PROVE  /\ job'[w] <= submitted'
               /\ job'[w] \notin Range(queue')
               /\ \A v \in Workers : v # w => job'[v] # job'[w]
    <3>1. Holding(w) /\ job[w] \in Nat /\ job[w] <= submitted
      BY <2>2, <2>6, <1>0
    <3>2. job[w] # j /\ job[w] <= j
      BY <3>1, <2>1, <1>0
    <3> QED
      BY <3>1, <3>2, <2>1, <2>4
  <2> QED
    BY <2>4, <2>5, <2>6
<1>3. ASSUME NEW j \in Jobs, SubmitBusy(j) \/ SubmitNoMemory(j) \/ SubmitNoPool(j)
      PROVE  OwnerInv'
  <2>1. j = submitted + 1 /\ submitted' = j /\ UNCHANGED <<queue, job, pc>>
    BY <1>3 DEF SubmitBusy, SubmitNoMemory, SubmitNoPool, Submitting
  <2>2. \A k \in Range(queue) : k <= submitted'
    BY <2>1, <1>0, NextNumber
  <2>3. \A w \in Workers : Holding(w) => job[w] <= submitted'
    BY <2>1, <1>0, NextNumber
  <2> QED
    BY <2>1, <2>2, <2>3 DEF Holding
<1>4. CASE BeginShutdown
  BY <1>4, <1>0 DEF BeginShutdown, WakeAll, history, Holding
<1>5. CASE FinishShutdown
  BY <1>5 DEF FinishShutdown, Holding, Range, IsInjective
<1>6. ASSUME NEW w \in Workers, Take(w)
      PROVE  OwnerInv'
  <2>1. /\ job'[w] = Head(queue) /\ queue' = Tail(queue) /\ queue # <<>>
        /\ \A v \in Workers : v # w => job'[v] = job[v] /\ (Holding(v)' <=> Holding(v))
        /\ submitted' = submitted
    BY <1>6, <1>0 DEF Take, AfterPop, Goto, history, Holding
  <2>2. /\ Range(queue) = Range(queue') \cup {Head(queue)}
        /\ Head(queue) \notin Range(queue')
        /\ IsInjective(queue')
    BY <2>1, <1>0, PopRange
  <2>3. \A v \in Workers : job[v] # Head(queue)
    BY <2>2, <1>0
  <2> QED
    BY <2>1, <2>2, <2>3, <1>0
<1>7. ASSUME NEW w \in Workers, Release(w)
      PROVE  OwnerInv'
  <2>1. /\ job'[w] = None /\ UNCHANGED <<queue, submitted>> /\ ~Holding(w)'
        /\ \A v \in Workers : v # w => job'[v] = job[v] /\ (Holding(v)' <=> Holding(v))
    BY <1>7, <1>0 DEF Release, Goto, history, Holding
  <2> QED
    BY <2>1, <1>0
<1>8. ASSUME UNCHANGED <<queue, submitted, job>>,
             \A w \in Workers : Holding(w)' => Holding(w)
      PROVE  OwnerInv'
  BY <1>8
<1>9. ASSUME NEW w \in Workers, Sleep(w) \/ Exit(w) \/ SpuriousWakeup(w)
      PROVE  OwnerInv'
  BY <1>9, <1>8, <1>0 DEF Sleep, Exit, SpuriousWakeup, Goto, history, Holding
<1>10. ASSUME NEW w \in Workers, TimeOut(w) \/ PassDeadline(w) \/ LockConn(w)
       PROVE  OwnerInv'
  BY <1>10, <1>8, <1>0 DEF TimeOut, PassDeadline, LockConn, MutexFree, Goto, history, Holding
<1>11. ASSUME NEW w \in Workers, NEW result \in {"ok", "error"}, ExecReturn(w, result)
       PROVE  OwnerInv'
  BY <1>11, <1>8, <1>0 DEF ExecReturn, Goto, history, Holding
<1>12. ASSUME NEW w \in Workers,
              PushDone(w) \/ PushDoneNoMemory(w) \/ BuildNoMemory(w) \/ RecordResult(w)
       PROVE  OwnerInv'
  BY <1>12, <1>8, <1>0
  DEF PushDone, Pushed, PushDoneNoMemory, BuildNoMemory, RecordResult, Goto, history, Holding
<1>13. ASSUME UNCHANGED <<queue, submitted, job, pc>>
       PROVE  OwnerInv'
  BY <1>13, <1>8 DEF Holding
<1> QED
  BY <1>1, <1>2, <1>3, <1>4, <1>5, <1>6, <1>7, <1>9, <1>10, <1>11, <1>12, <1>13
  DEF Next, MainStep, WorkerStep, vars, Expire, Drain, AfterDrain, history

-----------------------------------------------------------------------------
\* A slot has finitely many calls: there are finitely many calls.
LEMMA InPoolFinite ==
  ASSUME TypeOK
  PROVE  /\ InPool \subseteq Jobs
         /\ \A s : IsFiniteSet(SlotCalls(s))
<1>1. Range(queue) \subseteq Jobs
  BY RangeOfSeq DEF TypeOK
<1>2. Held \subseteq Jobs
  BY DEF TypeOK, Held
<1>3. IsFiniteSet(Jobs)
  BY FS_Interval, SizeAssumption DEF Jobs
<1>4. \A s : SlotCalls(s) \subseteq Jobs
  BY <1>1, <1>2 DEF InPool, SlotCalls
<1> QED
  BY <1>1, <1>2, <1>3, <1>4, FS_Subset DEF InPool

\* How the pool's set of calls changes: one more by submit, the same when a
\* call moves from the queue to a worker, one less by release, none after
\* shutdown.
LEMMA InPoolStep ==
  ASSUME TypeOK, PhaseInv, HoldInv, OwnerInv
  PROVE  /\ \A j \in Jobs : SubmitAccept(j) => InPool' = InPool \cup {j} /\ j \notin InPool
         /\ \A w \in Workers : Take(w) => InPool' = InPool
         /\ \A w \in Workers : Release(w) => /\ job[w] \in InPool
                                             /\ InPool' = InPool \ {job[w]}
         /\ FinishShutdown => InPool' = {}
<1>0. /\ queue \in Seq(Jobs) /\ Range(queue) \subseteq Jobs
      /\ submitted \in Nat /\ Jobs \subseteq Nat /\ None \notin Jobs
      /\ job \in [Workers -> Jobs \cup {None}]
      /\ \A w \in Workers : Holding(w) <=> job[w] \in Jobs
  <2>1. Range(queue) \subseteq Jobs
    BY RangeOfSeq DEF TypeOK
  <2>2. submitted \in Nat /\ Jobs \subseteq Nat
    BY SizeAssumption DEF TypeOK, Jobs
  <2> QED
    BY <2>1, <2>2, ThreadAssumption DEF TypeOK, HoldInv
<1>1. ASSUME NEW j \in Jobs, SubmitAccept(j)
      PROVE  InPool' = InPool \cup {j} /\ j \notin InPool
  <2>1. j = submitted + 1 /\ job' = job /\ queue' = Append(queue, j)
    BY <1>1 DEF SubmitAccept, Enqueue, Submitting
  <2>2. Range(queue') = Range(queue) \cup {j} /\ Held' = Held
    BY <2>1, <1>0, AppendRange DEF Held
  <2>3. j \notin Range(queue)
    BY <2>1, <1>0, NextNumber DEF OwnerInv
  <2>4. \A w \in Workers : job[w] \in Jobs => job[w] # j
    BY <2>1, <1>0, NextNumber DEF OwnerInv
  <2>5. j \notin Held
    BY <2>4, <1>0 DEF Held
  <2> QED
    BY <2>2, <2>3, <2>5 DEF InPool
<1>2. ASSUME NEW w \in Workers, Take(w)
      PROVE  InPool' = InPool
  <2>1. /\ job' = [job EXCEPT ![w] = Head(queue)] /\ queue' = Tail(queue) /\ queue # <<>>
        /\ ~Holding(w)
    BY <1>2 DEF Take, AfterPop, Goto, Holding
  <2>2. Range(queue) = Range(queue') \cup {Head(queue)} /\ Head(queue) \in Jobs
    BY <2>1, <1>0, PopRange, PopFacts DEF OwnerInv
  <2>3. job[w] = None
    BY <2>1, <1>0
  <2>4. Held' = Held \cup {Head(queue)}
    BY <2>1, <2>2, <2>3, <1>0 DEF Held
  <2> QED
    BY <2>2, <2>4 DEF InPool
<1>3. ASSUME NEW w \in Workers, Release(w)
      PROVE  job[w] \in InPool /\ InPool' = InPool \ {job[w]}
  <2>1. /\ job' = [job EXCEPT ![w] = None] /\ queue' = queue /\ Holding(w)
    BY <1>3 DEF Release, Goto, Holding
  <2>2. /\ job[w] \in Jobs /\ job[w] \notin Range(queue)
        /\ \A v \in Workers : v # w => job[v] # job[w]
    BY <2>1, <1>0 DEF OwnerInv
  <2>3. Held' = Held \ {job[w]} /\ job[w] \in Held
    BY <2>1, <2>2, <1>0 DEF Held
  <2> QED
    BY <2>1, <2>2, <2>3 DEF InPool
<1>4. ASSUME FinishShutdown
      PROVE  InPool' = {}
  <2>1. \A w \in Workers : ~Holding(w)
    BY <1>4 DEF FinishShutdown, PhaseInv, Holding
  <2>2. Held' = {}
    BY <2>1, <1>0, <1>4 DEF FinishShutdown, Held
  <2>3. Range(queue') = {}
    BY <1>4 DEF FinishShutdown, Range
  <2> QED
    BY <2>2, <2>3 DEF InPool
<1> QED
  BY <1>1, <1>2, <1>3, <1>4

\* g_conn_pending[s] counts the calls of slot s that are queued or held: it is
\* raised with the append, lowered with the release, cleared by shutdown.
LEMMA PendingStep ==
  ASSUME TypeOK, PhaseInv, HoldInv, OwnerInv, PendingExact, [Next]_vars
  PROVE  PendingExact'
<1>1. ASSUME NEW j \in Jobs, SubmitAccept(j)
      PROVE  PendingExact'
  <2> SUFFICES ASSUME NEW s \in Slots
               PROVE  /\ connPending'[s] = Cardinality(SlotCalls(s)')
                      /\ connPending'[s] <= MaxPerConn
    BY DEF PendingExact
  <2>1. InPool' = InPool \cup {j} /\ j \notin InPool
    BY <1>1, InPoolStep
  <2>2. /\ connPending' = [connPending EXCEPT ![SlotOf(j)] = @ + 1]
        /\ connPending[SlotOf(j)] < MaxPerConn
    BY <1>1 DEF SubmitAccept, Enqueue, HasRoom
  <2>3. /\ connPending \in [Slots -> Nat] /\ IsFiniteSet(SlotCalls(s)) /\ MaxPerConn \in Nat
        /\ connPending[s] = Cardinality(SlotCalls(s)) /\ connPending[s] <= MaxPerConn
    BY InPoolFinite, SizeAssumption DEF TypeOK, PendingExact
  <2>4. CASE SlotOf(j) = s
    <3>1. SlotCalls(s)' = SlotCalls(s) \cup {j} /\ j \notin SlotCalls(s)
      BY <2>1, <2>4 DEF SlotCalls
    <3>2. Cardinality(SlotCalls(s)') = Cardinality(SlotCalls(s)) + 1
      BY <3>1, <2>3, FS_AddElement
    <3>3. connPending'[s] = connPending[s] + 1
      BY <2>2, <2>3, <2>4
    <3> QED
      BY <3>2, <3>3, <2>2, <2>3, <2>4
  <2>5. CASE SlotOf(j) # s
    <3>1. SlotCalls(s)' = SlotCalls(s)
      BY <2>1, <2>5 DEF SlotCalls
    <3>2. connPending'[s] = connPending[s]
      BY <2>2, <2>3, <2>5
    <3> QED
      BY <3>1, <3>2, <2>3
  <2> QED
    BY <2>4, <2>5
<1>2. ASSUME NEW w \in Workers, Release(w)
      PROVE  PendingExact'
  <2> SUFFICES ASSUME NEW s \in Slots
               PROVE  /\ connPending'[s] = Cardinality(SlotCalls(s)')
                      /\ connPending'[s] <= MaxPerConn
    BY DEF PendingExact
  <2> DEFINE j == job[w]
             n == connPending[SlotOf(j)]
  <2>1. InPool' = InPool \ {j} /\ j \in InPool
    BY <1>2, InPoolStep
  <2>2. connPending' = [connPending EXCEPT ![SlotOf(j)] = IF n > 0 THEN n - 1 ELSE n]
    BY <1>2 DEF Release
  <2>3. /\ connPending \in [Slots -> Nat] /\ IsFiniteSet(SlotCalls(s)) /\ MaxPerConn \in Nat
        /\ connPending[s] = Cardinality(SlotCalls(s)) /\ connPending[s] <= MaxPerConn
    BY InPoolFinite, SizeAssumption DEF TypeOK, PendingExact
  <2>4. CASE SlotOf(j) = s
    <3>1. SlotCalls(s)' = SlotCalls(s) \ {j} /\ j \in SlotCalls(s)
      BY <2>1, <2>4 DEF SlotCalls
    <3>2. Cardinality(SlotCalls(s)') = Cardinality(SlotCalls(s)) - 1
      BY <3>1, <2>3, FS_RemoveElement
    <3>3. Cardinality(SlotCalls(s)) # 0
      BY <3>1, <2>3, FS_EmptySet
    <3>4. n = connPending[s] /\ n \in Nat /\ n > 0
      BY <2>3, <2>4, <3>3
    <3> HIDE DEF n
    <3>5. connPending'[s] = connPending[s] - 1
      BY <2>2, <2>3, <2>4, <3>4
    <3> QED
      BY <3>2, <3>4, <3>5, <2>3
  <2>5. CASE SlotOf(j) # s
    <3>1. SlotCalls(s)' = SlotCalls(s)
      BY <2>1, <2>5 DEF SlotCalls
    <3> HIDE DEF n
    <3>2. connPending'[s] = connPending[s]
      BY <2>2, <2>3, <2>5
    <3> QED
      BY <3>1, <3>2, <2>3
  <2> QED
    BY <2>4, <2>5
<1>3. ASSUME FinishShutdown
      PROVE  PendingExact'
  <2>1. \A s : SlotCalls(s)' = {}
    BY <1>3, InPoolStep DEF SlotCalls
  <2>2. \A s \in Slots : connPending'[s] = 0
    BY <1>3 DEF FinishShutdown
  <2>3. Cardinality({}) = 0 /\ 0 <= MaxPerConn
    BY FS_EmptySet, SizeAssumption
  <2> QED
    BY <2>1, <2>2, <2>3 DEF PendingExact
<1>4. ASSUME InPool' = InPool, connPending' = connPending
      PROVE  PendingExact'
  BY <1>4 DEF PendingExact, SlotCalls
<1>5. ASSUME NEW w \in Workers, Take(w)
      PROVE  PendingExact'
  BY <1>4, <1>5, InPoolStep DEF Take, AfterPop
<1>6. ASSUME UNCHANGED <<queue, job, connPending>>
      PROVE  PendingExact'
  BY <1>4, <1>6 DEF InPool, Held
<1> QED
  BY <1>1, <1>2, <1>3, <1>5, <1>6
  DEF Next, MainStep, WorkerStep, vars, backlog, WorkerInit, SubmitBusy, SubmitNoMemory,
      SubmitNoPool, Drain, BeginShutdown, Sleep, Exit, SpuriousWakeup, TimeOut,
      PassDeadline, LockConn, ExecReturn, PushDone, PushDoneNoMemory,
      BuildNoMemory, RecordResult, Expire

\* While a thread sleeps, there are at least as many threads at the top of the
\* loop as calls in the queue: submit's signal turns a sleeper into one of
\* them, a pop takes one call and one thread away, and a thread goes to sleep
\* only over an empty queue.
LEMMA WakeStep ==
  ASSUME TypeOK, PhaseInv, HoldInv, NoIdleWhileWork, [Next]_vars
  PROVE  NoIdleWhileWork'
<1> USE DEF backlog
<1>0. /\ pc \in [Workers -> PcLabels] /\ queue \in Seq(Jobs) /\ Len(queue) \in Nat
      /\ IsFiniteSet(AtLoopTop) /\ Cardinality(AtLoopTop) \in Nat
      /\ \A S \in SUBSET Workers : IsFiniteSet(S) /\ Cardinality(S) \in Nat
  BY ThreadAssumption, FS_Subset, FS_CardinalityType DEF TypeOK, AtLoopTop
<1>1. ASSUME Waiting' = {}
      PROVE  NoIdleWhileWork'
  BY <1>1 DEF NoIdleWhileWork
<1>2. ASSUME queue' = queue, Waiting' \subseteq Waiting, AtLoopTop \subseteq AtLoopTop'
      PROVE  NoIdleWhileWork'
  <2>1. AtLoopTop' \subseteq Workers
    BY DEF AtLoopTop
  <2>2. IsFiniteSet(AtLoopTop') /\ Cardinality(AtLoopTop') \in Nat
    BY <2>1, <1>0
  <2>3. Cardinality(AtLoopTop) <= Cardinality(AtLoopTop')
    BY <1>2, <2>2, FS_Subset
  <2> QED
    BY <1>0, <1>2, <2>2, <2>3 DEF NoIdleWhileWork
<1>3. ASSUME NEW w \in Workers, NEW from \in PcLabels \ {"loop"},
             NEW to \in PcLabels \ {"waiting"}, Goto(w, from, to), queue' = queue
      PROVE  NoIdleWhileWork'
  BY <1>0, <1>2, <1>3 DEF Goto, Waiting, AtLoopTop
<1>4. ASSUME NEW created \in SUBSET Workers, WorkerInit(created)
      PROVE  NoIdleWhileWork'
  BY <1>1, <1>4 DEF WorkerInit, Waiting
<1>5. ASSUME NEW j \in Jobs, SubmitAccept(j)
      PROVE  NoIdleWhileWork'
  <2>1. CASE Waiting = {}
    BY <1>1, <2>1, <1>5 DEF SubmitAccept, Enqueue, SignalOne, Waiting
  <2>2. CASE Waiting # {}
    <3>1. PICK w \in Waiting : pc' = [pc EXCEPT ![w] = "loop"]
      BY <2>2, <1>5 DEF SubmitAccept, Enqueue, SignalOne
    <3>2. AtLoopTop' = AtLoopTop \cup {w} /\ w \notin AtLoopTop
      BY <3>1, <1>0 DEF AtLoopTop, Waiting
    <3>3. Cardinality(AtLoopTop') = Cardinality(AtLoopTop) + 1
      BY <3>2, <1>0, FS_AddElement
    <3>4. Len(queue') = Len(queue) + 1
      BY <1>0, <1>5 DEF SubmitAccept, Enqueue
    <3> QED
      BY <2>2, <3>3, <3>4, <1>0 DEF NoIdleWhileWork
  <2> QED
    BY <2>1, <2>2
<1>6. CASE BeginShutdown
  BY <1>1, <1>6, <1>0 DEF BeginShutdown, WakeAll, Waiting
<1>7. CASE FinishShutdown
  BY <1>1, <1>7 DEF FinishShutdown, Waiting
<1>8. ASSUME NEW w \in Workers, Take(w)
      PROVE  NoIdleWhileWork'
  <2>1. /\ AtLoopTop' = AtLoopTop \ {w} /\ w \in AtLoopTop
        /\ Waiting' = Waiting
    BY <1>8, <1>0 DEF Take, AfterPop, Goto, AtLoopTop, Waiting
  <2>2. Cardinality(AtLoopTop') = Cardinality(AtLoopTop) - 1
    BY <2>1, <1>0, FS_RemoveElement
  <2>3. Len(queue') = Len(queue) - 1
    BY <1>8, <1>0, PopFacts DEF Take, AfterPop
  <2> QED
    BY <2>1, <2>2, <2>3, <1>0 DEF NoIdleWhileWork
<1>9. ASSUME NEW w \in Workers, Sleep(w)
      PROVE  NoIdleWhileWork'
  <2>1. Len(queue') = 0
    BY <1>9 DEF Sleep
  <2>2. AtLoopTop' \subseteq Workers
    BY DEF AtLoopTop
  <2>3. Cardinality(AtLoopTop') \in Nat
    BY <2>2, <1>0
  <2> QED
    BY <2>1, <2>3 DEF NoIdleWhileWork
<1>10. ASSUME NEW w \in Workers, Exit(w)
       PROVE  NoIdleWhileWork'
  <2>1. Waiting = {}
    BY <1>10 DEF Exit, PhaseInv, Waiting
  <2> QED
    BY <1>1, <1>10, <2>1, <1>0 DEF Exit, Goto, Waiting
<1>11. ASSUME NEW w \in Workers, SpuriousWakeup(w) \/ Release(w)
       PROVE  NoIdleWhileWork'
  BY <1>3, <1>11 DEF SpuriousWakeup, Release, PcLabels
<1>12. ASSUME NEW w \in Workers, TimeOut(w) \/ PassDeadline(w) \/ LockConn(w)
       PROVE  NoIdleWhileWork'
  BY <1>3, <1>12 DEF TimeOut, PassDeadline, LockConn, MutexFree, PcLabels
<1>13. ASSUME NEW w \in Workers, NEW result \in {"ok", "error"}, ExecReturn(w, result)
       PROVE  NoIdleWhileWork'
  BY <1>3, <1>13 DEF ExecReturn, PcLabels
<1>14. ASSUME NEW w \in Workers,
              PushDone(w) \/ PushDoneNoMemory(w) \/ BuildNoMemory(w) \/ RecordResult(w)
       PROVE  NoIdleWhileWork'
  BY <1>3, <1>14 DEF PushDone, Pushed, PushDoneNoMemory, BuildNoMemory, RecordResult, PcLabels
<1>15. ASSUME UNCHANGED <<queue, pc>>
       PROVE  NoIdleWhileWork'
  BY <1>2, <1>15 DEF Waiting, AtLoopTop
<1> QED
  BY <1>4, <1>5, <1>6, <1>7, <1>8, <1>9, <1>10, <1>11, <1>12, <1>13, <1>14, <1>15
  DEF Next, MainStep, WorkerStep, vars, Expire, Drain, AfterDrain, SubmitBusy,
      SubmitNoMemory, SubmitNoPool

-----------------------------------------------------------------------------
\* Before ws_worker_init: no thread, no call, no mutex owned, all counters zero.
LEMMA InitIInv == Init => IInv
<1> SUFFICES ASSUME Init PROVE IInv
  OBVIOUS
<1>1. TypeOK
  BY InitType
<1>2. QueueLenExact
  BY SizeAssumption DEF Init, QueueLenExact
<1>3. PhaseInv /\ HoldInv /\ LockInv
  BY DEF Init, PhaseInv, HoldInv, LockInv, Holding
<1>4. OwnerInv
  BY DEF Init, OwnerInv, Holding, IsInjective, Range
<1>5. \A s : SlotCalls(s) = {}
  BY DEF Init, SlotCalls, InPool, Held, Range
<1>6. PendingExact
  <2>1. Cardinality({}) = 0 /\ 0 <= MaxPerConn
    BY FS_EmptySet, SizeAssumption
  <2> QED
    BY <1>5, <2>1 DEF Init, PendingExact
<1>7. NoIdleWhileWork
  BY DEF Init, NoIdleWhileWork, Waiting
<1> QED
  BY <1>1, <1>2, <1>3, <1>4, <1>6, <1>7 DEF IInv

\* Every critical section of ws_worker.c keeps the invariant, part by part.
LEMMA StepIInv == IInv /\ [Next]_vars => IInv'
  BY TypeStep, QueueLenStep, PhaseStep, HoldStep, LockStep, OwnerStep, PendingStep,
     WakeStep
  DEF IInv

\* The invariant of the pool, of which the theorems below are consequences.
THEOREM Invariance == Spec => []IInv
  BY InitIInv, StepIInv, PTL DEF Spec

\* Every variable of ws_worker.c keeps its type: no counter goes below zero, no
\* list node or job pointer is anything but a call.
THEOREM TypeCorrect == Spec => []TypeOK
<1>1. IInv => TypeOK
  BY DEF IInv
<1> QED
  BY <1>1, Invariance, PTL

\* g_queue_len is exact and never above WS_WORKER_MAX_QUEUE.
THEOREM QueueBounded == Spec => []QueueLenExact
<1>1. IInv => QueueLenExact
  BY DEF IInv
<1> QED
  BY <1>1, Invariance, PTL

\* Calls of one connection run one at a time: both would have to own the mutex
\* of the slot they share.
THEOREM Serialised == Spec => []SerialExec
<1>1. IInv => SerialExec
  BY DEF IInv, LockInv, SerialExec, SlotOf
<1> QED
  BY <1>1, Invariance, PTL

\* The per-slot limit of submit counts what is in the pool, for ever.
THEOREM PendingCounted == Spec => []PendingExact
<1>1. IInv => PendingExact
  BY DEF IInv
<1> QED
  BY <1>1, Invariance, PTL

\* No call waits for a sleeping thread: no wakeup is lost, whatever the number
\* of threads and the order in which they reach g_mutex.
THEOREM NoLostWakeup == Spec => []NoIdleWhileWork
<1>1. IInv => NoIdleWhileWork
  BY DEF IInv
<1> QED
  BY <1>1, Invariance, PTL

\* The joins of ws_worker_shutdown wait for no sleeping thread.
THEOREM ShutdownWakes == Spec => []ShutdownWakesAll
<1>1. IInv => ShutdownWakesAll
  BY DEF IInv, PhaseInv, ShutdownWakesAll, Waiting
<1> QED
  BY <1>1, Invariance, PTL
=============================================================================
