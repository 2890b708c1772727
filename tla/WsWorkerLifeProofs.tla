------------------------- MODULE WsWorkerLifeProofs -------------------------
(***************************************************************************)
(* The life of a call, for any number of calls, connections, worker        *)
(* threads and any limits: no call is lost, none is answered twice, the    *)
(* statistics add up, and the pool implements the call service.            *)
(***************************************************************************)
EXTENDS WsWorkerProofs, WsWorkerRefinement

\* Where calls can be, as sets of calls.
LEMMA Places ==
  ASSUME TypeOK, HoldInv
  PROVE  /\ queue \in Seq(Jobs) /\ doneList \in Seq(Jobs) /\ delivered \in Seq(Jobs)
         /\ Range(queue) \subseteq Jobs /\ Answered \subseteq Jobs /\ dropped \subseteq Jobs
         /\ Range(doneList) \subseteq Jobs /\ Range(delivered) \subseteq Jobs
         /\ submitted \in Nat /\ Jobs \subseteq Nat /\ None \notin Jobs
         /\ pc \in [Workers -> PcLabels] /\ job \in [Workers -> Jobs \cup {None}]
         /\ \A w \in Workers : Holding(w) <=> job[w] \in Jobs
<1>1. Range(queue) \subseteq Jobs /\ Range(doneList) \subseteq Jobs /\ Range(delivered) \subseteq Jobs
  BY RangeOfSeq DEF TypeOK
<1>2. submitted \in Nat /\ Jobs \subseteq Nat
  BY SizeAssumption DEF TypeOK, Jobs
<1> QED
  BY <1>1, <1>2, ThreadAssumption DEF TypeOK, HoldInv, Answered

\* drain appends the done list to the list of what was delivered.
LEMMA JoinList ==
  ASSUME NEW p \in Seq(Jobs), NEW q \in Seq(Jobs)
  PROVE  p \o q \in Seq(Jobs)
  BY ConcatProperties

\* Joining two lists of different calls.
LEMMA JoinRange ==
  ASSUME NEW p \in Seq(Jobs), NEW q \in Seq(Jobs), NEW r, r = p \o q
  PROVE  /\ Range(r) = Range(p) \cup Range(q)
         /\ IsInjective(p) /\ IsInjective(q) /\ Range(p) \cap Range(q) = {} => IsInjective(r)
<1>1. /\ DOMAIN p = 1 .. Len(p) /\ DOMAIN q = 1 .. Len(q) /\ DOMAIN r = 1 .. Len(p) + Len(q)
      /\ Len(p) \in Nat /\ Len(q) \in Nat
      /\ \A i \in 1 .. Len(p) : r[i] = p[i]
      /\ \A i \in 1 .. Len(q) : r[Len(p) + i] = q[i]
  BY ConcatProperties, LenProperties
<1>2. PICK m \in Nat, n \in Nat : m = Len(p) /\ n = Len(q)
  BY <1>1
<1>3. \A i \in 1 .. m + n : i \in 1 .. m \/ (i - m \in 1 .. n /\ r[i] = q[i - m])
  <2> SUFFICES ASSUME NEW i \in 1 .. m + n, i \notin 1 .. m
               PROVE  i - m \in 1 .. n /\ r[i] = q[i - m]
    OBVIOUS
  <2>1. i - m \in 1 .. n /\ m + (i - m) = i
    OBVIOUS
  <2> QED BY <1>1, <1>2, <2>1
<1>4. (\A i \in 1 .. m : i \in 1 .. m + n) /\ (\A i \in 1 .. n : m + i \in 1 .. m + n)
  OBVIOUS
<1>5. Range(r) = Range(p) \cup Range(q)
  <2>1. ASSUME NEW i \in 1 .. m + n PROVE r[i] \in Range(p) \cup Range(q)
    BY <1>1, <1>2, <1>3 DEF Range
  <2>2. ASSUME NEW i \in 1 .. m PROVE p[i] \in Range(r)
    BY <1>1, <1>2, <1>4 DEF Range
  <2>3. ASSUME NEW i \in 1 .. n PROVE q[i] \in Range(r)
    BY <1>1, <1>2, <1>4 DEF Range
  <2>4. DOMAIN p = 1 .. m /\ DOMAIN q = 1 .. n /\ DOMAIN r = 1 .. m + n
    BY <1>1, <1>2
  <2>5. Range(r) \subseteq Range(p) \cup Range(q)
    BY <2>1, <2>4 DEF Range
  <2>6. Range(p) \subseteq Range(r) /\ Range(q) \subseteq Range(r)
    BY <2>2, <2>3, <2>4 DEF Range
  <2> QED BY <2>5, <2>6, Zenon
<1>6. ASSUME IsInjective(p), IsInjective(q), Range(p) \cap Range(q) = {}
      PROVE  IsInjective(r)
  <2> SUFFICES ASSUME NEW i \in 1 .. m + n, NEW k \in 1 .. m + n, r[i] = r[k]
               PROVE  i = k
    BY <1>1, <1>2 DEF IsInjective
  <2>0. \A a \in 1 .. m, b \in 1 .. n : p[a] # q[b]
    BY <1>1, <1>2, <1>6 DEF Range
  <2>1. CASE i \in 1 .. m /\ k \in 1 .. m
    BY <1>1, <1>2, <1>6, <2>1 DEF IsInjective
  <2>2. CASE i \notin 1 .. m /\ k \notin 1 .. m
    <3>1. /\ i - m \in 1 .. n /\ k - m \in 1 .. n /\ q[i - m] = q[k - m]
      BY <1>3, <2>2
    <3>2. i - m = k - m
      BY <1>1, <1>2, <1>6, <3>1 DEF IsInjective
    <3> QED BY <3>2
  <2>3. CASE i \in 1 .. m /\ k \notin 1 .. m
    BY <1>1, <1>2, <1>3, <2>0, <2>3
  <2>4. CASE i \notin 1 .. m /\ k \in 1 .. m
    BY <1>1, <1>2, <1>3, <2>0, <2>4
  <2> QED BY <2>1, <2>2, <2>3, <2>4
<1> QED BY <1>5, <1>6

\* Steps that move no call and answer none.
LEMMA SameCalls ==
  ASSUME LifeInv, UNCHANGED <<queue, job, doneList, delivered, dropped, submitted, refused>>,
         ~inited' => queue = <<>>,
         \A w \in Workers :
           /\ Unanswered(w)' => Unanswered(w)
           /\ pc'[w] \in {"record", "release"} => pc[w] \in {"record", "release"}
  PROVE  LifeInv'
<1>1. Answered' = Answered /\ InPool' = InPool /\ Accepted' = Accepted
  BY DEF Answered, InPool, Held, Accepted
<1> QED BY <1>1 DEF LifeInv, NoCallLost

\* A refused call is new, and no other call is touched.
LEMMA RefuseStep ==
  ASSUME LifeInv, TypeOK, HoldInv, NEW j \in Jobs,
         SubmitBusy(j) \/ SubmitNoMemory(j) \/ SubmitNoPool(j)
  PROVE  LifeInv'
<1>1. /\ j = submitted + 1 /\ submitted' = j /\ refused' = refused \cup {j}
      /\ UNCHANGED <<queue, job, doneList, delivered, dropped, pc, inited>>
  BY DEF SubmitBusy, SubmitNoMemory, SubmitNoPool, Submitting, backlog, poolVars
<1>2. submitted \in Nat
  BY Places
<1>3. 1 .. submitted' = 1 .. submitted \cup {j} /\ j \notin 1 .. submitted
  BY <1>1, <1>2
<1>4. Answered' = Answered /\ InPool' = InPool
  BY <1>1 DEF Answered, InPool, Held
<1>5. Accepted' = Accepted
  BY <1>1, <1>3 DEF Accepted, LifeInv
<1> QED BY <1>1, <1>3, <1>4, <1>5 DEF LifeInv, NoCallLost, Unanswered

\* An accepted call is new too, and is in the queue only.
LEMMA AcceptStep ==
  ASSUME LifeInv, IInv, NEW j \in Jobs, SubmitAccept(j)
  PROVE  LifeInv'
<1>1. /\ j = submitted + 1 /\ submitted' = j /\ queue' = Append(queue, j)
      /\ UNCHANGED <<job, doneList, delivered, dropped, refused>> /\ inited /\ inited'
  BY DEF SubmitAccept, Submitting, Enqueue, poolVars
<1>2. submitted \in Nat /\ queue \in Seq(Jobs) /\ pc \in [Workers -> PcLabels]
  BY Places DEF IInv
<1>3. 1 .. submitted' = 1 .. submitted \cup {j} /\ j \notin 1 .. submitted
  BY <1>1, <1>2
<1>4. Answered' = Answered /\ InPool' = InPool \cup {j} /\ Range(queue') = Range(queue) \cup {j}
  BY <1>1, <1>2, InPoolStep, AppendRange DEF Answered, IInv
<1>5. Accepted' = Accepted \cup {j} /\ j \notin Accepted
  BY <1>1, <1>3 DEF Accepted, LifeInv
<1>6. j \notin Answered \cup dropped
  BY <1>5 DEF LifeInv, NoCallLost
<1>7. \A w \in Workers :
        /\ Unanswered(w)' => Unanswered(w)
        /\ pc'[w] \in {"record", "release"} => pc[w] \in {"record", "release"}
  BY <1>2 DEF SubmitAccept, SignalOne, Waiting, Unanswered
<1>8. NoCallLost'
  BY <1>1, <1>4, <1>5 DEF LifeInv, NoCallLost
<1>9. refused' \subseteq 1 .. submitted'
  BY <1>1, <1>3 DEF LifeInv
<1> QED BY <1>1, <1>4, <1>6, <1>7, <1>8, <1>9 DEF LifeInv

\* Draining moves responses from the done list to the main thread.
LEMMA DrainStep ==
  ASSUME LifeInv, TypeOK, HoldInv, Drain
  PROVE  LifeInv'
<1>1. /\ delivered' = delivered \o doneList /\ doneList' = <<>>
      /\ UNCHANGED <<queue, job, dropped, submitted, refused, pc, inited>>
  BY DEF Drain, AfterDrain, poolVars
<1>2. Range(delivered') = Range(delivered) \cup Range(doneList) /\ IsInjective(delivered')
  <2>1. PICK p \in Seq(Jobs), q \in Seq(Jobs), r \in Seq(Jobs) :
          p = delivered /\ q = doneList /\ r = delivered' /\ r = p \o q
    BY <1>1, Places, JoinList
  <2>2. IsInjective(p) /\ IsInjective(q) /\ Range(p) \cap Range(q) = {}
    BY <2>1 DEF LifeInv
  <2>3. Range(r) = Range(p) \cup Range(q) /\ IsInjective(r)
    BY <2>1, <2>2, JoinRange
  <2> QED BY <2>1, <2>3
<1>3. Range(doneList') = {} /\ IsInjective(doneList')
  BY <1>1 DEF Range, IsInjective
<1>4. Answered' = Answered /\ InPool' = InPool /\ Accepted' = Accepted
  BY <1>1, <1>2, <1>3 DEF Answered, InPool, Held, Accepted
<1> QED BY <1>1, <1>2, <1>3, <1>4 DEF LifeInv, NoCallLost, Unanswered

\* Threads exit over an empty queue and without a call, so all that a shutdown
\* throws away are responses that nobody fetched.
LEMMA EmptyAtShutdown ==
  ASSUME IInv, FinishShutdown
  PROVE  queue = <<>> /\ InPool = {} /\ \A w \in Workers : ~ Holding(w) /\ pc'[w] = "off"
<1>1. \A w \in Workers : pc[w] \in {"exited", "off"}
  BY DEF FinishShutdown, IInv, PhaseInv
<1>2. queue = <<>>
  <2>1. PICK w \in threads : w \in Workers
    BY DEF FinishShutdown, IInv, PhaseInv, TypeOK
  <2>2. pc[w] = "exited"
    BY <2>1 DEF FinishShutdown
  <2> QED BY <2>1, <2>2 DEF IInv, PhaseInv
<1>3. \A w \in Workers : ~ Holding(w) /\ job[w] = None
  BY <1>1 DEF IInv, HoldInv, Holding
<1>4. Range(queue) = {} /\ Held = {}
  BY <1>2, <1>3 DEF Range, Held
<1>5. \A w \in Workers : pc'[w] = "off"
  BY DEF FinishShutdown
<1> QED BY <1>2, <1>3, <1>4, <1>5 DEF InPool

\* The end of a shutdown drops the responses nobody fetched.
LEMMA FinishStep ==
  ASSUME LifeInv, IInv, FinishShutdown
  PROVE  LifeInv'
<1>1. /\ dropped' = dropped \cup Range(queue) \cup Range(doneList)
      /\ queue' = <<>> /\ doneList' = <<>>
      /\ UNCHANGED <<delivered, submitted, refused>>
  BY DEF FinishShutdown
<1>2. Range(queue) = {} /\ Range(queue') = {} /\ Range(doneList') = {} /\ IsInjective(doneList')
  BY <1>1, EmptyAtShutdown DEF Range, IsInjective
<1>3. Answered' = Range(delivered) /\ dropped' = dropped \cup Range(doneList)
  BY <1>1, <1>2 DEF Answered
<1>4. InPool = {} /\ InPool' = {}
  BY EmptyAtShutdown, InPoolStep DEF IInv
<1>5. Accepted' = Accepted
  BY <1>1 DEF Accepted
<1>6. NoCallLost'
  BY <1>3, <1>4, <1>5 DEF LifeInv, NoCallLost, Answered
<1>7. (Answered \cap dropped = {})'
  BY <1>3 DEF LifeInv, Answered
<1>8. \A w \in Workers : pc'[w] = "off"
  BY EmptyAtShutdown
<1> QED BY <1>1, <1>2, <1>6, <1>7, <1>8 DEF LifeInv, Unanswered

\* Popping moves a call from the queue to a worker.
LEMMA TakeStep ==
  ASSUME LifeInv, IInv, NEW w \in Workers, Take(w)
  PROVE  LifeInv'
<1>1. /\ pc' = [pc EXCEPT ![w] = "taken"] /\ queue # <<>> /\ queue' = Tail(queue)
      /\ job' = [job EXCEPT ![w] = Head(queue)]
      /\ UNCHANGED <<doneList, delivered, dropped, submitted, refused, inited>>
  BY DEF Take, Goto, AfterPop, poolVars, history
<1>2. Range(queue) = Range(queue') \cup {Head(queue)}
  BY <1>1, Places, PopRange DEF IInv, OwnerInv
<1>3. Answered' = Answered /\ Accepted' = Accepted /\ InPool' = InPool
  BY <1>1, InPoolStep DEF Answered, Accepted, IInv
<1>4. Head(queue) \notin Answered \cup dropped
  BY <1>2 DEF LifeInv
<1>5. \A v \in Workers :
        /\ Unanswered(v)' => job'[v] \notin Answered \cup dropped
        /\ pc'[v] \in {"record", "release"} => job'[v] \in Answered \cup dropped
  <2> SUFFICES ASSUME NEW v \in Workers
               PROVE  /\ Unanswered(v)' => job'[v] \notin Answered \cup dropped
                      /\ pc'[v] \in {"record", "release"} => job'[v] \in Answered \cup dropped
    OBVIOUS
  <2>1. CASE v = w
    BY <1>1, <1>4, <2>1, Places DEF IInv
  <2>2. CASE v # w
    BY <1>1, <2>2, Places DEF IInv, LifeInv, Unanswered
  <2> QED BY <2>1, <2>2
<1>6. NoCallLost'
  BY <1>1, <1>3 DEF LifeInv, NoCallLost
<1> QED BY <1>1, <1>2, <1>3, <1>5, <1>6 DEF LifeInv

\* A response is pushed, or lost: the call is answered or dropped from now on,
\* and was neither before.
LEMMA AnswerStep ==
  ASSUME LifeInv, IInv, NEW w \in Workers,
         PushDone(w) \/ PushDoneNoMemory(w) \/ BuildNoMemory(w)
  PROVE  /\ LifeInv'
         /\ job[w] \in Jobs /\ job[w] \in InPool /\ job[w] \notin Answered \cup dropped
         /\ \/ Range(doneList') = Range(doneList) \cup {job[w]} /\ dropped' = dropped
            \/ doneList' = doneList /\ dropped' = dropped \cup {job[w]}
<1>1. PICK j \in Jobs : j = job[w] /\ j \in InPool /\ j \notin Range(queue)
                        /\ j \notin Answered \cup dropped
                        /\ \A v \in Workers : v # w => job[v] # j
  <2>1. Holding(w) /\ Unanswered(w)
    BY DEF PushDone, PushDoneNoMemory, BuildNoMemory, Goto, Holding, Unanswered
  <2>2. job[w] \in Jobs /\ job[w] # None
    BY <2>1, Places DEF IInv
  <2> QED BY <2>1, <2>2 DEF IInv, OwnerInv, LifeInv, InPool, Held
<1>2. /\ UNCHANGED <<queue, job, delivered, submitted, refused, inited>>
      /\ \E to \in {"record", "release"} : pc' = [pc EXCEPT ![w] = to]
  BY DEF PushDone, PushDoneNoMemory, BuildNoMemory, Goto, backlog, poolVars, history
<1>3. \/ doneList' = Append(doneList, j) /\ dropped' = dropped
      \/ doneList' = doneList /\ dropped' = dropped \cup {j}
  BY <1>1 DEF PushDone, PushDoneNoMemory, BuildNoMemory, Pushed, backlog, history
<1>4. j \notin Range(doneList) /\ j \notin Range(delivered)
  BY <1>1 DEF Answered
<1>5. \/ Range(doneList') = Range(doneList) \cup {j} /\ dropped' = dropped
      \/ doneList' = doneList /\ dropped' = dropped \cup {j}
  BY <1>3, Places, AppendRange DEF IInv
<1>6. IsInjective(doneList')
  BY <1>3, <1>4, Places, AppendRange DEF IInv, LifeInv
<1>7. (Answered \cup dropped)' = Answered \cup dropped \cup {j}
  BY <1>2, <1>5 DEF Answered
<1>8. InPool' = InPool /\ Accepted' = Accepted
  BY <1>2 DEF InPool, Held, Accepted
<1>9. NoCallLost'
  BY <1>1, <1>7, <1>8 DEF LifeInv, NoCallLost
<1>10. /\ Answered' \cap dropped' = {} /\ Range(doneList') \cap Range(delivered') = {}
       /\ Range(queue') \cap (Answered \cup dropped)' = {}
  BY <1>1, <1>2, <1>4, <1>5, <1>7 DEF LifeInv, Answered
<1>11. \A v \in Workers :
         /\ Unanswered(v)' => job'[v] \notin (Answered \cup dropped)'
         /\ pc'[v] \in {"record", "release"} => job'[v] \in (Answered \cup dropped)'
  <2> SUFFICES ASSUME NEW v \in Workers
               PROVE  /\ Unanswered(v)' => job'[v] \notin (Answered \cup dropped)'
                      /\ pc'[v] \in {"record", "release"} =>
                           job'[v] \in (Answered \cup dropped)'
    OBVIOUS
  <2>1. CASE v = w
    BY <1>1, <1>2, <1>7, <2>1, Places DEF IInv, Unanswered
  <2>2. CASE v # w
    <3>1. pc'[v] = pc[v] /\ job'[v] = job[v] /\ job[v] # j
      BY <1>1, <1>2, <2>2, Places DEF IInv
    <3> QED BY <1>7, <3>1 DEF LifeInv, Unanswered
  <2> QED BY <2>1, <2>2
<1>12. LifeInv'
  BY <1>2, <1>6, <1>9, <1>10, <1>11 DEF LifeInv
<1> QED BY <1>1, <1>5, <1>12

\* A worker lets go of a call that is answered or dropped.
LEMMA ReleaseStep ==
  ASSUME LifeInv, IInv, NEW w \in Workers, Release(w)
  PROVE  LifeInv'
<1>1. /\ pc' = [pc EXCEPT ![w] = "loop"] /\ job' = [job EXCEPT ![w] = None]
      /\ pc[w] = "release"
      /\ UNCHANGED <<queue, doneList, delivered, dropped, submitted, refused, inited>>
  BY DEF Release, Goto, poolVars, history
<1>2. InPool' = InPool \ {job[w]} /\ Answered' = Answered /\ Accepted' = Accepted
  BY <1>1, InPoolStep DEF IInv, Answered, Accepted
<1>3. job[w] \in Answered \cup dropped
  BY <1>1 DEF LifeInv
<1>4. NoCallLost'
  <2>1. InPool \cup Answered \cup dropped = InPool' \cup Answered' \cup dropped'
    BY <1>1, <1>2, <1>3, InPoolStep DEF IInv
  <2> QED BY <1>2, <2>1 DEF LifeInv, NoCallLost
<1>5. \A v \in Workers :
        /\ Unanswered(v)' => Unanswered(v) /\ job'[v] = job[v]
        /\ pc'[v] \in {"record", "release"} =>
             pc[v] \in {"record", "release"} /\ job'[v] = job[v]
  BY <1>1, Places DEF IInv, Unanswered
<1> QED BY <1>1, <1>2, <1>4, <1>5 DEF LifeInv

\* Every step keeps each call in one place.
LEMMA LifeStep ==
  ASSUME LifeInv, IInv, [Next]_vars
  PROVE  LifeInv'
<1>0. TypeOK /\ HoldInv /\ pc \in [Workers -> PcLabels]
  BY Places DEF IInv
<1>1. ASSUME NEW created \in SUBSET Workers, WorkerInit(created)
      PROVE  LifeInv'
  <2>1. \A w \in Workers : pc'[w] \in {"loop", "off"} /\ queue = <<>>
    BY <1>1 DEF WorkerInit, LifeInv
  <2>2. queue = <<>>
    BY <1>1 DEF WorkerInit, LifeInv
  <2> QED BY <1>1, <2>1, <2>2, SameCalls DEF WorkerInit, backlog, history, Unanswered
<1>2. CASE BeginShutdown
  BY <1>0, <1>2, SameCalls DEF BeginShutdown, WakeAll, backlog, history, Unanswered, LifeInv
<1>3. ASSUME NEW w \in Workers, NEW from \in PcLabels, NEW to \in PcLabels,
             Goto(w, from, to),
             UNCHANGED <<queue, job, doneList, delivered, dropped, submitted, refused, inited>>,
             to \in {"taken", "lockwait", "exec", "respond"} =>
               from \in {"taken", "lockwait", "exec", "respond"},
             to \in {"record", "release"} => from \in {"record", "release"}
      PROVE  LifeInv'
  <2>1. \A v \in Workers :
          /\ Unanswered(v)' => Unanswered(v)
          /\ pc'[v] \in {"record", "release"} => pc[v] \in {"record", "release"}
    BY <1>0, <1>3 DEF Goto, Unanswered
  <2>2. ~inited' => queue = <<>>
    BY <1>3 DEF LifeInv
  <2> QED BY <1>3, <2>1, <2>2, SameCalls
<1>4. ASSUME NEW w \in Workers, Sleep(w) \/ Exit(w) \/ SpuriousWakeup(w)
      PROVE  LifeInv'
  BY <1>3, <1>4 DEF Sleep, Exit, SpuriousWakeup, PcLabels, backlog, poolVars, history
<1>5. ASSUME NEW w \in Workers, TimeOut(w) \/ PassDeadline(w)
      PROVE  LifeInv'
  BY <1>3, <1>5 DEF TimeOut, PassDeadline, PcLabels, backlog, poolVars, history
<1>6. ASSUME NEW w \in Workers, LockConn(w)
      PROVE  LifeInv'
  BY <1>3, <1>6 DEF LockConn, PcLabels, backlog, poolVars, history
<1>7. ASSUME NEW w \in Workers, NEW result \in {"ok", "error"}, ExecReturn(w, result)
      PROVE  LifeInv'
  BY <1>3, <1>7 DEF ExecReturn, PcLabels, backlog, poolVars, history
<1>8. ASSUME NEW w \in Workers, RecordResult(w)
      PROVE  LifeInv'
  BY <1>3, <1>8 DEF RecordResult, PcLabels, backlog, poolVars, history
<1>9. CASE (\E j \in Jobs : Expire(j)) \/ UNCHANGED vars
  BY <1>9, SameCalls DEF Expire, vars, backlog, poolVars, history, LifeInv, Unanswered
<1>10. ASSUME NEW w \in Workers, PushDone(w) \/ PushDoneNoMemory(w) \/ BuildNoMemory(w)
       PROVE  LifeInv'
  BY <1>10, AnswerStep
<1> QED
  BY <1>0, <1>1, <1>2, <1>4, <1>5, <1>6, <1>7, <1>8, <1>9, <1>10, RefuseStep, AcceptStep,
     DrainStep, FinishStep, TakeStep, ReleaseStep
  DEF Next, MainStep, WorkerStep

-----------------------------------------------------------------------------
(* Outcomes.                                                               *)

\* Steps that set no outcome: what is queued or beyond the last call only
\* shrinks, workers advance without leaving their side of the response.
LEMMA SameOutcomes ==
  ASSUME OutcomeInv, outcome' = outcome,
         \A j \in Jobs : j > submitted' \/ j \in Range(queue') =>
           j > submitted \/ j \in Range(queue),
         \A w \in Workers :
           /\ pc'[w] \in {"taken", "lockwait", "exec"} =>
                pc[w] \in {"taken", "lockwait", "exec"} /\ job'[w] = job[w]
           /\ pc'[w] \in {"respond", "record", "release"} =>
                pc[w] \in {"respond", "record", "release"} /\ job'[w] = job[w],
         (Answered \cup dropped)' \subseteq Answered \cup dropped
  PROVE  OutcomeInv'
  BY DEF OutcomeInv

\* The plugin function returned, or the deadline has passed.
LEMMA ResultStep ==
  ASSUME OutcomeInv, LifeInv, IInv, NEW w \in Workers,
         NEW result \in {"ok", "error", "timeout"},
         pc[w] \in {"taken", "exec"}, pc' = [pc EXCEPT ![w] = "respond"],
         outcome' = [outcome EXCEPT ![job[w]] = result],
         UNCHANGED <<queue, job, doneList, delivered, dropped, submitted>>
  PROVE  OutcomeInv'
<1>1. PICK j \in Jobs : j = job[w] /\ j \notin Range(queue) /\ j <= submitted
                        /\ j \notin Answered \cup dropped
                        /\ \A v \in Workers : v # w => job[v] # j
  <2>1. Holding(w) /\ Unanswered(w)
    BY DEF Holding, Unanswered
  <2>2. job[w] \in Jobs
    BY <2>1, Places DEF IInv
  <2> QED BY <2>1, <2>2 DEF IInv, OwnerInv, LifeInv
<1>2. outcome'[j] # "none" /\ \A k \in Jobs : k # j => outcome'[k] = outcome[k]
  BY <1>1 DEF IInv, TypeOK
<1>3. Answered' = Answered /\ Answered \cup dropped \subseteq Jobs
  BY Places DEF Answered, IInv
<1>4. \A k \in Jobs : k > submitted' \/ k \in Range(queue') => outcome'[k] = "none"
  <2>1. ~ (j > submitted)
    BY <1>1, Places DEF IInv
  <2> QED BY <1>1, <1>2, <2>1 DEF OutcomeInv
<1>5. \A v \in Workers :
        /\ pc'[v] \in {"taken", "lockwait", "exec"} => outcome'[job'[v]] = "none"
        /\ pc'[v] \in {"respond", "record", "release"} => outcome'[job'[v]] # "none"
  <2> SUFFICES ASSUME NEW v \in Workers
               PROVE  /\ pc'[v] \in {"taken", "lockwait", "exec"} => outcome'[job'[v]] = "none"
                      /\ pc'[v] \in {"respond", "record", "release"} =>
                           outcome'[job'[v]] # "none"
    OBVIOUS
  <2>1. CASE v = w
    BY <1>1, <1>2, <2>1, Places DEF IInv
  <2>2. CASE v # w
    <3>1. pc'[v] = pc[v] /\ job'[v] = job[v] /\ job[v] # j
      BY <1>1, <2>2, Places DEF IInv
    <3>2. Holding(v) => outcome'[job[v]] = outcome[job[v]]
      BY <1>2, <3>1, Places DEF IInv
    <3> QED BY <3>1, <3>2 DEF OutcomeInv, Holding
  <2> QED BY <2>1, <2>2
<1>6. \A k \in (Answered \cup dropped)' : outcome'[k] # "none"
  BY <1>1, <1>2, <1>3 DEF OutcomeInv
<1> QED BY <1>4, <1>5, <1>6 DEF OutcomeInv

\* Every step keeps outcomes with the calls that have run.
LEMMA OutcomeStep ==
  ASSUME OutcomeInv, LifeInv, IInv, [Next]_vars
  PROVE  OutcomeInv'
<1>0. TypeOK /\ HoldInv /\ pc \in [Workers -> PcLabels] /\ submitted \in Nat /\ Jobs \subseteq Nat
  BY Places DEF IInv
<1>1. ASSUME NEW created \in SUBSET Workers, WorkerInit(created)
      PROVE  OutcomeInv'
  BY <1>1, SameOutcomes DEF WorkerInit, backlog, history, Answered
<1>2. ASSUME NEW j \in Jobs, SubmitAccept(j)
      PROVE  OutcomeInv'
  <2>1. /\ j = submitted + 1 /\ submitted' = submitted + 1 /\ queue' = Append(queue, j)
        /\ UNCHANGED <<job, outcome, doneList, delivered, dropped>>
    BY <1>2 DEF SubmitAccept, Submitting, Enqueue
  <2>2. Range(queue') = Range(queue) \cup {j}
    BY <2>1, <1>0, Places, AppendRange
  <2>3. \A k \in Jobs : k > submitted' \/ k \in Range(queue') =>
          k > submitted \/ k \in Range(queue)
    BY <1>0, <2>1, <2>2
  <2>4. \A w \in Workers : pc'[w] = pc[w] \/ pc'[w] = "loop"
    BY <1>0, <1>2 DEF SubmitAccept, SignalOne, Waiting
  <2> QED BY <2>1, <2>3, <2>4, SameOutcomes DEF Answered
<1>3. ASSUME NEW j \in Jobs, SubmitBusy(j) \/ SubmitNoMemory(j) \/ SubmitNoPool(j)
      PROVE  OutcomeInv'
  <2>1. /\ submitted' = submitted + 1
        /\ UNCHANGED <<queue, job, pc, outcome, doneList, delivered, dropped>>
    BY <1>3 DEF SubmitBusy, SubmitNoMemory, SubmitNoPool, Submitting, backlog
  <2>2. \A k \in Jobs : k > submitted' => k > submitted
    BY <1>0, <2>1
  <2> QED BY <2>1, <2>2, SameOutcomes DEF Answered
<1>4. CASE Drain
  <2>1. (Answered \cup dropped)' = Answered \cup dropped
    <3>1. PICK p \in Seq(Jobs), q \in Seq(Jobs), r \in Seq(Jobs) :
            p = delivered /\ q = doneList /\ r = delivered' /\ r = p \o q
      BY <1>0, <1>4, Places, JoinList DEF Drain
    <3>2. Range(r) = Range(p) \cup Range(q)
      BY <3>1, JoinRange
    <3>3. Range(doneList') = {} /\ dropped' = dropped
      BY <1>4 DEF Drain, AfterDrain, Range
    <3> QED BY <3>1, <3>2, <3>3 DEF Answered
  <2> QED BY <1>4, <2>1, SameOutcomes DEF Drain, poolVars
<1>5. CASE BeginShutdown
  BY <1>0, <1>5, SameOutcomes DEF BeginShutdown, WakeAll, backlog, history, Answered
<1>6. CASE FinishShutdown
  <2>1. /\ dropped' = dropped \cup Range(queue) \cup Range(doneList)
        /\ queue' = <<>> /\ doneList' = <<>> /\ queue = <<>>
        /\ UNCHANGED <<delivered, submitted, outcome>>
    BY <1>6, EmptyAtShutdown DEF FinishShutdown
  <2>2. (Answered \cup dropped)' \subseteq Answered \cup dropped
    BY <2>1 DEF Answered, Range
  <2>3. \A w \in Workers : pc'[w] = "off"
    BY <1>6, EmptyAtShutdown
  <2> QED BY <2>1, <2>2, <2>3, SameOutcomes
<1>7. ASSUME NEW w \in Workers, Take(w)
      PROVE  OutcomeInv'
  <2>1. /\ pc' = [pc EXCEPT ![w] = "taken"] /\ queue # <<>> /\ queue' = Tail(queue)
        /\ job' = [job EXCEPT ![w] = Head(queue)]
        /\ UNCHANGED <<doneList, delivered, dropped, submitted, outcome>>
    BY <1>7 DEF Take, Goto, AfterPop, history
  <2>2. Range(queue) = Range(queue') \cup {Head(queue)} /\ Head(queue) \in Jobs
    BY <2>1, Places, PopRange, PopFacts DEF IInv, OwnerInv
  <2>3. outcome[Head(queue)] = "none"
    BY <2>2 DEF OutcomeInv
  <2>4. \A v \in Workers :
          /\ pc'[v] \in {"taken", "lockwait", "exec"} => outcome[job'[v]] = "none"
          /\ pc'[v] \in {"respond", "record", "release"} => outcome[job'[v]] # "none"
    <3> SUFFICES ASSUME NEW v \in Workers
                 PROVE  /\ pc'[v] \in {"taken", "lockwait", "exec"} => outcome[job'[v]] = "none"
                        /\ pc'[v] \in {"respond", "record", "release"} =>
                             outcome[job'[v]] # "none"
      OBVIOUS
    <3>1. CASE v = w
      BY <1>0, <2>1, <2>3, <3>1 DEF TypeOK
    <3>2. CASE v # w
      BY <1>0, <2>1, <3>2 DEF TypeOK, OutcomeInv
    <3> QED BY <3>1, <3>2
  <2> QED BY <2>1, <2>2, <2>4 DEF OutcomeInv, Answered
<1>8. ASSUME NEW w \in Workers, Sleep(w) \/ Exit(w) \/ SpuriousWakeup(w)
      PROVE  OutcomeInv'
  BY <1>0, <1>8, SameOutcomes
  DEF Sleep, Exit, SpuriousWakeup, Goto, backlog, history, Answered
<1>9. ASSUME NEW w \in Workers, TimeOut(w)
      PROVE  OutcomeInv'
  BY <1>9, ResultStep DEF TimeOut, Goto, backlog, history
<1>10. ASSUME NEW w \in Workers, PassDeadline(w) \/ LockConn(w) \/ RecordResult(w)
       PROVE  OutcomeInv'
  BY <1>0, <1>10, SameOutcomes
  DEF PassDeadline, LockConn, RecordResult, Goto, backlog, history, Answered
<1>11. ASSUME NEW w \in Workers, NEW result \in {"ok", "error"}, ExecReturn(w, result)
       PROVE  OutcomeInv'
  BY <1>11, ResultStep DEF ExecReturn, Goto, backlog, history
<1>12. ASSUME NEW w \in Workers, PushDone(w) \/ PushDoneNoMemory(w) \/ BuildNoMemory(w)
       PROVE  OutcomeInv'
  <2>1. /\ UNCHANGED <<queue, job, delivered, submitted, outcome>> /\ pc[w] = "respond"
        /\ \E to \in {"record", "release"} : pc' = [pc EXCEPT ![w] = to]
    BY <1>12 DEF PushDone, PushDoneNoMemory, BuildNoMemory, Goto, backlog, poolVars, history
  <2>2. (Answered \cup dropped)' = Answered \cup dropped \cup {job[w]}
    BY <1>12, <2>1, AnswerStep DEF Answered
  <2>3. outcome[job[w]] # "none"
    BY <2>1 DEF OutcomeInv
  <2>4. \A v \in Workers :
          /\ pc'[v] \in {"taken", "lockwait", "exec"} => pc[v] = pc'[v]
          /\ pc'[v] \in {"respond", "record", "release"} =>
               pc[v] \in {"respond", "record", "release"}
    BY <1>0, <2>1
  <2> QED BY <2>1, <2>2, <2>3, <2>4 DEF OutcomeInv
<1>13. ASSUME NEW w \in Workers, Release(w)
       PROVE  OutcomeInv'
  <2>1. /\ pc' = [pc EXCEPT ![w] = "loop"] /\ job' = [job EXCEPT ![w] = None]
        /\ UNCHANGED <<queue, outcome, doneList, delivered, dropped, submitted>>
    BY <1>13 DEF Release, Goto, history
  <2>2. \A v \in Workers : pc'[v] = "loop" \/ (pc'[v] = pc[v] /\ job'[v] = job[v])
    BY <1>0, <2>1 DEF TypeOK
  <2> QED BY <2>1, <2>2, SameOutcomes DEF Answered
<1>14. CASE (\E j \in Jobs : Expire(j)) \/ UNCHANGED vars
  BY <1>14, SameOutcomes DEF Expire, vars, backlog, history, Answered
<1> QED
  BY <1>1, <1>2, <1>3, <1>4, <1>5, <1>6, <1>7, <1>8, <1>9, <1>10, <1>11, <1>12, <1>13, <1>14
  DEF Next, MainStep, WorkerStep

-----------------------------------------------------------------------------
(* Statistics.                                                             *)

\* Calls without a counted result are queued or with a worker before its record.
Counting(w) == pc[w] \in {"taken", "lockwait", "exec", "respond", "record"}

\* The calls still to be counted are finitely many.
LEMMA UnrecordedFacts ==
  ASSUME IInv
  PROVE  /\ Unrecorded = Range(queue) \cup {job[w] : w \in {v \in Workers : Counting(v)}}
         /\ Unrecorded \subseteq Jobs
         /\ IsFiniteSet(Unrecorded) /\ IsFiniteSet(dropped)
         /\ Cardinality(Unrecorded) \in Nat /\ Cardinality(dropped) \in Nat
<1>1. Unrecorded = Range(queue) \cup {job[w] : w \in {v \in Workers : Counting(v)}}
  BY DEF Unrecorded, Counting, Unanswered
<1>2. IsFiniteSet(Jobs)
  BY FS_Interval, SizeAssumption DEF Jobs
<1>3. Unrecorded \subseteq Jobs /\ dropped \subseteq Jobs
  BY <1>1, Places DEF IInv, Holding, Counting
<1> QED BY <1>1, <1>2, <1>3, FS_Subset, FS_CardinalityType

\* How the set changes: one more by submit, one less when a result is counted or
\* the response could not be built.
LEMMA UnrecordedStep ==
  ASSUME IInv
  PROVE  /\ \A j \in Jobs : SubmitAccept(j) =>
              Unrecorded' = Unrecorded \cup {j} /\ j \notin Unrecorded
         /\ \A w \in Workers : Take(w) => Unrecorded' = Unrecorded
         /\ \A w \in Workers : RecordResult(w) \/ BuildNoMemory(w) =>
              Unrecorded' = Unrecorded \ {job[w]} /\ job[w] \in Unrecorded
<1>0. /\ queue \in Seq(Jobs) /\ pc \in [Workers -> PcLabels]
      /\ job \in [Workers -> Jobs \cup {None}] /\ submitted \in Nat /\ Jobs \subseteq Nat
      /\ None \notin Jobs /\ \A w \in Workers : Holding(w) <=> job[w] \in Jobs
  BY Places DEF IInv
<1>1. ASSUME NEW j \in Jobs, SubmitAccept(j)
      PROVE  Unrecorded' = Unrecorded \cup {j} /\ j \notin Unrecorded
  <2>1. j = submitted + 1 /\ queue' = Append(queue, j) /\ job' = job
    BY <1>1 DEF SubmitAccept, Submitting, Enqueue
  <2>2. \A w \in Workers : Counting(w)' <=> Counting(w)
    BY <1>0, <1>1 DEF SubmitAccept, SignalOne, Waiting, Counting
  <2>3. Range(queue') = Range(queue) \cup {j}
    BY <1>0, <2>1, AppendRange
  <2>4. Unrecorded \subseteq InPool
    BY <1>0, UnrecordedFacts DEF InPool, Held, Counting, Holding
  <2>5. j \notin InPool
    BY <1>1, InPoolStep DEF IInv
  <2> QED BY <2>1, <2>2, <2>3, <2>4, <2>5 DEF Unrecorded, Counting, Unanswered
<1>2. ASSUME NEW w \in Workers, Take(w)
      PROVE  Unrecorded' = Unrecorded
  <2>1. /\ pc' = [pc EXCEPT ![w] = "taken"] /\ pc[w] = "loop"
        /\ queue # <<>> /\ queue' = Tail(queue)
        /\ job' = [job EXCEPT ![w] = Head(queue)]
    BY <1>2 DEF Take, Goto, AfterPop
  <2>2. Range(queue) = Range(queue') \cup {Head(queue)}
    BY <1>0, <2>1, PopRange DEF IInv, OwnerInv
  <2>3. \A v \in Workers : Counting(v)' <=> Counting(v) \/ v = w
    BY <1>0, <2>1 DEF Counting
  <2>4. \A v \in Workers : job'[v] = IF v = w THEN Head(queue) ELSE job[v]
    BY <1>0, <2>1
  <2>5. {job'[v] : v \in {u \in Workers : Counting(u)'}}
          = {job[v] : v \in {u \in Workers : Counting(u)}} \cup {Head(queue)}
    <3>1. ~ Counting(w)
      BY <2>1 DEF Counting
    <3> QED BY <2>3, <2>4, <3>1
  <2> QED BY <2>2, <2>5 DEF Unrecorded, Counting, Unanswered
<1>3. ASSUME NEW w \in Workers, RecordResult(w) \/ BuildNoMemory(w)
      PROVE  Unrecorded' = Unrecorded \ {job[w]} /\ job[w] \in Unrecorded
  <2>1. /\ pc' = [pc EXCEPT ![w] = "release"] /\ UNCHANGED <<queue, job>>
        /\ Counting(w) /\ Holding(w)
    BY <1>3 DEF RecordResult, BuildNoMemory, Goto, backlog, Counting, Holding
  <2>2. \A v \in Workers : Counting(v)' <=> Counting(v) /\ v # w
    BY <1>0, <2>1 DEF Counting
  <2>3. job[w] \notin Range(queue) /\ \A v \in Workers : v # w => job[v] # job[w]
    BY <2>1 DEF IInv, OwnerInv
  <2> QED BY <2>1, <2>2, <2>3 DEF Unrecorded, Counting, Unanswered
<1> QED BY <1>1, <1>2, <1>3

\* The balance of g_stats: what a step adds on one side it adds on the other.
Balanced(st, n, lost) ==
  /\ st.timeouts <= st.failed
  /\ st.ok + st.failed + n <= st.total
  /\ st.total <= st.ok + st.failed + n + lost

Lost == IF AllocFails THEN Cardinality(dropped) ELSE 0

\* The ways in which a step may move the balance.
LEMMA BalanceFacts ==
  ASSUME NEW st \in Stats, NEW n \in Nat, NEW lost \in Nat, Balanced(st, n, lost)
  PROVE  /\ Balanced([st EXCEPT !.total = @ + 1], n + 1, lost)
         /\ Balanced([st EXCEPT !.busy = @ + 1], n, lost)
         /\ \A m \in Nat : lost <= m => Balanced(st, n, m)
         /\ n > 0 => /\ Balanced([st EXCEPT !.ok = @ + 1], n - 1, lost)
                     /\ Balanced(CountFailed(st), n - 1, lost)
                     /\ Balanced(CountTimeout(CountFailed(st)), n - 1, lost)
                     /\ Balanced(st, n - 1, lost + 1)
  BY DEF Balanced, Stats, CountFailed, CountTimeout

\* Every step keeps the statistics balanced.
LEMMA StatsStep ==
  ASSUME StatsConserved, LifeInv, IInv, IInv', [Next]_vars
  PROVE  StatsConserved'
<1> DEFINE n == Cardinality(Unrecorded)
<1>0. /\ stats \in Stats /\ n \in Nat /\ n' \in Nat /\ Lost \in Nat /\ Lost' \in Nat
      /\ Balanced(stats, n, Lost)
  <2>1. Cardinality(dropped') \in Nat /\ Cardinality(Unrecorded') \in Nat
    <3>1. IsFiniteSet(Jobs)
      BY FS_Interval, SizeAssumption DEF Jobs
    <3>2. dropped' \subseteq Jobs
      BY DEF IInv, TypeOK
    <3>3. Unrecorded' \subseteq Jobs
      <4>1. queue' \in Seq(Jobs) /\ job' \in [Workers -> Jobs \cup {None}]
        BY DEF IInv, TypeOK
      <4>2. Range(queue') \subseteq Jobs
        BY <4>1, RangeOfSeq
      <4>3. \A w \in Workers : Counting(w)' => job'[w] \in Jobs
        BY <4>1 DEF IInv, HoldInv, Holding, Counting
      <4> QED BY <4>2, <4>3 DEF Unrecorded, Unanswered, Counting
    <3> QED BY <3>1, <3>2, <3>3, FS_Subset, FS_CardinalityType
  <2>2. stats \in Stats
    BY DEF IInv, TypeOK
  <2> QED BY <2>1, <2>2, UnrecordedFacts DEF StatsConserved, Balanced, Lost
<1>1. SUFFICES Balanced(stats', n', Lost')
  BY DEF StatsConserved, Balanced, Lost
<1> HIDE DEF n
<1>2. ASSUME NEW j \in Jobs, SubmitAccept(j)
      PROVE  Balanced(stats', n', Lost')
  <2>1. n' = n + 1
    BY <1>2, UnrecordedStep, UnrecordedFacts, FS_AddElement DEF n
  <2>2. stats' = [stats EXCEPT !.total = @ + 1] /\ Lost' = Lost
    BY <1>2 DEF SubmitAccept, Lost
  <2> QED BY <1>0, <2>1, <2>2, BalanceFacts
<1>3. ASSUME Unrecorded' = Unrecorded, dropped' = dropped,
             stats' = stats \/ stats' = [stats EXCEPT !.busy = @ + 1]
      PROVE  Balanced(stats', n', Lost')
  <2>1. n' = n /\ Lost' = Lost
    BY <1>3 DEF n, Lost
  <2> QED BY <1>0, <1>3, <2>1, BalanceFacts
<1>4. ASSUME UNCHANGED <<queue, job>>, \A w \in Workers : Counting(w)' <=> Counting(w)
      PROVE  Unrecorded' = Unrecorded
  BY <1>4 DEF Unrecorded, Unanswered, Counting
<1>5. ASSUME ~inited, stats' = NoStats, UNCHANGED <<queue, job, dropped>>,
             \A w \in Workers : pc'[w] \in {"off", "loop"}
      PROVE  Balanced(stats', n', Lost')
  <2>1. Unrecorded' = {}
    <3>1. Range(queue') = {}
      BY <1>5 DEF LifeInv, Range
    <3> QED BY <1>5, <3>1 DEF Unrecorded, Unanswered
  <2>2. n' = 0
    BY <2>1, FS_EmptySet DEF n
  <2>3. \A m \in Nat : Balanced(NoStats, 0, m)
    <3>1. NoStats.total = 0 /\ NoStats.ok = 0 /\ NoStats.failed = 0 /\ NoStats.timeouts = 0
      BY DEF NoStats
    <3> QED BY <3>1 DEF Balanced
  <2> QED BY <1>0, <1>5, <2>2, <2>3
<1>6. ASSUME NEW created \in SUBSET Workers, WorkerInit(created)
      PROVE  Balanced(stats', n', Lost')
  BY <1>5, <1>6 DEF WorkerInit, backlog, history
<1>7. ASSUME NEW j \in Jobs, SubmitNoPool(j)
      PROVE  Balanced(stats', n', Lost')
  <2>1. \A w \in Workers : pc'[w] = "off"
    BY <1>7 DEF SubmitNoPool, IInv, PhaseInv
  <2> QED BY <1>5, <1>7, <2>1 DEF SubmitNoPool, backlog
<1>8. ASSUME NEW j \in Jobs, SubmitBusy(j) \/ SubmitNoMemory(j)
      PROVE  Balanced(stats', n', Lost')
  BY <1>3, <1>4, <1>8 DEF SubmitBusy, SubmitNoMemory, backlog, Counting
<1>9. CASE FinishShutdown
  <2>1. Unrecorded' = {} /\ Unrecorded = {}
    <3>1. queue = <<>> /\ queue' = <<>> /\ \A w \in Workers : ~ Holding(w) /\ pc'[w] = "off"
      BY <1>9, EmptyAtShutdown DEF FinishShutdown
    <3>2. Range(queue) = {} /\ Range(queue') = {}
      BY <3>1 DEF Range
    <3> QED BY <3>1, <3>2 DEF Unrecorded, Unanswered, Holding
  <2>2. n' = n /\ stats' = stats
    BY <1>9, <2>1 DEF n, FinishShutdown
  <2>3. Lost <= Lost'
    <3>1. dropped \subseteq dropped' /\ dropped' \subseteq Jobs
      BY <1>9 DEF FinishShutdown, IInv, TypeOK
    <3>2. IsFiniteSet(dropped')
      <4>1. IsFiniteSet(Jobs)
        BY FS_Interval, SizeAssumption DEF Jobs
      <4> QED BY <3>1, <4>1, FS_Subset
    <3>3. Cardinality(dropped) <= Cardinality(dropped')
      BY <3>1, <3>2, FS_Subset
    <3> QED BY <3>3 DEF Lost
  <2> QED BY <1>0, <2>2, <2>3, BalanceFacts
<1>10. CASE Drain
  BY <1>3, <1>4, <1>10 DEF Drain, Counting
<1>11. CASE BeginShutdown
  BY <1>3, <1>4, <1>11 DEF BeginShutdown, WakeAll, backlog, history, Counting, IInv, TypeOK
<1>12. ASSUME NEW w \in Workers, Take(w)
       PROVE  Balanced(stats', n', Lost')
  BY <1>3, <1>12, UnrecordedStep DEF Take, history
<1>13. ASSUME NEW w \in Workers, Sleep(w) \/ Exit(w) \/ SpuriousWakeup(w) \/ Release(w)
       PROVE  Balanced(stats', n', Lost')
  <2>1. Unrecorded' = Unrecorded
    <3>1. /\ queue' = queue /\ ~ Counting(w) /\ ~ Counting(w)'
          /\ \A v \in Workers : v # w => pc'[v] = pc[v] /\ job'[v] = job[v]
      BY <1>13 DEF Sleep, Exit, SpuriousWakeup, Release, Goto, backlog, Counting, IInv, TypeOK
    <3> QED BY <3>1 DEF Unrecorded, Unanswered, Counting
  <2> QED BY <1>3, <1>13, <2>1 DEF Sleep, Exit, SpuriousWakeup, Release, backlog, history
<1>14. ASSUME NEW w \in Workers, TimeOut(w) \/ PassDeadline(w) \/ LockConn(w)
       PROVE  Balanced(stats', n', Lost')
  BY <1>3, <1>4, <1>14
  DEF TimeOut, PassDeadline, LockConn, Goto, backlog, history, Counting, IInv, TypeOK
<1>15. ASSUME NEW w \in Workers, NEW result \in {"ok", "error"}, ExecReturn(w, result)
       PROVE  Balanced(stats', n', Lost')
  BY <1>3, <1>4, <1>15 DEF ExecReturn, Goto, backlog, history, Counting, IInv, TypeOK
<1>16. ASSUME NEW w \in Workers, PushDone(w)
       PROVE  Balanced(stats', n', Lost')
  BY <1>3, <1>4, <1>16 DEF PushDone, Goto, history, Counting, IInv, TypeOK
<1>17. ASSUME NEW w \in Workers, PushDoneNoMemory(w) \/ BuildNoMemory(w)
       PROVE  Lost' = Lost + 1 /\ stats' = stats
  <2>1. /\ dropped' = dropped \cup {job[w]} /\ stats' = stats /\ AllocFails
        /\ job[w] \notin dropped
    BY <1>17, AnswerStep DEF PushDoneNoMemory, BuildNoMemory
  <2>2. Cardinality(dropped') = Cardinality(dropped) + 1
    BY <2>1, UnrecordedFacts, FS_AddElement
  <2> QED BY <2>1, <2>2 DEF Lost
<1>18. ASSUME NEW w \in Workers, PushDoneNoMemory(w)
       PROVE  Balanced(stats', n', Lost')
  <2>1. Unrecorded' = Unrecorded
    BY <1>4, <1>18 DEF PushDoneNoMemory, Goto, backlog, Counting, IInv, TypeOK
  <2>2. n' = n
    BY <2>1 DEF n
  <2>3. Lost <= Lost'
    BY <1>0, <1>17, <1>18
  <2> QED BY <1>0, <1>17, <1>18, <2>2, <2>3, BalanceFacts
<1>19. ASSUME NEW w \in Workers, RecordResult(w) \/ BuildNoMemory(w)
       PROVE  n' = n - 1 /\ n > 0
  <2>1. Unrecorded' = Unrecorded \ {job[w]} /\ job[w] \in Unrecorded
    BY <1>19, UnrecordedStep
  <2>2. Cardinality(Unrecorded') = Cardinality(Unrecorded) - 1
    BY <2>1, UnrecordedFacts, FS_RemoveElement
  <2> QED BY <1>0, <2>2 DEF n
<1>20. ASSUME NEW w \in Workers, BuildNoMemory(w)
       PROVE  Balanced(stats', n', Lost')
  BY <1>0, <1>17, <1>19, <1>20, BalanceFacts
<1>21. ASSUME NEW w \in Workers, RecordResult(w)
       PROVE  Balanced(stats', n', Lost')
  <2>1. /\ Lost' = Lost
        /\ \/ stats' = [stats EXCEPT !.ok = @ + 1]
           \/ stats' = CountTimeout(CountFailed(stats))
           \/ stats' = CountFailed(stats)
    BY <1>21 DEF RecordResult, history, Lost
  <2> QED BY <1>0, <1>19, <1>21, <2>1, BalanceFacts
<1>22. CASE (\E j \in Jobs : Expire(j)) \/ UNCHANGED vars
  BY <1>3, <1>4, <1>22 DEF Expire, vars, backlog, history, Counting
<1> QED
  BY <1>2, <1>6, <1>7, <1>8, <1>9, <1>10, <1>11, <1>12, <1>13, <1>14, <1>15, <1>16, <1>18,
     <1>20, <1>21, <1>22
  DEF Next, MainStep, WorkerStep

-----------------------------------------------------------------------------
(* The theorems.                                                           *)

\* A pool that was never started satisfies the invariant.
LEMMA InitPoolInv == Init => PoolInv
<1> SUFFICES ASSUME Init PROVE PoolInv
  OBVIOUS
<1>1. IInv
  BY InitIInv
<1>2. Range(queue) = {} /\ Range(doneList) = {} /\ Range(delivered) = {}
  BY DEF Init, Range
<1>3. Held = {} /\ 1 .. submitted = {}
  BY DEF Init, Held
<1>4. LifeInv
  <2>1. IsInjective(doneList) /\ IsInjective(delivered)
    BY DEF Init, IsInjective
  <2>2. NoCallLost
    BY <1>2, <1>3 DEF Init, NoCallLost, Accepted, InPool, Answered
  <2> QED BY <1>2, <2>1, <2>2 DEF Init, LifeInv, Answered, Unanswered
<1>5. OutcomeInv
  BY <1>2 DEF Init, OutcomeInv, Answered
<1>6. StatsConserved
  <2>1. Unrecorded = {}
    BY <1>2 DEF Init, Unrecorded, Unanswered
  <2>2. Cardinality(Unrecorded) = 0 /\ Cardinality(dropped) = 0
    BY <2>1, FS_EmptySet DEF Init
  <2>3. stats.ok = 0 /\ stats.failed = 0 /\ stats.total = 0 /\ stats.timeouts = 0
    BY DEF Init, NoStats
  <2> QED BY <2>2, <2>3 DEF StatsConserved
<1> QED BY <1>1, <1>4, <1>5, <1>6 DEF PoolInv

\* The invariant is inductive.
LEMMA StepPoolInv == PoolInv /\ [Next]_vars => PoolInv'
  BY StepIInv, LifeStep, OutcomeStep, StatsStep DEF PoolInv

\* The inductive invariant of the pool, with the life of every call in it.
THEOREM PoolInvariance == Spec => []PoolInv
  BY InitPoolInv, StepPoolInv, PTL DEF Spec

\* No pop, push, drain or shutdown makes an accepted call disappear.
THEOREM CallsKept == Spec => []NoCallLost
<1>1. PoolInv => NoCallLost
  BY DEF PoolInv, LifeInv
<1> QED
  BY <1>1, PoolInvariance, PTL

\* The five counters of ws_worker_stats agree with the calls of the pool.
THEOREM StatsBalance == Spec => []StatsConserved
<1>1. PoolInv => StatsConserved
  BY DEF PoolInv
<1> QED
  BY <1>1, PoolInvariance, PTL

\* Somebody can always go on: the mutex a worker waits for is held by one that
\* runs, queued calls have a thread awake, and the joins wait for no sleeper.
THEOREM PoolNeverStuck == Spec => []NeverStuck
<1>1. ASSUME PoolInv, queue # <<>> \/ Held # {} \/ mainPc = "join",
             \A w \in Workers : ~CanGoOn(w)
      PROVE  mainPc = "join" /\ \A w \in threads : pc[w] = "exited"
  <2>1. /\ TypeOK /\ PhaseInv /\ HoldInv /\ LockInv /\ NoIdleWhileWork
        /\ ~inited => queue = <<>>
    BY <1>1 DEF PoolInv, IInv, LifeInv
  <2>2. \A w \in Workers : pc[w] \in {"off", "waiting", "lockwait", "exited"}
    BY <1>1, <2>1 DEF CanGoOn, TypeOK, PcLabels
  <2>3. ASSUME NEW w \in Workers PROVE pc[w] # "lockwait"
    <3> SUFFICES ASSUME pc[w] = "lockwait" PROVE FALSE
      OBVIOUS
    <3>1. job[w] \in Jobs
      BY <2>1 DEF HoldInv, Holding, TypeOK
    <3>2. SlotOf(job[w]) \in Slots
      BY <3>1, SlotType
    <3>3. connLock[SlotOf(job[w])] \in Workers
      BY <1>1, <2>1, <3>2 DEF CanGoOn, MutexFree, TypeOK
    <3>4. pc[connLock[SlotOf(job[w])]] = "exec"
      BY <2>1, <3>2, <3>3, ThreadAssumption DEF LockInv
    <3> QED BY <2>2, <3>3, <3>4
  <2>4. Held = {}
    BY <2>1, <2>2, <2>3 DEF Held, HoldInv, Holding
  <2>5. AtLoopTop = {}
    BY <2>2 DEF AtLoopTop
  <2>6. ASSUME queue # <<>> PROVE FALSE
    <3>1. PICK w \in Workers : w \in threads
      BY <2>1, <2>6 DEF PhaseInv, TypeOK
    <3>2. pc[w] = "waiting"
      BY <2>1, <2>2, <2>3, <2>6, <3>1 DEF PhaseInv
    <3>3. Len(queue) <= 0
      BY <2>1, <2>5, <3>2, FS_EmptySet DEF NoIdleWhileWork, Waiting
    <3>4. queue \in Seq(Jobs)
      BY <2>1 DEF TypeOK
    <3> QED BY <2>6, <3>3, <3>4, LenProperties
  <2>7. mainPc = "join"
    BY <1>1, <2>4, <2>6
  <2>8. \A w \in threads : w \in Workers /\ pc[w] = "exited"
    BY <2>1, <2>2, <2>3, <2>7 DEF PhaseInv, TypeOK
  <2> QED BY <2>7, <2>8
<1>2. PoolInv => NeverStuck
  BY <1>1 DEF NeverStuck
<1> QED BY <1>2, PoolInvariance, PTL

\* The queue holds its calls in the order of their numbers.
Ascending(q) == \A i, k \in 1 .. Len(q) : i < k => q[i] < q[k]

OrderInv == Ascending(queue) /\ StartsInOrder

\* A call goes to the end of the queue, behind calls that were submitted before.
LEMMA OrderAccept ==
  ASSUME PoolInv, OrderInv, NEW j \in Jobs, SubmitAccept(j)
  PROVE  OrderInv'
<1>1. /\ j = submitted + 1 /\ submitted' = j /\ queue' = Append(queue, j) /\ refused' = refused
  BY DEF SubmitAccept, Submitting, Enqueue
<1>2. /\ queue \in Seq(Jobs) /\ submitted \in Nat /\ Jobs \subseteq Nat
      /\ \A k \in Range(queue) : k <= submitted
  BY Places DEF PoolInv, IInv, OwnerInv
<1>3. /\ Len(queue') = Len(queue) + 1 /\ Len(queue) \in Nat /\ queue'[Len(queue) + 1] = j
      /\ \A i \in 1 .. Len(queue) : queue'[i] = queue[i] /\ queue[i] \in Range(queue)
  BY <1>1, <1>2, AppendProperties, LenProperties DEF Range
<1>4. Ascending(queue')
  <2> SUFFICES ASSUME NEW i \in 1 .. Len(queue'), NEW k \in 1 .. Len(queue'), i < k
               PROVE  queue'[i] < queue'[k]
    BY DEF Ascending
  <2>1. i \in 1 .. Len(queue) /\ (k \in 1 .. Len(queue) \/ k = Len(queue) + 1)
    BY <1>3
  <2>2. queue'[i] = queue[i] /\ queue[i] <= submitted /\ queue[i] \in Nat
    BY <1>2, <1>3, <2>1, RangeOfSeq
  <2>3. CASE k = Len(queue) + 1
    BY <1>1, <1>2, <1>3, <2>2, <2>3
  <2>4. CASE k \in 1 .. Len(queue)
    BY <1>3, <2>1, <2>2, <2>4 DEF OrderInv, Ascending
  <2> QED BY <2>1, <2>3, <2>4
<1>5. Range(queue') = Range(queue) \cup {j} /\ Accepted' \subseteq Accepted \cup {j}
  BY <1>1, <1>2, AppendRange DEF Accepted
<1>6. StartsInOrder'
  <2> SUFFICES ASSUME NEW i \in Range(queue'), NEW k \in Accepted', k > i
               PROVE  k \in Range(queue')
    BY DEF StartsInOrder
  <2>1. CASE i = j
    BY <1>1, <1>2, <2>1 DEF Accepted
  <2>2. CASE i \in Range(queue)
    BY <1>5, <2>2 DEF OrderInv, StartsInOrder
  <2> QED BY <1>5, <2>1, <2>2
<1> QED BY <1>4, <1>6 DEF OrderInv

\* The call that is unlinked was submitted before all the others.
LEMMA OrderTake ==
  ASSUME PoolInv, OrderInv, NEW w \in Workers, Take(w)
  PROVE  OrderInv'
<1>1. queue # <<>> /\ queue' = Tail(queue) /\ Accepted' = Accepted
  BY DEF Take, AfterPop, history, Accepted
<1>2. queue \in Seq(Jobs) /\ Jobs \subseteq Nat /\ IsInjective(queue)
  BY Places DEF PoolInv, IInv, OwnerInv
<1>3. /\ Head(queue) = queue[1] /\ Len(queue') = Len(queue) - 1 /\ Len(queue) \in Nat \ {0}
      /\ \A i \in 1 .. Len(queue') : queue'[i] = queue[i + 1]
      /\ queue' \in Seq(Jobs)
  BY <1>1, <1>2, PopFacts
<1>4. Ascending(queue')
  <2> SUFFICES ASSUME NEW i \in 1 .. Len(queue'), NEW k \in 1 .. Len(queue'), i < k
               PROVE  queue'[i] < queue'[k]
    BY DEF Ascending
  <2>1. i + 1 \in 1 .. Len(queue) /\ k + 1 \in 1 .. Len(queue) /\ i + 1 < k + 1
    BY <1>3
  <2>2. queue[i + 1] < queue[k + 1]
    BY <2>1 DEF OrderInv, Ascending
  <2> QED BY <1>3, <2>2
<1>5. \A i \in Range(queue') : Head(queue) < i
  <2> SUFFICES ASSUME NEW i \in 1 .. Len(queue') PROVE Head(queue) < queue'[i]
    BY <1>3, LenProperties DEF Range
  <2>1. 1 \in 1 .. Len(queue) /\ i + 1 \in 1 .. Len(queue) /\ 1 < i + 1
    BY <1>3
  <2>2. queue[1] < queue[i + 1]
    BY <2>1 DEF OrderInv, Ascending
  <2> QED BY <1>3, <2>2
<1>6. Range(queue) = Range(queue') \cup {Head(queue)} /\ Range(queue) \subseteq Nat
  BY <1>1, <1>2, PopRange, RangeOfSeq
<1>7. StartsInOrder'
  <2> SUFFICES ASSUME NEW i \in Range(queue'), NEW k \in Accepted, k > i
               PROVE  k \in Range(queue')
    BY <1>1 DEF StartsInOrder
  <2>1. k \in Range(queue)
    BY <1>6 DEF OrderInv, StartsInOrder
  <2>2. Head(queue) < i /\ i \in Nat /\ Head(queue) \in Nat /\ k \in Nat
    BY <1>5, <1>6, <2>1
  <2>3. k # Head(queue)
    BY <2>2
  <2> QED BY <1>6, <2>1, <2>3
<1> QED BY <1>4, <1>7 DEF OrderInv

\* A call that is refused is not accepted, and nothing else moves the queue.
LEMMA OrderStep ==
  ASSUME PoolInv, OrderInv, [Next]_vars
  PROVE  OrderInv'
<1>1. ASSUME queue' = queue, Accepted' \subseteq Accepted
      PROVE  OrderInv'
  BY <1>1 DEF OrderInv, Ascending, StartsInOrder, Range
<1>2. ASSUME NEW j \in Jobs, SubmitBusy(j) \/ SubmitNoMemory(j) \/ SubmitNoPool(j)
      PROVE  OrderInv'
  <2>1. /\ queue' = queue /\ submitted' = j /\ j = submitted + 1 /\ refused' = refused \cup {j}
    BY <1>2 DEF SubmitBusy, SubmitNoMemory, SubmitNoPool, Submitting, backlog
  <2>2. Accepted' \subseteq Accepted
    BY <2>1, Places DEF PoolInv, IInv, Accepted
  <2> QED BY <1>1, <2>1, <2>2
<1>3. CASE FinishShutdown
  <2>1. queue' = <<>>
    BY <1>3 DEF FinishShutdown
  <2> QED BY <2>1 DEF OrderInv, Ascending, StartsInOrder, Range
<1>4. CASE UNCHANGED <<queue, submitted, refused>>
  BY <1>1, <1>4 DEF Accepted
<1>5. ASSUME NEW created \in SUBSET Workers, WorkerInit(created)
      PROVE  UNCHANGED <<queue, submitted, refused>>
  BY <1>5 DEF WorkerInit, backlog, history
<1>6. Drain \/ BeginShutdown \/ UNCHANGED vars => UNCHANGED <<queue, submitted, refused>>
  BY DEF Drain, BeginShutdown, backlog, history, vars
<1>7. ASSUME NEW w \in Workers,
             \/ Sleep(w) \/ Exit(w) \/ SpuriousWakeup(w) \/ TimeOut(w) \/ PassDeadline(w)
             \/ LockConn(w) \/ PushDone(w) \/ PushDoneNoMemory(w) \/ BuildNoMemory(w)
             \/ RecordResult(w) \/ Release(w)
             \/ \E result \in {"ok", "error"} : ExecReturn(w, result)
      PROVE  UNCHANGED <<queue, submitted, refused>>
  BY <1>7 DEF Sleep, Exit, SpuriousWakeup, TimeOut, PassDeadline, LockConn, PushDone,
              PushDoneNoMemory, BuildNoMemory, RecordResult, Release, ExecReturn, backlog, history
<1>8. ASSUME NEW j \in Jobs, Expire(j)
      PROVE  UNCHANGED <<queue, submitted, refused>>
  BY <1>8 DEF Expire, backlog, history
<1> QED
  BY <1>2, <1>3, <1>4, <1>5, <1>6, <1>7, <1>8, OrderAccept, OrderTake DEF Next, MainStep, WorkerStep

\* The workers start calls in the order of their submission.
THEOREM FirstComeFirstServed == Spec => []StartsInOrder
<1>1. Init => OrderInv
  BY DEF Init, OrderInv, Ascending, StartsInOrder, Range
<1>2. OrderInv => StartsInOrder
  BY DEF OrderInv
<1> QED BY <1>1, <1>2, OrderStep, PoolInvariance, PTL DEF Spec

\* ws_worker_shutdown throws away responses, never a call that did not run.
THEOREM ShutdownFreesNoCall == Spec => []NoCallFreedUnrun
<1>1. PoolInv => NoCallFreedUnrun
  BY DEF PoolInv, IInv, TypeOK, OutcomeInv, NoCallFreedUnrun
<1> QED
  BY <1>1, PoolInvariance, PTL

\* One response for a call, and one worker.
THEOREM OneAnswer == Spec => []AnsweredOnce
<1>1. ASSUME PoolInv
      PROVE  AnsweredOnce
  <2>1. IInv /\ LifeInv /\ TypeOK /\ HoldInv /\ OwnerInv
    BY <1>1 DEF PoolInv, IInv
  <2>2. PICK p \in Seq(Jobs), q \in Seq(Jobs), r \in Seq(Jobs) :
          p = doneList /\ q = delivered /\ r = doneList \o delivered /\ r = p \o q
    BY <2>1, Places, JoinList
  <2>3. IsInjective(r)
    BY <2>1, <2>2, JoinRange DEF LifeInv
  <2>4. \A v, w \in Workers : job[v] = job[w] /\ job[v] # None => v = w
    BY <2>1, Places DEF OwnerInv
  <2> QED BY <2>1, <2>2, <2>3, <2>4 DEF AnsweredOnce, LifeInv, IsInjective
<1> QED
  BY <1>1, PoolInvariance, PTL

\* The outcome of a call never changes, and the deadline of a call that runs
\* does not matter any more.
THEOREM OutcomeKept == Spec => OutcomeFinal
<1> DEFINE Final == \A j \in Jobs :
             /\ outcome[j] # "none" => outcome'[j] = outcome[j]
             /\ (\E w \in Workers : pc[w] = "exec" /\ job[w] = j) => outcome'[j] # "timeout"
<1>1. ASSUME PoolInv, Next
      PROVE  Final
  <2>0. /\ TypeOK /\ HoldInv /\ OwnerInv /\ OutcomeInv
        /\ outcome \in [Jobs -> {"none", "ok", "error", "timeout"}]
        /\ \A w \in Workers : Holding(w) <=> job[w] \in Jobs
    BY <1>1, Places DEF PoolInv, IInv, TypeOK
  <2>1. ASSUME outcome' = outcome
        PROVE  Final
    BY <2>0, <2>1 DEF OutcomeInv
  <2>2. ASSUME NEW w \in Workers, NEW result \in {"ok", "error", "timeout"},
               pc[w] \in {"taken", "exec"}, result = "timeout" => pc[w] = "taken",
               outcome' = [outcome EXCEPT ![job[w]] = result]
        PROVE  Final
    <3>1. outcome[job[w]] = "none" /\ job[w] \in Jobs
      BY <2>0, <2>2 DEF OutcomeInv, Holding
    <3>2. \A v \in Workers : pc[v] = "exec" /\ job[v] = job[w] => v = w
      BY <2>0, <2>2 DEF OwnerInv, Holding
    <3>3. \A v \in Workers : pc[v] = "exec" => outcome[job[v]] # "timeout"
      BY <2>0 DEF OutcomeInv
    <3>4. \A j \in Jobs : outcome'[j] = IF j = job[w] THEN result ELSE outcome[j]
      BY <2>0, <2>2
    <3> QED BY <2>2, <3>1, <3>2, <3>3, <3>4
  <2>3. ASSUME NEW w \in Workers, TimeOut(w)
        PROVE  Final
    BY <2>2, <2>3 DEF TimeOut, Goto
  <2>4. ASSUME NEW w \in Workers, NEW result \in {"ok", "error"}, ExecReturn(w, result)
        PROVE  Final
    BY <2>2, <2>4 DEF ExecReturn, Goto
  <2>5. ASSUME MainStep
        PROVE  outcome' = outcome
    BY <2>5 DEF MainStep, WorkerInit, SubmitAccept, SubmitBusy, SubmitNoMemory, SubmitNoPool,
                Drain, BeginShutdown, FinishShutdown
  <2>6. ASSUME NEW w \in Workers, WorkerStep(w) \/ SpuriousWakeup(w)
        PROVE  Final
    BY <2>1, <2>3, <2>4, <2>6
    DEF WorkerStep, SpuriousWakeup, Take, Sleep, Exit, PassDeadline, LockConn, PushDone,
        PushDoneNoMemory, BuildNoMemory, RecordResult, Release
  <2>7. ASSUME NEW j \in Jobs, Expire(j)
        PROVE  outcome' = outcome
    BY <2>7 DEF Expire
  <2> QED BY <1>1, <2>1, <2>5, <2>6, <2>7 DEF Next
<1>2. PoolInv /\ [Next]_vars => [Final]_vars
  BY <1>1
<1> QED
  BY <1>2, PoolInvariance, PTL DEF Spec, OutcomeFinal

-----------------------------------------------------------------------------
(* The pool implements the call service.                                   *)

\* The calls the service sees waiting are in the pool.
Awaiting == Accepted \ (Answered \cup dropped)

\* A slot with room in g_conn_pending has room among the calls awaiting an
\* answer.
LEMMA AwaitingFacts ==
  ASSUME PoolInv
  PROVE  /\ Awaiting \subseteq InPool
         /\ \A w \in Workers : Unanswered(w) => job[w] \in Awaiting
         /\ \A j \in Jobs : connPending[SlotOf(j)] < MaxPerConn =>
              Cardinality({k \in Awaiting : SlotOf(k) = SlotOf(j)}) < MaxPerConn
<1>1. Awaiting \subseteq InPool /\ InPool \subseteq Accepted \cup Answered \cup dropped
  BY DEF PoolInv, LifeInv, NoCallLost, Awaiting
<1>2. \A w \in Workers : Unanswered(w) => job[w] \in Awaiting
  <2> SUFFICES ASSUME NEW w \in Workers, Unanswered(w)
               PROVE  job[w] \in Awaiting
    OBVIOUS
  <2>1. job[w] # None /\ job[w] \notin Answered \cup dropped
    BY DEF PoolInv, IInv, HoldInv, Holding, LifeInv, Unanswered
  <2>2. job[w] \in InPool
    BY <2>1 DEF InPool, Held
  <2> QED BY <2>1, <2>2 DEF Awaiting, PoolInv, LifeInv, NoCallLost
<1>3. ASSUME NEW j \in Jobs, connPending[SlotOf(j)] < MaxPerConn
      PROVE  Cardinality({k \in Awaiting : SlotOf(k) = SlotOf(j)}) < MaxPerConn
  <2> DEFINE A == {k \in Awaiting : SlotOf(k) = SlotOf(j)}
             B == SlotCalls(SlotOf(j))
  <2>1. A \subseteq B
    BY <1>1 DEF SlotCalls
  <2>2. IsFiniteSet(B)
    BY InPoolFinite DEF PoolInv, IInv
  <2>3. Cardinality(A) <= Cardinality(B) /\ Cardinality(A) \in Nat /\ Cardinality(B) \in Nat
    BY <2>1, <2>2, FS_Subset, FS_CardinalityType
  <2>4. connPending[SlotOf(j)] = Cardinality(B)
    BY SlotType DEF PoolInv, IInv, PendingExact
  <2> QED BY <1>3, <2>3, <2>4, SizeAssumption
<1> QED BY <1>1, <1>2, <1>3

\* What the service does not see of the pool.
LEMMA UnseenStep ==
  ASSUME UNCHANGED <<submitted, refused, doneList, delivered, dropped>>
  PROVE  UNCHANGED Service!svars
  BY DEF Service!svars, Accepted, Answered

\* A submitted call is a new one.
LEMMA AskStep ==
  ASSUME PoolInv, NEW j \in Jobs, Submitting(j), UNCHANGED <<doneList, delivered, dropped>>
  PROVE  /\ Service!Ask(j)
         /\ refused' = refused => Awaiting' = Awaiting \cup {j}
         /\ refused' = refused \cup {j} => Awaiting' = Awaiting
<1>0. LifeInv /\ TypeOK /\ HoldInv
  BY DEF PoolInv, IInv
<1>1. j = submitted + 1 /\ submitted' = j /\ submitted \in Nat /\ j \in 1 .. MaxJobs
  BY <1>0, Places DEF Submitting, Jobs
<1>2. 1 .. submitted' = 1 .. submitted \cup {j} /\ j \notin 1 .. submitted /\ j <= MaxJobs
  BY <1>1, SizeAssumption
<1>3. j \notin refused /\ j \notin Answered \cup dropped
  <2>1. j \notin Accepted /\ j \notin refused
    BY <1>0, <1>2 DEF Accepted, LifeInv
  <2> QED BY <1>0, <2>1 DEF LifeInv, NoCallLost
<1>4. Answered' = Answered /\ dropped' = dropped
  BY DEF Answered
<1>5. Service!Ask(j)
  BY <1>1, <1>2 DEF Service!Ask
<1>6. refused' = refused => Accepted' = Accepted \cup {j}
  BY <1>1, <1>2, <1>3 DEF Accepted
<1>7. refused' = refused \cup {j} => Accepted' = Accepted
  BY <1>1, <1>2, <1>3 DEF Accepted
<1> QED BY <1>3, <1>4, <1>5, <1>6, <1>7 DEF Awaiting

\* ws_worker_submit that queues a call accepts it.
LEMMA AcceptSimulated ==
  ASSUME PoolInv, NEW j \in Jobs, SubmitAccept(j)
  PROVE  Service!Accept(j)
<1>1. /\ Submitting(j) /\ UNCHANGED <<doneList, delivered, dropped, refused>>
      /\ connPending[SlotOf(j)] < MaxPerConn
  BY DEF SubmitAccept, HasRoom
<1>2. Service!Ask(j) /\ Awaiting' = Awaiting \cup {j}
  BY <1>1, AskStep
<1>3. Cardinality({k \in Awaiting : SlotOf(k) = SlotOf(j)}) < MaxPerConn
  BY <1>1, AwaitingFacts
<1>4. Awaiting \subseteq Jobs
  BY AwaitingFacts, InPoolFinite DEF PoolInv, IInv
<1>5. {k \in Awaiting : [i \in Jobs |-> SlotOf(i)][k] = [i \in Jobs |-> SlotOf(i)][j]}
        = {k \in Awaiting : SlotOf(k) = SlotOf(j)}
  BY <1>4
<1>6. Service!Cardinality({k \in Awaiting : SlotOf(k) = SlotOf(j)}) < MaxPerConn
  BY <1>3 DEF Service!Cardinality, Cardinality
<1> QED BY <1>1, <1>2, <1>5, <1>6 DEF Service!Accept, Awaiting

\* The other outcomes of ws_worker_submit refuse the call.
LEMMA RefuseSimulated ==
  ASSUME PoolInv, NEW j \in Jobs, SubmitBusy(j) \/ SubmitNoMemory(j) \/ SubmitNoPool(j)
  PROVE  Service!Refuse(j)
<1>1. /\ Submitting(j) /\ refused' = refused \cup {j}
      /\ UNCHANGED <<doneList, delivered, dropped>>
  BY DEF SubmitBusy, SubmitNoMemory, SubmitNoPool, backlog
<1>2. Service!Ask(j) /\ Awaiting' = Awaiting
  BY <1>1, AskStep
<1> QED BY <1>1, <1>2 DEF Service!Refuse, Awaiting

\* ws_worker_drain fetches what is ready.
LEMMA DrainSimulated ==
  ASSUME PoolInv, Drain
  PROVE  Service!Fetch
<1>1. /\ delivered' = delivered \o doneList /\ doneList' = <<>> /\ doneList # <<>>
      /\ UNCHANGED <<submitted, refused, dropped>>
  BY DEF Drain, AfterDrain
<1>2. PICK p \in Seq(Jobs), q \in Seq(Jobs), r \in Seq(Jobs) :
        p = delivered /\ q = doneList /\ r = delivered' /\ r = p \o q
  BY <1>1, Places, JoinList DEF PoolInv, IInv
<1>3. Range(r) = Range(p) \cup Range(q)
  BY <1>2, JoinRange
<1>4. Range(doneList') = {}
  BY <1>1 DEF Range
<1>5. Answered' = Answered
  BY <1>2, <1>3, <1>4 DEF Answered
<1>6. Awaiting' = Awaiting
  BY <1>1, <1>5 DEF Awaiting, Accepted
<1> QED BY <1>1, <1>6 DEF Service!Fetch, Awaiting

\* The end of a shutdown throws the unfetched answers away.
LEMMA StopSimulated ==
  ASSUME PoolInv, FinishShutdown
  PROVE  Service!Stop \/ UNCHANGED Service!svars
<1>0. queue = <<>> /\ InPool = {}
  BY EmptyAtShutdown DEF PoolInv
<1>1. /\ dropped' = dropped \cup Range(doneList)
      /\ doneList' = <<>> /\ UNCHANGED <<submitted, refused, delivered>>
  <2>1. Range(queue) = {}
    BY <1>0 DEF Range
  <2> QED BY <2>1 DEF FinishShutdown
<1>2. Awaiting = {}
  BY <1>0, AwaitingFacts
<1>3. Range(doneList') = {}
  BY <1>1 DEF Range
<1>4. Awaiting' = {}
  BY <1>1, <1>2, <1>3 DEF Awaiting, Answered, Accepted
<1>5. CASE doneList = <<>>
  <2>1. dropped' = dropped /\ doneList' = doneList
    BY <1>1, <1>5 DEF Range
  <2> QED BY <1>1, <2>1, UnseenStep
<1>6. CASE doneList # <<>>
  <2>1. dropped' = dropped \cup Service!Range(doneList)
    BY <1>1 DEF Service!Range, Range
  <2> QED BY <1>1, <1>2, <1>4, <1>6, <2>1 DEF Service!Stop, Awaiting
<1> QED BY <1>5, <1>6

\* A worker answers a call, loses one for want of memory, or does nothing that
\* the service sees.
LEMMA WorkerSimulated ==
  ASSUME PoolInv, NEW w \in Workers, WorkerStep(w) \/ SpuriousWakeup(w)
  PROVE  \/ \E j \in Jobs : Service!Answer(j) \/ Service!Lose(j)
         \/ UNCHANGED Service!svars
<1>0. TypeOK /\ HoldInv
  BY DEF PoolInv, IInv
<1>1. CASE PushDone(w) \/ PushDoneNoMemory(w) \/ BuildNoMemory(w)
  <2>1. /\ job[w] \in Jobs /\ pc[w] = "respond"
        /\ UNCHANGED <<submitted, refused, delivered>>
        /\ \/ doneList' = Append(doneList, job[w]) /\ dropped' = dropped
           \/ AllocFails /\ dropped' = dropped \cup {job[w]} /\ doneList' = doneList
    BY <1>0, <1>1, Places
    DEF PushDone, PushDoneNoMemory, BuildNoMemory, Goto, history, backlog, Pushed, Holding
  <2>2. PICK j \in Jobs : j = job[w] /\ j \in Awaiting
    BY <2>1, AwaitingFacts DEF Unanswered
  <2>3. CASE doneList' = Append(doneList, job[w]) /\ dropped' = dropped
    <3>1. Answered' = Answered \cup {j}
      BY <1>0, <2>1, <2>2, <2>3, Places, AppendRange DEF Answered
    <3>2. Awaiting' = Awaiting \ {j}
      BY <2>1, <2>3, <3>1 DEF Awaiting, Accepted
    <3>3. Service!Answer(j)
      BY <2>1, <2>2, <2>3, <3>2 DEF Service!Answer, Awaiting
    <3> QED BY <3>3
  <2>4. CASE AllocFails /\ dropped' = dropped \cup {job[w]} /\ doneList' = doneList
    <3>1. Answered' = Answered
      BY <2>1, <2>4 DEF Answered
    <3>2. Awaiting' = Awaiting \ {j}
      BY <2>1, <2>2, <2>4, <3>1 DEF Awaiting, Accepted
    <3>3. Service!Lose(j)
      BY <2>1, <2>2, <2>4, <3>2 DEF Service!Lose, Awaiting
    <3> QED BY <3>3
  <2> QED BY <2>1, <2>3, <2>4
<1>2. CASE ~ (PushDone(w) \/ PushDoneNoMemory(w) \/ BuildNoMemory(w))
  <2>1. UNCHANGED <<submitted, refused, doneList, delivered, dropped>>
    BY <1>2
    DEF WorkerStep, SpuriousWakeup, Take, Sleep, Exit, TimeOut, PassDeadline, LockConn,
        ExecReturn, RecordResult, Release, backlog, history
  <2> QED BY <2>1, UnseenStep
<1> QED BY <1>1, <1>2

\* Whatever the worker threads do, a client of the pool sees the call service:
\* refused at once or answered once, responses handed out in the order they were
\* pushed, and never more than MaxPerConn unanswered calls in a slot.
THEOREM PoolImplementsService == Spec => ImplementsService
<1>1. Init => Service!SInit
  <2> SUFFICES ASSUME Init PROVE Service!SInit
    OBVIOUS
  <2>1. Accepted = {}
    BY DEF Init, Accepted
  <2> QED BY <2>1 DEF Init, Service!SInit
<1>2. PoolInv /\ [Next]_vars => [Service!SNext]_(Service!svars)
  <2> SUFFICES ASSUME PoolInv, [Next]_vars
               PROVE  Service!SNext \/ UNCHANGED Service!svars
    OBVIOUS
  <2>1. ASSUME \/ \E created \in SUBSET Workers : WorkerInit(created)
               \/ BeginShutdown
               \/ \E j \in Jobs : Expire(j)
               \/ UNCHANGED vars
        PROVE  UNCHANGED <<submitted, refused, doneList, delivered, dropped>>
    BY <2>1 DEF WorkerInit, BeginShutdown, Expire, vars, backlog, history
  <2>2. ASSUME \E j \in Jobs : Service!Accept(j) \/ Service!Refuse(j)
                               \/ Service!Answer(j) \/ Service!Lose(j)
        PROVE  Service!SNext
    BY <2>2 DEF Service!SNext, Jobs
  <2>3. CASE MainStep
    BY <2>1, <2>2, <2>3, UnseenStep, AcceptSimulated, RefuseSimulated, DrainSimulated,
       StopSimulated
    DEF MainStep, Service!SNext
  <2>4. CASE \E w \in Workers : WorkerStep(w) \/ SpuriousWakeup(w)
    BY <2>2, <2>4, WorkerSimulated
  <2> QED BY <2>1, <2>3, <2>4, UnseenStep DEF Next
<1> QED
  BY <1>1, <1>2, PoolInvariance, PTL DEF Spec, ImplementsService, Service!SSpec
=============================================================================
