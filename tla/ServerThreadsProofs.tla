------------------------- MODULE ServerThreadsProofs -------------------------
(***************************************************************************)
(* The server with its threads implements WsServer, and what is proved of  *)
(* WsServer therefore holds of it, for any numbers of connections, tasks,  *)
(* calls and workers and any limits.                                       *)
(***************************************************************************)
EXTENDS ServerThreads, WsWorkerLifeProofs

-----------------------------------------------------------------------------
(* The pool inside the server.                                             *)

\* Whatever the server does is a step of its pool or leaves the pool alone.
LEMMA StepOfPool ==
  ASSUME [ServerNext]_allVars
  PROVE  [Next]_vars
<1>1. CASE Start
  BY <1>1 DEF Start, Next, MainStep
<1>2. CASE HubEvent \/ CallDone \/ UNCHANGED allVars
  BY <1>2 DEF HubEvent, CallDone, allVars
<1>3. ASSUME NEW j \in Jobs, HandleCall(j)
      PROVE  MainStep
  BY <1>3 DEF HandleCall, MainStep
<1>4. CASE ThreadStep
  BY <1>4 DEF ThreadStep, Next
<1>5. CASE DrainCalls
  BY <1>5 DEF DrainCalls, Next, MainStep
<1> QED BY <1>1, <1>2, <1>3, <1>4, <1>5 DEF ServerNext, Next

\* The pool's invariant holds in the server.
THEOREM PoolInServer == ServerSpec => []PoolInv
<1>1. ServerInit => PoolInv
  BY InitPoolInv DEF ServerInit
<1>2. PoolInv /\ [ServerNext]_allVars => PoolInv'
  BY StepOfPool, StepPoolInv
<1> QED BY <1>1, <1>2, PTL DEF ServerSpec

-----------------------------------------------------------------------------
(* Step by step, the server does what WsServer may do.                     *)

\* WsServer sees of the pool what the call service shows.
LEMMA UnseenByServer ==
  ASSUME UNCHANGED <<hubVars, batch, told>>, UNCHANGED Service!svars
  PROVE  UNCHANGED Server!vars
  BY DEF Server!vars, Server!hvars, Server!poolVars, Service!svars, hubVars

\* The pool of WsServer is the call service that WsWorker implements: same
\* calls, same groups, same limit.
LEMMA SameService ==
  ASSUME NEW j \in Jobs
  PROVE  /\ Service!Accept(j) => Server!Pool!Accept(j)
         /\ Service!Refuse(j) => Server!Pool!Refuse(j)
         /\ Service!Answer(j) => Server!Pool!Answer(j)
         /\ Service!Lose(j) => Server!Pool!Lose(j)
<1>1. Service!Accept(j) => Server!Pool!Accept(j)
  BY DEF Service!Accept, Service!Ask, Service!Cardinality, Server!Pool!Accept, Server!Pool!Ask,
         Server!Pool!Cardinality, Server!Calls, Jobs, SlotOf
<1>2. Service!Refuse(j) => Server!Pool!Refuse(j)
  BY DEF Service!Refuse, Service!Ask, Server!Pool!Refuse, Server!Pool!Ask
<1>3. /\ Service!Answer(j) => Server!Pool!Answer(j)
      /\ Service!Lose(j) => Server!Pool!Lose(j)
  BY DEF Service!Answer, Server!Pool!Answer, Service!Lose, Server!Pool!Lose
<1> QED BY <1>1, <1>2, <1>3

LEMMA CallSimulated ==
  ASSUME PoolInv, NEW j \in Jobs, HandleCall(j)
  PROVE  Server!HandleCall(j)
<1>1. \/ SubmitAccept(j) /\ out' = <<>>
      \/ (SubmitBusy(j) \/ SubmitNoMemory(j)) /\ out' = Server!PushTo(ConnOf[j], "busy")
  BY DEF HandleCall
<1>2. \/ Server!Pool!Accept(j) /\ out' = <<>>
      \/ Server!Pool!Refuse(j) /\ out' = Server!PushTo(ConnOf[j], "busy")
  BY <1>1, AcceptSimulated, RefuseSimulated, SameService
<1>3. /\ Server!Polling /\ Server!Reading(ConnOf[j])
      /\ UNCHANGED <<Server!connVars, Server!taskVars, batch, told>>
  BY DEF HandleCall, Polling, Server!Polling, Server!connVars, Server!taskVars
<1> QED BY <1>2, <1>3 DEF Server!HandleCall

LEMMA ThreadSimulated ==
  ASSUME PoolInv, ThreadStep
  PROVE  (\E j \in Jobs : Server!WorkerAnswers(j)) \/ UNCHANGED Server!vars
<1>1. UNCHANGED <<hubVars, batch, told>> /\ UNCHANGED <<Server!hvars, batch, told>>
  BY DEF ThreadStep, hubVars, Server!hvars
<1>2. CASE \E w \in Workers : WorkerStep(w) \/ SpuriousWakeup(w)
  <2>1. CASE UNCHANGED Service!svars
    BY <1>1, <2>1, UnseenByServer
  <2>2. ASSUME NEW j \in Jobs, Service!Answer(j) \/ Service!Lose(j)
        PROVE  Server!WorkerAnswers(j)
    BY <1>1, <2>2, SameService DEF Server!WorkerAnswers
  <2> QED BY <1>2, <2>1, <2>2, WorkerSimulated
<1>3. CASE \E j \in Jobs : Expire(j)
  <2>1. UNCHANGED <<submitted, refused, doneList, delivered, dropped>>
    BY <1>3 DEF Expire, backlog, history
  <2> QED BY <1>1, <2>1, UnseenStep, UnseenByServer
<1> QED BY <1>2, <1>3 DEF ThreadStep

LEMMA ServerStep ==
  ASSUME PoolInv, [ServerNext]_allVars
  PROVE  [Server!Next]_(Server!vars)
<1>1. CASE Start \/ UNCHANGED allVars
  <2>1. /\ UNCHANGED <<submitted, refused, doneList, delivered, dropped>>
        /\ UNCHANGED <<hubVars, batch, told>>
    BY <1>1 DEF Start, WorkerInit, backlog, history, allVars, vars
  <2> QED BY <2>1, UnseenStep, UnseenByServer
<1>2. CASE HubEvent
  <2>1. Server!Polling /\ Server!HubNext /\ UNCHANGED <<vars, batch, told>>
    BY <1>2 DEF HubEvent, Polling, Server!Polling
  <2>2. UNCHANGED <<Server!poolVars, batch, told>>
    BY <2>1 DEF vars, Server!poolVars, Accepted, Answered
  <2> QED BY <2>1, <2>2 DEF Server!Next
<1>3. ASSUME NEW j \in Jobs, HandleCall(j)
      PROVE  Server!Next
  BY <1>3, CallSimulated DEF Server!Next, Server!Calls, Jobs
<1>4. CASE ThreadStep
  BY <1>4, ThreadSimulated DEF Server!Next, Server!Calls, Jobs
<1>5. CASE DrainCalls
  <2>1. Server!Polling /\ Service!Fetch
    BY <1>5, DrainSimulated DEF DrainCalls, Polling, Server!Polling
  <2>2. Server!Pool!Fetch
    BY <2>1 DEF Service!Fetch, Server!Pool!Fetch
  <2>3. Server!DrainCalls
    BY <1>5, <2>1, <2>2 DEF DrainCalls, Server!DrainCalls, Server!hvars, hubVars
  <2> QED BY <2>3 DEF Server!Next
<1>6. CASE CallDone
  BY <1>6 DEF CallDone, Server!Next
<1> QED BY <1>1, <1>2, <1>3, <1>4, <1>5, <1>6 DEF ServerNext

LEMMA ServerStart == ServerInit => Server!Init
<1> SUFFICES ASSUME ServerInit PROVE Server!Init
  OBVIOUS
<1>1. Accepted = {}
  BY DEF ServerInit, Init, Accepted
<1> QED BY <1>1 DEF ServerInit, Init, Server!Init, Server!Pool!SInit

\* No interleaving of the worker threads, the events of the connections and the
\* hand-out of responses shows a client what WsServer does not.
THEOREM ThreadsImplementServer == ServerSpec => ImplementsServer
  BY ServerStart, ServerStep, PoolInServer, PTL DEF ServerSpec, ImplementsServer, Server!Spec

-----------------------------------------------------------------------------
(* What is proved of WsServer.                                             *)

Proved == INSTANCE WsServerProofs WITH
  MaxCalls   <- MaxJobs,
  CallerOf   <- ConnOf,
  asked      <- submitted,
  turnedDown <- refused,
  waiting    <- Accepted \ (Answered \cup dropped),
  ready      <- doneList,
  fetched    <- delivered,
  lost       <- dropped

\* WsServerProofs is about the WsServer that the server implements.
LEMMA SameHub == Server!HubNext <=> Proved!HubNext
  BY DEF Server!HubNext, Proved!HubNext, Server!Conns, Proved!Conns, Server!Upgrade,
         Proved!Upgrade, Server!Swept, Proved!Swept, Server!Table, Proved!Table,
         Server!FreeSlots, Proved!FreeSlots, Server!taskVars, Proved!taskVars, Server!Fail,
         Proved!Fail, Server!CloseFrame, Proved!CloseFrame, Server!Reading, Proved!Reading,
         Server!Unregister, Proved!Unregister, Server!Removed, Proved!Removed, Server!NewTarget,
         Proved!NewTarget, Server!Used, Proved!Used, Server!Close, Proved!Close, Server!Victims,
         Proved!Victims, Server!OwnTasks, Proved!OwnTasks, Server!RemoveTasks,
         Proved!RemoveTasks, Server!Uncount, Proved!Uncount, Server!ClosedPaths,
         Proved!ClosedPaths, Server!IsWebsocket, Proved!IsWebsocket, Server!CloseHttp,
         Proved!CloseHttp, Server!Answer, Proved!Answer, Server!Bind, Proved!Bind,
         Server!Matches, Proved!Matches, Server!CanListen, Proved!CanListen, Server!NewTask,
         Proved!NewTask, Server!Push, Proved!Push, Server!PushTo, Proved!PushTo, Server!connVars,
         Proved!connVars, Server!BindRefused, Proved!BindRefused, Server!RemoveCommand,
         Proved!RemoveCommand, Server!ApiPush, Proved!ApiPush, Server!Max, Proved!Max, Server!Min,
         Proved!Min, Server!Cardinality, Proved!Cardinality, Cardinality

LEMMA SameServer == /\ Server!Init <=> Proved!Init
                    /\ [Server!Next]_(Server!vars) => [Proved!Next]_(Proved!vars)
<1>1. Server!Init <=> Proved!Init
  BY DEF Server!Init, Proved!Init, Server!HubInit, Proved!HubInit, Server!Conns, Proved!Conns,
         Server!Table, Proved!Table, Server!Pool!SInit, Proved!Pool!SInit
<1>2. UNCHANGED Server!vars => UNCHANGED Proved!vars
  BY DEF Server!vars, Proved!vars, Server!hvars, Proved!hvars, Server!poolVars, Proved!poolVars
<1>3. Server!Next <=> Proved!Next
  BY SameHub DEF Server!Next, Proved!Next, Server!Polling, Proved!Polling, Server!poolVars,
         Proved!poolVars, Server!Calls, Proved!Calls, Server!HandleCall, Proved!HandleCall,
         Server!Reading, Proved!Reading, Server!Pool!Accept, Proved!Pool!Accept, Server!Pool!Ask,
         Proved!Pool!Ask, Server!Pool!Refuse, Proved!Pool!Refuse, Server!PushTo, Proved!PushTo,
         Server!IsWebsocket, Proved!IsWebsocket, Server!connVars, Proved!connVars,
         Server!taskVars, Proved!taskVars, Server!WorkerAnswers, Proved!WorkerAnswers,
         Server!Pool!Answer, Proved!Pool!Answer, Server!Pool!Lose, Proved!Pool!Lose,
         Server!hvars, Proved!hvars, Server!DrainCalls, Proved!DrainCalls, Server!Pool!Fetch,
         Proved!Pool!Fetch, Server!CallDone, Proved!CallDone, Server!EntryOf, Proved!EntryOf,
         Server!Table, Proved!Table, Server!Walked, Proved!Walked, Server!ResponseTo,
         Proved!ResponseTo, Server!Pool!Cardinality, Proved!Pool!Cardinality, Server!Min,
         Proved!Min, Cardinality
<1> QED BY <1>1, <1>2, <1>3

LEMMA ServerProved == ServerSpec => Proved!Spec
  BY ServerStart, ServerStep, SameServer, PoolInServer, PTL DEF ServerSpec, Proved!Spec

LEMMA ConnectionsFit == Proved!HubAssumption /\ ConnOf \in [Proved!Calls -> Proved!Conns]
  BY ThreadsAssumption, ThreadAssumption DEF Proved!HubAssumption, Proved!Conns, Proved!Calls,
                                             Jobs

\* Whatever the threads do, a response is sent to the connection that made the
\* call, or to nobody, and once.
THEOREM ThreadsRespondToCaller == ServerSpec => []ResponseToCaller
<1>1. Proved!ResponseToCaller => ResponseToCaller
  BY DEF ResponseToCaller, Server!ResponseToCaller, Proved!ResponseToCaller, Server!Listed, Proved!Listed
<1> QED BY <1>1, ConnectionsFit, Proved!ResponsesToCallers, ServerProved, PTL

\* The table and the broadcast target never hold a freed connection.
THEOREM ThreadsDangleNot == ServerSpec => []NoDangling
<1>1. Proved!NoDangling => NoDangling
  BY DEF NoDangling, Server!NoDangling, Proved!NoDangling, Server!Used, Proved!Used, Server!Table,
         Proved!Table, Server!FreeSlots, Proved!FreeSlots
<1> QED BY <1>1, ConnectionsFit, Proved!ServerDanglesNot, ServerProved, PTL

\* A response that drain took reaches its caller unless that has gone.
THEOREM ThreadsKeepResponses == ServerSpec => []ResponseNotLost
<1>1. Proved!ResponseNotLost => ResponseNotLost
  BY DEF ResponseNotLost, Server!ResponseNotLost, Proved!ResponseNotLost, Server!Listed,
         Proved!Listed, Server!Unreachable, Proved!Unreachable, Server!IsWebsocket,
         Proved!IsWebsocket, Server!InTable, Proved!InTable, Server!Table, Proved!Table
<1> QED BY <1>1, ConnectionsFit, Proved!ResponsesReachCallers, ServerProved, PTL

-----------------------------------------------------------------------------
(* A response is sent for a call that is over.                             *)

\* What the loop of ws_worker_drain hands out was taken from the pool.
HandedOut == batch \in Seq(Jobs) /\ Range(batch) \cup told \subseteq Range(delivered)

LEMMA HandedOutKept ==
  ASSUME PoolInv, HandedOut, [ServerNext]_allVars
  PROVE  HandedOut'
<1>1. CASE UNCHANGED <<batch, told, delivered>>
  BY <1>1 DEF HandedOut, Range
<1>2. CASE DrainCalls
  <2>1. doneList \in Seq(Jobs) /\ delivered \in Seq(Jobs)
    BY DEF PoolInv, IInv, TypeOK
  <2>2. /\ batch' = doneList /\ told' = told /\ delivered' = delivered \o doneList
    BY <1>2 DEF DrainCalls, Drain
  <2>3. Range(delivered') = Range(delivered) \cup Range(doneList)
    BY <2>1, <2>2, JoinRange
  <2>4. Range(batch') = Range(doneList) /\ told' \subseteq Range(delivered)
    BY <2>2 DEF HandedOut
  <2> QED BY <2>1, <2>2, <2>3, <2>4 DEF HandedOut
<1>3. CASE CallDone
  <2>1. /\ batch # <<>> /\ batch' = Tail(batch)
        /\ told' = told \/ told' = told \cup {Head(batch)}
        /\ delivered' = delivered
    BY <1>3 DEF CallDone, Server!CallDone, vars
  <2>2. batch \in Seq(Jobs)
    BY DEF HandedOut
  <2>3. Head(batch) \in Range(batch) /\ Range(batch') \subseteq Range(batch)
    BY <2>1, <2>2 DEF Range
  <2>4. told' \subseteq Range(delivered)
    BY <2>1, <2>3 DEF HandedOut
  <2>5. batch' \in Seq(Jobs) /\ Range(delivered') = Range(delivered)
    BY <2>1, <2>2
  <2> QED BY <2>3, <2>4, <2>5 DEF HandedOut
<1>4. CASE Start \/ HubEvent
  BY <1>1, <1>4 DEF Start, WorkerInit, HubEvent, history, vars
<1>5. ASSUME NEW j \in Jobs, HandleCall(j)
      PROVE  UNCHANGED <<batch, told, delivered>>
  BY <1>5 DEF HandleCall, SubmitAccept, SubmitBusy, SubmitNoMemory
<1>6. CASE ThreadStep
  <2>1. ASSUME NEW w \in Workers, WorkerStep(w) \/ SpuriousWakeup(w)
        PROVE  UNCHANGED delivered
    BY <2>1 DEF WorkerStep, Take, Sleep, Exit, TimeOut, PassDeadline, LockConn, ExecReturn,
                PushDone, PushDoneNoMemory, BuildNoMemory, RecordResult, Release, SpuriousWakeup,
                history
  <2>2. UNCHANGED <<batch, told, delivered>>
    BY <1>6, <2>1 DEF ThreadStep, Expire, history
  <2> QED BY <1>1, <2>2
<1> QED BY <1>1, <1>2, <1>3, <1>4, <1>5, <1>6 DEF ServerNext, allVars, vars

\* No client is sent a response for a call that is neither run nor timed out.
THEOREM ResponsesAreTrue == ServerSpec => []ToldAfterRun
<1>1. ServerInit => HandedOut
  BY DEF ServerInit, HandedOut, Range
<1>2. PoolInv /\ HandedOut => ToldAfterRun
  BY DEF PoolInv, OutcomeInv, Answered, HandedOut, ToldAfterRun
<1> QED BY <1>1, <1>2, HandedOutKept, PoolInServer, PTL DEF ServerSpec
=============================================================================
