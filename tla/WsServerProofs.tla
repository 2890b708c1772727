--------------------------- MODULE WsServerProofs ---------------------------
(***************************************************************************)
(* The "call" command end to end, for any numbers of connections, tasks    *)
(* and calls and any limits: whoever gets a response made the call, and    *)
(* gets it once, and the sweeping of ws_conn_find leaves the table sound.  *)
(***************************************************************************)
EXTENDS WsServer, WsHubProofs, SequenceTheorems

\* A set of entries has a first one: the one with the fewest entries below it.
LEMMA FirstEntry ==
  ASSUME NEW S \in SUBSET Table, S # {}
  PROVE  Min(S) \in S
<1> DEFINE Below(x) == {y \in S : y < x}
           T == {Below(x) : x \in S}
<1>0. \A z \in S : z \in Int
  BY HubAssumption DEF Table
<1>1. T \subseteq FiniteSubsetsOf(Table) /\ T # {}
  <2>1. IsFiniteSet(Table)
    BY FS_Interval, HubAssumption, SMT DEF Table
  <2>2. \A x \in S : Below(x) \in SUBSET Table /\ IsFiniteSet(Below(x))
    BY <2>1, FS_Subset
  <2> QED BY <2>2 DEF FiniteSubsetsOf
<1>2. PICK m \in T : \A n \in T : ~ (<<n, m>> \in StrictSubsetOrdering(Table))
  <2> HIDE DEF T
  <2> QED BY <1>1, FS_StrictSubsetOrderingWellFounded, WFMin
<1>3. PICK x \in S : m = Below(x)
  OBVIOUS
<1>4. \A y \in S : x <= y
  <2> SUFFICES ASSUME NEW y \in S, ~ (x <= y) PROVE FALSE
    OBVIOUS
  <2>1. y < x /\ x \in Int /\ y \in Int
    BY <1>0
  <2>2. Below(y) \subseteq Below(x) /\ y \in Below(x) /\ y \notin Below(y)
    <3>1. ~ (y < y) /\ \A z \in S : z < y => z < x
      BY <1>0, <2>1
    <3> QED BY <3>1, <2>1, Zenon
  <2>3. <<Below(y), Below(x)>> \in StrictSubsetOrdering(Table)
    BY <2>2 DEF StrictSubsetOrdering
  <2> QED BY <2>3, <1>2, <1>3
<1> QED BY <1>4 DEF Min

\* Calls are numbered as they are asked for, and each is in one of these places.
Distinct(s) == \A i, k \in DOMAIN s : s[i] = s[k] => i = k

ResponsesInv ==
  /\ asked \in Nat
  /\ waiting \in SUBSET Calls /\ told \in SUBSET Calls
  /\ ready \in Seq(Calls) /\ batch \in Seq(Calls)
  /\ \A j \in waiting \cup told \cup Listed(ready) \cup Listed(batch) : j <= asked
  /\ Distinct(ready) /\ Distinct(batch)
  /\ waiting \cap (Listed(ready) \cup Listed(batch)) = {}
  /\ Listed(ready) \cap Listed(batch) = {}
  /\ told \cap (waiting \cup Listed(ready) \cup Listed(batch)) = {}

ToCaller ==
  \A i \in DOMAIN out :
    "response" \in DOMAIN out[i] => out[i].to = CallerOf[out[i].response]

ServerInv == HubCore /\ ResponsesInv /\ ToCaller

LEMMA ServerInitial == Init => ServerInv
<1> SUFFICES ASSUME Init PROVE ServerInv
  OBVIOUS
<1>1. HubCore
  BY HubInitial, CoreOfInv DEF Init
<1>2. ToCaller
  BY DEF Init, HubInit, ToCaller
<1>3. /\ asked = 0 /\ waiting = {} /\ ready = <<>> /\ batch = <<>> /\ told = {}
      /\ Listed(ready) = {} /\ Listed(batch) = {}
  BY DEF Init, Pool!SInit, Listed
<1>4. ResponsesInv
  BY <1>3, EmptySeq DEF ResponsesInv, Distinct
<1> QED BY <1>1, <1>2, <1>4 DEF ServerInv

\* Frames of the hub carry no response.
LEMMA FramesToCaller ==
  ASSUME NEW s \in Seq(Frames), out' = s
  PROVE  ToCaller'
<1>1. \A f \in Frames : "response" \notin DOMAIN f
  BY DEF Frames
<1>2. \A i \in DOMAIN s : s[i] \in Frames
  BY ElementOfSeq, LenProperties
<1> QED BY <1>1, <1>2 DEF ToCaller

\* The hub goes on as it does without a pool.
LEMMA HubKeeps ==
  ASSUME HubCore, HubNext
  PROVE  HubCore' /\ ToCaller'
  BY ConnStep, TaskStep, OutStep, FramesToCaller DEF HubCore

\* Nothing of the hub changes but the frames.
LEMMA HubCoreKept ==
  ASSUME HubCore, UNCHANGED <<connVars, taskVars>>
  PROVE  HubCore'
<1>1. UNCHANGED <<phase, closing, slots, gWsConn, tasks, count, counter, listening>>
  BY DEF connVars, taskVars
<1>2. ConnType' /\ NoDangling' /\ TargetKept'
  BY <1>1 DEF HubCore, ConnType, NoDangling, TargetKept, Used, FreeSlots
<1>3. TaskInv'
  BY <1>1 DEF HubCore, TaskInv, TaskType, ListenersExact, TaskTableSound, TaskIdInv
<1> QED BY <1>2, <1>3 DEF HubCore

\* Sweeping closing connections out of the table leaves it sound: the broadcast
\* target may be one of them until its close event.
LEMMA WalkKeeps ==
  ASSUME HubCore, NEW c, slots' = Walked(c), UNCHANGED <<phase, closing, gWsConn, taskVars>>
  PROVE  HubCore'
<1>1. ConnType /\ Sound(phase, slots, gWsConn)
  BY SoundMeaning DEF HubCore
<1>2. /\ slots' \in [Table -> Conns \cup {None}]
      /\ \A i \in Table : slots'[i] = slots[i] \/ slots'[i] = None
  BY <1>1 DEF Walked, ConnType
<1>3. Sound(phase', slots', gWsConn')
  BY <1>1, <1>2, SMT DEF Sound
<1>4. ConnType'
  BY <1>1, <1>2 DEF ConnType
<1>5. (NoDangling /\ TargetKept)'
  BY <1>3, UsedFacts DEF Sound, NoDangling, TargetKept, Used
<1>6. TaskInv'
  BY DEF taskVars, HubCore, TaskInv, TaskType, ListenersExact, TaskTableSound, TaskIdInv
<1> QED BY <1>4, <1>5, <1>6 DEF HubCore

\* A call is submitted or refused.
LEMMA HandleCallKeeps ==
  ASSUME ServerInv, NEW j \in Calls, HandleCall(j)
  PROVE  ServerInv'
<1>1. HubCore'
  BY HubCoreKept DEF HandleCall, ServerInv
<1>2. ToCaller'
  <2>1. \A i \in DOMAIN out' : "response" \notin DOMAIN out'[i]
    BY DEF HandleCall, PushTo
  <2> QED BY <2>1 DEF ToCaller
<1>3. /\ asked' = j /\ j = asked + 1
      /\ waiting' = waiting \cup {j} \/ waiting' = waiting
      /\ UNCHANGED <<ready, batch, told>>
  BY DEF HandleCall, Pool!Accept, Pool!Refuse, Pool!Ask
<1>4. Listed(ready)' = Listed(ready) /\ Listed(batch)' = Listed(batch)
  BY <1>3 DEF Listed
<1>5. ~ (j <= asked) /\ asked' \in Nat
  BY <1>3 DEF ServerInv, ResponsesInv
<1>6. \A k \in Calls : k <= asked => k <= asked'
  BY <1>3 DEF ServerInv, ResponsesInv, Calls
<1>7. Listed(ready) \subseteq Calls /\ Listed(batch) \subseteq Calls
  BY ElementOfSeq, LenProperties DEF ServerInv, ResponsesInv, Listed
<1>8. \A k \in waiting' \cup told' \cup Listed(ready) \cup Listed(batch) : k <= asked'
  <2>1. \A k \in waiting \cup told \cup Listed(ready) \cup Listed(batch) : k <= asked /\ k \in Calls
    BY <1>7 DEF ServerInv, ResponsesInv
  <2>2. j <= asked'
    BY <1>3 DEF Calls
  <2> QED BY <1>3, <1>6, <2>1, <2>2
<1>9. ResponsesInv'
  <2>1. /\ asked' \in Nat /\ j \notin told \cup Listed(ready) \cup Listed(batch)
        /\ waiting' \in SUBSET Calls /\ told' \in SUBSET Calls
        /\ ready' \in Seq(Calls) /\ batch' \in Seq(Calls)
        /\ Distinct(ready)' /\ Distinct(batch)'
    BY <1>3, <1>5 DEF ServerInv, ResponsesInv, Distinct
  <2>2. /\ waiting' \cap (Listed(ready) \cup Listed(batch)) = {}
        /\ Listed(ready) \cap Listed(batch) = {}
        /\ told' \cap (waiting' \cup Listed(ready) \cup Listed(batch)) = {}
    BY <1>3, <2>1, Zenon DEF ServerInv, ResponsesInv
  <2> QED BY <1>4, <1>8, <2>1, <2>2, Zenon DEF ResponsesInv
<1> QED BY <1>1, <1>2, <1>9 DEF ServerInv

\* A worker moves a call from the waiting ones to the end of the list.
LEMMA WorkerKeeps ==
  ASSUME ServerInv, NEW j \in Calls, WorkerAnswers(j)
  PROVE  ServerInv'
<1>1. UNCHANGED hvars /\ UNCHANGED <<connVars, taskVars>> /\ UNCHANGED <<out, batch, told>>
  BY DEF WorkerAnswers, hvars, connVars, taskVars
<1>2. HubCore' /\ ToCaller'
  BY <1>1, HubCoreKept DEF ServerInv, ToCaller
<1>3. /\ j \in waiting /\ waiting' = waiting \ {j} /\ asked' = asked
      /\ ready' = Append(ready, j) \/ ready' = ready
  BY DEF WorkerAnswers, Pool!Answer, Pool!Lose
<1>4. CASE ready' = ready
  <2>1. Listed(ready)' = Listed(ready) /\ Listed(batch)' = Listed(batch)
    BY <1>1, <1>4 DEF Listed
  <2>2. ResponsesInv'
    BY <1>1, <1>3, <1>4, <2>1 DEF ServerInv, ResponsesInv, Distinct
  <2> QED BY <1>2, <2>2 DEF ServerInv
<1>5. CASE ready' = Append(ready, j)
  <2>1. ready \in Seq(Calls) /\ j \notin Listed(ready) /\ j \notin Listed(batch)
    BY <1>3 DEF ServerInv, ResponsesInv
  <2>2. /\ ready' \in Seq(Calls) /\ Len(ready') = Len(ready) + 1
        /\ \A i \in 1 .. Len(ready) : ready'[i] = ready[i]
        /\ ready'[Len(ready) + 1] = j
    BY <1>5, <2>1, AppendProperties
  <2>3. DOMAIN ready = 1 .. Len(ready) /\ DOMAIN ready' = 1 .. Len(ready) + 1 /\ Len(ready) \in Nat
    BY <2>1, <2>2, LenProperties
  <2>4. \A i \in DOMAIN ready' : \/ (i \in DOMAIN ready /\ ready'[i] = ready[i])
                                \/ (i = Len(ready) + 1 /\ ready'[i] = j)
    BY <2>2, <2>3
  <2>5. Listed(ready)' = Listed(ready) \cup {j} /\ Listed(batch)' = Listed(batch)
    BY <1>1, <2>2, <2>3, <2>4 DEF Listed
  <2>6. Distinct(ready)'
    <3>1. \A i \in DOMAIN ready : ready[i] # j
      BY <2>1 DEF Listed
    <3> QED BY <2>4, <3>1 DEF Distinct, ServerInv, ResponsesInv
  <2>7. ResponsesInv'
    BY <1>1, <1>3, <2>1, <2>2, <2>5, <2>6 DEF ServerInv, ResponsesInv, Distinct
  <2> QED BY <1>2, <2>7 DEF ServerInv
<1> QED BY <1>3, <1>4, <1>5

\* The main thread takes the list.
LEMMA DrainKeeps ==
  ASSUME ServerInv, DrainCalls
  PROVE  ServerInv'
<1>1. /\ UNCHANGED <<connVars, taskVars>> /\ UNCHANGED <<out, asked, waiting, told>>
      /\ batch = <<>> /\ batch' = ready /\ ready' = <<>>
  BY DEF DrainCalls, Polling, Pool!Fetch, hvars, connVars, taskVars
<1>2. HubCore' /\ ToCaller'
  BY <1>1, HubCoreKept DEF ServerInv, ToCaller
<1>3. Listed(batch)' = Listed(ready) /\ Listed(ready)' = {} /\ Distinct(ready)'
  BY <1>1 DEF Listed, Distinct
<1>4. ready' \in Seq(Calls) /\ Distinct(batch)'
  BY <1>1, EmptySeq DEF ServerInv, ResponsesInv, Distinct
<1>5. ResponsesInv'
  BY <1>1, <1>3, <1>4 DEF ServerInv, ResponsesInv
<1> QED BY <1>2, <1>5 DEF ServerInv

\* A response goes to the caller, if it is still there, and is not sent again.
LEMMA CallDoneKeeps ==
  ASSUME ServerInv, CallDone
  PROVE  ServerInv'
<1> DEFINE j == Head(batch)
           found == EntryOf(CallerOf[j])
<1>1. /\ batch # <<>> /\ batch' = Tail(batch) /\ slots' = Walked(CallerOf[j])
      /\ out' = IF found = {} THEN <<>> ELSE ResponseTo(slots[Min(found)], j)
      /\ told' = told \/ told' = told \cup {j}
      /\ UNCHANGED <<phase, closing, gWsConn, taskVars>> /\ UNCHANGED <<asked, waiting, ready>>
  BY DEF CallDone, poolVars
<1>2. HubCore'
  BY <1>1, WalkKeeps DEF ServerInv
<1>3. ToCaller'
  <2>1. CASE found = {}
    BY <1>1, <2>1 DEF ToCaller
  <2>2. CASE found # {}
    <3>1. slots[Min(found)] = CallerOf[j]
      BY <2>2, FirstEntry DEF EntryOf
    <3>2. out' = ResponseTo(CallerOf[j], j)
      BY <1>1, <2>2, <3>1
    <3>3. \A i \in DOMAIN out' : out'[i] = [to |-> CallerOf[j], response |-> j]
      BY <3>2 DEF ResponseTo
    <3> QED BY <3>3 DEF ToCaller
  <2> QED BY <2>1, <2>2
<1>4. batch \in Seq(Calls)
  BY DEF ServerInv, ResponsesInv
<1>5. /\ batch' \in Seq(Calls) /\ Len(batch') = Len(batch) - 1 /\ j \in Calls
      /\ \A i \in 1 .. Len(batch') : batch'[i] = batch[i + 1]
      /\ j = batch[1]
  BY <1>1, <1>4, HeadTailProperties
<1>6. /\ DOMAIN batch = 1 .. Len(batch) /\ Len(batch) \in Nat \ {0}
      /\ DOMAIN batch' = 1 .. Len(batch')
  BY <1>1, <1>4, <1>5, LenProperties, EmptySeq
<1>7. \A i \in DOMAIN batch' : i + 1 \in DOMAIN batch /\ batch'[i] = batch[i + 1] /\ i + 1 # 1
  BY <1>5, <1>6
<1>8. 1 \in DOMAIN batch
  BY <1>6
<1>9. Distinct(batch)'
  <2> SUFFICES ASSUME NEW i \in DOMAIN batch', NEW k \in DOMAIN batch', batch'[i] = batch'[k]
               PROVE  i = k
    BY DEF Distinct
  <2>1. i + 1 = k + 1
    BY <1>7 DEF ServerInv, ResponsesInv, Distinct
  <2> QED BY <1>6, <2>1
<1>10. Listed(batch)' \subseteq Listed(batch) \ {j} /\ j \in Listed(batch)
  BY <1>5, <1>7, <1>8 DEF ServerInv, ResponsesInv, Distinct, Listed
<1>11. Listed(ready)' = Listed(ready) /\ Distinct(ready)'
  BY <1>1 DEF Listed, Distinct, ServerInv, ResponsesInv
<1>12. ResponsesInv'
  BY <1>1, <1>5, <1>9, <1>10, <1>11 DEF ServerInv, ResponsesInv
<1> QED BY <1>2, <1>3, <1>12 DEF ServerInv

\* Connections, calls and responses fit together in every reachable state.
THEOREM ServerInvariance == Spec => []ServerInv
<1>1. ASSUME ServerInv, [Next]_vars PROVE ServerInv'
  <2>1. CASE HubNext /\ UNCHANGED <<poolVars, batch, told>>
    <3>1. HubCore' /\ ToCaller'
      BY <1>1, <2>1, HubKeeps DEF ServerInv
    <3>2. UNCHANGED <<asked, waiting, ready, batch, told>>
      BY <2>1 DEF poolVars
    <3>3. ResponsesInv'
      BY <1>1, <3>2 DEF ServerInv, ResponsesInv, Listed, Distinct
    <3> QED BY <3>1, <3>3 DEF ServerInv
  <2>2. CASE UNCHANGED vars
    <3>1. UNCHANGED <<connVars, taskVars>> /\ UNCHANGED <<asked, waiting, ready, batch, told, out>>
      BY <2>2 DEF vars, hvars, connVars, taskVars, poolVars
    <3>2. HubCore' /\ ToCaller'
      BY <1>1, <3>1, HubCoreKept DEF ServerInv, ToCaller
    <3>3. ResponsesInv'
      BY <1>1, <3>1 DEF ServerInv, ResponsesInv, Listed, Distinct
    <3> QED BY <3>2, <3>3 DEF ServerInv
  <2> QED
    BY <1>1, <2>1, <2>2, HandleCallKeeps, WorkerKeeps, DrainKeeps, CallDoneKeeps DEF Next
<1> QED BY <1>1, ServerInitial, PTL DEF Spec

\* A response goes to the connection that made the call, and only once
\* (ws_call_done).
THEOREM ResponsesToCallers == Spec => []ResponseToCaller
<1>1. ServerInv => ResponseToCaller
  BY DEF ServerInv, ResponsesInv, ToCaller, ResponseToCaller
<1> QED BY <1>1, ServerInvariance, PTL

\* Neither the hub's handlers nor the sweeping of ws_conn_find leaves a freed
\* connection in the table or as the broadcast target.
THEOREM ServerDanglesNot == Spec => []NoDangling
<1>1. ServerInv => NoDangling
  BY DEF ServerInv, HubCore
<1> QED BY <1>1, ServerInvariance, PTL

-----------------------------------------------------------------------------
(* What happens to a response that left the pool.                          *)

\* A caller was a connection of ws_ev_handler when it called, and never becomes
\* a fresh one again.
DeliveryInv ==
  /\ fetched \in Seq(Calls)
  /\ \A j \in Listed(fetched) : j <= asked
  /\ \A j \in Calls : j <= asked => phase[CallerOf[j]] # "http"
  /\ ResponseNotLost

\* Entries of the table that are only cleared.
LEMMA StaysUnreachable ==
  ASSUME NEW c \in Conns, Unreachable(c),
         c \in closing => c \in closing' \/ phase'[c] # "ws",
         phase[c] # "ws" => phase'[c] # "ws",
         \A i \in Table : slots'[i] = c => slots[i] = c
  PROVE  Unreachable(c)'
  BY DEF Unreachable, IsWebsocket, InTable

\* No handler of the hub brings a connection back.
LEMMA NoReturn ==
  ASSUME HubCore, NEW c \in Conns, phase[c] # "http", HubNext
  PROVE  phase'[c] # "http" /\ (Unreachable(c) => Unreachable(c)')
<1>1. /\ phase \in [Conns -> {"http", "ws", "plain", "gone"}]
      /\ slots \in [Table -> Conns \cup {None}] /\ None \notin Conns
  BY HubAssumption DEF HubCore, ConnType
<1>2. CASE UNCHANGED connVars
  BY <1>2 DEF connVars, Unreachable, IsWebsocket, InTable
<1>3. ASSUME NEW d \in Conns, NEW kind \in {"ws", "plain"}, Upgrade(d, kind)
      PROVE  phase'[c] # "http" /\ (Unreachable(c) => Unreachable(c)')
  <2>1. d # c /\ phase'[c] = phase[c] /\ closing' = closing
    BY <1>1, <1>3 DEF Upgrade
  <2>2. \A i \in Table : Swept(slots)[i] = c => slots[i] = c
    BY <1>1 DEF Swept
  <2>3. \A i \in Table : slots'[i] = Swept(slots)[i] \/ slots'[i] = d
    BY <1>3 DEF Upgrade, Swept
  <2>4. \A i \in Table : slots'[i] = c => slots[i] = c
    BY <2>1, <2>2, <2>3
  <2> QED BY <2>1, <2>4, StaysUnreachable
<1>4. ASSUME NEW d \in Conns, Fail(d)
      PROVE  phase'[c] # "http" /\ (Unreachable(c) => Unreachable(c)')
  <2>1. UNCHANGED <<phase, slots>> /\ closing \subseteq closing'
    BY <1>4 DEF Fail
  <2> QED BY <2>1, StaysUnreachable
<1>5. \A d \in Conns, i \in Table : Removed(slots, d)[i] = c => slots[i] = c
  BY <1>1 DEF Removed
<1>6. ASSUME NEW d \in Conns, CloseFrame(d)
      PROVE  phase'[c] # "http" /\ (Unreachable(c) => Unreachable(c)')
  <2>1. UNCHANGED <<phase, closing>> /\ slots' = Removed(slots, d)
    BY <1>6 DEF CloseFrame, Unregister
  <2> QED BY <1>5, <2>1, StaysUnreachable
<1>7. ASSUME NEW d \in Conns, Close(d)
      PROVE  phase'[c] # "http" /\ (Unreachable(c) => Unreachable(c)')
  <2>1. /\ phase' = [phase EXCEPT ![d] = "gone"] /\ closing' = closing \ {d}
        /\ slots' = Removed(slots, d)
    BY <1>7 DEF Close, Unregister
  <2>2. /\ phase'[c] # "http"
        /\ phase[c] # "ws" => phase'[c] # "ws"
        /\ c \in closing => c \in closing' \/ phase'[c] # "ws"
    BY <1>1, <2>1
  <2> QED BY <1>5, <2>1, <2>2, StaysUnreachable
<1>8. ASSUME NEW d \in Conns, CloseHttp(d)
      PROVE  phase'[c] # "http" /\ (Unreachable(c) => Unreachable(c)')
  <2>1. /\ d # c /\ phase'[c] = phase[c] /\ slots' = slots
        /\ c \in closing => c \in closing'
    BY <1>1, <1>8 DEF CloseHttp
  <2> QED BY <2>1, StaysUnreachable
<1>9. \A d \in Conns : Answer(d) => UNCHANGED connVars
  BY DEF Answer
<1>10. ASSUME NEW d, NEW u, NEW status,
              Bind(d, u, status) \/ BindRefused(d, u) \/ RemoveCommand(d, u)
       PROVE  UNCHANGED connVars
  BY <1>10, Zenon DEF Bind, BindRefused, RemoveCommand
<1>11. ApiPush => UNCHANGED connVars
  BY DEF ApiPush
<1> QED BY <1>2, <1>3, <1>4, <1>6, <1>7, <1>8, <1>9, <1>10, <1>11 DEF HubNext

LEMMA DeliveryCall ==
  ASSUME ServerInv, DeliveryInv, NEW j \in Calls, HandleCall(j)
  PROVE  DeliveryInv'
<1>1. /\ asked' = j /\ j = asked + 1 /\ fetched' = fetched /\ asked \in Nat
      /\ phase[CallerOf[j]] \in {"ws", "plain"}
      /\ UNCHANGED <<phase, closing, slots, batch, told>>
  BY DEF HandleCall, Pool!Accept, Pool!Refuse, Pool!Ask, Reading, connVars, ServerInv,
         ResponsesInv
<1>2. ResponseNotLost'
  BY <1>1 DEF DeliveryInv, ResponseNotLost, Listed, Unreachable, IsWebsocket, InTable
<1>3. \A k \in Calls : k <= asked' => k <= asked \/ k = j
  BY <1>1 DEF Calls
<1>4. (\A k \in Calls : k <= asked => phase[CallerOf[k]] # "http")'
  BY <1>1, <1>3 DEF DeliveryInv
<1>5. Listed(fetched)' = Listed(fetched) /\ Listed(fetched) \subseteq Calls
  BY <1>1, ElementOfSeq, LenProperties DEF DeliveryInv, Listed
<1>6. (\A k \in Listed(fetched) : k <= asked)'
  BY <1>1, <1>5 DEF DeliveryInv, Calls
<1> QED BY <1>1, <1>2, <1>4, <1>6 DEF DeliveryInv

\* Taking the list puts every response of it into the batch.
LEMMA DeliveryDrain ==
  ASSUME ServerInv, DeliveryInv, DrainCalls
  PROVE  DeliveryInv'
<1>1. /\ UNCHANGED <<phase, closing, slots, asked, told>>
      /\ batch = <<>> /\ batch' = ready /\ fetched' = fetched \o ready
  BY DEF DrainCalls, Polling, Pool!Fetch, hvars
<1>2. fetched \in Seq(Calls) /\ ready \in Seq(Calls)
  BY DEF DeliveryInv, ServerInv, ResponsesInv
<1>3. /\ fetched' \in Seq(Calls) /\ Len(fetched') = Len(fetched) + Len(ready)
      /\ \A i \in 1 .. Len(fetched) : fetched'[i] = fetched[i]
      /\ \A i \in 1 .. Len(ready) : fetched'[Len(fetched) + i] = ready[i]
  BY <1>1, <1>2, ConcatProperties
<1>4. /\ DOMAIN fetched = 1 .. Len(fetched) /\ DOMAIN ready = 1 .. Len(ready)
      /\ DOMAIN fetched' = 1 .. Len(fetched) + Len(ready)
      /\ Len(fetched) \in Nat /\ Len(ready) \in Nat
  BY <1>2, <1>3, LenProperties
<1>5. \A i \in DOMAIN fetched' : \/ (i \in DOMAIN fetched /\ fetched'[i] = fetched[i])
                                \/ (i - Len(fetched) \in DOMAIN ready
                                    /\ fetched'[i] = ready[i - Len(fetched)])
  <2> SUFFICES ASSUME NEW i \in DOMAIN fetched', i \notin DOMAIN fetched
               PROVE  i - Len(fetched) \in DOMAIN ready /\ fetched'[i] = ready[i - Len(fetched)]
    BY <1>3, <1>4
  <2>1. i - Len(fetched) \in 1 .. Len(ready) /\ Len(fetched) + (i - Len(fetched)) = i
    BY <1>4
  <2> QED BY <1>3, <1>4, <2>1
<1>6. Listed(fetched') \subseteq Listed(fetched) \cup Listed(ready)
  BY <1>5 DEF Listed
<1>7. Listed(batch) = {} /\ Listed(batch)' = Listed(ready) /\ Listed(fetched)' = Listed(fetched')
  BY <1>1 DEF Listed
<1>8. ResponseNotLost'
  BY <1>1, <1>6, <1>7 DEF DeliveryInv, ResponseNotLost, Unreachable, IsWebsocket, InTable
<1>9. (\A k \in Listed(fetched) : k <= asked)'
  BY <1>1, <1>6, <1>7 DEF DeliveryInv, ServerInv, ResponsesInv
<1> QED BY <1>1, <1>3, <1>8, <1>9 DEF DeliveryInv

\* The response at the head of the batch is sent unless its caller is missed.
LEMMA DeliveryDone ==
  ASSUME CallerOf \in [Calls -> Conns], ServerInv, DeliveryInv, CallDone
  PROVE  DeliveryInv'
<1> DEFINE j == Head(batch)
           c == CallerOf[j]
           found == EntryOf(c)
<1>1. /\ batch # <<>> /\ batch' = Tail(batch) /\ slots' = Walked(c)
      /\ out' = IF found = {} THEN <<>> ELSE ResponseTo(slots[Min(found)], j)
      /\ told' = IF out' = <<>> THEN told ELSE told \cup {j}
      /\ UNCHANGED <<phase, closing>> /\ UNCHANGED <<asked, fetched>>
  BY DEF CallDone, poolVars
<1>2. batch \in Seq(Calls) /\ fetched \in Seq(Calls)
  BY DEF ServerInv, ResponsesInv, DeliveryInv
<1>3. /\ Len(batch') = Len(batch) - 1 /\ j \in Calls /\ batch' \in Seq(Calls)
      /\ \A i \in 1 .. Len(batch') : batch'[i] = batch[i + 1]
      /\ j = batch[1]
  BY <1>1, <1>2, HeadTailProperties
<1>4. /\ DOMAIN batch = 1 .. Len(batch) /\ Len(batch) \in Nat \ {0}
      /\ DOMAIN batch' = 1 .. Len(batch')
  BY <1>1, <1>2, <1>3, LenProperties, EmptySeq
<1>5. \A i \in DOMAIN batch : i = 1 \/ (i - 1 \in DOMAIN batch' /\ batch'[i - 1] = batch[i])
  <2> SUFFICES ASSUME NEW i \in DOMAIN batch, i # 1
               PROVE  i - 1 \in DOMAIN batch' /\ batch'[i - 1] = batch[i]
    OBVIOUS
  <2>1. i - 1 \in 1 .. Len(batch') /\ (i - 1) + 1 = i
    BY <1>3, <1>4
  <2> QED BY <1>3, <1>4, <2>1
<1>6. Listed(batch) \subseteq {j} \cup Listed(batch')
  BY <1>3, <1>5 DEF Listed
<1>7. /\ slots \in [Table -> Conns \cup {None}] /\ None \notin Conns
  BY HubAssumption DEF ServerInv, HubCore, ConnType
<1>8. \A d \in Conns : Unreachable(d) => Unreachable(d)'
  <2> SUFFICES ASSUME NEW d \in Conns, Unreachable(d) PROVE Unreachable(d)'
    OBVIOUS
  <2>1. \A i \in Table : slots'[i] = d => slots[i] = d
    BY <1>1, <1>7 DEF Walked
  <2> QED BY <1>1, <2>1, StaysUnreachable
<1>9. ASSUME out' = <<>> PROVE Unreachable(c)
  <2>1. CASE found = {}
    BY <2>1 DEF EntryOf, Unreachable, InTable
  <2>2. CASE found # {}
    <3>1. slots[Min(found)] = c
      BY <2>2, FirstEntry DEF EntryOf
    <3>2. ResponseTo(c, j) = <<>>
      BY <1>1, <1>9, <2>2, <3>1
    <3> QED BY <3>2 DEF ResponseTo, Unreachable
  <2> QED BY <2>1, <2>2
<1>10. ResponseNotLost'
  <2> SUFFICES ASSUME NEW k \in Listed(fetched), k \notin told', k \notin Listed(batch')
               PROVE  Unreachable(CallerOf[k])'
    BY <1>1 DEF ResponseNotLost, Listed
  <2>1. k \in Calls /\ CallerOf[k] \in Conns
    BY <1>2, ElementOfSeq, LenProperties DEF Listed
  <2>2. Unreachable(CallerOf[k])
    <3>1. CASE k = j
      BY <1>1, <1>9, <3>1
    <3>2. CASE k # j
      BY <1>1, <1>6, <3>2 DEF DeliveryInv, ResponseNotLost
    <3> QED BY <3>1, <3>2
  <2> QED BY <1>8, <2>1, <2>2
<1> QED BY <1>1, <1>10 DEF DeliveryInv, Listed

\* Whatever happens to its caller and to the table, a response taken from the
\* pool is handed out, sent, or has nobody left to be sent to.
THEOREM ResponsesReachCallers ==
  ASSUME CallerOf \in [Calls -> Conns]
  PROVE  Spec => []ResponseNotLost
<1>1. Init => DeliveryInv
  <2> SUFFICES ASSUME Init PROVE DeliveryInv
    OBVIOUS
  <2>1. asked = 0 /\ fetched = <<>> /\ Listed(fetched) = {}
    BY DEF Init, Pool!SInit, Listed
  <2>2. \A j \in Calls : ~ (j <= asked)
    BY <2>1 DEF Calls
  <2> QED BY <2>1, <2>2, EmptySeq DEF DeliveryInv, ResponseNotLost
<1>2. ASSUME ServerInv, DeliveryInv, [Next]_vars PROVE DeliveryInv'
  <2>1. CASE HubNext /\ UNCHANGED <<poolVars, batch, told>>
    <3>1. UNCHANGED <<asked, fetched, batch, told>>
      BY <2>1 DEF poolVars
    <3>2. \A j \in Calls : j <= asked => /\ phase'[CallerOf[j]] # "http"
                                         /\ Unreachable(CallerOf[j]) => Unreachable(CallerOf[j])'
      BY <1>2, <2>1, NoReturn DEF ServerInv, DeliveryInv
    <3>3. \A j \in Listed(fetched) : j \in Calls /\ j <= asked
      BY <1>2, ElementOfSeq, LenProperties DEF DeliveryInv, Listed
    <3>4. Listed(fetched)' = Listed(fetched) /\ Listed(batch)' = Listed(batch)
      BY <3>1 DEF Listed
    <3>5. ResponseNotLost'
      BY <1>2, <3>1, <3>2, <3>3, <3>4 DEF DeliveryInv, ResponseNotLost
    <3> QED BY <1>2, <3>1, <3>2, <3>4, <3>5 DEF DeliveryInv
  <2>2. ASSUME UNCHANGED <<phase, closing, slots, asked, fetched, batch, told>>
        PROVE  DeliveryInv'
    BY <1>2, <2>2 DEF DeliveryInv, ResponseNotLost, Listed, Unreachable, IsWebsocket, InTable
  <2>3. ASSUME NEW j \in Calls, WorkerAnswers(j)
        PROVE  UNCHANGED <<phase, closing, slots, asked, fetched, batch, told>>
    BY <2>3 DEF WorkerAnswers, Pool!Answer, Pool!Lose, hvars
  <2>4. UNCHANGED vars => UNCHANGED <<phase, closing, slots, asked, fetched, batch, told>>
    BY DEF vars, hvars, poolVars
  <2> QED BY <1>2, <2>1, <2>2, <2>3, <2>4, DeliveryCall, DeliveryDrain, DeliveryDone DEF Next
<1>3. DeliveryInv => ResponseNotLost
  BY DEF DeliveryInv
<1> QED BY <1>1, <1>2, <1>3, ServerInvariance, PTL DEF Spec
=============================================================================
