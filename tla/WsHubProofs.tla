----------------------------- MODULE WsHubProofs -----------------------------
(***************************************************************************)
(* Safety of connections, tasks and listeners for any numbers of them and  *)
(* any size of the connection table.                                       *)
(***************************************************************************)
EXTENDS WsHub, FiniteSetTheorems, WellFoundedInduction, TLAPS

\* The last entry of a table with entries: a set of indices has a maximum, the
\* one with the fewest indices above it.
LEMMA LastUsed ==
  ASSUME NEW S \in SUBSET Table, S # {}
  PROVE  Max(S) \in S
<1> DEFINE Above(x) == {y \in S : y > x}
           T == {Above(x) : x \in S}
<1>0. \A z \in S : z \in Int
  BY HubAssumption DEF Table
<1>1. T \subseteq FiniteSubsetsOf(Table) /\ T # {}
  <2>1. ASSUME NEW x \in S PROVE Above(x) \in FiniteSubsetsOf(Table)
    <3>1. IsFiniteSet(Table)
      BY FS_Interval, HubAssumption, SMT DEF Table
    <3>2. Above(x) \in SUBSET Table
      OBVIOUS
    <3> QED BY <3>1, <3>2, FS_Subset DEF FiniteSubsetsOf
  <2> QED BY <2>1
<1>2. PICK m \in T : \A n \in T : ~ (<<n, m>> \in StrictSubsetOrdering(Table))
  <2> HIDE DEF T
  <2> QED BY <1>1, FS_StrictSubsetOrderingWellFounded, WFMin
<1>3. PICK x \in S : m = Above(x)
  OBVIOUS
<1>4. \A y \in S : x >= y
  <2> SUFFICES ASSUME NEW y \in S, ~ (x >= y) PROVE FALSE
    OBVIOUS
  <2>1. y > x /\ x \in Int /\ y \in Int
    BY <1>0
  <2>2. Above(y) \subseteq Above(x) /\ y \in Above(x) /\ y \notin Above(y)
    <3>1. ~ (y > y) /\ \A z \in S : z > y => z > x
      BY <1>0, <2>1
    <3> QED BY <3>1, <2>1, Zenon
  <2>3. <<Above(y), Above(x)>> \in StrictSubsetOrdering(Table)
    BY <2>2 DEF StrictSubsetOrdering
  <2> QED BY <2>3, <1>2, <1>3
<1> QED BY <1>4 DEF Max

\* The broadcast target after ws_conn_unregister is none only if the table is
\* empty, and otherwise the old one or an entry of the table.
LEMMA TargetFacts ==
  ASSUME NEW table \in [Table -> Conns \cup {None}], NEW c \in Conns
  PROVE  \/ gWsConn # c /\ NewTarget(table, c) = gWsConn
         \/ Used(table) = {} /\ NewTarget(table, c) = None
         \/ \E i \in Used(table) : NewTarget(table, c) = table[i]
<1>1. Used(table) \in SUBSET Table
  BY DEF Used
<1> QED BY <1>1, LastUsed DEF NewTarget

\* A table entry is used if it holds a connection.
LEMMA UsedFacts ==
  ASSUME NEW table, NEW i \in Table
  PROVE  i \in Used(table) <=> table[i] # None
  BY DEF Used, FreeSlots

\* Frames are pairs of a connection and an event.
Frames == [to : Conns, event : Events]

\* What is pushed to a connection or to the target is a list of frames.
LEMMA FrameType ==
  ASSUME NEW target \in Conns \cup {None}, NEW event \in Events
  PROVE  /\ Push(target, event) \in Seq(Frames)
         /\ target \in Conns => PushTo(target, event) \in Seq(Frames)
<1>1. target \in Conns => <<[to |-> target, event |-> event]>> \in Seq(Frames)
  BY DEF Frames
<1>2. <<>> \in Seq(Frames)
  OBVIOUS
<1> QED BY <1>1, <1>2 DEF PushTo, Push

\* The empty tables satisfy the invariant.
LEMMA HubInitial == HubInit => HubInv
<1> SUFFICES ASSUME HubInit PROVE HubInv
  OBVIOUS
<1> USE DEF HubInit
<1>1. HubTypeOK
  BY HubAssumption DEF HubTypeOK
<1>2. Used(slots) = {}
  BY DEF Used, FreeSlots
<1>3. NoDangling /\ TargetKept /\ NoOrphanTask
  BY <1>2 DEF NoDangling, TargetKept, NoOrphanTask
<1>4. ListenersExact /\ TaskTableSound /\ TaskIdInv
  BY FS_EmptySet DEF ListenersExact, TaskTableSound, TaskIdInv
<1> QED BY <1>1, <1>3, <1>4 DEF HubInv

\* The table, the broadcast target and the connections fit together.
Sound(ph, tab, target) ==
  /\ \A i \in Table : tab[i] # None => ph[tab[i]] \in {"ws", "plain"}
  /\ \A i, k \in Table : tab[i] # None /\ tab[i] = tab[k] => i = k
  /\ target # None => ph[target] \in {"ws", "plain"}
  /\ target = None => \A i \in Table : tab[i] = None

ConnType ==
  /\ phase \in [Conns -> {"http", "ws", "plain", "gone"}]
  /\ closing \in SUBSET Conns
  /\ slots \in [Table -> Conns \cup {None}]
  /\ gWsConn \in Conns \cup {None}

TaskType ==
  /\ tasks \in SUBSET Task
  /\ count \in Nat
  /\ counter \in Nat
  /\ listening \in SUBSET Uuids

TaskInv == TaskType /\ ListenersExact /\ TaskTableSound /\ TaskIdInv

\* All of the invariant that is not about the frames sent, or about memory.
HubCore == ConnType /\ NoDangling /\ TargetKept /\ TaskInv

LEMMA CoreOfInv == HubInv => HubCore
  BY DEF HubInv, HubCore, HubTypeOK, ConnType, TaskInv, TaskType

\* Sound is what NoDangling and TargetKept say together.
LEMMA SoundMeaning ==
  Sound(phase, slots, gWsConn) <=> NoDangling /\ TargetKept
  BY UsedFacts DEF Sound, NoDangling, TargetKept, Used

\* Dropping a connection from the table, whether it goes away or not.
LEMMA UnregisterSound ==
  ASSUME ConnType, Sound(phase, slots, gWsConn), NEW c \in Conns, Unregister(c),
         NEW ph, \A d \in Conns \ {c} : ph[d] = phase[d]
  PROVE  /\ slots' \in [Table -> Conns \cup {None}]
         /\ gWsConn' \in Conns \cup {None}
         /\ Sound(ph, slots', gWsConn')
<1> USE HubAssumption DEF ConnType
<1>1. /\ slots' \in [Table -> Conns \cup {None}]
      /\ \A i \in Table : slots'[i] = IF slots[i] = c THEN None ELSE slots[i]
  BY DEF Unregister, Removed
<1>2. \/ gWsConn # c /\ gWsConn' = gWsConn
      \/ Used(slots') = {} /\ gWsConn' = None
      \/ \E i \in Used(slots') : gWsConn' = slots'[i]
  BY <1>1, TargetFacts DEF Unregister
<1>3. \/ gWsConn # c /\ gWsConn' = gWsConn
      \/ (\A i \in Table : slots'[i] = None) /\ gWsConn' = None
      \/ \E i \in Table : slots'[i] # None /\ gWsConn' = slots'[i]
  BY <1>2, UsedFacts DEF Used
<1>4. gWsConn' \in Conns \cup {None}
  BY <1>1, <1>3
<1>5. Sound(ph, slots', gWsConn')
  BY <1>1, <1>3, SMT DEF Sound
<1> QED BY <1>1, <1>4, <1>5

\* Only the handlers of connections touch the table, and each leaves it sound.
LEMMA ConnStep ==
  ASSUME HubCore, [HubNext]_hvars
  PROVE  ConnType' /\ NoDangling' /\ TargetKept'
<1>1. ConnType /\ Sound(phase, slots, gWsConn)
  BY SoundMeaning DEF HubCore
<1> USE <1>1, HubAssumption
<1> DEFINE Goal == ConnType' /\ Sound(phase', slots', gWsConn')
<1>2. ASSUME NEW c \in Conns, NEW kind \in {"ws", "plain"}, Upgrade(c, kind) PROVE Goal
  <2>1. /\ Swept(slots) \in [Table -> Conns \cup {None}]
        /\ \A i \in Table : Swept(slots)[i] # None => Swept(slots)[i] = slots[i]
    BY DEF Swept, ConnType
  <2>2. CASE FreeSlots(Swept(slots)) = {}
    BY <1>2, <2>1, <2>2, SMT DEF Upgrade, ConnType, Sound
  <2>3. CASE FreeSlots(Swept(slots)) # {}
    <3> DEFINE m == Min(FreeSlots(Swept(slots)))
    <3>1. /\ slots' = [Swept(slots) EXCEPT ![m] = c] /\ gWsConn' = c
          /\ phase[c] = "http" /\ phase' = [phase EXCEPT ![c] = kind]
          /\ closing' = closing
      BY <1>2, <2>3 DEF Upgrade
    <3> HIDE DEF m
    <3>2. ConnType'
      BY <3>1, <2>1 DEF ConnType
    <3>3. \A i \in Table : slots'[i] = c \/ slots'[i] = None
                             \/ (slots'[i] = slots[i] /\ slots[i] # c)
      BY <3>1, <2>1 DEF ConnType, Sound
    <3>4. \A i \in Table : slots'[i] = c => i = m
      BY <3>1, <3>3, <2>1 DEF ConnType, Sound
    <3>5. \A d \in Conns : phase'[d] = IF d = c THEN kind ELSE phase[d]
      BY <3>1 DEF ConnType
    <3>6. Sound(phase', slots', gWsConn')
      BY <3>1, <3>3, <3>4, <3>5, SMT DEF ConnType, Sound
    <3> QED BY <3>2, <3>6
  <2> QED BY <2>2, <2>3
<1>3. ASSUME NEW c \in Conns, Fail(c) PROVE Goal
  BY <1>3 DEF Fail, ConnType
<1>4. ASSUME NEW c \in Conns, CloseFrame(c) PROVE Goal
  BY <1>4, UnregisterSound DEF CloseFrame, ConnType
<1>5. ASSUME NEW c \in Conns, Close(c) PROVE Goal
  <2>1. /\ phase' = [phase EXCEPT ![c] = "gone"] /\ closing' = closing \ {c}
        /\ Unregister(c)
    BY <1>5 DEF Close
  <2>2. \A d \in Conns \ {c} : phase'[d] = phase[d]
    BY <2>1 DEF ConnType
  <2> QED BY <2>1, <2>2, UnregisterSound DEF ConnType
<1>6. ASSUME NEW c \in Conns, CloseHttp(c) PROVE Goal
  BY <1>6, SMT DEF CloseHttp, ConnType, Sound
<1>7. ASSUME UNCHANGED connVars PROVE Goal
  BY <1>7 DEF connVars, ConnType
<1>8. Goal
  <2>1. UNCHANGED hvars => UNCHANGED connVars
    BY DEF hvars, connVars
  <2> HIDE DEF Goal
  <2> QED
    BY <2>1, <1>2, <1>3, <1>4, <1>5, <1>6, <1>7
    DEF HubNext, Bind, BindRefused, RemoveCommand, Answer, ApiPush
<1>9. (NoDangling /\ TargetKept)'
  BY <1>8, UsedFacts DEF Sound, NoDangling, TargetKept, Used
<1> QED BY <1>8, <1>9

\* A task created by bind has an id of its own, a uuid no other task has (after
\* it was cut), and listens only where nobody does.
LEMMA BindStep ==
  ASSUME TaskInv, NEW c \in Conns, NEW u \in Uuids,
         NEW status \in {"idle", "running", "error"}, Bind(c, u, status)
  PROVE  TaskInv'
<1> DEFINE n == NewTask(c, u, status)
<1>1. /\ tasks' = tasks \cup {n} /\ count' = count + 1 /\ counter' = counter + 1
      /\ listening' = IF status = "idle" THEN listening ELSE listening \cup {u}
      /\ \A t \in tasks : t.uuid # u
      /\ status # "idle" => u \notin listening
  BY DEF Bind, Matches, CanListen
<1>2. /\ n \in Task
      /\ n.id = counter /\ n.uuid = Stored[u] /\ n.path = u /\ n.status = status
      /\ n.nng <=> status # "idle"
  BY HubAssumption DEF NewTask, Task, TaskInv, TaskType
<1> HIDE DEF n
<1>3. TaskType'
  BY <1>1, <1>2 DEF TaskInv, TaskType
<1>4. \A t \in tasks : t.id \in Nat /\ t.id < counter /\ t # n
  BY <1>2 DEF TaskInv, TaskType, TaskIdInv, Task
<1>5. TaskIdInv'
  <2>1. IsFiniteSet(tasks')
    BY <1>1, FS_AddElement DEF TaskInv, TaskIdInv
  <2> QED BY <2>1, <1>1, <1>2, <1>4 DEF TaskInv, TaskType, TaskIdInv
<1>6. TaskTableSound'
  <2>1. count' = Cardinality(tasks')
    BY <1>1, <1>4, FS_AddElement DEF TaskInv, TaskIdInv, TaskTableSound
  <2>2. \A t, v \in tasks' : t.id = v.id => t = v
    BY <1>1, <1>2, <1>4 DEF TaskInv, TaskType, TaskTableSound
  <2>3. \A t, v \in tasks' : t.uuid = v.uuid /\ t # v => t.uuid # t.path \/ v.uuid # v.path
    BY <1>1, <1>2 DEF TaskInv, TaskTableSound
  <2> QED BY <2>1, <2>2, <2>3 DEF TaskTableSound
<1>7. ListenersExact'
  <2>1. \A t \in tasks : t.nng => t.path \in listening
    BY DEF TaskInv, ListenersExact
  <2>2. listening' = {t.path : t \in {v \in tasks' : v.nng}}
    BY <1>1, <1>2 DEF TaskInv, ListenersExact
  <2>3. \A t \in tasks' : t.status = "running" => t.nng
    BY <1>1, <1>2 DEF TaskInv, ListenersExact
  <2>4. \A t, v \in tasks' : t.nng /\ v.nng /\ t.path = v.path => t = v
    BY <1>1, <1>2, <2>1 DEF TaskInv, ListenersExact
  <2> QED BY <2>2, <2>3, <2>4 DEF ListenersExact
<1> QED BY <1>3, <1>5, <1>6, <1>7 DEF TaskInv

\* Removing tasks closes exactly their listeners and counts exactly them.
LEMMA RemoveStep ==
  ASSUME TaskInv, NEW gone \in SUBSET tasks, RemoveTasks(gone)
  PROVE  TaskInv'
<1>1. /\ tasks' = tasks \ gone /\ count' = count - Cardinality(gone)
      /\ listening' = listening \ {t.path : t \in {v \in gone : v.nng}}
      /\ counter' = counter
  BY DEF RemoveTasks, Uncount, ClosedPaths
<1>2. /\ IsFiniteSet(tasks') /\ IsFiniteSet(gone)
      /\ Cardinality(tasks') = Cardinality(tasks) - Cardinality(gone)
      /\ Cardinality(tasks') \in Nat
  <2>1. tasks \cap gone = gone
    OBVIOUS
  <2>2. IsFiniteSet(tasks) /\ IsFiniteSet(gone)
    BY FS_Subset DEF TaskInv, TaskIdInv
  <2>3. /\ IsFiniteSet(tasks \ gone)
        /\ Cardinality(tasks \ gone) = Cardinality(tasks) - Cardinality(tasks \cap gone)
    BY <2>2, FS_Difference
  <2> QED BY <1>1, <2>1, <2>2, <2>3, FS_CardinalityType
<1>3. count' = Cardinality(tasks')
  BY <1>1, <1>2 DEF TaskInv, TaskTableSound
<1>4. TaskType' /\ TaskIdInv'
  BY <1>1, <1>2, <1>3 DEF TaskInv, TaskType, TaskIdInv
<1>5. TaskTableSound'
  BY <1>1, <1>3 DEF TaskInv, TaskTableSound
<1>6. ListenersExact'
  BY <1>1 DEF TaskInv, ListenersExact
<1> QED BY <1>4, <1>5, <1>6 DEF TaskInv

\* What closing connections and commands remove are tasks of the list.
LEMMA TaskStep ==
  ASSUME HubCore, [HubNext]_hvars
  PROVE  TaskInv'
<1>1. TaskInv
  BY DEF HubCore
<1>2. ASSUME UNCHANGED taskVars PROVE TaskInv'
  BY <1>1, <1>2
  DEF taskVars, TaskInv, TaskType, ListenersExact, TaskTableSound, TaskIdInv
<1>3. ASSUME NEW c \in Conns, Close(c) PROVE TaskInv'
  <2>1. PICK gone \in Victims(c) : RemoveTasks(gone)
    BY <1>3 DEF Close
  <2>2. gone \in SUBSET tasks
    BY <2>1 DEF Victims, OwnTasks
  <2> QED BY <1>1, <2>1, <2>2, RemoveStep
<1>4. ASSUME NEW c \in Conns, NEW u \in Uuids, RemoveCommand(c, u) PROVE TaskInv'
  <2>1. PICK t \in tasks : RemoveTasks({t})
    BY <1>4 DEF RemoveCommand, Matches
  <2> QED BY <1>1, <2>1, RemoveStep
<1>5. UNCHANGED hvars => UNCHANGED taskVars
  BY DEF hvars, taskVars
<1> QED
  BY <1>1, <1>2, <1>3, <1>4, <1>5, BindStep
  DEF HubNext, Upgrade, Fail, CloseFrame, CloseHttp, Answer, BindRefused, ApiPush

\* A closing connection takes its tasks along, if the array of victims can grow;
\* one that was never upgraded has none.
LEMMA OrphanStep ==
  ASSUME HubInv, [HubNext]_hvars, ~AllocFails
  PROVE  NoOrphanTask'
<1>1. /\ phase \in [Conns -> {"http", "ws", "plain", "gone"}]
      /\ \A t \in tasks : t.conn \in Conns /\ phase[t.conn] \in {"ws", "plain"}
  BY DEF HubInv, HubTypeOK, NoOrphanTask, Task
<1>2. ASSUME NEW c \in Conns, NEW kind \in {"ws", "plain"}, Upgrade(c, kind)
      PROVE  NoOrphanTask'
  BY <1>1, <1>2 DEF Upgrade, taskVars, NoOrphanTask
<1>3. ASSUME NEW c \in Conns, Close(c) PROVE NoOrphanTask'
  <2>1. PICK gone \in Victims(c) : RemoveTasks(gone)
    BY <1>3 DEF Close
  <2>2. \A t \in tasks' : t \in tasks /\ t.conn # c
    BY <2>1 DEF Victims, OwnTasks, RemoveTasks
  <2> QED BY <1>1, <1>3, <2>2 DEF Close, NoOrphanTask
<1>4. ASSUME NEW c \in Conns, CloseHttp(c) PROVE NoOrphanTask'
  BY <1>1, <1>4 DEF CloseHttp, taskVars, NoOrphanTask
<1>5. ASSUME NEW c \in Conns, NEW u \in Uuids,
             NEW status \in {"idle", "running", "error"}, Bind(c, u, status)
      PROVE  NoOrphanTask'
  <2>1. PICK n : n = NewTask(c, u, status)
    OBVIOUS
  <2>2. n.conn = c
    BY <2>1 DEF NewTask
  <2>3. phase' = phase /\ tasks' = tasks \cup {n} /\ phase[c] \in {"ws", "plain"}
    BY <1>5, <2>1 DEF Bind, Reading, connVars
  <2> QED BY <1>1, <2>2, <2>3 DEF NoOrphanTask
<1>6. ASSUME NEW c \in Conns, NEW u \in Uuids, RemoveCommand(c, u) PROVE NoOrphanTask'
  BY <1>1, <1>6 DEF RemoveCommand, RemoveTasks, connVars, NoOrphanTask
<1>7. ASSUME phase' = phase, tasks' = tasks PROVE NoOrphanTask'
  BY <1>1, <1>7 DEF NoOrphanTask
<1>8. ASSUME UNCHANGED hvars \/ UNCHANGED <<connVars, taskVars>> PROVE NoOrphanTask'
  BY <1>7, <1>8 DEF hvars, connVars, taskVars
<1>9. ASSUME NEW c \in Conns, Fail(c) \/ CloseFrame(c) PROVE NoOrphanTask'
  BY <1>7, <1>9 DEF Fail, CloseFrame, taskVars
<1> QED
  BY <1>2, <1>3, <1>4, <1>5, <1>6, <1>8, <1>9
  DEF HubNext, Answer, BindRefused, ApiPush

\* Two lists of frames in a row are a list of frames.
LEMMA Joined ==
  ASSUME NEW S, NEW a \in Seq(S), NEW b \in Seq(S)
  PROVE  a \o b \in Seq(S)
OBVIOUS

\* What a handler sends is a sequence of frames to connections.
LEMMA OutStep ==
  ASSUME HubCore, HubNext
  PROVE  out' \in Seq(Frames)
<1>0. /\ \A event \in Events : Push(gWsConn, event) \in Seq(Frames)
      /\ \A c \in Conns : \A event \in Events : PushTo(c, event) \in Seq(Frames)
  BY FrameType DEF HubCore, ConnType
<1>1. gWsConn \in Conns \cup {None} /\ None \notin Conns
  BY HubAssumption DEF HubCore, ConnType
<1>2. <<>> \in Seq(Frames)
  OBVIOUS
<1>3. ASSUME NEW c \in Conns, NEW kind \in {"ws", "plain"}, Upgrade(c, kind)
      PROVE  out' \in Seq(Frames)
  <2>1. <<[to |-> c, event |-> "online"], [to |-> c, event |-> "hello"]>> \in Seq(Frames)
    <3>1. [to |-> c, event |-> "online"] \in Frames /\ [to |-> c, event |-> "hello"] \in Frames
      BY DEF Frames, Events
    <3> QED BY <3>1
  <2> QED BY <1>2, <1>3, <2>1 DEF Upgrade
<1>4. ASSUME NEW c \in Conns, Close(c) PROVE out' \in Seq(Frames)
  <2>1. PICK gone \in Victims(c) :
          out' = IF gWsConn' # None /\ IsWebsocket(gWsConn')
                   THEN [i \in 1 .. Cardinality(gone) |->
                           [to |-> gWsConn', event |-> "stopped"]]
                   ELSE <<>>
    BY <1>4 DEF Close
  <2>2. Cardinality(gone) \in Nat
    BY <2>1, FS_Subset, FS_CardinalityType, FS_EmptySet
    DEF Victims, OwnTasks, HubCore, TaskInv, TaskIdInv
  <2>3. gWsConn' \in Conns \cup {None}
    BY ConnStep DEF ConnType
  <2>4. gWsConn' # None => [to |-> gWsConn', event |-> "stopped"] \in Frames
    BY <2>3 DEF Frames, Events
  <2> QED BY <1>2, <2>1, <2>2, <2>4
<1>5. ASSUME NEW c \in Conns, NEW u \in Uuids,
             NEW status \in {"idle", "running", "error"}, Bind(c, u, status)
      PROVE  out' \in Seq(Frames)
  <2>1. "create" \in Events /\ "running" \in Events /\ "bind ok" \in Events
        /\ "bind failed" \in Events
    BY DEF Events
  <2>2. /\ Push(gWsConn, "create") \in Seq(Frames)
        /\ (IF status = "running" THEN Push(gWsConn, "running") ELSE <<>>) \in Seq(Frames)
        /\ PushTo(c, IF status = "running" THEN "bind ok" ELSE "bind failed") \in Seq(Frames)
    BY <1>0, <1>2, <2>1
  <2>3. PICK a, b, d \in Seq(Frames) : out' = (a \o b) \o d
    BY <1>5, <2>2, Zenon DEF Bind
  <2>4. a \o b \in Seq(Frames)
    BY Joined
  <2> QED BY <2>3, <2>4, Joined
<1>6. ASSUME NEW c \in Conns, NEW u \in Uuids, RemoveCommand(c, u)
      PROVE  out' \in Seq(Frames)
  <2>1. Push(gWsConn, "stopped") \in Seq(Frames) /\ PushTo(c, "remove ok") \in Seq(Frames)
    BY <1>0 DEF Events
  <2>2. PICK a, b \in Seq(Frames) : out' = a \o b
    BY <1>6, <2>1, Zenon DEF RemoveCommand
  <2> QED BY <2>2, Joined
<1>7. ASSUME NEW c \in Conns, NEW u \in Uuids, BindRefused(c, u) PROVE out' \in Seq(Frames)
  BY <1>0, <1>7 DEF BindRefused, Events
<1>8. ASSUME NEW c \in Conns, Answer(c) PROVE out' \in Seq(Frames)
  BY <1>0, <1>8 DEF Answer, Events
<1>9. CASE ApiPush
  BY <1>0, <1>9 DEF ApiPush, Events
<1> QED
  BY <1>1, <1>2, <1>3, <1>4, <1>5, <1>6, <1>7, <1>8, <1>9
  DEF HubNext, Fail, CloseFrame, CloseHttp

\* The inductive invariant holds in every reachable state: whatever the order of
\* close frames, errors, upgrades, binds and removals, the three places where a
\* connection is remembered agree.
THEOREM HubInvariance == HubSpec => []HubInv
<1>1. ASSUME HubInv, [HubNext]_hvars PROVE HubInv'
  <2>1. HubCore /\ ConnType' /\ NoDangling' /\ TargetKept' /\ TaskInv'
    BY <1>1, CoreOfInv, ConnStep, TaskStep
  <2>2. out' \in Seq([to : Conns, event : Events])
    BY <1>1, <2>1, OutStep DEF Frames, hvars, HubInv, HubTypeOK
  <2>3. HubTypeOK'
    BY <2>1, <2>2 DEF HubTypeOK, ConnType, TaskInv, TaskType
  <2> QED BY <1>1, <2>1, <2>3, OrphanStep DEF HubInv, TaskInv
<1> QED BY <1>1, HubInitial, PTL DEF HubSpec

\* Every variable of the hub keeps its type.
THEOREM HubTypes == HubSpec => []HubTypeOK
  BY HubInvariance, PTL DEF HubInv

\* Neither the table nor the broadcast target refers to a freed connection.
THEOREM NothingDangles == HubSpec => []NoDangling
  BY HubInvariance, PTL DEF HubInv

\* Broadcasts have a target while any connection is in the table.
THEOREM TargetStays == HubSpec => []TargetKept
  BY HubInvariance, PTL DEF HubInv

\* No task outlives its connection, as long as memory can be had.
THEOREM NoOrphans == ASSUME ~AllocFails PROVE HubSpec => []NoOrphanTask
<1>1. HubInv => NoOrphanTask
  BY DEF HubInv
<1> QED BY <1>1, HubInvariance, PTL

\* The listeners are those of the tasks: none leaks, none is shared.
THEOREM ListenersCounted == HubSpec => []ListenersExact
  BY HubInvariance, PTL DEF HubInv

\* The count is the length of the list, and only cut uuids occur twice.
THEOREM TasksSound == HubSpec => []TaskTableSound
  BY HubInvariance, PTL DEF HubInv

\* A step removes one task by command or those of one closing connection.
THEOREM OthersSurvive == HubSpec => OthersTasksSurvive
<1> DEFINE Kept ==
      \A t \in tasks \ tasks' :
        \/ tasks \ tasks' = {t} /\ phase' = phase
        \/ phase[t.conn] # "gone" /\ phase'[t.conn] = "gone"
<1>1. ASSUME HubInv, [HubNext]_hvars PROVE [Kept]_hvars
  <2>1. ASSUME NEW c \in Conns, Close(c) PROVE Kept
    <3>1. PICK gone \in Victims(c) : RemoveTasks(gone)
      BY <2>1 DEF Close
    <3>2. \A t \in tasks \ tasks' : t.conn = c
      BY <3>1 DEF Victims, OwnTasks, RemoveTasks
    <3>3. phase[c] # "gone" /\ phase'[c] = "gone"
      BY <1>1, <2>1 DEF Close, HubInv, HubTypeOK
    <3> QED BY <3>2, <3>3
  <2>2. ASSUME NEW c \in Conns, NEW u \in Uuids, RemoveCommand(c, u) PROVE Kept
    <3>1. PICK t \in tasks : RemoveTasks({t})
      BY <2>2 DEF RemoveCommand, Matches
    <3>2. tasks \ tasks' = {t}
      BY <3>1 DEF RemoveTasks
    <3> QED BY <3>2, <2>2 DEF RemoveCommand, connVars
  <2>3. ASSUME tasks \subseteq tasks' PROVE Kept
    BY <2>3
  <2> HIDE DEF Kept
  <2> QED
    BY <1>1, <2>1, <2>2, <2>3
    DEF HubNext, hvars, Upgrade, Fail, CloseFrame, CloseHttp, Answer, Bind, BindRefused,
        ApiPush, taskVars
<1> QED BY <1>1, HubInvariance, PTL DEF HubSpec, OthersTasksSurvive
=============================================================================
