-------------------------------- MODULE WsHub --------------------------------
(***************************************************************************)
(* WebSocket connections, the tasks bound through them and the events      *)
(* pushed to them (src/src/handler_ws.c, realtime.c, event_pusher.c and    *)
(* the /soket and /api branches of handler.c).                             *)
(*                                                                         *)
(* Everything here runs on the main thread, one mongoose event handler at  *)
(* a time, so an action is a handler from its first line to its last.  What *)
(* makes it hard is that the same connection is remembered in three places *)
(* (the table g_ws_conns, the broadcast target g_ws_conn, the conn_id of   *)
(* its tasks) which different handlers clean up, while mongoose frees the  *)
(* connection after MG_EV_CLOSE.                                           *)
(*                                                                         *)
(* A connection is named by its id (mongoose never reuses one); a pointer  *)
(* to it dangles once its phase is "gone".  The variable out holds the     *)
(* frames the last handler gave to mongoose, in order.  An operator named  *)
(* X_Y is a faulty variant of the operator X below it (see the README).    *)
(***************************************************************************)
EXTENDS Naturals, FiniteSetsExt, Sequences

CONSTANTS
  MaxConns,    \* bound: how many connections there are
  MaxTasks,    \* bound: how many tasks are ever created
  TableSize,   \* WS_MAX_CONNS
  Uuids,       \* the uuids clients send
  Stored,      \* what strncpy keeps of each of them in task.uuid[64]
  AllocFails,  \* may calloc/realloc return NULL?
  None         \* NULL

Conns == 1 .. MaxConns
Table == 1 .. TableSize

ASSUME HubAssumption ==
  /\ MaxConns \in Nat
  /\ MaxTasks \in Nat
  /\ TableSize \in Nat \ {0}
  /\ Stored \in [Uuids -> Uuids]
  /\ \A u \in Uuids : Stored[Stored[u]] = Stored[u]
  /\ None \notin Conns
  /\ AllocFails \in BOOLEAN

VARIABLES
  phase,     \* "http": handled by ev_handler; "ws" / "plain": by ws_ev_handler
             \* with is_websocket 1 / 0; "gone": freed
  closing,   \* connections with is_closing set and MG_EV_CLOSE still to come
  slots,     \* g_ws_conns
  gWsConn,   \* g_ws_conn
  tasks,     \* the list g_scheduler.tasks; the head has the highest id
  count,     \* g_scheduler.count
  counter,   \* g_counter, the source of task ids
  listening, \* the ipc paths on which a task's socket listens
  out        \* the frames of the last handler: [to, event]

hvars == <<phase, closing, slots, gWsConn, tasks, count, counter, listening, out>>
connVars == <<phase, closing, slots, gWsConn>>
taskVars == <<tasks, count, counter, listening>>

Task == [id : Nat, uuid : Uuids, path : Uuids, conn : Conns,
         status : {"idle", "running", "error"}, nng : BOOLEAN]

Events == {"online", "hello", "create", "running", "bind ok", "bind failed",
           "error", "stopped", "remove ok", "answer", "api"}

HubInit ==
  /\ phase = [c \in Conns |-> "http"]
  /\ closing = {}
  /\ slots = [i \in Table |-> None]
  /\ gWsConn = None
  /\ tasks = {}
  /\ count = 0
  /\ counter = 0
  /\ listening = {}
  /\ out = <<>>

-----------------------------------------------------------------------------
(* Frames.                                                                 *)

IsWebsocket(c) == phase[c] = "ws"

\* event_push_to: nothing is sent to a connection that is no WebSocket.
PushTo(c, event) ==
  IF IsWebsocket(c) THEN <<[to |-> c, event |-> event]>> ELSE <<>>

\* event_push, the broadcast of the server: to g_ws_conn only.
Push(target, event) ==
  IF target = None THEN <<>> ELSE PushTo(target, event)

\* event_pusher_has_connection, the "websocket" field of GET /api/status.
HasConnection == gWsConn # None /\ IsWebsocket(gWsConn)

-----------------------------------------------------------------------------
(* The connection table.                                                   *)

FreeSlots(table) == {i \in Table : table[i] = None}
Used(table) == Table \ FreeSlots(table)

\* ws_conn_register drops the entries of closing connections on its way.
Swept(table) == [i \in Table |-> IF table[i] \in closing THEN None ELSE table[i]]

\* GET /soket: mg_ws_upgrade, then c->fn = ws_ev_handler and ws_on_upgrade,
\* whether or not mongoose accepted the upgrade (a request without a
\* Sec-WebSocket-Key is answered 426 and stays a plain connection).  A request
\* whose announced body never came is handled when the connection closes, so a
\* closing connection may be upgraded too.
Upgrade(c, kind) ==
  LET table == Swept(slots)
  IN  /\ phase[c] = "http"
      /\ phase' = [phase EXCEPT ![c] = kind]
      /\ IF FreeSlots(table) = {}
           THEN /\ slots' = table        \* full: is_draining
                /\ out' = <<>>
                /\ UNCHANGED gWsConn
           ELSE /\ slots' = [table EXCEPT ![Min(FreeSlots(table))] = c]
                /\ gWsConn' = c
                /\ out' = IF kind = "ws"
                            THEN <<[to |-> c, event |-> "online"],
                                   [to |-> c, event |-> "hello"]>>
                            ELSE <<>>
      /\ UNCHANGED <<closing, taskVars>>

Removed(table, c) == [i \in Table |-> IF table[i] = c THEN None ELSE table[i]]

\* ws_conn_unregister: if the broadcast target goes away the last entry of the
\* table becomes the target.
NewTarget_Kept(table, c) == gWsConn
NewTarget_NoFallback(table, c) == IF gWsConn = c THEN None ELSE gWsConn
NewTarget(table, c) ==
  IF gWsConn # c THEN gWsConn
  ELSE IF Used(table) = {} THEN None
  ELSE table[Max(Used(table))]

Unregister(c) ==
  /\ slots' = Removed(slots, c)
  /\ gWsConn' = NewTarget(Removed(slots, c), c)

\* mongoose gave up on the connection (socket error, out of memory): is_closing
\* is set, MG_EV_CLOSE comes when the poll loop reaches the connection.
Fail(c) ==
  /\ phase[c] \in {"http", "ws", "plain"}
  /\ c \notin closing
  /\ closing' = closing \cup {c}
  /\ out' = <<>>
  /\ UNCHANGED <<phase, slots, gWsConn, taskVars>>

\* ws_ev_handler runs for c.  mg_ws_cb hands over every frame that is buffered,
\* those behind a close frame, an error or a full table included: it looks
\* neither at is_draining nor at is_closing.
Reading(c) == phase[c] \in {"ws", "plain"}

\* MG_EV_WS_CTL with a close frame.
CloseFrame(c) ==
  /\ Reading(c)
  /\ Unregister(c)
  /\ out' = <<>>
  /\ UNCHANGED <<phase, closing, taskVars>>

-----------------------------------------------------------------------------
(* Tasks (realtime.c).                                                     *)

\* find_node compares the whole uuid of the command with the stored ones.
Matches_Never(u) == {}
Matches(u) == {t \in tasks : t.uuid = u}

\* nng_listen fails on a path that is in use.
CanListen(u) == u \notin listening

NewTask(c, u, status) ==
  [id |-> counter, uuid |-> Stored[u], path |-> u, conn |-> c,
   status |-> status, nng |-> status # "idle"]

\* handle_bind, with rt_create_task and rt_start_task.  The task stays "idle"
\* when its socket cannot listen; otherwise process_init of the plugin
\* succeeds ("running") or not ("error").
Bind(c, u, status) ==
  /\ Reading(c)
  /\ Matches(u) = {}
  /\ status # "idle" => CanListen(u)
  /\ counter < MaxTasks                       \* bound
  /\ tasks' = tasks \cup {NewTask(c, u, status)}
  /\ count' = count + 1
  /\ counter' = counter + 1
  /\ listening' = IF status = "idle" THEN listening ELSE listening \cup {u}
  /\ out' = Push(gWsConn, "create")
            \o (IF status = "running" THEN Push(gWsConn, "running") ELSE <<>>)
            \o PushTo(c, IF status = "running" THEN "bind ok" ELSE "bind failed")
  /\ UNCHANGED connVars

\* rt_create_task returned NULL: the uuid is taken, or no memory.
BindRefused(c, u) ==
  /\ Reading(c)
  /\ Matches(u) # {} \/ AllocFails
  /\ out' = PushTo(c, "error")
  /\ UNCHANGED <<connVars, taskVars>>

ClosedPaths_None(gone) == {}
ClosedPaths(gone) == {t.path : t \in {u \in gone : u.nng}}

\* rt_remove_task of some tasks: unlink, close the socket, free.
Uncount(gone) == count - Cardinality(gone)
RemoveTasks(gone) ==
  /\ tasks' = tasks \ gone
  /\ count' = Uncount(gone)
  /\ listening' = listening \ ClosedPaths(gone)
  /\ UNCHANGED counter

\* handle_remove: any connection may remove any task; the list is searched from
\* its head, so the newest match goes.
RemoveCommand(c, u) ==
  /\ Reading(c)
  /\ \E t \in Matches(u) :
       /\ \A v \in Matches(u) : v.id <= t.id
       /\ RemoveTasks({t})
  /\ out' = Push(gWsConn, "stopped") \o PushTo(c, "remove ok")
  /\ UNCHANGED connVars

\* Messages that are only answered: ping, status, echo, msg, an unknown or
\* incomplete command, a remove that finds nothing, a message too large.
Answer(c) ==
  /\ Reading(c)
  /\ out' = PushTo(c, "answer")
  /\ UNCHANGED <<connVars, taskVars>>

\* rt_remove_tasks_by_conn collects its victims in an array of 8, 16, ... and
\* goes on with what it has when realloc fails: with none of them here
\* (BOUND: a connection has at most 8 tasks).
OwnTasks_None(c) == {}
OwnTasks_All(c) == tasks
OwnTasks(c) == {t \in tasks : t.conn = c}
Victims(c) == {OwnTasks(c)} \cup (IF AllocFails THEN {{}} ELSE {})

\* MG_EV_CLOSE in ws_ev_handler, after which mongoose frees the connection.
\* The removals are announced to the new broadcast target.
Close(c) ==
  /\ phase[c] \in {"ws", "plain"}
  /\ phase' = [phase EXCEPT ![c] = "gone"]
  /\ closing' = closing \ {c}
  /\ Unregister(c)
  /\ \E gone \in Victims(c) :
       /\ RemoveTasks(gone)
       /\ out' = IF gWsConn' # None /\ IsWebsocket(gWsConn')
                   THEN [i \in 1 .. Cardinality(gone) |->
                           [to |-> gWsConn', event |-> "stopped"]]
                   ELSE <<>>

\* MG_EV_CLOSE in ev_handler: only sse_on_close, nothing here.
CloseHttp(c) ==
  /\ phase[c] = "http"
  /\ phase' = [phase EXCEPT ![c] = "gone"]
  /\ closing' = closing \ {c}
  /\ out' = <<>>
  /\ UNCHANGED <<slots, gWsConn, taskVars>>

\* POST /api/iceoryx, or a request routed to a plugin: one event to g_ws_conn.
ApiPush ==
  /\ out' = Push(gWsConn, "api")
  /\ UNCHANGED <<connVars, taskVars>>

HubNext ==
  \/ \E c \in Conns :
       \/ \E kind \in {"ws", "plain"} : Upgrade(c, kind)
       \/ Fail(c) \/ CloseFrame(c) \/ Close(c) \/ CloseHttp(c)
       \/ Answer(c)
       \/ \E u \in Uuids :
            \/ \E status \in {"idle", "running", "error"} : Bind(c, u, status)
            \/ BindRefused(c, u)
            \/ RemoveCommand(c, u)
  \/ ApiPush

HubSpec == HubInit /\ [][HubNext]_hvars

-----------------------------------------------------------------------------
(* Properties.                                                             *)

HubTypeOK ==
  /\ phase \in [Conns -> {"http", "ws", "plain", "gone"}]
  /\ closing \in SUBSET Conns
  /\ slots \in [Table -> Conns \cup {None}]
  /\ gWsConn \in Conns \cup {None}
  /\ tasks \in SUBSET Task
  /\ count \in Nat
  /\ counter \in Nat
  /\ listening \in SUBSET Uuids
  /\ out \in Seq([to : Conns, event : Events])

\* Neither the table nor the broadcast target refers to a connection that was
\* freed, whichever of close frame, error and close came first; a connection
\* has one table entry.
NoDangling ==
  /\ \A i \in Used(slots) : phase[slots[i]] \in {"ws", "plain"}
  /\ \A i, k \in Used(slots) : slots[i] = slots[k] => i = k
  /\ gWsConn # None => phase[gWsConn] \in {"ws", "plain"}

\* As long as some connection is in the table, broadcasts have a target.
TargetKept == gWsConn = None => Used(slots) = {}

\* No task outlives the connection that bound it.
NoOrphanTask == \A t \in tasks : phase[t.conn] \in {"ws", "plain"}

\* The sockets that listen are those of the tasks in the list that got one, and
\* every running task has its own: none leaks through a failed start, a
\* removal or a close.
ListenersExact ==
  /\ listening = {t.path : t \in {u \in tasks : u.nng}}
  /\ \A t \in tasks : t.status = "running" => t.nng
  /\ \A t, u \in tasks : t.nng /\ u.nng /\ t.path = u.path => t = u

\* The count reported by the status command is the length of the list, and two
\* tasks with one uuid come from a uuid too long for task.uuid.
TaskTableSound ==
  /\ count = Cardinality(tasks)
  /\ \A t, u \in tasks :
       /\ t.id = u.id => t = u
       /\ t.uuid = u.uuid /\ t # u => t.uuid # t.path \/ u.uuid # u.path

\* One step removes one task by command, or those of one closing connection
\* and no other's.
OthersTasksSurvive ==
  [][\A t \in tasks \ tasks' :
       \/ tasks \ tasks' = {t} /\ phase' = phase
       \/ phase[t.conn] # "gone" /\ phase'[t.conn] = "gone"]_hvars

\* GET /api/status says "connected" exactly while a WebSocket client is in the
\* table (docs/http-api.md).
StatusTruthful ==
  HasConnection <=> \E i \in Used(slots) : IsWebsocket(slots[i])

-----------------------------------------------------------------------------
(* The inductive invariant.                                                *)

\* Task ids are handed out by a counter; the list is finite.
TaskIdInv == IsFiniteSet(tasks) /\ \A t \in tasks : t.id < counter

HubInv ==
  /\ HubTypeOK
  /\ NoDangling
  /\ TargetKept
  /\ ~AllocFails => NoOrphanTask
  /\ ListenersExact
  /\ TaskTableSound
  /\ TaskIdInv
=============================================================================
