------------------------------ MODULE WsServer ------------------------------
(***************************************************************************)
(* The "call" command end to end: connections of WsHub send calls to the   *)
(* worker pool, and ws_drain_call_results hands the responses back         *)
(* (handle_call, ws_conn_find, ws_call_done in src/src/handler_ws.c, the   *)
(* loop of src/src/main.c).                                                *)
(*                                                                         *)
(* The pool is represented by CallService, which it implements             *)
(* (WsWorkerRefinement): between the call and its response the caller may  *)
(* have closed, failed or been swept out of the table, and the response    *)
(* finds it again by id only.  The server never stops its pool.            *)
(* ServerThreads is the server with the pool's threads; it implements this *)
(* one.                                                                    *)
(***************************************************************************)
EXTENDS WsHub

CONSTANTS
  MaxCalls,    \* bound: how many calls are made
  CallerOf,    \* the connection that makes each call
  MaxPerConn,  \* WS_WORKER_MAX_PER_CONN
  ConnLocks    \* WS_CONN_LOCKS

Calls == 1 .. MaxCalls

VARIABLES
  asked, turnedDown, waiting, ready, fetched, lost,  \* of CallService
  batch,  \* what the loop in ws_worker_drain still has to hand out
  told    \* history: calls whose response was sent to somebody

Pool == INSTANCE CallService WITH
  LastCall <- MaxCalls,
  Group    <- [j \in Calls |-> CallerOf[j] % ConnLocks],
  Limit    <- MaxPerConn,
  MayLose  <- AllocFails

poolVars == <<asked, turnedDown, waiting, ready, fetched, lost>>
vars == <<hvars, poolVars, batch, told>>

Init == HubInit /\ Pool!SInit /\ batch = <<>> /\ told = {}

\* The main thread is in mg_mgr_poll: it handles events.
Polling == batch = <<>>

\* handle_call: a parsed call is submitted; a refused one is answered -6 at once.
HandleCall(j) ==
  /\ Polling
  /\ Reading(CallerOf[j])
  /\ \/ Pool!Accept(j) /\ out' = <<>>
     \/ Pool!Refuse(j) /\ out' = PushTo(CallerOf[j], "busy")
  /\ UNCHANGED <<connVars, taskVars, batch, told>>

\* A worker thread finishes a call while the main thread does anything at all.
WorkerAnswers(j) ==
  /\ Pool!Answer(j) \/ Pool!Lose(j)
  /\ UNCHANGED <<hvars, batch, told>>

\* ws_drain_call_results: the whole list of responses is taken.
DrainCalls ==
  /\ Polling
  /\ Pool!Fetch
  /\ batch' = ready
  /\ UNCHANGED <<hvars, told>>

\* ws_conn_find walks the table up to the entry it looks for and clears the
\* entries of closing connections on its way.
EntryOf_Stale(c) == {i \in Table : slots[i] # None}
EntryOf_NotLast(c) == {i \in Table : i < TableSize /\ slots[i] = c /\ c \notin closing}
EntryOf(c) == {i \in Table : slots[i] = c /\ c \notin closing}
Walked(c) ==
  LET visited(i) == EntryOf(c) = {} \/ i < Min(EntryOf(c))
  IN  [i \in Table |-> IF visited(i) /\ slots[i] \in closing THEN None ELSE slots[i]]

\* event_push_to with the response of a call.
ResponseTo(c, j) ==
  IF IsWebsocket(c) THEN <<[to |-> c, response |-> j]>> ELSE <<>>

\* ws_call_done for the next response: to the connection found, or nowhere.
CallDone ==
  LET j == Head(batch)
      found == EntryOf(CallerOf[j])
  IN  /\ batch # <<>>
      /\ batch' = Tail(batch)
      /\ slots' = Walked(CallerOf[j])
      /\ out' = IF found = {} THEN <<>> ELSE ResponseTo(slots[Min(found)], j)
      /\ told' = IF out' = <<>> THEN told ELSE told \cup {j}
      /\ UNCHANGED <<phase, closing, gWsConn, taskVars, poolVars>>

Next ==
  \/ Polling /\ HubNext /\ UNCHANGED <<poolVars, batch, told>>
  \/ \E j \in Calls : HandleCall(j) \/ WorkerAnswers(j)
  \/ DrainCalls \/ CallDone

Spec == Init /\ [][Next]_vars

-----------------------------------------------------------------------------
(* Properties.                                                             *)

InTable(c) == \E i \in Table : slots[i] = c
Listed(s) == {s[i] : i \in DOMAIN s}

\* A response is sent to the connection that made the call or to nobody, not
\* to a later connection that got the same table entry; and it is sent once.
ResponseToCaller ==
  /\ \A i \in DOMAIN out :
       "response" \in DOMAIN out[i] => out[i].to = CallerOf[out[i].response]
  /\ told \cap (waiting \cup Listed(ready) \cup Listed(batch)) = {}

\* Nothing can be sent to c any more: it failed, it is no WebSocket, or it has
\* left the table.
Unreachable(c) == c \in closing \/ ~IsWebsocket(c) \/ ~InTable(c)

\* A response taken from the pool is still to be handed out, was sent, or has
\* nobody to be sent to: ws_conn_find misses no connection it should find, and
\* a caller that was missed never comes back.
ResponseNotLost ==
  \A j \in Listed(fetched) \ (told \cup Listed(batch)) : Unreachable(CallerOf[j])

\* A WebSocket client that stays in the table gets the response of every call
\* the pool accepted (short of lost memory).
CallAnswered ==
  \A j \in Calls :
    j \in waiting ~> j \in told \cup lost \/ Unreachable(CallerOf[j])
=============================================================================
