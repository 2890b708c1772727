---------------------------- MODULE ServerThreads ----------------------------
(***************************************************************************)
(* The whole "call" path of the running server: the event handlers of      *)
(* handler_ws.c on the main thread, the worker threads of ws_worker.c      *)
(* beside them, and the loop of main.c that joins the two.                 *)
(*                                                                         *)
(* WsServer tells the same story with CallService in place of the pool.    *)
(* Here it is the pool with its queue, locks and threads, and this server  *)
(* implements that one.  main() starts the pool before its first event and *)
(* never stops it.                                                         *)
(***************************************************************************)
EXTENDS WsWorkerRefinement

CONSTANTS
  MaxConns, MaxTasks, TableSize, Uuids, Stored   \* of WsHub

VARIABLES
  phase, closing, slots, gWsConn,       \* of WsHub: the connections,
  tasks, count, counter, listening,     \* the tasks,
  out,                                  \* and the frames of the last handler
  batch,                                \* of WsServer: responses to hand out
  told                                  \* and calls whose response was sent

Server == INSTANCE WsServer WITH
  MaxCalls   <- MaxJobs,
  CallerOf   <- ConnOf,
  asked      <- submitted,
  turnedDown <- refused,
  waiting    <- Accepted \ (Answered \cup dropped),
  ready      <- doneList,
  fetched    <- delivered,
  lost       <- dropped

ASSUME ThreadsAssumption ==
  /\ MaxConns \in Nat
  /\ MaxTasks \in Nat
  /\ TableSize \in Nat \ {0}
  /\ Stored \in [Uuids -> Uuids]
  /\ \A u \in Uuids : Stored[Stored[u]] = Stored[u]
  /\ None \notin 1 .. MaxConns
  /\ ConnOf \in [Jobs -> 1 .. MaxConns]

hubVars == <<phase, closing, slots, gWsConn, tasks, count, counter, listening, out>>
allVars == <<vars, hubVars, batch, told>>

ServerInit == Init /\ Server!HubInit /\ batch = <<>> /\ told = {}

\* main() calls ws_worker_init before it listens, and gives up if that fails.
Start ==
  /\ \E created \in SUBSET Workers \ {{}} : WorkerInit(created)
  /\ UNCHANGED <<hubVars, batch, told>>

\* mg_mgr_poll is handling events.
Polling == inited /\ batch = <<>>

\* An event that is no call: the pool does not take part.
HubEvent ==
  /\ Polling
  /\ Server!HubNext
  /\ UNCHANGED <<vars, batch, told>>

\* handle_call: ws_worker_submit queues the call or refuses it, which is told
\* to the client at once.
HandleCall(j) ==
  /\ Polling
  /\ Server!Reading(ConnOf[j])
  /\ \/ SubmitAccept(j) /\ out' = <<>>
     \/ (SubmitBusy(j) \/ SubmitNoMemory(j))
        /\ out' = Server!PushTo(ConnOf[j], "busy")
  /\ UNCHANGED <<phase, closing, slots, gWsConn, tasks, count, counter, listening,
                 batch, told>>

\* A worker thread, or the clock, goes on whatever the main thread is doing.
ThreadStep ==
  /\ \/ \E w \in Workers : WorkerStep(w) \/ SpuriousWakeup(w)
     \/ \E j \in Jobs : Expire(j)
  /\ UNCHANGED <<hubVars, batch, told>>

\* ws_drain_call_results: the whole list of responses is taken.
DrainCalls ==
  /\ Polling
  /\ Drain
  /\ batch' = doneList
  /\ UNCHANGED <<hubVars, told>>

\* ws_call_done for the next response; the pool is not touched.
CallDone == UNCHANGED vars /\ Server!CallDone

ServerNext ==
  \/ Start \/ HubEvent
  \/ \E j \in Jobs : HandleCall(j)
  \/ ThreadStep
  \/ DrainCalls \/ CallDone

ServerSpec == ServerInit /\ [][ServerNext]_allVars

\* As in WsWorker and WsServer.
ServerFairness ==
  /\ \A w \in Workers : WF_allVars(WorkerStep(w) /\ UNCHANGED <<hubVars, batch, told>>)
  /\ WF_allVars(DrainCalls) /\ WF_allVars(CallDone)

ServerFairSpec == ServerSpec /\ ServerFairness

-----------------------------------------------------------------------------
\* The server with its threads behaves as WsServer says: no interleaving of
\* workers, events and the hand-out of responses shows a client anything else.
ImplementsServer == Server!Spec

\* A response goes to the connection that made the call, or to nobody, and once,
\* while workers push and ws_drain_call_results takes more (ws_call_done).
ResponseToCaller == Server!ResponseToCaller

\* Neither the table nor the broadcast target refers to a freed connection,
\* though the hand-out of responses sweeps the table as well (ws_conn_find).
NoDangling == Server!NoDangling

\* A response that drain took is still to be handed out, was sent, or has nobody
\* left to be sent to.
ResponseNotLost == Server!ResponseNotLost

\* A WebSocket client that stays in the table gets the response of every call
\* ws_worker_submit accepted (short of lost memory): the threads' scheduling and
\* the loop of main() are fair enough for that.
CallAnswered == Server!CallAnswered

\* A client is sent the response of a call only when its plugin function has
\* returned or its deadline had passed when it was taken from the queue.
ToldAfterRun == \A j \in told \cup Range(batch) : outcome[j] # "none"
=============================================================================
