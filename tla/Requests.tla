------------------------------ MODULE Requests ------------------------------
(***************************************************************************)
(* From a request to the plugin function that answers it, while files come *)
(* and go: HTTP requests and parsed call messages on the main thread       *)
(* (handler.c, handler_libary.c, handle_call in handler_ws.c), accepted    *)
(* calls on the worker threads (worker_loop in ws_worker.c), all through   *)
(* plugin_resolve_path and call_local_dyn_libffi.                          *)
(*                                                                         *)
(* Every stat, readdir and dlopen sees the files of its own moment.  The   *)
(* handle cache is represented by DlService, which it implements           *)
(* (DlCacheRefinement).  Only the main thread handles HTTP requests.  The  *)
(* queue, the deadlines and the mutexes of the workers are in WsWorker.    *)
(* An operator named X_Y is a faulty variant of the operator X below it    *)
(* (see the README).                                                       *)
(***************************************************************************)
EXTENDS PluginPath, HttpRoutes, CallRequest

CONSTANTS
  Main, Workers,  \* the threads
  HttpMessages,   \* the requests that are sent: [method, uri, body]
  CallShapes,     \* the call messages that are sent
  InitialFiles,   \* how the directories may look at the start
  Moving,         \* the paths whose files may change
  MaxChanges,     \* bound: how often a file appears, changes or goes
  MaxQueued,      \* bound: how many calls wait for a worker
  CacheMax        \* DL_CACHE_MAX

Threads == Workers \cup {Main}

ASSUME RequestAssumption ==
  /\ Main \notin Workers
  /\ Moving \subseteq Paths
  /\ InitialFiles \subseteq [Paths -> FileStates]
  /\ \A hm \in HttpMessages : hm.uri.name \in Names \cup {None}
  /\ None \notin Names \cup Paths
  /\ MaxChanges \in Nat
  /\ CacheMax \in Nat

VARIABLES
  files,      \* what lies at each path
  queue,      \* the names of the accepted calls
  pc,         \* "idle", "look" (in plugin_resolve_path), "found", "missing",
              \* "open" (dl_get), "opened", "done" (answered)
  task,       \* what each thread works on: [method, uri, name]
  probing,    \* is the main thread in the resolution of ev_handler?
  look,       \* how many looks plugin_resolve_path has done
  path,       \* its out buffer
  pushed,     \* the events pushed for the request of the main thread
  reply,      \* the HTTP status or call code of the answer
  known, used, asking, got,  \* of DlService
  changes,    \* how many changes of files there were
  changed,    \* history: the names whose files changed
  quiet,      \* history: the threads whose files did not change meanwhile
  steady,     \* history: what was there during the whole resolution
  ran         \* history: the paths whose functions were run

fileVars == <<files, changes, changed>>
cacheVars == <<known, used, asking, got>>
jobVars == <<task, pushed, reply>>
vars == <<fileVars, queue, pc, jobVars, probing, look, path, cacheVars, quiet,
          steady, ran>>

Cache == INSTANCE DlService WITH
  Askers <- Threads, Libraries <- Paths, Unfit <- {}, Room <- CacheMax,
  Nothing <- None, loadable <- {p \in Paths : files[p] = "good"}

NoTask == [method |-> None, uri |-> None, name |-> None]

Init ==
  /\ files \in InitialFiles
  /\ queue = <<>>
  /\ pc = [t \in Threads |-> "idle"]
  /\ task = [t \in Threads |-> NoTask]
  /\ probing = FALSE
  /\ look = [t \in Threads |-> 0]
  /\ path = [t \in Threads |-> None]
  /\ pushed = <<>>
  /\ reply = [t \in Threads |-> None]
  /\ Cache!DInit
  /\ changes = 0
  /\ changed = {}
  /\ quiet = Threads
  /\ steady = [t \in Threads |-> {}]
  /\ ran = {}

Goto(t, to) == pc' = [pc EXCEPT ![t] = to]
NameOf(t) == task[t].name

-----------------------------------------------------------------------------
(* Files.                                                                  *)

\* A plugin is installed, replaced or removed by another process, a file at a
\* time.
Change(p, state) ==
  /\ changes < MaxChanges                                 \* bound
  /\ files[p] # state
  /\ files' = [files EXCEPT ![p] = state]
  /\ changes' = changes + 1
  /\ changed' = changed \cup {p[1]}
  /\ quiet' = {t \in quiet : NameOf(t) # p[1]}
  /\ steady' = [t \in Threads |->
                  IF state = "none" THEN steady[t] \ {p} ELSE steady[t]]
  /\ UNCHANGED <<queue, pc, jobVars, probing, look, path, cacheVars, ran>>

-----------------------------------------------------------------------------
(* plugin_resolve_path.                                                    *)

\* A thread enters it.
BeginResolve(t, name) ==
  /\ Goto(t, "look")
  /\ look' = [look EXCEPT ![t] = 0]
  /\ steady' = [steady EXCEPT ![t] = {<<name, s>> : s \in Present(files, name, Spots)}]

\* The next system call.
Seen(t) == Present(files, NameOf(t), Looks(NameOf(t))[look[t] + 1])
IsLast_NoFallback(t) == look[t] + 1 = Min({Len(InPluginDir), Len(Looks(NameOf(t)))})
IsLast(t) == look[t] + 1 = Len(Looks(NameOf(t)))

Look(t) ==
  /\ pc[t] = "look"
  /\ look' = [look EXCEPT ![t] = @ + 1]
  /\ \/ \E s \in Seen(t) :
          /\ path' = [path EXCEPT ![t] = <<NameOf(t), s>>]
          /\ Goto(t, "found")
     \/ /\ Seen(t) = {}
        /\ IF IsLast(t)
             THEN /\ path' = [path EXCEPT ![t] = Leftover(NameOf(t))]
                  /\ Goto(t, "missing")
             ELSE UNCHANGED <<path, pc>>
  /\ UNCHANGED <<fileVars, queue, jobVars, probing, cacheVars, quiet, steady, ran>>

-----------------------------------------------------------------------------
(* HTTP.                                                                   *)

Answer(t, r) ==
  /\ Goto(t, "done")
  /\ reply' = [reply EXCEPT ![t] = r]

\* ev_handler_libary up to its own resolution, behind the "libary" event.
EnterHandler(u, name) ==
  /\ pushed' = Append(pushed, "libary")
  /\ probing' = FALSE
  /\ IF u.dots \/ name = None
       THEN /\ Answer(Main, IF u.dots THEN "400" ELSE "404")
            /\ UNCHANGED <<look, steady>>
       ELSE /\ BeginResolve(Main, name)
            /\ UNCHANGED reply

\* No route and no plugin takes the request: a file, or the plugin handler for
\* lack of anything better.
Unmatched(method, u, name) ==
  IF method \in {"GET", "HEAD"}
    THEN /\ Answer(Main, StaticReply(u))
         /\ probing' = FALSE
         /\ UNCHANGED <<pushed, look, steady>>
    ELSE EnterHandler(u, name)

\* MG_EV_HTTP_MSG.
Dispatch(hm) ==
  LET u == hm.uri
      route == Route(hm.method, u, hm.body)
  IN  /\ pc[Main] = "idle"
      /\ task' = [task EXCEPT ![Main] = [method |-> hm.method, uri |-> u, name |-> u.name]]
      /\ quiet' = quiet \cup {Main}
      /\ CASE route = "probe" ->
                /\ BeginResolve(Main, u.name)
                /\ probing' = TRUE
                /\ UNCHANGED <<pushed, reply>>
           [] route = "unmatched" -> Unmatched(hm.method, u, u.name)
           [] OTHER ->
                /\ Answer(Main, Replies[route])
                /\ pushed' = Pushed(route)
                /\ UNCHANGED <<probing, look, steady>>
      /\ UNCHANGED <<fileVars, queue, path, cacheVars, ran>>

\* The resolution in ev_handler only decides about the route; its path is
\* thrown away.
Probed ==
  /\ probing
  /\ \/ pc[Main] = "found" /\ EnterHandler(task[Main].uri, NameOf(Main))
     \/ /\ pc[Main] = "missing"
        /\ Unmatched(task[Main].method, task[Main].uri, NameOf(Main))
  /\ UNCHANGED <<fileVars, queue, task, path, cacheVars, quiet, ran>>

\* The resolution in ev_handler_libary found nothing.
NotFound ==
  /\ pc[Main] = "missing" /\ ~probing
  /\ Answer(Main, "404")
  /\ UNCHANGED <<fileVars, queue, task, pushed, probing, look, path, cacheVars,
                 quiet, steady, ran>>

-----------------------------------------------------------------------------
(* Calls.                                                                  *)

\* handle_call: a message that is refused is answered with a code at once, any
\* other is queued.
CallMessage(m, name) ==
  /\ pc[Main] = "idle"
  /\ IF ParseCode(m) # 0
       THEN /\ Answer(Main, ParseCode(m))
            /\ UNCHANGED queue
       ELSE /\ IsSafe(name)
            /\ Len(queue) < MaxQueued                      \* bound
            /\ queue' = Append(queue, name)
            /\ UNCHANGED <<pc, reply>>
  /\ UNCHANGED <<fileVars, task, pushed, probing, look, path, cacheVars, quiet,
                 steady, ran>>

\* A worker pops a call and resolves its library.
TakeCall(t) ==
  /\ pc[t] = "idle" /\ t # Main
  /\ queue # <<>>
  /\ queue' = Tail(queue)
  /\ task' = [task EXCEPT ![t] = [NoTask EXCEPT !.name = Head(queue)]]
  /\ quiet' = quiet \cup {t}
  /\ BeginResolve(t, Head(queue))
  /\ UNCHANGED <<fileVars, pushed, reply, probing, path, cacheVars, ran>>

-----------------------------------------------------------------------------
(* call_local_dyn_libffi.                                                  *)

\* The plugin handler goes on with a library it found; a worker, having got
\* the mutex of the connection, with whatever plugin_resolve_path wrote.
Resolved(t) ==
  \/ t = Main /\ pc[t] = "found" /\ ~probing
  \/ t # Main /\ pc[t] \in {"found", "missing"}

Open_OldPath(t) ==
  /\ Resolved(t)
  /\ Goto(t, "open")
  /\ UNCHANGED fileVars
  /\ Cache!Ask(t, IF t = Main THEN path[t] ELSE <<NameOf(t), "sys">>)
  /\ UNCHANGED <<queue, jobVars, probing, look, path, quiet, steady, ran>>
Open(t) ==
  /\ Resolved(t)
  /\ Goto(t, "open")
  /\ UNCHANGED fileVars
  /\ Cache!Ask(t, path[t])
  /\ UNCHANGED <<queue, jobVars, probing, look, path, quiet, steady, ran>>

Get(t) ==
  /\ pc[t] = "open"
  /\ UNCHANGED fileVars
  /\ Cache!Find(t) \/ Cache!Load(t) \/ Cache!Deny(t)
  /\ Goto(t, "opened")
  /\ UNCHANGED <<queue, jobVars, probing, look, path, quiet, steady, ran>>

\* What the client is told of a return code: ws_call_map_rc, or 200 and 404.
AnswerRc(t, rc) ==
  Answer(t, IF t # Main THEN MapRc(rc) ELSE IF rc = 0 THEN "200" ELSE "404")

\* dl_get returned NULL.
NoLibrary(t) ==
  /\ pc[t] = "opened" /\ got[t] = None
  /\ AnswerRc(t, -1)
  /\ UNCHANGED <<fileVars, queue, task, pushed, probing, look, path, cacheVars,
                 quiet, steady, ran>>

\* The symbol is missing (-2), malloc fails (-3), or the function is run and
\* returns anything.
NoFunction == {-2, -3}
FunctionRcs == {0, 1, -1, -2, -100}
Run(t, rc) ==
  /\ pc[t] = "opened" /\ got[t] # None
  /\ AnswerRc(t, rc)
  /\ \/ rc \in FunctionRcs /\ ran' = ran \cup {got[t]}
     \/ rc \in NoFunction /\ UNCHANGED ran
  /\ UNCHANGED <<fileVars, queue, task, pushed, probing, look, path, cacheVars,
                 quiet, steady>>

\* The thread turns to its next request.
Rest(t) ==
  /\ pc[t] = "done"
  /\ Goto(t, "idle")
  /\ task' = [task EXCEPT ![t] = NoTask]
  /\ path' = [path EXCEPT ![t] = None]
  /\ reply' = [reply EXCEPT ![t] = None]
  /\ look' = [look EXCEPT ![t] = 0]
  /\ got' = [got EXCEPT ![t] = None]
  /\ pushed' = IF t = Main THEN <<>> ELSE pushed
  /\ quiet' = quiet \cup {t}
  /\ steady' = [steady EXCEPT ![t] = {}]
  /\ UNCHANGED <<fileVars, queue, probing, known, used, asking, ran>>

ThreadStep(t) ==
  \/ Look(t) \/ Open(t) \/ Get(t) \/ NoLibrary(t) \/ Rest(t)
  \/ \E rc \in FunctionRcs \cup NoFunction : Run(t, rc)

Next ==
  \/ \E p \in Moving, state \in FileStates : Change(p, state)
  \/ \E hm \in HttpMessages : Dispatch(hm)
  \/ Probed \/ NotFound
  \/ \E m \in CallShapes, name \in Names : CallMessage(m, name)
  \/ \E t \in Workers : TakeCall(t)
  \/ \E t \in Threads : ThreadStep(t)

Spec == Init /\ [][Next]_vars

-----------------------------------------------------------------------------
(* Properties.                                                             *)

\* Where a name leads while nothing changes: the first look that finds anything.
Best(name) ==
  LET hits == {i \in DOMAIN Looks(name) : Present(files, name, Looks(name)[i]) # {}}
  IN  IF hits = {} THEN {} ELSE Present(files, name, Looks(name)[Min(hits)])

\* However files come and go between its system calls, a resolution does not
\* miss a library that was there all the time, nor return a worse one ("先找
\* ./plugins/<name>/，找不到再回退 ./libary/", the head of plugin_path.c).
ResolvesBest ==
  \A t \in Threads :
    LET name == NameOf(t)
        rank(s) == Min({i \in 1 .. 5 : s \in (InPluginDir \o <<{"sys"}, {"syslib"}>>)[i]})
        eligible == {p[2] : p \in steady[t]}
                      \cap (IF IsSafe(name) THEN Spots ELSE {"sys", "syslib"})
    IN  /\ pc[t] = "missing" => eligible = {}
        /\ pc[t] = "found" => \A s \in eligible : rank(path[t][2]) <= rank(s)

\* A request that was resolved ends without a library only if there is none,
\* dlopen refuses the one that counts, the handle cache is full, or files
\* changed while the request was on its way.
RefusalJustified ==
  \A t \in Threads :
    pc[t] = "opened" /\ got[t] = None /\ t \in quiet =>
      LET best == Best(NameOf(t))
      IN  \/ best = {}
          \/ \E s \in best : files[<<NameOf(t), s>>] = "bad"
          \/ used = CacheMax

\* HTTP requests and calls for one name reach one library, so that its static
\* state is shared, unless its files changed ("让两类插件共用同一套 HTTP / SSE /
\* WebSocket 调用链", the head of plugin_path.c).
OneLibraryPerName ==
  \A p \in ran : p[1] \notin changed => p[2] \in Best(p[1])

\* "POST /api/push: 推送一条事件到 WS/NNG", "POST /api/log: 推送 log 类型事件"
\* (the table of docs/http-api.md).
DocumentedRoutes ==
  LET u == task[Main].uri
  IN  pc[Main] = "done" /\ task[Main].method = "POST" =>
        /\ Equals(u, "push") => pushed = <<"http_api">>
        /\ Equals(u, "log") => pushed = <<"log">>
=============================================================================
