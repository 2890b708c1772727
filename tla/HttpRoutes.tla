----------------------------- MODULE HttpRoutes -----------------------------
(***************************************************************************)
(* Which handler gets an HTTP request: the comparisons of ev_handler in    *)
(* src/src/handler.c, in their order, with their lengths.                  *)
(*                                                                         *)
(* A uri is a record: at, the longest literal path it begins with ("api"   *)
(* for /api and what lies below it, "none" if there is none); len, its     *)
(* length; name, what follows the slash (None for "/"); dots, whether it   *)
(* holds ".."; ext, whether it ends in a file extension.                   *)
(***************************************************************************)
EXTENDS FiniteSetsExt, Sequences

CONSTANT None  \* no name

\* How many characters the literals have ("index" is /index.html).
Literals == [soket |-> 6, sse |-> 4, push |-> 9, status |-> 11, iceoryx |-> 12,
             log |-> 8, index |-> 11]
Api == {"api", "push", "status", "iceoryx", "log"}

Equals(u, path) == u.at = path /\ u.len = Literals[path]

\* uri.len >= least && strncmp(uri, path, n) == 0.  With n above the length of
\* the literal its NUL is compared with a character of the request: unequal.
Matches(u, path, least, n) == u.len >= least /\ u.at = path /\ n <= Literals[path]

\* Only a uri with a name and without ".." is looked up as a plugin.
Probes(u) == u.name # None /\ ~u.dots

\* The tests of ev_handler: the first that holds takes the request.
Tests(method, u, body) == <<
  [to |-> "preflight", when |-> method = "OPTIONS"],
  [to |-> "soket",     when |-> Equals(u, "soket")],
  [to |-> "sse",       when |-> Equals(u, "sse")],
  [to |-> "push",      when |-> Matches(u, "push", 10, 10) /\ method = "POST"],
  [to |-> "status",    when |-> Matches(u, "status", 11, 11) /\ method = "GET"],
  [to |-> "iceoryx",   when |-> Matches(u, "iceoryx", 12, 12) /\ method = "POST" /\ body],
  [to |-> "empty",     when |-> Matches(u, "iceoryx", 12, 12) /\ method = "POST"],
  [to |-> "log",       when |-> Matches(u, "log", 10, 8) /\ method = "POST"],
  [to |-> "probe",     when |-> Probes(u)],
  [to |-> "unmatched", when |-> TRUE] >>

Route(method, u, body) ==
  LET tests == Tests(method, u, body)
  IN  tests[Min({i \in DOMAIN tests : tests[i].when})].to

\* The routes that are answered by ev_handler itself, or handed to the modules
\* WsHub and Sse: the reply, and the type of the event pushed.
Replies == [preflight |-> "204", soket |-> "upgrade", sse |-> "stream",
            push |-> "200", status |-> "200", iceoryx |-> "200", empty |-> "400",
            log |-> "200"]
Pushed(route) ==
  CASE route = "push" -> <<"http_api">>
    [] route \in {"iceoryx", "log"} -> <<route>>
    [] OTHER -> <<>>

\* ev_handler_static: the front page, by either of its names, and every page that
\* is not below /api are the built-in index; a name with an extension is a file.
StaticReply(u) ==
  IF u.dots THEN "400"
  ELSE IF u.name = None \/ Equals(u, "index") \/ (~u.ext /\ u.at \notin Api)
         THEN "page" ELSE "file"
=============================================================================
