----------------------------- MODULE MCRequests -----------------------------
(* Small instances of the way from a request to a plugin for TLC.          *)
EXTENDS RequestsInv, TLC

CONSTANTS
  plugin,  \* a plugin
  deep,    \* a name with a slash in it
  asset    \* the name of a web file, which no library has

MCNames == {plugin, deep, asset}
MCSafeNames == {plugin}

Uri(at, len, name, dots, ext) ==
  [at |-> at, len |-> len, name |-> name, dots |-> dots, ext |-> ext]

Http(method, uri) == [method |-> method, uri |-> uri, body |-> TRUE]

Root == Uri("none", 1, None, FALSE, FALSE)
Plugin == Uri("none", 2, plugin, FALSE, FALSE)
Page == Uri("none", 8, deep, FALSE, FALSE)
File == Uri("none", 8, asset, FALSE, TRUE)
Index == Uri("index", Literals["index"], asset, FALSE, TRUE)
Above == Uri("none", 8, deep, TRUE, TRUE)
OfApi(at, more) == Uri(at, Literals[at] + more, deep, FALSE, FALSE)

\* Every route, and every way past the routes.
MCHttpMessages ==
  {Http("OPTIONS", Plugin), Http("GET", OfApi("soket", 0)), Http("GET", OfApi("sse", 0)),
   Http("GET", OfApi("status", 0)), Http("POST", OfApi("iceoryx", 0)),
   [Http("POST", OfApi("iceoryx", 0)) EXCEPT !.body = FALSE],
   Http("POST", OfApi("push", 0)), Http("POST", OfApi("log", 2)), Http("GET", Root),
   Http("POST", Root), Http("GET", Above), Http("POST", Above), Http("GET", File),
   Http("GET", Index), Http("GET", Plugin), Http("POST", Plugin)}

\* Every route with every method, exactly and with up to two characters more.
MCRouteMessages ==
  [method : {"OPTIONS", "GET", "HEAD", "POST", "PUT"},
   uri : {Root, Plugin, Page, File, Index, Above}
           \cup {OfApi(at, more) : at \in DOMAIN Literals \ {"index"}, more \in 0 .. 2},
   body : BOOLEAN]

Message(fits, id, lib, symbol, args, memory) ==
  [fits |-> fits, id |-> id, lib |-> lib, symbol |-> symbol, args |-> args,
   memory |-> memory]

\* A sound message, and each way in which one can be wrong.
MCCallShapes ==
  {Message(fits, "fine", lib, "fine", args, "fine") :
     fits \in BOOLEAN, lib \in {"missing", "long", "unsafe", "fine"},
     args \in {"object", "other"}}
  \cup {Message(TRUE, "fine", "fine", "fine", "other", memory) :
          memory \in {"scarce", "none"}}

\* One file, two that compete, a worse one that works and a better one that
\* does not; the name with a slash has a library under ./libary.
Files(good, bad) ==
  [p \in Paths |->
     IF p \in good \cup {<<deep, "syslib">>} THEN "good"
     ELSE IF p \in bad THEN "bad" ELSE "none"]
MCInitialFiles ==
  LET spot(s) == <<plugin, s>>
  IN  {Files({spot(s)}, {}) : s \in Spots}
      \cup {Files({spot(s), spot("sys")}, {}) : s \in {"own", "other", "syslib"}}
      \cup {Files({spot("sys")}, {spot("own")})}

MCMoving == {plugin} \X Spots
=============================================================================
