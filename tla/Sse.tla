--------------------------------- MODULE Sse ---------------------------------
(***************************************************************************)
(* Server-sent events: GET /sse (src/src/handler_sse.c), the default event *)
(* source src/examples/sse_demo, and the EventSource clients that drop     *)
(* their connection and come back with Last-Event-ID.                      *)
(*                                                                         *)
(* All of handler_sse.c runs on the main thread, a handler at a time; the  *)
(* event source is shared by all streams and can be reset behind their     *)
(* back (sse_reset is reachable as a plugin call).  The interval and the   *)
(* keepalive timer only say when a poll does something: Poll may happen at *)
(* any time, and ": ping" comments carry no state.                         *)
(*                                                                         *)
(* An operator named X_Y is a faulty variant of the operator X below it    *)
(* (see the README).                                                       *)
(***************************************************************************)
EXTENDS Naturals, FiniteSetsExt, Sequences

CONSTANTS
  MaxConns,    \* bound: how many /sse connections are ever made
  MaxId,       \* bound: the highest event id
  MaxClients,  \* SSE_MAX_CLIENTS
  Clients,     \* the EventSource objects
  Custom,      \* those that name a lib/symbol other than sse_demo/sse_next
  Once,        \* those that ask with once=1
  None         \* NULL, no slot, no connection

Conns == 1 .. MaxConns
Table == 1 .. MaxClients
Ids   == 1 .. MaxId

Entry == [conn : Conns, lastId : Nat, seq : Nat, done : BOOLEAN]

ASSUME SseAssumption ==
  /\ MaxConns \in Nat
  /\ MaxId \in Nat
  /\ MaxClients \in Nat \ {0}
  /\ Custom \subseteq Clients
  /\ Once \subseteq Clients
  /\ None \notin Conns \cup Clients \cup Entry

VARIABLES
  owner,     \* whose connection it is; None before it is made
  phase,     \* "new", "http" (answered with an error), "sse", "gone"
  slots,     \* g_sse_clients: [conn, lastId, seq, done] or None if inactive
  source,    \* State.seq of sse_demo
  wire,      \* ids sent on a connection and not read yet
  calls,     \* history: how often a connection made the plugin run (0, 1, 2 = more)
  sent,      \* history: how many events a connection was sent
  current,   \* the connection a client reads from
  lastSeen   \* the id of the last event a client received (Last-Event-ID)

ssevars == <<owner, phase, slots, source, wire, calls, sent, current, lastSeen>>

SseInit ==
  /\ owner = [c \in Conns |-> None]
  /\ phase = [c \in Conns |-> "new"]
  /\ slots = [i \in Table |-> None]
  /\ source = 0
  /\ wire = [c \in Conns |-> <<>>]
  /\ calls = [c \in Conns |-> 0]
  /\ sent = [c \in Conns |-> 0]
  /\ current = [k \in Clients |-> None]
  /\ lastSeen = [k \in Clients |-> 0]

-----------------------------------------------------------------------------
(* Sending one event.                                                      *)

Active == {i \in Table : slots[i] # None}

\* sse_find.
SlotsOf(c) == {i \in Active : slots[i].conn = c}

IsCustom(e) == owner'[e.conn] \in Custom
IsOnce(e)   == owner'[e.conn] \in Once

\* sse_next of sse_demo: an id above after_id and above all earlier ones.
NextId(afterId) == Max({afterId, source}) + 1

\* The entry after a successful custom call: done is set if once was asked for.
AfterCustom_NotDone(e, once) == [e EXCEPT !.seq = @ + 1]
AfterCustom(e, once) == [e EXCEPT !.seq = @ + 1, !.done = once]

\* An id above those the stream has carried; any other is dropped.
IsNew(e, id) == id > e.lastId

\* The entry after an event in default mode: last_id is what was sent.
AfterDefault_Forgets(e, id) == e
AfterDefault(e, id) == [e EXCEPT !.lastId = id]

\* The part of sse_send_event that writes: id on the wire of e's connection.
Write(e, id) ==
  /\ wire' = [wire EXCEPT ![e.conn] = Append(@, id)]
  /\ sent' = [sent EXCEPT ![e.conn] = @ + 1]

Called(e) == calls' = [calls EXCEPT ![e.conn] = Min({@ + 1, 2})]

\* sse_send_event for the entry e of slot i.  The plugin call may fail (rc # 0
\* or no output): the entry is left as it is, done included.  In default mode
\* once is not looked at; an event whose id is not new, or that is too long for
\* the buffer ("unsent"), is skipped, its id gone.
SendEvent(i, e, result) ==
  \/ /\ e.done
     /\ slots' = [slots EXCEPT ![i] = e]
     /\ UNCHANGED <<source, wire, calls, sent>>
  \/ /\ ~e.done
     /\ result = "fail"
     /\ slots' = [slots EXCEPT ![i] = e]
     /\ Called(e)
     /\ UNCHANGED <<source, wire, sent>>
  \/ /\ ~e.done
     /\ result = "ok"
     /\ IsCustom(e)
     /\ e.seq < MaxId                                     \* bound
     /\ slots' = [slots EXCEPT ![i] = AfterCustom(e, IsOnce(e))]
     /\ Write(e, e.seq + 1)
     /\ Called(e)
     /\ UNCHANGED source
  \/ /\ ~e.done
     /\ result \in {"ok", "unsent"}
     /\ ~IsCustom(e)
     /\ source < MaxId /\ e.lastId < MaxId                \* bound
     /\ source' = NextId(e.lastId)
     /\ Called(e)
     /\ IF result = "ok" /\ IsNew(e, source')
          THEN /\ slots' = [slots EXCEPT ![i] = AfterDefault(e, source')]
               /\ Write(e, source')
          ELSE /\ slots' = [slots EXCEPT ![i] = e]
               /\ UNCHANGED <<wire, sent>>

Results == {"ok", "fail", "unsent"}

-----------------------------------------------------------------------------
(* The server.                                                             *)

\* A client without a connection makes its next one.
Dials(k, c) ==
  /\ current[k] = None
  /\ phase[c] = "new"
  /\ \A d \in Conns : d < c => phase[d] # "new"
  /\ owner' = [owner EXCEPT ![c] = k]
  /\ current' = [current EXCEPT ![k] = c]
  /\ UNCHANGED lastSeen

FirstFree == Min(Table \ Active)

\* What ev_handler_sse takes from the request: default mode resumes after
\* Last-Event-ID; custom mode never uses it.
ResumeFrom_Zero(k) == 0
ResumeFrom(k) == lastSeen[k]

\* ev_handler_sse with a slot free: fill it, send the first event at once.
Accept(k, c, result) ==
  /\ Dials(k, c)
  /\ Active # Table
  /\ phase' = [phase EXCEPT ![c] = "sse"]
  /\ SendEvent(FirstFree,
               [conn |-> c, lastId |-> ResumeFrom(k), seq |-> 0, done |-> FALSE],
               result)

\* 503 when all slots are taken or the plugin file is missing (405 and 400 are
\* the same to the table): the connection stays an HTTP one.
Refuse(k, c) ==
  /\ Dials(k, c)
  /\ phase' = [phase EXCEPT ![c] = "http"]
  /\ UNCHANGED <<slots, source, wire, calls, sent>>

\* sse_on_poll of a connection whose interval is over.
Poll(c, result) ==
  /\ phase[c] = "sse"
  /\ UNCHANGED owner
  /\ \E i \in SlotsOf(c) :
       /\ \A m \in SlotsOf(c) : i <= m
       /\ SendEvent(i, slots[i], result)
  /\ UNCHANGED <<phase, current, lastSeen>>

\* sse_on_close: memset of the entry.
AfterClose_Leaks(c) == slots
AfterClose_StillActive(c) ==
  [i \in Table |-> IF i \in SlotsOf(c) THEN [slots[i] EXCEPT !.conn = None]
                                      ELSE slots[i]]
AfterClose(c) == [i \in Table |-> IF i \in SlotsOf(c) THEN None ELSE slots[i]]

\* MG_EV_CLOSE, whichever side gave up first.
Close(c) ==
  /\ phase[c] \in {"sse", "http"}
  /\ phase' = [phase EXCEPT ![c] = "gone"]
  /\ slots' = AfterClose(c)
  /\ UNCHANGED <<owner, source, wire, calls, sent, current, lastSeen>>

\* sse_reset or process_init of sse_demo, called by anybody.
Reset ==
  /\ source' = 0
  /\ UNCHANGED <<owner, phase, slots, wire, calls, sent, current, lastSeen>>

\* The server process dies and is started again: its tables and the plugin's
\* state are gone, and so are all connections.
Restart ==
  /\ slots' = [i \in Table |-> None]
  /\ source' = 0
  /\ phase' = [c \in Conns |-> IF phase[c] = "new" THEN "new" ELSE "gone"]
  /\ UNCHANGED <<owner, wire, calls, sent, current, lastSeen>>

-----------------------------------------------------------------------------
(* The clients.                                                            *)

Receive(k) ==
  /\ current[k] # None
  /\ wire[current[k]] # <<>>
  /\ lastSeen' = [lastSeen EXCEPT ![k] = Head(wire[current[k]])]
  /\ wire' = [wire EXCEPT ![current[k]] = Tail(@)]
  /\ UNCHANGED <<owner, phase, slots, source, calls, sent, current>>

\* The client notices a lost connection, or gives up on it: what is still on
\* the wire is never read.  The server may notice much later.
Abandon(k) ==
  /\ current[k] # None
  /\ wire' = [wire EXCEPT ![current[k]] = <<>>]
  /\ current' = [current EXCEPT ![k] = None]
  /\ UNCHANGED <<owner, phase, slots, source, calls, sent, lastSeen>>

SseNext ==
  \/ \E k \in Clients :
       \/ Receive(k)
       \/ Abandon(k)
       \/ \E c \in Conns :
            \/ Refuse(k, c)
            \/ \E result \in Results : Accept(k, c, result)
  \/ \E c \in Conns :
       \/ Close(c)
       \/ \E result \in Results : Poll(c, result)
  \/ Reset
  \/ Restart

SseSpec == SseInit /\ [][SseNext]_ssevars

-----------------------------------------------------------------------------
(* Properties.                                                             *)

SseTypeOK ==
  /\ owner \in [Conns -> Clients \cup {None}]
  /\ phase \in [Conns -> {"new", "http", "sse", "gone"}]
  /\ slots \in [Table -> Entry \cup {None}]
  /\ source \in 0 .. MaxId
  /\ wire \in [Conns -> Seq(Ids)]
  /\ calls \in [Conns -> 0 .. 2]
  /\ sent \in [Conns -> Nat]
  /\ current \in [Clients -> Conns \cup {None}]
  /\ lastSeen \in [Clients -> 0 .. MaxId]

\* An open stream has exactly one entry of g_sse_clients and every entry
\* belongs to an open stream: no entry dangles, leaks or is found for another.
SlotsSound ==
  /\ \A c \in Conns : phase[c] = "sse" => Cardinality(SlotsOf(c)) = 1
  /\ \A i \in Active : phase[slots[i].conn] = "sse"

\* What a client still has to read goes up from the last event it received on
\* that connection, and in custom mode continues its count from 1.
StreamOrdered ==
  \A k \in Clients : current[k] # None =>
    LET ids == wire[current[k]]
    IN  /\ \A i, m \in DOMAIN ids : i < m => ids[i] < ids[m]
        /\ ids # <<>> => IF k \in Custom
                           THEN ids[Len(ids)] = sent[current[k]]
                           ELSE ids[1] > lastSeen[k]

\* Across lost connections, lost frames, resets of the source and restarts of
\* the server, a client in default mode never gets an event id again.
ResumeMonotone ==
  [][\A k \in Clients \ Custom : lastSeen'[k] >= lastSeen[k]]_ssevars

\* once=1 with a plugin named: the stream carries one event at most.
OnceOneEvent ==
  \A c \in Conns : owner[c] \in Once \cap Custom => sent[c] <= 1

\* "1 means called only once; required for dialogs, so that they do not pop up
\* again and again" (docs/sse.md).
OnceOneCall == \A c \in Conns : owner[c] \in Once => calls[c] <= 1

-----------------------------------------------------------------------------
(* The inductive invariant.                                                *)

\* A connection not made yet carries nothing; a client reads from its own.
ClientsInv ==
  /\ \A c \in Conns : phase[c] = "new" => wire[c] = <<>> /\ sent[c] = 0
  /\ \A k \in Clients : current[k] # None =>
       owner[current[k]] = k /\ phase[current[k]] # "new"

\* The entry of client k is ahead of what its stream carries: in custom mode its
\* seq is the number of events sent, in default mode no id on the wire or at the
\* client is above its lastId.
Ahead(e, k) ==
  /\ k \in Custom => e.seq = sent[e.conn]
  /\ k \in Custom \cap Once => e.done \/ sent[e.conn] = 0
  /\ k \notin Custom =>
       /\ \A n \in DOMAIN wire[e.conn] : wire[e.conn][n] <= e.lastId
       /\ current[k] = e.conn => lastSeen[k] <= e.lastId

EntryInv ==
  \A i \in Active :
    LET k == owner[slots[i].conn] IN k \in Clients /\ Ahead(slots[i], k)

\* The ids still to be read by k: a custom stream of total events so far ends
\* with total and counts up by one; a default one goes up from what k has seen.
Carries(k, ids, total) ==
  IF k \in Custom
    THEN \A n \in DOMAIN ids : ids[n] + Len(ids) = total + n
    ELSE /\ \A n \in DOMAIN ids : ids[n] > lastSeen[k]
         /\ \A n, m \in DOMAIN ids : n < m => ids[n] < ids[m]

StreamInv ==
  \A k \in Clients : current[k] # None =>
    Carries(k, wire[current[k]], sent[current[k]])

SseInv ==
  /\ SseTypeOK
  /\ SlotsSound
  /\ OnceOneEvent
  /\ ClientsInv
  /\ EntryInv
  /\ StreamInv
=============================================================================
