---------------------------- MODULE CallService ----------------------------
(***************************************************************************)
(* What the "call" service promises, with no thread, lock or queue: a call *)
(* is refused at once or accepted; an accepted call is answered once; the  *)
(* answers reach the event loop in the order they were given, in batches;  *)
(* a call group never has more than Limit calls waiting for an answer.     *)
(* Stopping the service first answers every accepted call and then throws  *)
(* away the answers nobody fetched.  An answer may be lost when MayLose.   *)
(***************************************************************************)
EXTENDS Functions, Sequences, FiniteSets

CONSTANTS
  LastCall,    \* calls are 1 .. LastCall, asked in this order
  Group,       \* the group whose limit a call counts against
  Limit,       \* how many calls of a group may be waiting
  MayLose      \* may an answer be lost?

VARIABLES
  asked,       \* how many calls have been asked for
  turnedDown,  \* calls refused
  waiting,     \* calls accepted and not answered
  ready,       \* answers not fetched yet, oldest first
  fetched,     \* answers the event loop got, oldest first
  lost         \* calls whose answer was lost or thrown away

svars == <<asked, turnedDown, waiting, ready, fetched, lost>>

SInit ==
  /\ asked = 0
  /\ turnedDown = {}
  /\ waiting = {}
  /\ ready = <<>>
  /\ fetched = <<>>
  /\ lost = {}

Ask(j) == j = asked + 1 /\ j <= LastCall /\ asked' = j

Accept(j) ==
  /\ Ask(j)
  /\ Cardinality({k \in waiting : Group[k] = Group[j]}) < Limit
  /\ waiting' = waiting \cup {j}
  /\ UNCHANGED <<turnedDown, ready, fetched, lost>>

Refuse(j) ==
  /\ Ask(j)
  /\ turnedDown' = turnedDown \cup {j}
  /\ UNCHANGED <<waiting, ready, fetched, lost>>

Answer(j) ==
  /\ j \in waiting
  /\ waiting' = waiting \ {j}
  /\ ready' = Append(ready, j)
  /\ UNCHANGED <<asked, turnedDown, fetched, lost>>

Lose(j) ==
  /\ MayLose
  /\ j \in waiting
  /\ waiting' = waiting \ {j}
  /\ lost' = lost \cup {j}
  /\ UNCHANGED <<asked, turnedDown, ready, fetched>>

Fetch ==
  /\ ready # <<>>
  /\ fetched' = fetched \o ready
  /\ ready' = <<>>
  /\ UNCHANGED <<asked, turnedDown, waiting, lost>>

Stop ==
  /\ waiting = {}
  /\ ready # <<>>
  /\ lost' = lost \cup Range(ready)
  /\ ready' = <<>>
  /\ UNCHANGED <<asked, turnedDown, waiting, fetched>>

SNext ==
  \/ \E j \in 1 .. LastCall : Accept(j) \/ Refuse(j) \/ Answer(j) \/ Lose(j)
  \/ Fetch
  \/ Stop

\* Every accepted call is finished, and every answer leaves the ready list.
SFairness ==
  /\ \A j \in 1 .. LastCall : WF_svars(Answer(j) \/ Lose(j))
  /\ WF_svars(Fetch \/ Stop)

SSpec == SInit /\ [][SNext]_svars

SFairSpec == SSpec /\ SFairness
=============================================================================
