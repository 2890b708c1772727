----------------------------- MODULE RequestsInv -----------------------------
(***************************************************************************)
(* The inductive invariant of Requests: what a thread on its way to a      *)
(* plugin function knows of the files, and for how long it stays true.     *)
(***************************************************************************)
EXTENDS Requests

\* From the resolution to the end of the call.
Seeking(t) == pc[t] \in {"look", "found", "missing", "open", "opened"}

\* What is answered and pushed is left free.
TypeOK ==
  /\ files \in [Paths -> FileStates]
  /\ queue \in Seq(Names)
  /\ pc \in [Threads -> {"idle", "look", "found", "missing", "open", "opened", "done"}]
  /\ task \in [Threads -> [method : {hm.method : hm \in HttpMessages} \cup {None},
                           uri : {hm.uri : hm \in HttpMessages} \cup {None},
                           name : Names \cup {None}]]
  /\ probing \in BOOLEAN
  /\ look \in [Threads -> 0 .. 5]
  /\ path \in [Threads -> Paths \cup {None}]
  /\ known \in SUBSET Paths
  /\ used \in 0 .. CacheMax
  /\ asking \in [Threads -> Paths \cup {None}]
  /\ got \in [Threads -> Paths \cup {None}]
  /\ changes \in 0 .. MaxChanges
  /\ changed \in SUBSET Names
  /\ quiet \in SUBSET Threads
  /\ steady \in [Threads -> SUBSET Paths]
  /\ ran \in SUBSET Paths

\* The first n looks have excluded what was there all along, and while nothing
\* changes there is nothing at the spots they looked at.
Passed(t, n) ==
  \A i \in 1 .. n : \A s \in Looks(NameOf(t))[i] :
    /\ <<NameOf(t), s>> \notin steady[t]
    /\ t \in quiet => files[<<NameOf(t), s>>] = "none"

\* A thread works on a name while it seeks; what is steady is there.
Working(t) ==
  /\ pc[t] = "idle" => NameOf(t) = None
  /\ Seeking(t) => NameOf(t) \in Names
  /\ NameOf(t) \notin changed => t \in quiet
  /\ \A p \in steady[t] : p[1] = NameOf(t) /\ files[p] # "none"

\* A resolution on its way, or behind its last look.
Looking(t) ==
  LET looks == Looks(NameOf(t))
  IN  /\ pc[t] = "look" => look[t] < Len(looks) /\ Passed(t, look[t])
      /\ pc[t] = "found" => \E i \in DOMAIN looks : \E s \in looks[i] :
           /\ path[t] = <<NameOf(t), s>>
           /\ Passed(t, i - 1)
           /\ t \in quiet => files[path[t]] # "none"
      /\ pc[t] = "missing" =>
           path[t] = Leftover(NameOf(t)) /\ Passed(t, Len(looks))

\* A path that a resolution returns while nothing changes.
Meant(p) ==
  \/ p[2] \in Best(p[1])
  \/ Best(p[1]) = {} /\ files[p] = "none"

\* A library that may be run under its name.
Right(p) == p[1] \notin changed => p[2] \in Best(p[1])

\* dl_get is asked for the path of the resolution, and gives the right library.
Asking(t) ==
  /\ asking[t] # None <=> pc[t] = "open"
  /\ pc[t] = "open" => /\ asking[t][1] = NameOf(t)
                       /\ t \in quiet => Meant(asking[t])
  /\ got[t] # None => Right(got[t])

RequestInv ==
  /\ TypeOK
  /\ \A t \in Threads : Working(t) /\ Looking(t) /\ Asking(t)
  /\ \A p \in known \cup ran : Right(p)
  /\ RefusalJustified
=============================================================================
