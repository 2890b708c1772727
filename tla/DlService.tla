------------------------------ MODULE DlService ------------------------------
(***************************************************************************)
(* What dl_get promises the callers of plugins, with no lock, scan or      *)
(* half-written entry: a call for a known library gets its handle, a call  *)
(* for any other loads it if there is room and dlopen can, or is denied.   *)
(* A library stays known, unless its path does not fit into an entry.      *)
(* Handles are named by paths.  Which libraries dlopen can load may change *)
(* at any time.                                                            *)
(***************************************************************************)
EXTENDS Naturals

CONSTANTS
  Askers,    \* the threads that call plugins
  Libraries, \* the paths they ask for
  Unfit,     \* those that do not fit into an entry
  Room,      \* how many times a library can be loaded
  Nothing    \* NULL, no path

VARIABLES
  loadable,  \* the libraries that dlopen can load
  known,     \* the libraries that will be found again
  used,      \* how many entries are used up
  asking,    \* the path each thread is waiting for
  got        \* the handle each thread got last

dvars == <<loadable, known, used, asking, got>>

DInit ==
  /\ known = {}
  /\ used = 0
  /\ asking = [t \in Askers |-> Nothing]
  /\ got = [t \in Askers |-> Nothing]

Ask(t, p) ==
  /\ asking[t] = Nothing
  /\ asking' = [asking EXCEPT ![t] = p]
  /\ UNCHANGED <<loadable, known, used, got>>

Reply(t, h) ==
  /\ asking[t] # Nothing
  /\ asking' = [asking EXCEPT ![t] = Nothing]
  /\ got' = [got EXCEPT ![t] = h]
  /\ UNCHANGED loadable

Find(t) ==
  /\ asking[t] \in known
  /\ Reply(t, asking[t])
  /\ UNCHANGED <<known, used>>

Load(t) ==
  /\ asking[t] \in loadable \ known
  /\ used < Room
  /\ Reply(t, asking[t])
  /\ known' = known \cup ({asking[t]} \ Unfit)
  /\ used' = used + 1

Deny(t) ==
  /\ asking[t] \notin known
  /\ asking[t] \notin loadable \/ used = Room
  /\ Reply(t, Nothing)
  /\ UNCHANGED <<known, used>>

\* Files come and go.
Environment ==
  /\ loadable' \in SUBSET Libraries
  /\ UNCHANGED <<known, used, asking, got>>

DNext ==
  \/ \E t \in Askers :
       \/ \E p \in Libraries : Ask(t, p)
       \/ Find(t) \/ Load(t) \/ Deny(t)
  \/ Environment

DSpec == DInit /\ [][DNext]_dvars
=============================================================================
