------------------------------ MODULE DlCache ------------------------------
(***************************************************************************)
(* The cache of dlopen handles behind every plugin call (dl_get in         *)
(* src/src/calldyn.c), used by the main thread and by the call workers.    *)
(*                                                                         *)
(* A thread first looks for its path without a lock, in as many entries as *)
(* g_dl_cache_count said when it started; on a miss it takes g_dl_mutex,   *)
(* looks again, and loads the library into the next entry.  The entry is   *)
(* written in two steps that a reader without the lock may fall between;   *)
(* the count is raised last.  A scan of the entries is one step.           *)
(*                                                                         *)
(* A handle is named by the path it was opened for.  An operator named X_Y *)
(* is a faulty variant of the operator X below it (see the README).        *)
(***************************************************************************)
EXTENDS Naturals

CONSTANTS
  Threads,   \* the threads that call plugins
  Paths,     \* the library paths they ask for
  Loadable,  \* those that dlopen can load
  Long,      \* those that do not fit into path[256]
  CacheMax,  \* DL_CACHE_MAX
  MaxCalls,  \* bound: how many calls are made
  None       \* NULL, no thread, no path

ASSUME CacheAssumption ==
  /\ Loadable \subseteq Paths
  /\ Long \subseteq Paths
  /\ CacheMax \in Nat
  /\ MaxCalls \in Nat
  /\ None \notin Paths \cup Threads

Entries == 1 .. CacheMax

VARIABLES
  path,     \* g_dl_cache[i].path
  handle,   \* g_dl_cache[i].handle
  count,    \* g_dl_cache_count
  mutex,    \* who holds g_dl_mutex
  pc,       \* where each thread is in dl_get
  want,     \* the path each thread asks for
  seen,     \* n, the count a thread read without the lock
  result,   \* what the last dl_get of each thread returned
  opened,   \* history: the paths for which dlopen succeeded
  reopened, \* history: those for which it succeeded again
  calls     \* how many calls were made

vars == <<path, handle, count, mutex, pc, want, seen, result, opened, reopened,
          calls>>
cache == <<path, handle, count>>
history == <<opened, reopened, calls>>

Init ==
  /\ path = [i \in Entries |-> None]
  /\ handle = [i \in Entries |-> None]
  /\ count = 0
  /\ mutex = None
  /\ pc = [t \in Threads |-> "idle"]
  /\ want = [t \in Threads |-> None]
  /\ seen = [t \in Threads |-> 0]
  /\ result = [t \in Threads |-> None]
  /\ opened = {}
  /\ reopened = {}
  /\ calls = 0

Goto(t, from, to) ==
  /\ pc[t] = from
  /\ pc' = [pc EXCEPT ![t] = to]

Return(t, h) == result' = [result EXCEPT ![t] = h]

\* A plugin call begins: any thread, any path.
Call(t, p) ==
  /\ Goto(t, "idle", "start")
  /\ calls < MaxCalls                          \* bound
  /\ calls' = calls + 1
  /\ want' = [want EXCEPT ![t] = p]
  /\ UNCHANGED <<cache, mutex, seen, result, opened, reopened>>

ReadCount(t) ==
  /\ Goto(t, "start", "scan")
  /\ seen' = [seen EXCEPT ![t] = count]
  /\ UNCHANGED <<cache, mutex, want, result, history>>

\* The first of the first n entries with path p.
FirstWith(i, p, n) ==
  /\ i \in 1 .. n
  /\ path[i] = p
  /\ \A k \in 1 .. i - 1 : path[k] # p

ScanHit(t, i) ==
  /\ Goto(t, "scan", "idle")
  /\ FirstWith(i, want[t], seen[t])
  /\ Return(t, handle[i])
  /\ UNCHANGED <<cache, mutex, want, seen, history>>

ScanMiss(t) ==
  /\ Goto(t, "scan", "lock")
  /\ \A i \in 1 .. seen[t] : path[i] # want[t]
  /\ UNCHANGED <<cache, mutex, want, seen, result, history>>

Lock(t) ==
  /\ Goto(t, "lock", "locked")
  /\ mutex = None
  /\ mutex' = t
  /\ UNCHANGED <<cache, want, seen, result, history>>

\* The second look covers all published entries.
Rescanned_None == 0
Rescanned == count

RescanHit(t, i) ==
  /\ Goto(t, "locked", "unlock")
  /\ FirstWith(i, want[t], Rescanned)
  /\ Return(t, handle[i])
  /\ UNCHANGED <<cache, mutex, want, seen, history>>

Absent(t) == \A i \in 1 .. Rescanned : path[i] # want[t]

Room_OffByOne == count <= CacheMax
Room == count < CacheMax

\* Both failures give the mutex back and return NULL.
AfterFailure_NoUnlock == "idle"
AfterFailure == "unlock"

\* The table is full: no library is loaded any more.
Full(t) ==
  /\ Goto(t, "locked", AfterFailure)
  /\ Absent(t)
  /\ ~Room
  /\ Return(t, None)
  /\ UNCHANGED <<cache, mutex, want, seen, history>>

\* dlopen failed.
OpenFails(t) ==
  /\ Goto(t, "locked", AfterFailure)
  /\ Absent(t)
  /\ Room
  /\ want[t] \notin Loadable
  /\ Return(t, None)
  /\ UNCHANGED <<cache, mutex, want, seen, history>>

\* The entry that is filled: g_dl_cache[g_dl_cache_count].
NextEntry_Stale(t) == seen[t] + 1
NextEntry(t) == count + 1

\* What snprintf leaves of a path: one that was cut is taken to equal no path
\* asked for (a cut dir/name/name.so lacks its ending).
Kept(p) == IF p \in Long THEN None ELSE p

\* dlopen succeeded, and the path is written.
CountAtOpen_Raised == count + 1
CountAtOpen == count
Open(t) ==
  /\ Goto(t, "locked", "opened")
  /\ Absent(t)
  /\ Room
  /\ want[t] \in Loadable
  /\ path' = [path EXCEPT ![NextEntry(t)] = Kept(want[t])]
  /\ count' = CountAtOpen
  /\ opened' = opened \cup {want[t]}
  /\ reopened' = reopened \cup (opened \cap {want[t]})
  /\ UNCHANGED <<handle, mutex, want, seen, result, calls>>

WriteHandle(t) ==
  /\ Goto(t, "opened", "filled")
  /\ handle' = [handle EXCEPT ![NextEntry(t)] = want[t]]
  /\ UNCHANGED <<path, count, mutex, want, seen, result, history>>

\* Behind the memory barrier: the entry becomes visible without the lock.
Publish(t) ==
  /\ Goto(t, "filled", "unlock")
  /\ count' = count + 1
  /\ Return(t, want[t])
  /\ UNCHANGED <<path, handle, mutex, want, seen, history>>

Unlock(t) ==
  /\ Goto(t, "unlock", "idle")
  /\ mutex' = None
  /\ UNCHANGED <<cache, want, seen, result, history>>

ThreadStep(t) ==
  \/ ReadCount(t) \/ ScanMiss(t)
  \/ \E i \in Entries : ScanHit(t, i) \/ RescanHit(t, i)
  \/ Lock(t) \/ Full(t) \/ OpenFails(t) \/ Open(t)
  \/ WriteHandle(t) \/ Publish(t) \/ Unlock(t)

Next == \E t \in Threads : ThreadStep(t) \/ \E p \in Paths : Call(t, p)

Spec == Init /\ [][Next]_vars

\* A thread that can run is scheduled; dlopen returns.
FairSpec == Spec /\ \A t \in Threads : WF_vars(ThreadStep(t))

-----------------------------------------------------------------------------
Holds == {"locked", "opened", "filled", "unlock"}

TypeOK ==
  /\ path \in [Entries -> Paths \cup {None}]
  /\ handle \in [Entries -> Paths \cup {None}]
  /\ count \in 0 .. CacheMax
  /\ mutex \in Threads \cup {None}
  /\ pc \in [Threads -> {"idle", "start", "scan", "lock"} \cup Holds]
  /\ want \in [Threads -> Paths \cup {None}]
  /\ seen \in [Threads -> 0 .. CacheMax]
  /\ result \in [Threads -> Paths \cup {None}]
  /\ opened \in SUBSET Paths
  /\ reopened \in SUBSET Paths
  /\ calls \in Nat

-----------------------------------------------------------------------------
(* Properties.                                                             *)

\* Nobody gets the handle of another library, although the fast path reads
\* entries that other threads fill at the same time.
HandleRight ==
  \A t \in Threads : pc[t] = "idle" => result[t] \in {want[t], None}

\* A library that can be loaded is refused only for want of a table entry: no
\* half-written entry is ever returned.
NullOnlyWhenFull ==
  \A t \in Threads :
    pc[t] = "idle" /\ want[t] \in Loadable /\ result[t] = None => count = CacheMax

\* dlopen is called once for a library whose path fits, although any number of
\* threads may miss it at the same time: its static state is never split.
ReopenedOnlyLong == reopened \subseteq Long

\* An entry that readers may use is never written again (the comment at the
\* head of dl_get).
OnlyAppends ==
  /\ count' >= count
  /\ \A i \in 1 .. count : path'[i] = path[i] /\ handle'[i] = handle[i]

PublishedStable == [][OnlyAppends]_vars

\* Every plugin call gets its answer from the cache.
CallReturns == \A t \in Threads : pc[t] = "start" ~> pc[t] = "idle"

-----------------------------------------------------------------------------
(* The inductive invariant.                                                *)

\* g_dl_mutex is held by the one thread between lock and unlock.
MutexInv == \A t \in Threads : pc[t] \in Holds <=> mutex = t

\* What a thread remembers: the path it asks for, and a count of entries that
\* has not gone down since.
ThreadInv ==
  \A t \in Threads :
    /\ pc[t] # "idle" => want[t] \in Paths
    /\ seen[t] <= count

\* Published entries are complete, with the path that snprintf left of the one
\* the handle was opened for.
EntryInv ==
  \A i \in 1 .. count : handle[i] \in Loadable /\ path[i] = Kept(handle[i])

\* The entry behind them is being filled by the thread that loads a library,
\* one that would not be found among the published entries.
FillInv ==
  \A t \in Threads : pc[t] \in {"opened", "filled"} =>
    /\ count < CacheMax
    /\ want[t] \in Loadable
    /\ \A i \in 1 .. count : path[i] # want[t]
    /\ path[count + 1] = Kept(want[t])
    /\ pc[t] = "filled" => handle[count + 1] = want[t]

\* A library that was opened is published, or about to be.
OpenedInv ==
  /\ \A p \in opened :
       \/ \E i \in 1 .. count : handle[i] = p
       \/ \E t \in Threads : pc[t] \in {"opened", "filled"} /\ want[t] = p
  /\ ReopenedOnlyLong

\* A result is settled before the mutex is given back.
ResultInv ==
  \A t \in Threads : pc[t] \in {"idle", "unlock"} =>
    /\ result[t] \in {want[t], None}
    /\ want[t] \in Loadable /\ result[t] = None => count = CacheMax

CacheInv ==
  /\ TypeOK
  /\ MutexInv
  /\ ThreadInv
  /\ EntryInv
  /\ FillInv
  /\ OpenedInv
  /\ ResultInv
=============================================================================
