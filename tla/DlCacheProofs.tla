--------------------------- MODULE DlCacheProofs ---------------------------
(***************************************************************************)
(* What the handle cache guarantees for any number of threads, paths and   *)
(* table entries.                                                          *)
(***************************************************************************)
EXTENDS DlCacheRefinement, TLAPS

\* The empty table, with no thread in dl_get, satisfies the invariant.
LEMMA InitCache == Init => CacheInv
  BY CacheAssumption, SMTT(30)
  DEF Init, CacheInv, TypeOK, MutexInv, ThreadInv, EntryInv, FillInv, OpenedInv,
      ResultInv, ReopenedOnlyLong, Holds, Entries

\* A lookup returns a published entry whose handle is the library asked for: a
\* cut path equals none, and the index is below a count that only grows.
LEMMA HitIsRight ==
  ASSUME CacheInv, NEW t \in Threads, NEW i, NEW n \in 0 .. count,
         pc[t] # "idle", FirstWith(i, want[t], n)
  PROVE  handle[i] = want[t]
  BY CacheAssumption, SMTT(30)
  DEF CacheInv, TypeOK, ThreadInv, EntryInv, FirstWith, Kept

\* No step breaks the type of a variable: the count is raised only by the
\* thread that found room for the entry.
LEMMA TypeCache == CacheInv /\ [Next]_vars => TypeOK'
  <1> SUFFICES ASSUME CacheInv, [Next]_vars PROVE TypeOK'
    OBVIOUS
  <1> USE CacheAssumption DEF CacheInv, TypeOK, Goto, Return, Holds, Room, AfterFailure,
                             cache, history
  <1>1. ASSUME NEW t \in Threads, NEW p \in Paths, Call(t, p) PROVE TypeOK'
    BY <1>1, SMTT(30) DEF Call
  <1>2. ASSUME NEW t \in Threads, ReadCount(t) PROVE TypeOK'
    BY <1>2, SMTT(30) DEF ReadCount
  <1>3. ASSUME NEW t \in Threads, NEW i \in Entries, ScanHit(t, i) PROVE TypeOK'
    BY <1>3, SMTT(30) DEF ScanHit
  <1>4. ASSUME NEW t \in Threads, ScanMiss(t) PROVE TypeOK'
    BY <1>4, SMTT(30) DEF ScanMiss
  <1>5. ASSUME NEW t \in Threads, Lock(t) PROVE TypeOK'
    BY <1>5, SMTT(30) DEF Lock
  <1>6. ASSUME NEW t \in Threads, NEW i \in Entries, RescanHit(t, i) PROVE TypeOK'
    BY <1>6, SMTT(30) DEF RescanHit
  <1>7. ASSUME NEW t \in Threads, Full(t) \/ OpenFails(t) PROVE TypeOK'
    BY <1>7, SMTT(30) DEF Full, OpenFails
  <1>8. ASSUME NEW t \in Threads, Open(t) PROVE TypeOK'
    <2>1. Kept(want[t]) \in Paths \cup {None}
      BY <1>8 DEF Kept
    <2>2. path' \in [Entries -> Paths \cup {None}]
      BY <1>8, <2>1 DEF Open
    <2>3. pc' \in [Threads -> {"idle", "start", "scan", "lock"} \cup Holds]
      BY <1>8 DEF Open
    <2>4. count' \in 0 .. CacheMax /\ opened' \in SUBSET Paths /\ reopened' \in SUBSET Paths
      BY <1>8 DEF Open, CountAtOpen
    <2> QED BY <1>8, <2>2, <2>3, <2>4 DEF Open
  <1>9. ASSUME NEW t \in Threads, WriteHandle(t) PROVE TypeOK'
    <2>1. handle' \in [Entries -> Paths \cup {None}]
      BY <1>9 DEF WriteHandle
    <2>2. pc' \in [Threads -> {"idle", "start", "scan", "lock"} \cup Holds]
      BY <1>9 DEF WriteHandle
    <2> QED BY <1>9, <2>1, <2>2 DEF WriteHandle
  <1>10. ASSUME NEW t \in Threads, Publish(t) PROVE TypeOK'
    BY <1>10, SMTT(30) DEF Publish, FillInv
  <1>11. ASSUME NEW t \in Threads, Unlock(t) PROVE TypeOK'
    BY <1>11, SMTT(30) DEF Unlock
  <1>12. CASE UNCHANGED vars
    BY <1>12 DEF vars
  <1>13. [Next]_vars
    OBVIOUS
  <1> HIDE DEF TypeOK, CacheInv
  <1> QED
    BY ONLY <1>1, <1>2, <1>3, <1>4, <1>5, <1>6, <1>7, <1>8, <1>9, <1>10, <1>11,
            <1>12, <1>13
    DEF Next, ThreadStep

\* The other parts, action by action.
LEMMA StepCache == CacheInv /\ [Next]_vars => CacheInv'
  <1> SUFFICES ASSUME CacheInv, [Next]_vars PROVE CacheInv'
    OBVIOUS
  <1>0. TypeOK'
    BY TypeCache
  <1> DEFINE Rest == MutexInv /\ ThreadInv /\ EntryInv /\ FillInv /\ OpenedInv
                     /\ ResultInv
  <1> USE CacheAssumption
          DEF CacheInv, TypeOK, MutexInv, ThreadInv, EntryInv, FillInv, OpenedInv,
              ResultInv, ReopenedOnlyLong, Goto, Return, Holds, Room, AfterFailure,
              cache, history
  <1>1. ASSUME NEW t \in Threads, NEW p \in Paths, Call(t, p) PROVE Rest'
    BY <1>0, <1>1, SMTT(30) DEF Call
  <1>2. ASSUME NEW t \in Threads, ReadCount(t) PROVE Rest'
    BY <1>0, <1>2, SMTT(30) DEF ReadCount
  <1>3. ASSUME NEW t \in Threads, NEW i \in Entries, ScanHit(t, i) PROVE Rest'
    <2>1. handle[i] = want[t]
      BY <1>3, HitIsRight DEF ScanHit
    <2> QED BY <1>0, <1>3, <2>1, SMTT(30) DEF ScanHit
  <1>4. ASSUME NEW t \in Threads, ScanMiss(t) PROVE Rest'
    BY <1>0, <1>4, SMTT(30) DEF ScanMiss
  <1>5. ASSUME NEW t \in Threads, Lock(t) PROVE Rest'
    BY <1>0, <1>5, SMTT(30) DEF Lock
  <1>6. ASSUME NEW t \in Threads, NEW i \in Entries, RescanHit(t, i) PROVE Rest'
    <2>1. handle[i] = want[t]
      BY <1>6, HitIsRight DEF RescanHit, Rescanned
    <2> QED BY <1>0, <1>6, <2>1, SMTT(30) DEF RescanHit
  <1>7. ASSUME NEW t \in Threads, Full(t) \/ OpenFails(t) PROVE Rest'
    BY <1>0, <1>7, SMTT(30) DEF Full, OpenFails
  <1>8. ASSUME NEW t \in Threads, Open(t) PROVE Rest'
    <2>1. /\ count' = count
          /\ \A i \in 1 .. count : path'[i] = path[i] /\ handle'[i] = handle[i]
          /\ path'[count + 1] = Kept(want[t])
          /\ mutex = t /\ want[t] \in Loadable /\ count < CacheMax
      BY <1>0, <1>8, SMTT(30) DEF Open, NextEntry, CountAtOpen, Entries
    <2>2. \A i \in 1 .. count : path[i] # want[t]
      BY <1>8 DEF Open, Absent, Rescanned
    <2>3. want[t] \in opened => want[t] \in Long
      BY <2>2, <1>8, SMTT(30) DEF Kept, Open
    <2>4. MutexInv' /\ ThreadInv'
      BY <1>0, <1>8, <2>1, SMTT(30) DEF Open
    <2>5. EntryInv'
      BY <1>0, <1>8, <2>1, SMTT(30) DEF Open, Kept
    <2>6. FillInv'
      BY <1>0, <1>8, <2>1, <2>2, SMTT(30) DEF Open, Kept
    <2>7. OpenedInv'
      <3>1. ReopenedOnlyLong'
        BY <1>8, <2>3 DEF Open
      <3>2. ASSUME NEW p \in opened'
            PROVE  \/ \E i \in 1 .. count' : handle'[i] = p
                   \/ \E u \in Threads : pc'[u] \in {"opened", "filled"} /\ want'[u] = p
        <4>1. CASE p = want[t]
          BY <1>8, <4>1, SMTT(30) DEF Open
        <4>2. CASE p # want[t]
          BY <1>8, <2>1, <4>2, SMTT(30) DEF Open
        <4> QED BY <4>1, <4>2
      <3> QED BY <3>1, <3>2
    <2>8. ResultInv'
      BY <1>0, <1>8, <2>1, SMTT(30) DEF Open
    <2> QED BY <2>4, <2>5, <2>6, <2>7, <2>8
  <1>9. ASSUME NEW t \in Threads, WriteHandle(t) PROVE Rest'
    <2>1. /\ UNCHANGED <<count, path, want, mutex, seen, result, opened, reopened>>
          /\ \A i \in 1 .. count : handle'[i] = handle[i]
          /\ handle'[count + 1] = want[t] /\ pc[t] = "opened" /\ mutex = t
          /\ pc' = [pc EXCEPT ![t] = "filled"]
      BY <1>9, SMTT(30) DEF WriteHandle, NextEntry, Entries
    <2>2. MutexInv' /\ ThreadInv' /\ EntryInv' /\ ResultInv'
      BY <1>0, <2>1, SMTT(30)
    <2>3. FillInv'
      BY <1>0, <2>1, SMTT(30)
    <2>4. OpenedInv'
      BY <1>0, <2>1, SMTT(30)
    <2> QED BY <2>2, <2>3, <2>4
  <1>10. ASSUME NEW t \in Threads, Publish(t) PROVE Rest'
    BY <1>0, <1>10, SMTT(30) DEF Publish
  <1>11. ASSUME NEW t \in Threads, Unlock(t) PROVE Rest'
    BY <1>0, <1>11, SMTT(30) DEF Unlock
  <1>12. CASE UNCHANGED vars
    BY <1>12 DEF vars
  <1>13. [Next]_vars
    OBVIOUS
  <1> QED
    BY <1>13, <1>0, <1>1, <1>2, <1>3, <1>4, <1>5, <1>6, <1>7, <1>8, <1>9, <1>10, <1>11,
       <1>12
    DEF Next, ThreadStep

\* The invariant of the handle cache holds in every reachable state.
THEOREM CacheInvariance == Spec => []CacheInv
  BY InitCache, StepCache, PTL DEF Spec

\* dl_get returns the handle of the library asked for, or NULL.
THEOREM RightHandle == Spec => []HandleRight
  <1>1. CacheInv => HandleRight
    BY DEF CacheInv, ResultInv, HandleRight
  <1> QED BY <1>1, CacheInvariance, PTL

\* dl_get returns NULL for a loadable library only when the table is full.
THEOREM NullMeansFull == Spec => []NullOnlyWhenFull
  <1>1. CacheInv => NullOnlyWhenFull
    BY DEF CacheInv, ResultInv, NullOnlyWhenFull
  <1> QED BY <1>1, CacheInvariance, PTL

\* A library whose path fits into an entry is opened once.
THEOREM OpenedOnce == Spec => []ReopenedOnlyLong
  <1>1. CacheInv => ReopenedOnlyLong
    BY DEF CacheInv, OpenedInv
  <1> QED BY <1>1, CacheInvariance, PTL

\* Entries that the fast path reads without the lock are never written again:
\* the only writes go to the entry behind the published ones.
THEOREM StableEntries == Spec => PublishedStable
  <1>1. CacheInv /\ [Next]_vars => [OnlyAppends]_vars
    <2> SUFFICES ASSUME CacheInv, [Next]_vars PROVE OnlyAppends
      OBVIOUS
    <2> USE CacheAssumption DEF CacheInv, TypeOK, Room, cache, OnlyAppends
    <2>1. ASSUME NEW t \in Threads, Open(t) PROVE OnlyAppends
      BY <2>1, SMTT(30) DEF Open, NextEntry, CountAtOpen, Entries
    <2>2. ASSUME NEW t \in Threads, WriteHandle(t) PROVE OnlyAppends
      BY <2>2, SMTT(30) DEF WriteHandle, NextEntry, Entries
    <2>3. ASSUME NEW t \in Threads, Publish(t) PROVE OnlyAppends
      BY <2>3, SMTT(30) DEF Publish
    <2>4. CASE UNCHANGED cache
      BY <2>4, SMTT(30)
    <2> QED
      BY <2>1, <2>2, <2>3, <2>4
      DEF Next, ThreadStep, vars, Call, ReadCount, ScanHit, ScanMiss, Lock,
          RescanHit, Full, OpenFails, Unlock
  <1> QED BY <1>1, CacheInvariance, PTL DEF Spec, PublishedStable

\* A path that is not cut is known exactly when the scan would find it.
LEMMA KnownIsFound ==
  ASSUME CacheInv, NEW p \in Paths
  PROVE  p \in Known <=> \E i \in 1 .. count : path[i] = p
  BY CacheAssumption, SMTT(30) DEF CacheInv, TypeOK, EntryInv, Known, Kept

\* The cache implements the loading service: a hit is Find, a publication is
\* Load, a failure is Deny, and every other step is invisible.
THEOREM ImplementsService == Spec => ImplementsDlService
  <1>1. Init => Service!DInit
    BY DEF Init, Service!DInit, Known, Asking
  <1>2. CacheInv /\ CacheInv' /\ [Next]_vars => [Service!DNext]_(Service!dvars)
    <2> SUFFICES ASSUME CacheInv, CacheInv', [Next]_vars
                 PROVE  Service!DNext \/ UNCHANGED Service!dvars
      OBVIOUS
    <2> USE CacheAssumption
    <2>t. TypeOK /\ TypeOK' /\ MutexInv /\ ThreadInv /\ FillInv /\ EntryInv
      BY DEF CacheInv
    <2>1. ASSUME NEW t \in Threads, NEW p \in Paths, Call(t, p)
          PROVE  Service!Ask(t, p)
      <3>1. Asking[t] = None /\ Asking' = [Asking EXCEPT ![t] = p]
        BY <2>1, <2>t DEF Call, Goto, Asking, TypeOK
      <3>2. Known' = Known
        BY <2>1 DEF Call, cache, Known
      <3> QED BY <2>1, <3>1, <3>2 DEF Call, cache, Service!Ask
    <2>2. ASSUME NEW t \in Threads, NEW i \in 1 .. count, pc[t] \in {"scan", "locked"},
                 path[i] = want[t],
                 pc' = [pc EXCEPT ![t] = "idle"] \/ pc' = [pc EXCEPT ![t] = "unlock"],
                 result' = [result EXCEPT ![t] = handle[i]],
                 UNCHANGED <<cache, want>>
          PROVE  Service!Find(t)
      <3>1. want[t] \in Paths /\ handle[i] = want[t]
        BY <2>2, <2>t DEF ThreadInv, EntryInv, Kept, TypeOK
      <3>2. Asking[t] = want[t] /\ Asking' = [Asking EXCEPT ![t] = None]
        BY <2>2, <2>t DEF Asking, TypeOK
      <3>3. want[t] \in Known
        BY <2>2, <3>1, KnownIsFound
      <3>4. Known' = Known /\ count' = count
        BY <2>2 DEF cache, Known
      <3> QED
        BY <2>2, <3>1, <3>2, <3>3, <3>4 DEF Service!Find, Service!Reply
    <2>3. ASSUME NEW t \in Threads, NEW i \in Entries,
                 ScanHit(t, i) \/ RescanHit(t, i)
          PROVE  Service!Find(t)
      <3>1. i \in 1 .. count /\ path[i] = want[t]
        BY <2>3, <2>t DEF ScanHit, RescanHit, FirstWith, Rescanned, TypeOK, ThreadInv
      <3>2. CASE ScanHit(t, i)
        BY <2>2, <3>1, <3>2 DEF ScanHit, Goto, Return
      <3>3. CASE RescanHit(t, i)
        BY <2>2, <3>1, <3>3 DEF RescanHit, Goto, Return
      <3> QED BY <2>3, <3>2, <3>3
    <2>4. ASSUME NEW t \in Threads, Full(t) \/ OpenFails(t)
          PROVE  Service!Deny(t)
      <3>1. want[t] \in Paths /\ pc[t] = "locked"
        BY <2>4, <2>t DEF ThreadInv, Full, OpenFails, Goto
      <3>2. want[t] \notin Known
        BY <2>4, <3>1, KnownIsFound DEF Full, OpenFails, Absent, Rescanned
      <3>3. want[t] \notin Loadable \/ count = CacheMax
        BY <2>4, <2>t DEF Full, OpenFails, Room, TypeOK
      <3>4. Asking[t] = want[t] /\ Asking' = [Asking EXCEPT ![t] = None]
        BY <2>4, <3>1, <2>t DEF Full, OpenFails, Goto, AfterFailure, Asking, TypeOK
      <3>5. Known' = Known /\ count' = count /\ result' = [result EXCEPT ![t] = None]
        BY <2>4 DEF Full, OpenFails, cache, Known, Return
      <3> QED
        BY <3>1, <3>2, <3>3, <3>4, <3>5 DEF Service!Deny, Service!Reply
    <2>5. ASSUME NEW t \in Threads, Publish(t) PROVE Service!Load(t)
      <3>1. /\ want[t] \in Loadable /\ want[t] \in Paths /\ count < CacheMax
            /\ handle[count + 1] = want[t]
            /\ pc[t] = "filled" /\ count' = count + 1 /\ count \in Nat
        BY <2>5, <2>t DEF Publish, Goto, FillInv, TypeOK
      <3>2. want[t] \notin Known
        BY <2>5, <3>1, <2>t, KnownIsFound DEF FillInv
      <3>3. Known' = Known \cup ({want[t]} \ Long)
        <4>1. handle' = handle
          BY <2>5 DEF Publish
        <4>2. 1 .. count' = (1 .. count) \cup {count + 1}
          BY <3>1
        <4> QED BY <3>1, <4>1, <4>2 DEF Known
      <3>4. Asking[t] = want[t] /\ Asking' = [Asking EXCEPT ![t] = None]
        BY <2>5, <3>1, <2>t DEF Publish, Goto, Asking, TypeOK
      <3>5. result' = [result EXCEPT ![t] = want[t]]
        BY <2>5 DEF Publish, Return
      <3> QED
        BY <3>1, <3>2, <3>3, <3>4, <3>5 DEF Service!Load, Service!Reply
    <2>6. ASSUME NEW t \in Threads,
                 \/ ReadCount(t) \/ ScanMiss(t) \/ Lock(t) \/ Unlock(t)
          PROVE  UNCHANGED Service!dvars
      <3>1. Asking' = Asking
        BY <2>6, <2>t DEF ReadCount, ScanMiss, Lock, Unlock, Goto, Asking, TypeOK
      <3> QED
        BY <2>6, <3>1
        DEF ReadCount, ScanMiss, Lock, Unlock, cache, Known, Service!dvars
    <2>7. ASSUME NEW t \in Threads, Open(t) PROVE UNCHANGED Service!dvars
      <3>1. Asking' = Asking
        BY <2>7, <2>t DEF Open, Goto, Asking, TypeOK
      <3> QED BY <2>7, <3>1 DEF Open, CountAtOpen, Known, Service!dvars
    <2>8. ASSUME NEW t \in Threads, WriteHandle(t) PROVE UNCHANGED Service!dvars
      <3>1. Asking' = Asking
        BY <2>8, <2>t DEF WriteHandle, Goto, Asking, TypeOK
      <3>2. \A i \in 1 .. count : handle'[i] = handle[i]
        BY <2>8, <2>t, SMTT(30) DEF WriteHandle, NextEntry, TypeOK, Entries
      <3>3. count' = count /\ result' = result
        BY <2>8 DEF WriteHandle
      <3>4. Known' = Known
        BY <3>2, <3>3 DEF Known
      <3> QED BY <3>1, <3>3, <3>4 DEF Service!dvars
    <2>9. CASE UNCHANGED vars
      BY <2>9 DEF vars, Known, Asking, Service!dvars
    <2> QED
      BY <2>1, <2>3, <2>4, <2>5, <2>6, <2>7, <2>8, <2>9
      DEF Next, ThreadStep, Service!DNext
  <1> QED
    BY <1>1, <1>2, CacheInvariance, PTL
    DEF Spec, ImplementsDlService, Service!DSpec
=============================================================================
