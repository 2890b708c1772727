--------------------------- MODULE RequestsProofs ---------------------------
(***************************************************************************)
(* From a request to a library, for any names, files, threads, requests    *)
(* and numbers of changes: a resolution that is overtaken by changes of    *)
(* files still returns the best that was there all the time, and requests  *)
(* for one name run one library.                                           *)
(***************************************************************************)
EXTENDS RequestsInv, SequenceTheorems, TLAPS

\* A least element that is known is the minimum.
LEMMA MinIs ==
  ASSUME NEW S \in SUBSET Int, NEW i \in S, \A k \in S : i <= k
  PROVE  Min(S) = i
<1>1. \A x \in S : (\A y \in S : x <= y) => x = i
  BY SMT
<1> QED BY <1>1 DEF Min

\* All that plugin_resolve_path may look at, in order.
Full == InPluginDir \o <<{"sys"}, {"syslib"}>>

LEMMA FullFacts ==
  /\ DOMAIN Full = 1 .. 5 /\ Len(Full) = 5
  /\ Full[1] = {"own"} /\ Full[2] = {"lib"} /\ Full[3] = {"own", "lib", "other"}
  /\ Full[4] = {"sys"} /\ Full[5] = {"syslib"}
<1> DEFINE last == <<{"sys"}, {"syslib"}>>
<1>1. InPluginDir \in Seq(SUBSET Spots) /\ last \in Seq(SUBSET Spots)
  BY DEF InPluginDir, Spots
<1>2. Len(InPluginDir) = 3 /\ Len(last) = 2 /\ last[1] = {"sys"} /\ last[2] = {"syslib"}
  BY DEF InPluginDir
<1>3. /\ Full \in Seq(SUBSET Spots) /\ Len(Full) = 3 + 2
      /\ \A i \in 1 .. 3 + 2 : Full[i] = IF i <= 3 THEN InPluginDir[i] ELSE last[i - 3]
  <2> HIDE DEF last
  <2>1. /\ InPluginDir \o last \in Seq(SUBSET Spots)
        /\ Len(InPluginDir \o last) = Len(InPluginDir) + Len(last)
        /\ \A i \in 1 .. Len(InPluginDir) + Len(last) : (InPluginDir \o last)[i] =
             IF i <= Len(InPluginDir) THEN InPluginDir[i] ELSE last[i - Len(InPluginDir)]
    BY <1>1, ConcatProperties
  <2>2. Full = InPluginDir \o last
    BY DEF Full, last
  <2> QED BY <1>2, <2>1, <2>2
<1>4. DOMAIN Full = 1 .. 5
  BY <1>3, LenProperties
<1>5. Full[1] = InPluginDir[1] /\ Full[2] = InPluginDir[2] /\ Full[3] = InPluginDir[3]
  BY <1>3
<1>6. Full[4] = last[1] /\ Full[5] = last[2]
  BY <1>3
<1> QED BY <1>2, <1>3, <1>4, <1>5, <1>6 DEF InPluginDir

\* The system calls of plugin_resolve_path, one by one.
LEMMA LooksFacts ==
  ASSUME NEW n
  PROVE  /\ DOMAIN Looks(n) = 1 .. Len(Looks(n))
         /\ IsSafe(n) => /\ Len(Looks(n)) = 5
                         /\ Looks(n)[1] = {"own"} /\ Looks(n)[2] = {"lib"}
                         /\ Looks(n)[3] = {"own", "lib", "other"}
                         /\ Looks(n)[4] = {"sys"} /\ Looks(n)[5] = {"syslib"}
         /\ ~ IsSafe(n) => /\ Len(Looks(n)) = 2
                           /\ Looks(n)[1] = {"sys"} /\ Looks(n)[2] = {"syslib"}
<1>1. CASE IsSafe(n)
  <2>1. Looks(n) = Full
    BY <1>1 DEF Looks, InLibary, Full
  <2> QED BY <1>1, <2>1, FullFacts
<1>2. CASE ~ IsSafe(n)
  BY <1>2 DEF Looks, InLibary
<1> QED BY <1>1, <1>2

\* The last look is at the spot that is left over.
LEMMA LooksEnds ==
  ASSUME NEW n
  PROVE  /\ Len(Looks(n)) \in Int /\ 1 <= Len(Looks(n)) /\ Len(Looks(n)) <= 5
         /\ \A i \in 1 .. Len(Looks(n)) : Looks(n)[i] \subseteq Spots
         /\ "syslib" \in Looks(n)[Len(Looks(n))]
<1> DEFINE looks == Looks(n)
           len == Len(Looks(n))
<1>1. CASE IsSafe(n)
  <2>1. len = 5 /\ looks[1] \subseteq Spots /\ looks[2] \subseteq Spots
        /\ looks[3] \subseteq Spots /\ looks[4] \subseteq Spots /\ looks[5] \subseteq Spots
        /\ "syslib" \in looks[5]
    BY <1>1, LooksFacts DEF Spots
  <2> HIDE DEF looks, len
  <2>2. \A i \in 1 .. len : looks[i] \subseteq Spots
    BY <2>1
  <2>3. len \in Int /\ 1 <= len /\ len <= 5 /\ "syslib" \in looks[len]
    BY <2>1
  <2> QED BY <2>2, <2>3 DEF looks, len
<1>2. CASE ~ IsSafe(n)
  <2>1. len = 2 /\ looks[1] \subseteq Spots /\ looks[2] \subseteq Spots
        /\ "syslib" \in looks[2]
    BY <1>2, LooksFacts DEF Spots
  <2> HIDE DEF looks, len
  <2>2. \A i \in 1 .. len : looks[i] \subseteq Spots
    BY <2>1
  <2>3. len \in Int /\ 1 <= len /\ len <= 5 /\ "syslib" \in looks[len]
    BY <2>1
  <2> QED BY <2>2, <2>3 DEF looks, len
<1> QED BY <1>1, <1>2

\* While nothing changes the first look that finds anything finds the best.
LEMMA BestFacts ==
  ASSUME NEW n
  PROVE  /\ \A i \in 1 .. Len(Looks(n)) : \A s \in Looks(n)[i] :
              /\ files[<<n, s>>] # "none"
              /\ \A k \in 1 .. i - 1 : \A z \in Looks(n)[k] : files[<<n, z>>] = "none"
              => s \in Best(n)
         /\ (\A k \in 1 .. Len(Looks(n)) : \A z \in Looks(n)[k] : files[<<n, z>>] = "none")
              => Best(n) = {}
         /\ \A s \in Best(n) : files[<<n, s>>] # "none"
<1> DEFINE Hits == {i \in DOMAIN Looks(n) : Present(files, n, Looks(n)[i]) # {}}
<1>0. DOMAIN Looks(n) = 1 .. Len(Looks(n)) /\ Len(Looks(n)) \in Nat
  BY LooksFacts, LooksEnds
<1>1. ASSUME NEW i \in 1 .. Len(Looks(n)), NEW s \in Looks(n)[i], files[<<n, s>>] # "none",
             \A k \in 1 .. i - 1 : \A z \in Looks(n)[k] : files[<<n, z>>] = "none"
      PROVE  s \in Best(n)
  <2>1. s \in Present(files, n, Looks(n)[i])
    BY <1>1 DEF Present
  <2>2. i \in Hits /\ Hits \in SUBSET Int
    BY <1>0, <2>1
  <2>3. \A k \in Hits : i <= k
    <3> SUFFICES ASSUME NEW k \in Hits, ~ (i <= k) PROVE FALSE
      OBVIOUS
    <3>1. k \in 1 .. i - 1
      BY <1>0
    <3>2. Present(files, n, Looks(n)[k]) = {}
      BY <3>1, <1>1 DEF Present
    <3> QED BY <3>2
  <2>4. Min(Hits) = i
    BY <2>2, <2>3, MinIs
  <2> QED BY <2>1, <2>2, <2>4 DEF Best
<1>2. ASSUME \A k \in 1 .. Len(Looks(n)) : \A z \in Looks(n)[k] : files[<<n, z>>] = "none"
      PROVE  Best(n) = {}
  <2>1. Hits = {}
    BY <1>0, <1>2 DEF Present
  <2> QED BY <2>1 DEF Best
<1>3. \A s \in Best(n) : files[<<n, s>>] # "none"
  BY DEF Best, Present
<1> QED BY <1>1, <1>2, <1>3

\* Files of other names do not matter.
LEMMA BestSame ==
  ASSUME NEW n, \A s : files'[<<n, s>>] = files[<<n, s>>]
  PROVE  Best(n)' = Best(n)
<1>1. \A z : Present(files', n, z) = Present(files, n, z)
  BY DEF Present
<1> QED BY <1>1 DEF Best

\* Only a request with a name is looked up as a plugin by ev_handler.
LEMMA ProbeHasName ==
  ASSUME NEW method, NEW u, NEW body, Route(method, u, body) = "probe"
  PROVE  u.name # None
<1> DEFINE tests == Tests(method, u, body)
           S == {i \in DOMAIN tests : tests[i].when}
<1>1. DOMAIN tests = 1 .. 10 /\ tests[10].when
  BY DEF Tests
<1>2. \A i \in 1 .. 10 : tests[i].to = "probe" => i = 9
  BY DEF Tests
<1>3. tests[9].when => u.name # None
  BY DEF Tests, Probes
<1> HIDE DEF tests
<1>4. S \in SUBSET (1 .. 10) /\ 10 \in S
  BY <1>1
<1>5. \E x \in S : \A y \in S : x <= y
  <2> HIDE DEF S
  <2> QED BY <1>4
<1>6. Min(S) \in S
  BY <1>5 DEF Min
<1>7. tests[Min(S)].to = "probe"
  BY DEF Route, tests
<1> QED BY <1>1, <1>2, <1>3, <1>6, <1>7

\* What the invariant says of one thread, and of one refusal.
Refused(t) ==
  pc[t] = "opened" /\ got[t] = None /\ t \in quiet =>
    LET best == Best(NameOf(t))
    IN  \/ best = {}
        \/ \E s \in best : files[<<NameOf(t), s>>] = "bad"
        \/ used = CacheMax

OfThread(t) == Working(t) /\ Looking(t) /\ Asking(t) /\ Refused(t)

LEMMA InvMeaning ==
  RequestInv <=> /\ TypeOK
                 /\ \A t \in Threads : OfThread(t)
                 /\ \A p \in known \cup ran : Right(p)
  BY DEF RequestInv, RefusalJustified, Refused, OfThread

LEMMA InvMeaningNext ==
  ASSUME TypeOK', \A t \in Threads : OfThread(t)',
         \A p \in known' \cup ran' : Right(p)'
  PROVE  RequestInv'
  BY DEF RequestInv, RefusalJustified, Refused, OfThread

\* The idle threads and the files of the start satisfy the invariant.
LEMMA RequestsInitial == Init => RequestInv
<1> SUFFICES ASSUME Init PROVE RequestInv
  OBVIOUS
<1> USE RequestAssumption
<1>1. TypeOK
  <2>1. files \in [Paths -> FileStates]
    BY DEF Init
  <2>2. /\ look \in [Threads -> 0 .. 5]
        /\ pc \in [Threads -> {"idle", "look", "found", "missing", "open", "opened", "done"}]
    BY DEF Init
  <2>3. task \in [Threads -> [method : {hm.method : hm \in HttpMessages} \cup {None},
                              uri : {hm.uri : hm \in HttpMessages} \cup {None},
                              name : Names \cup {None}]]
    BY DEF Init, NoTask
  <2>6. queue \in Seq(Names) /\ probing \in BOOLEAN
    <3>1. <<>> \in Seq(Names)
      BY EmptySeq
    <3> QED BY <3>1, Zenon DEF Init
  <2>4. /\ path \in [Threads -> Paths \cup {None}]
        /\ known \in SUBSET Paths /\ used \in 0 .. CacheMax
        /\ asking \in [Threads -> Paths \cup {None}]
        /\ got \in [Threads -> Paths \cup {None}]
    BY DEF Init, Cache!DInit
  <2>5. /\ changes \in 0 .. MaxChanges /\ changed \in SUBSET Names
        /\ quiet \in SUBSET Threads /\ steady \in [Threads -> SUBSET Paths]
        /\ ran \in SUBSET Paths
    BY DEF Init
  <2> QED BY <2>1, <2>2, <2>3, <2>4, <2>5, <2>6 DEF TypeOK
<1>2. ASSUME NEW t \in Threads PROVE OfThread(t)
  <2>1. pc[t] = "idle" /\ NameOf(t) = None /\ t \in quiet /\ steady[t] = {}
    BY DEF Init, NameOf, NoTask
  <2>2. asking[t] = None /\ got[t] = None
    BY DEF Init, Cache!DInit
  <2> QED BY <2>1, <2>2 DEF OfThread, Working, Looking, Asking, Refused, Seeking
<1>3. known \cup ran = {}
  BY DEF Init, Cache!DInit
<1> QED BY <1>1, <1>2, <1>3, InvMeaning

\* A thread notices nothing of steps of others that leave the files alone.
LEMMA OthersKept ==
  ASSUME NEW t, OfThread(t), UNCHANGED fileVars,
         pc'[t] = pc[t], task'[t] = task[t], look'[t] = look[t], path'[t] = path[t],
         steady'[t] = steady[t], asking'[t] = asking[t], got'[t] = got[t],
         t \in quiet' <=> t \in quiet, used = CacheMax => used' = CacheMax
  PROVE  OfThread(t)'
<1>1. files' = files /\ changed' = changed /\ NameOf(t)' = NameOf(t)
  BY DEF fileVars, NameOf
<1>2. \A n : Best(n)' = Best(n)
  BY <1>1 DEF Best
<1>3. \A n : Passed(t, n)' = Passed(t, n)
  BY <1>1 DEF Passed
<1>4. Working(t)'
  BY <1>1 DEF OfThread, Working, Seeking
<1>5. Looking(t)'
  BY <1>1, <1>3 DEF OfThread, Looking
<1>6. Asking(t)'
  BY <1>1, <1>2 DEF OfThread, Asking, Meant, Right
<1>7. Refused(t)'
  BY <1>1, <1>2 DEF OfThread, Refused
<1> QED BY <1>4, <1>5, <1>6, <1>7 DEF OfThread

\* A library stays right while files stay the same.
LEMMA RightKept ==
  ASSUME UNCHANGED fileVars, NEW p
  PROVE  Right(p)' <=> Right(p)
<1>1. files' = files /\ changed' = changed
  BY DEF fileVars
<1> QED BY <1>1 DEF Right, Best

\* A change of a file disturbs only what is known of its name.
LEMMA ChangeKeeps ==
  ASSUME RequestInv, NEW p \in Paths, NEW state \in FileStates, Change(p, state)
  PROVE  RequestInv'
<1> USE RequestAssumption
<1>0. TypeOK
  BY DEF RequestInv
<1>1. /\ files' = [files EXCEPT ![p] = state]
      /\ changed' = changed \cup {p[1]}
      /\ quiet' = {t \in quiet : NameOf(t) # p[1]}
      /\ steady' = [t \in Threads |->
                      IF state = "none" THEN steady[t] \ {p} ELSE steady[t]]
      /\ UNCHANGED <<pc, task, look, path, known, used, asking, got, ran>>
  BY DEF Change, jobVars, cacheVars
<1>2. p[1] \in Names
  BY DEF Paths
<1>3. TypeOK'
  <2>1. files' \in [Paths -> FileStates] /\ changed' \in SUBSET Names
    BY <1>0, <1>1, <1>2 DEF TypeOK
  <2>2. quiet' \in SUBSET Threads /\ steady' \in [Threads -> SUBSET Paths]
    BY <1>0, <1>1 DEF TypeOK
  <2>3. changes' \in 0 .. MaxChanges
    BY <1>0 DEF TypeOK, Change
  <2> QED BY <1>0, <1>1, <2>1, <2>2, <2>3 DEF TypeOK, Change
<1>4. \A q \in Paths : q # p => files'[q] = files[q]
  BY <1>0, <1>1 DEF TypeOK
<1>5. ASSUME NEW n, n # p[1]
      PROVE  \A s : files'[<<n, s>>] = files[<<n, s>>]
  <2> SUFFICES ASSUME NEW s PROVE files'[<<n, s>>] = files[<<n, s>>]
    OBVIOUS
  <2>1. p # <<n, s>>
    BY <1>5
  <2> QED BY <1>0, <1>1, <2>1 DEF TypeOK
<1>6. \A n : n # p[1] => Best(n)' = Best(n)
  BY <1>5, BestSame
<1>7. \A q : Right(q) => Right(q)'
  BY <1>1, <1>6 DEF Right
<1>8. ASSUME NEW t \in Threads PROVE OfThread(t)'
  <2>1. OfThread(t)
    BY InvMeaning
  <2>2. /\ pc'[t] = pc[t] /\ NameOf(t)' = NameOf(t) /\ path'[t] = path[t]
        /\ look'[t] = look[t] /\ asking'[t] = asking[t] /\ got'[t] = got[t]
        /\ steady'[t] \subseteq steady[t] /\ (state = "none" => p \notin steady'[t])
        /\ t \in quiet' => t \in quiet /\ NameOf(t) # p[1]
    BY <1>1 DEF NameOf
  <2>3. t \in quiet' => \A s : files'[<<NameOf(t), s>>] = files[<<NameOf(t), s>>]
    BY <2>2, <1>5
  <2>4. \A n : Passed(t, n) => Passed(t, n)'
    BY <2>2, <2>3 DEF Passed
  <2>5. Working(t)'
    <3>1. \A q \in steady'[t] : q \in Paths /\ q[1] = NameOf(t) /\ files[q] # "none"
      BY <1>0, <2>1, <2>2 DEF OfThread, Working, TypeOK
    <3>2. \A q \in steady'[t] : files'[q] # "none"
      BY <1>0, <1>1, <1>4, <2>2, <3>1 DEF TypeOK
    <3>3. NameOf(t) \notin changed' => t \in quiet'
      BY <1>1, <2>1 DEF OfThread, Working
    <3> QED BY <2>1, <2>2, <3>1, <3>2, <3>3 DEF OfThread, Working, Seeking
  <2>6. Looking(t)'
    <3>1. ASSUME pc[t] = "found"
          PROVE  \E i \in DOMAIN Looks(NameOf(t)) : \E s \in Looks(NameOf(t))[i] :
                   /\ path'[t] = <<NameOf(t), s>>
                   /\ Passed(t, i - 1)'
                   /\ t \in quiet' => files'[path'[t]] # "none"
      BY <2>1, <2>2, <2>3, <2>4, <3>1 DEF OfThread, Looking
    <3> QED BY <2>1, <2>2, <2>4, <3>1 DEF OfThread, Looking
  <2>7. Asking(t)'
    <3>1. ASSUME pc[t] = "open", t \in quiet' PROVE Meant(asking[t])'
      <4>1. /\ asking[t] \in Paths /\ asking[t][1] = NameOf(t) /\ Meant(asking[t])
            /\ NameOf(t) # p[1]
        BY <1>0, <2>1, <2>2, <3>1 DEF OfThread, Asking, TypeOK
      <4>2. files'[asking[t]] = files[asking[t]]
        BY <1>4, <4>1
      <4> QED BY <1>1, <1>6, <4>1, <4>2 DEF Meant
    <3> QED BY <1>1, <1>7, <2>1, <2>2, <3>1 DEF OfThread, Asking
  <2>8. Refused(t)'
    BY <1>1, <1>6, <2>1, <2>2, <2>3 DEF OfThread, Refused
  <2> QED BY <2>5, <2>6, <2>7, <2>8 DEF OfThread
<1>9. \A q \in known' \cup ran' : Right(q)'
  BY <1>1, <1>7 DEF RequestInv
<1> QED BY <1>3, <1>8, <1>9, InvMeaningNext

\* What a step of one thread has to show: itself, and that it left the others
\* alone.
LEMMA StepOfOne ==
  ASSUME RequestInv, NEW t \in Threads, UNCHANGED fileVars, TypeOK', OfThread(t)',
         \A u \in Threads \ {t} :
           /\ pc'[u] = pc[u] /\ task'[u] = task[u] /\ look'[u] = look[u]
           /\ path'[u] = path[u] /\ steady'[u] = steady[u]
           /\ asking'[u] = asking[u] /\ got'[u] = got[u]
           /\ u \in quiet' <=> u \in quiet,
         used = CacheMax => used' = CacheMax,
         \A p \in (known' \cup ran') \ (known \cup ran) : Right(p)
  PROVE  RequestInv'
<1>1. \A u \in Threads : OfThread(u)'
  <2>1. \A u \in Threads : OfThread(u)
    BY InvMeaning
  <2> SUFFICES ASSUME NEW u \in Threads \ {t} PROVE OfThread(u)'
    OBVIOUS
  <2> QED BY <2>1, OthersKept
<1>2. \A p \in known' \cup ran' : Right(p)'
  BY RightKept DEF RequestInv
<1> QED BY <1>1, <1>2, InvMeaningNext

\* The operators of the files keep their values when the files do.
LEMMA FilesKept ==
  ASSUME UNCHANGED fileVars
  PROVE  /\ files' = files /\ changed' = changed /\ changes' = changes
         /\ \A n : Best(n)' = Best(n)
         /\ \A p : Right(p)' <=> Right(p)
         /\ \A p : Meant(p)' <=> Meant(p)
<1>1. files' = files /\ changed' = changed /\ changes' = changes
  BY DEF fileVars
<1>2. \A n : Best(n)' = Best(n)
  BY <1>1 DEF Best
<1> QED BY <1>1, <1>2 DEF Right, Meant

\* A thread that enters plugin_resolve_path.
LEMMA BeginKeeps ==
  ASSUME TypeOK, NEW t \in Threads, OfThread(t), UNCHANGED fileVars, NEW name \in Names,
         BeginResolve(t, name), NameOf(t)' = name,
         name \notin changed => t \in quiet',
         asking'[t] = asking[t], got'[t] = got[t], pc[t] # "open"
  PROVE  OfThread(t)'
<1>0. 0 < Len(Looks(name))
  BY LooksEnds
<1> USE FilesKept
<1>1. /\ pc'[t] = "look" /\ look'[t] = 0
      /\ steady'[t] = {<<name, s>> : s \in Present(files, name, Spots)}
  BY DEF BeginResolve, Goto, TypeOK
<1>2. \A p \in steady'[t] : p[1] = name /\ files[p] # "none"
  <2> SUFFICES ASSUME NEW s \in Present(files, name, Spots)
               PROVE  <<name, s>>[1] = name /\ files[<<name, s>>] # "none"
    BY <1>1
  <2> QED BY DEF Present
<1>3. Working(t)'
  BY <1>1, <1>2 DEF Working, Seeking
<1>4. Looking(t)'
  <2>1. 0 < Len(Looks(name))
    BY <1>0
  <2>2. 1 .. 0 = {}
    OBVIOUS
  <2> QED BY <1>1, <2>1, <2>2 DEF Looking, Passed
<1>5. Asking(t)' /\ Refused(t)'
  BY <1>1 DEF OfThread, Asking, Refused
<1> QED BY <1>3, <1>4, <1>5 DEF OfThread

\* A thread that has answered.
LEMMA DoneKeeps ==
  ASSUME NEW t \in Threads, OfThread(t), UNCHANGED fileVars, pc'[t] = "done",
         NameOf(t)' \notin changed => t \in quiet',
         \A p \in steady'[t] : p[1] = NameOf(t)' /\ files[p] # "none",
         asking'[t] = asking[t], got'[t] = got[t], pc[t] # "open"
  PROVE  OfThread(t)'
<1> USE FilesKept
<1>1. Working(t)'
  BY DEF Working, Seeking
<1>2. Looking(t)' /\ Asking(t)' /\ Refused(t)'
  BY DEF OfThread, Looking, Asking, Refused
<1> QED BY <1>1, <1>2 DEF OfThread

\* A system call of plugin_resolve_path finds the file it was after, or rules
\* its spots out.
LEMMA LookKeeps ==
  ASSUME RequestInv, NEW t \in Threads, Look(t)
  PROVE  RequestInv'
<1> DEFINE n == NameOf(t)
           i == look[t] + 1
<1>0. TypeOK /\ OfThread(t)
  BY InvMeaning
<1>1. /\ pc[t] = "look" /\ look' = [look EXCEPT ![t] = i]
      /\ UNCHANGED <<files, changed, changes, queue, task, pushed, reply, probing, known, used,
                     asking, got, quiet, steady, ran>>
  BY DEF Look, fileVars, jobVars, cacheVars
<1>2. /\ n \in Names /\ look[t] \in 0 .. 5 /\ i \in 1 .. Len(Looks(n)) /\ Passed(t, i - 1)
      /\ NameOf(t)' = n /\ i - 1 = look[t]
  BY <1>0, <1>1, LooksEnds DEF OfThread, Working, Looking, Seeking, TypeOK, NameOf
<1>3. /\ i \in 0 .. 5 /\ look'[t] = i /\ Looks(n)[i] \subseteq Spots
      /\ DOMAIN Looks(n) = 1 .. Len(Looks(n)) /\ "syslib" \in Spots
  <2>1. /\ Len(Looks(n)) \in Int /\ Len(Looks(n)) <= 5 /\ Looks(n)[i] \subseteq Spots
    BY <1>2, LooksEnds
  <2>2. i \in 0 .. 5 /\ look'[t] = i
    BY <1>0, <1>1, <1>2, <2>1 DEF TypeOK
  <2>3. DOMAIN Looks(n) = 1 .. Len(Looks(n))
    BY LooksFacts
  <2>4. "syslib" \in Spots
    BY DEF Spots
  <2> QED BY <2>1, <2>2, <2>3, <2>4
<1>4. \A k : Passed(t, k)' <=> Passed(t, k)
  BY <1>1, <1>2 DEF Passed
<1>5. \A u \in Threads : asking[u] # None <=> pc[u] = "open"
  BY InvMeaning DEF OfThread, Asking
<1>6. UNCHANGED fileVars
  BY <1>1 DEF fileVars
<1>7. CASE \E s \in Seen(t) : path' = [path EXCEPT ![t] = <<n, s>>] /\ Goto(t, "found")
  <2>1. PICK s \in Looks(n)[i] : /\ files[<<n, s>>] # "none"
                                 /\ path' = [path EXCEPT ![t] = <<n, s>>]
                                 /\ pc' = [pc EXCEPT ![t] = "found"]
    BY <1>7 DEF Seen, Present, Goto
  <2>2. path'[t] = <<n, s>> /\ pc'[t] = "found" /\ <<n, s>> \in Paths
    BY <1>0, <1>2, <1>3, <2>1 DEF TypeOK, Paths
  <2>3. TypeOK'
    BY <1>0, <1>1, <1>3, <2>1, <2>2 DEF TypeOK
  <2>4. Working(t)'
    BY <1>0, <1>1, <1>2, <2>2 DEF OfThread, Working, Seeking
  <2>5. Looking(t)'
    BY <1>1, <1>2, <1>3, <1>4, <2>1, <2>2 DEF Looking
  <2>6. Asking(t)' /\ Refused(t)'
    BY <1>0, <1>1, <1>6, <2>2, FilesKept DEF OfThread, Asking, Refused
  <2>7. \A u \in Threads \ {t} : pc'[u] = pc[u] /\ path'[u] = path[u] /\ look'[u] = look[u]
    BY <1>0, <1>1, <2>1 DEF TypeOK
  <2>8. OfThread(t)'
    BY <2>4, <2>5, <2>6 DEF OfThread
  <2> QED BY <1>1, <1>6, <2>3, <2>7, <2>8, StepOfOne
<1>8. CASE /\ Seen(t) = {}
           /\ IF IsLast(t)
                THEN path' = [path EXCEPT ![t] = Leftover(n)] /\ Goto(t, "missing")
                ELSE UNCHANGED <<path, pc>>
  <2>1. \A s \in Looks(n)[i] : files[<<n, s>>] = "none"
    BY <1>8 DEF Seen, Present
  <2>2. \A s \in Looks(n)[i] : <<n, s>> \notin steady[t]
    BY <1>0, <2>1 DEF OfThread, Working
  <2>3. Passed(t, i)
    <3>1. \A k \in 1 .. i : k \in 1 .. i - 1 \/ k = i
      BY <1>2
    <3> QED BY <1>2, <2>1, <2>2, <3>1 DEF Passed
  <2>4. \/ /\ i = Len(Looks(n)) /\ path' = [path EXCEPT ![t] = Leftover(n)]
           /\ pc' = [pc EXCEPT ![t] = "missing"]
        \/ i < Len(Looks(n)) /\ path' = path /\ pc' = pc
    BY <1>2, <1>3, <1>8, LooksEnds DEF IsLast, Goto
  <2>5. \/ i = Len(Looks(n)) /\ path'[t] = Leftover(n) /\ pc'[t] = "missing"
        \/ i < Len(Looks(n)) /\ pc'[t] = "look"
    BY <1>0, <1>1, <2>4 DEF TypeOK
  <2>6. Leftover(n) \in Paths
    BY <1>2, <1>3 DEF Leftover, Paths
  <2>7. TypeOK'
    BY <1>0, <1>1, <1>3, <2>4, <2>6 DEF TypeOK
  <2>8. Working(t)'
    BY <1>0, <1>1, <1>2, <2>5 DEF OfThread, Working, Seeking
  <2>9. Looking(t)'
    BY <1>1, <1>2, <1>3, <1>4, <2>3, <2>5 DEF Looking
  <2>10. Asking(t)' /\ Refused(t)'
    BY <1>0, <1>1, <1>6, <2>5, FilesKept DEF OfThread, Asking, Refused
  <2>11. \A u \in Threads \ {t} : pc'[u] = pc[u] /\ path'[u] = path[u] /\ look'[u] = look[u]
    BY <1>0, <1>1, <2>4 DEF TypeOK
  <2>12. OfThread(t)'
    BY <2>8, <2>9, <2>10 DEF OfThread
  <2> QED BY <1>1, <1>6, <2>7, <2>11, <2>12, StepOfOne
<1> QED BY <1>7, <1>8 DEF Look

\* dl_get is asked for the path that the resolution left.
LEMMA OpenKeeps ==
  ASSUME RequestInv, NEW t \in Threads, Open(t)
  PROVE  RequestInv'
<1> DEFINE n == NameOf(t)
<1>0. TypeOK /\ OfThread(t)
  BY InvMeaning
<1>1. /\ pc[t] \in {"found", "missing"}
      /\ pc' = [pc EXCEPT ![t] = "open"]
      /\ asking' = [asking EXCEPT ![t] = path[t]]
      /\ UNCHANGED <<files, changed, changes, queue, task, probing, look, path, known,
                     used, got, quiet, steady, ran>>
  BY DEF Open, Resolved, Goto, Cache!Ask, fileVars, jobVars
<1>2. n \in Names /\ NameOf(t)' = n
  BY <1>0, <1>1 DEF OfThread, Working, Seeking, NameOf
<1>3. UNCHANGED fileVars
  BY <1>1 DEF fileVars
<1>4. /\ path[t] \in Paths /\ path[t][1] = n
      /\ t \in quiet => Meant(path[t])
  <2>1. CASE pc[t] = "found"
    <3>1. PICK i \in DOMAIN Looks(n) : \E s \in Looks(n)[i] :
            /\ path[t] = <<n, s>>
            /\ Passed(t, i - 1)
            /\ t \in quiet => files[path[t]] # "none"
      BY <1>0, <2>1 DEF OfThread, Looking
    <3>2. PICK s \in Looks(n)[i] : /\ path[t] = <<n, s>>
                                   /\ Passed(t, i - 1)
                                   /\ t \in quiet => files[path[t]] # "none"
      BY <3>1
    <3>3. i \in 1 .. Len(Looks(n)) /\ s \in Spots
      BY LooksFacts, LooksEnds
    <3>4. t \in quiet => s \in Best(n)
      BY <3>2, <3>3, BestFacts DEF Passed
    <3> QED BY <1>2, <3>2, <3>3, <3>4 DEF Meant, Paths
  <2>2. CASE pc[t] = "missing"
    <3>1. path[t] = <<n, "syslib">> /\ Passed(t, Len(Looks(n)))
      BY <1>0, <2>2 DEF OfThread, Looking, Leftover
    <3>2. /\ Len(Looks(n)) \in 1 .. Len(Looks(n))
          /\ "syslib" \in Looks(n)[Len(Looks(n))]
      BY LooksEnds
    <3>3. t \in quiet => Best(n) = {} /\ files[<<n, "syslib">>] = "none"
      BY <3>1, <3>2, BestFacts DEF Passed
    <3> QED BY <1>2, <3>1, <3>3 DEF Meant, Paths, Spots
  <2> QED BY <1>1, <2>1, <2>2
<1>5. pc'[t] = "open" /\ asking'[t] = path[t]
  BY <1>0, <1>1 DEF TypeOK
<1>6. TypeOK'
  BY <1>0, <1>1, <1>4 DEF TypeOK
<1>7. Working(t)'
  BY <1>0, <1>1, <1>2, <1>5 DEF OfThread, Working, Seeking
<1>8. Looking(t)' /\ Refused(t)'
  BY <1>5 DEF Looking, Refused
<1>9. Asking(t)'
  <2>1. path[t] # None
    BY <1>4, RequestAssumption
  <2> QED BY <1>0, <1>1, <1>2, <1>3, <1>4, <1>5, <2>1, FilesKept DEF OfThread, Asking
<1>10. \A u \in Threads \ {t} : pc'[u] = pc[u] /\ asking'[u] = asking[u]
  BY <1>0, <1>1 DEF TypeOK
<1>11. OfThread(t)'
  BY <1>7, <1>8, <1>9 DEF OfThread
<1> QED BY <1>1, <1>3, <1>6, <1>10, <1>11, StepOfOne

\* dl_get answers with the library it was asked for, or with none for one of
\* the three reasons.
LEMMA GetKeeps ==
  ASSUME RequestInv, NEW t \in Threads, Get(t)
  PROVE  RequestInv'
<1> DEFINE n == NameOf(t)
           p == asking[t]
<1> USE RequestAssumption
<1>0. TypeOK /\ OfThread(t)
  BY InvMeaning
<1>1. /\ pc[t] = "open"
      /\ pc' = [pc EXCEPT ![t] = "opened"]
      /\ UNCHANGED <<files, changed, changes, queue, task, probing, look, path,
                     quiet, steady, ran>>
      /\ Cache!Find(t) \/ Cache!Load(t) \/ Cache!Deny(t)
  BY DEF Get, Goto, fileVars, jobVars
<1>2. n \in Names /\ NameOf(t)' = n
  BY <1>0, <1>1 DEF OfThread, Working, Seeking, NameOf
<1>3. UNCHANGED fileVars
  BY <1>1 DEF fileVars
<1>4. /\ p \in Paths /\ p # None /\ p[1] = n /\ p = <<n, p[2]>>
      /\ t \in quiet => Meant(p)
      /\ n \notin changed => t \in quiet
  BY <1>0, <1>1 DEF OfThread, Asking, Working, TypeOK, Paths
<1>5. t \in quiet /\ files[p] # "none" => p[2] \in Best(n)
  BY <1>4 DEF Meant
<1>6. /\ asking' = [asking EXCEPT ![t] = None]
      /\ \/ /\ p \in known /\ got' = [got EXCEPT ![t] = p]
            /\ known' = known /\ used' = used
         \/ /\ files[p] = "good" /\ got' = [got EXCEPT ![t] = p]
            /\ known' = known \cup {p} /\ used' = used + 1 /\ used < CacheMax
         \/ /\ got' = [got EXCEPT ![t] = None]
            /\ known' = known /\ used' = used
            /\ files[p] # "good" \/ used = CacheMax
  BY <1>1, <1>4 DEF Cache!Find, Cache!Load, Cache!Deny, Cache!Reply
<1>7. /\ pc'[t] = "opened" /\ asking'[t] = None
      /\ got'[t] \in {p, None}
      /\ got'[t] = p => p \in known \/ files[p] = "good"
      /\ got'[t] = None => files[p] # "good" \/ used' = CacheMax
  BY <1>0, <1>1, <1>4, <1>6 DEF TypeOK
<1>8. p \in known \/ files[p] = "good" => Right(p)
  BY <1>4, <1>5 DEF RequestInv, Right
<1>9. TypeOK'
  <2>1. used' \in 0 .. CacheMax
    BY <1>0, <1>6 DEF TypeOK
  <2> QED BY <1>0, <1>1, <1>4, <1>6, <2>1 DEF TypeOK
<1>10. Working(t)'
  BY <1>0, <1>1, <1>2, <1>7 DEF OfThread, Working, Seeking
<1>11. Looking(t)'
  BY <1>7 DEF Looking
<1>12. Asking(t)'
  BY <1>3, <1>4, <1>7, <1>8, FilesKept DEF Asking
<1>13. Refused(t)'
  <2> SUFFICES ASSUME got'[t] = None, t \in quiet, Best(n) # {}, used' # CacheMax
               PROVE  \E s \in Best(n) : files[<<n, s>>] = "bad"
    BY <1>1, <1>2, <1>3, FilesKept DEF Refused
  <2>1. files[p] # "good" /\ p[2] \in Best(n)
    BY <1>4, <1>7 DEF Meant
  <2>2. files[p] # "none" /\ files[p] \in FileStates
    BY <1>0, <1>4, <2>1, BestFacts DEF TypeOK
  <2> QED BY <1>4, <2>1, <2>2 DEF FileStates
<1>14. \A u \in Threads \ {t} : pc'[u] = pc[u] /\ asking'[u] = asking[u] /\ got'[u] = got[u]
  BY <1>0, <1>1, <1>6 DEF TypeOK
<1>15. used = CacheMax => used' = CacheMax
  BY <1>6
<1>16. \A q \in (known' \cup ran') \ (known \cup ran) : Right(q)
  BY <1>1, <1>6, <1>8
<1>17. OfThread(t)'
  BY <1>10, <1>11, <1>12, <1>13 DEF OfThread
<1> QED BY <1>1, <1>3, <1>9, <1>14, <1>15, <1>16, <1>17, StepOfOne

\* An answer that ends the work of a thread, with or without a run.
LEMMA AnswerKeeps ==
  ASSUME RequestInv, NEW t \in Threads, pc[t] # "open",
         pc' = [pc EXCEPT ![t] = "done"],
         UNCHANGED <<fileVars, queue, task, probing, look, path, cacheVars, quiet, steady>>,
         \/ ran' = ran
         \/ got[t] # None /\ ran' = ran \cup {got[t]}
  PROVE  RequestInv'
<1>0. TypeOK /\ OfThread(t)
  BY InvMeaning
<1>1. /\ UNCHANGED fileVars
      /\ UNCHANGED <<files, changed, changes, queue, task, probing, look, path, known, used,
                     asking, got, quiet, steady>>
  BY DEF fileVars, cacheVars
<1>2. TypeOK'
  BY <1>0, <1>1 DEF TypeOK
<1>3. OfThread(t)'
  <2>1. pc'[t] = "done" /\ NameOf(t)' = NameOf(t)
    BY <1>0, <1>1 DEF TypeOK, NameOf
  <2> QED BY <1>0, <1>1, <2>1, DoneKeeps DEF OfThread, Working
<1>4. \A u \in Threads \ {t} : pc'[u] = pc[u]
  BY <1>0 DEF TypeOK
<1>5. \A p \in (known' \cup ran') \ (known \cup ran) : Right(p)
  BY <1>0, <1>1 DEF OfThread, Asking
<1> QED BY <1>1, <1>2, <1>3, <1>4, <1>5, StepOfOne

LEMMA NoLibraryKeeps ==
  ASSUME RequestInv, NEW t \in Threads, NoLibrary(t)
  PROVE  RequestInv'
  BY AnswerKeeps DEF NoLibrary, AnswerRc, Answer, Goto

LEMMA RunKeeps ==
  ASSUME RequestInv, NEW t \in Threads, NEW rc, Run(t, rc)
  PROVE  RequestInv'
  BY AnswerKeeps DEF Run, AnswerRc, Answer, Goto

LEMMA NotFoundKeeps ==
  ASSUME RequestInv, NotFound
  PROVE  RequestInv'
<1>1. Main \in Threads
  BY DEF Threads
<1> QED BY <1>1, AnswerKeeps DEF NotFound, Answer, Goto

\* A call is refused, or waits for a worker under a name that is known.
LEMMA CallMessageKeeps ==
  ASSUME RequestInv, NEW m, NEW name \in Names, CallMessage(m, name)
  PROVE  RequestInv'
<1>0. Main \in Threads /\ TypeOK /\ pc[Main] = "idle"
  BY DEF Threads, RequestInv, CallMessage
<1>1. CASE ParseCode(m) # 0
  BY <1>0, <1>1, AnswerKeeps DEF CallMessage, Answer, Goto
<1>2. CASE ParseCode(m) = 0
  <2>1. /\ queue' = Append(queue, name)
        /\ UNCHANGED fileVars
        /\ UNCHANGED <<files, changed, changes, pc, task, probing, look, path, known,
                       used, asking, got, quiet, steady, ran>>
    BY <1>2 DEF CallMessage, fileVars, cacheVars
  <2>2. queue' \in Seq(Names)
    BY <1>0, <2>1, AppendProperties DEF TypeOK
  <2>3. TypeOK'
    BY <1>0, <2>1, <2>2 DEF TypeOK
  <2>4. OfThread(Main)'
    <3>1. OfThread(Main)
      BY <1>0, InvMeaning
    <3> QED BY <2>1, <3>1, OthersKept
  <2> QED BY <1>0, <2>1, <2>3, <2>4, StepOfOne
<1> QED BY <1>1, <1>2

\* What is there when a resolution begins are paths.
LEMMA SteadyType ==
  ASSUME NEW name \in Names
  PROVE  {<<name, s>> : s \in Present(files, name, Spots)} \in SUBSET Paths
<1> SUFFICES ASSUME NEW s \in Present(files, name, Spots) PROVE <<name, s>> \in Paths
  OBVIOUS
<1>1. s \in Spots
  BY DEF Present
<1> QED BY <1>1 DEF Paths

\* A worker starts on a call.
LEMMA TakeCallKeeps ==
  ASSUME RequestInv, NEW t \in Workers, TakeCall(t)
  PROVE  RequestInv'
<1> DEFINE name == Head(queue)
<1>0. t \in Threads /\ TypeOK /\ OfThread(t)
  BY InvMeaning DEF Threads
<1>1. /\ pc[t] = "idle" /\ queue # <<>> /\ queue' = Tail(queue)
      /\ task' = [task EXCEPT ![t] = [NoTask EXCEPT !.name = name]]
      /\ quiet' = quiet \cup {t}
      /\ BeginResolve(t, name)
      /\ pc' = [pc EXCEPT ![t] = "look"]
      /\ look' = [look EXCEPT ![t] = 0]
      /\ steady' = [steady EXCEPT ![t] = {<<name, s>> : s \in Present(files, name, Spots)}]
      /\ UNCHANGED fileVars
      /\ UNCHANGED <<files, changed, changes, probing, path, known, used, asking, got, ran>>
  BY DEF TakeCall, BeginResolve, Goto, fileVars, cacheVars
<1>2. name \in Names /\ Tail(queue) \in Seq(Names)
  BY <1>0, <1>1, HeadTailProperties DEF TypeOK
<1>3. {<<name, s>> : s \in Present(files, name, Spots)} \in SUBSET Paths
  BY <1>2, SteadyType
<1>4. [NoTask EXCEPT !.name = name]
        \in [method : {hm.method : hm \in HttpMessages} \cup {None},
             uri : {hm.uri : hm \in HttpMessages} \cup {None},
             name : Names \cup {None}]
  BY <1>2 DEF NoTask
<1>5. TypeOK'
  <2>1. steady' \in [Threads -> SUBSET Paths]
    BY <1>0, <1>1, <1>3 DEF TypeOK
  <2>2. task' \in [Threads -> [method : {hm.method : hm \in HttpMessages} \cup {None},
                               uri : {hm.uri : hm \in HttpMessages} \cup {None},
                               name : Names \cup {None}]]
    BY <1>0, <1>1, <1>4 DEF TypeOK
  <2>3. queue' \in Seq(Names)
    BY <1>1, <1>2
  <2>4. /\ quiet' \in SUBSET Threads /\ look' \in [Threads -> 0 .. 5]
        /\ pc' \in [Threads -> {"idle", "look", "found", "missing", "open", "opened", "done"}]
    BY <1>0, <1>1 DEF TypeOK
  <2>5. UNCHANGED <<files, changed, changes, probing, path, known, used, asking, got, ran>>
    BY <1>1
  <2> QED BY <1>0, <2>1, <2>2, <2>3, <2>4, <2>5 DEF TypeOK
<1>6. NameOf(t)' = name /\ t \in quiet'
  BY <1>0, <1>1 DEF TypeOK, NameOf, NoTask
<1>7. OfThread(t)'
  BY <1>0, <1>1, <1>2, <1>6, BeginKeeps
<1>8. \A u \in Threads \ {t} : /\ pc'[u] = pc[u] /\ task'[u] = task[u] /\ look'[u] = look[u]
                              /\ steady'[u] = steady[u]
  BY <1>0, <1>1 DEF TypeOK
<1> QED BY <1>0, <1>1, <1>5, <1>7, <1>8, StepOfOne

\* A thread forgets its request.
LEMMA RestKeeps ==
  ASSUME RequestInv, NEW t \in Threads, Rest(t)
  PROVE  RequestInv'
<1> USE RequestAssumption
<1>0. TypeOK /\ OfThread(t)
  BY InvMeaning
<1>1. /\ pc[t] = "done" /\ pc' = [pc EXCEPT ![t] = "idle"]
      /\ task' = [task EXCEPT ![t] = NoTask]
      /\ path' = [path EXCEPT ![t] = None]
      /\ look' = [look EXCEPT ![t] = 0]
      /\ got' = [got EXCEPT ![t] = None]
      /\ steady' = [steady EXCEPT ![t] = {}]
      /\ quiet' = quiet \cup {t}
      /\ UNCHANGED fileVars
      /\ UNCHANGED <<files, changed, changes, queue, probing, known, used, asking, ran>>
  BY DEF Rest, Goto, fileVars
<1>2. NoTask \in [method : {hm.method : hm \in HttpMessages} \cup {None},
                  uri : {hm.uri : hm \in HttpMessages} \cup {None},
                  name : Names \cup {None}]
  BY DEF NoTask
<1>3. TypeOK'
  BY <1>0, <1>1, <1>2 DEF TypeOK
<1>4. /\ pc'[t] = "idle" /\ NameOf(t)' = None /\ steady'[t] = {} /\ got'[t] = None
      /\ t \in quiet' /\ asking'[t] = None
  BY <1>0, <1>1 DEF TypeOK, NameOf, NoTask, OfThread, Asking
<1>5. OfThread(t)'
  BY <1>4 DEF OfThread, Working, Looking, Asking, Refused, Seeking
<1>6. \A u \in Threads \ {t} : /\ pc'[u] = pc[u] /\ task'[u] = task[u] /\ look'[u] = look[u]
                              /\ path'[u] = path[u] /\ steady'[u] = steady[u]
                              /\ got'[u] = got[u]
  BY <1>0, <1>1 DEF TypeOK
<1> QED BY <1>1, <1>3, <1>5, <1>6, StepOfOne

\* The main thread answers a request at once, or is about to look for a library.
LEMMA MainStep ==
  ASSUME RequestInv, pc[Main] # "open", NEW name, UNCHANGED fileVars,
         UNCHANGED <<queue, path, cacheVars, ran>>,
         task' \in [Threads -> [method : {hm.method : hm \in HttpMessages} \cup {None},
                                uri : {hm.uri : hm \in HttpMessages} \cup {None},
                                name : Names \cup {None}]],
         \A u \in Threads \ {Main} : task'[u] = task[u],
         NameOf(Main)' = name,
         probing' \in BOOLEAN,
         quiet' \in {quiet, quiet \cup {Main}},
         name \notin changed => Main \in quiet',
         \A p \in steady[Main] : p[1] = name /\ files[p] # "none",
         \/ BeginResolve(Main, name) /\ name \in Names
         \/ Goto(Main, "done") /\ UNCHANGED <<look, steady>>
  PROVE  RequestInv'
<1>0. Main \in Threads /\ TypeOK /\ OfThread(Main)
  BY InvMeaning DEF Threads
<1>1. /\ UNCHANGED fileVars
      /\ UNCHANGED <<files, changed, changes, queue, path, known, used, asking, got, ran>>
  BY DEF fileVars, cacheVars
<1>2. quiet' \in SUBSET Threads
  BY <1>0 DEF TypeOK
<1>3. CASE BeginResolve(Main, name) /\ name \in Names
  <2>1. /\ pc' = [pc EXCEPT ![Main] = "look"]
        /\ look' = [look EXCEPT ![Main] = 0]
        /\ steady' = [steady EXCEPT ![Main] =
                        {<<name, s>> : s \in Present(files, name, Spots)}]
    BY <1>3 DEF BeginResolve, Goto
  <2>2. steady' \in [Threads -> SUBSET Paths]
    BY <1>0, <1>3, <2>1, SteadyType DEF TypeOK
  <2>3. TypeOK'
    BY <1>0, <1>1, <1>2, <2>1, <2>2 DEF TypeOK
  <2>4. OfThread(Main)'
    BY <1>0, <1>1, <1>3, BeginKeeps
  <2>5. \A u \in Threads \ {Main} :
          pc'[u] = pc[u] /\ look'[u] = look[u] /\ steady'[u] = steady[u]
    BY <1>0, <2>1 DEF TypeOK
  <2> QED BY <1>0, <1>1, <2>3, <2>4, <2>5, StepOfOne
<1>4. CASE Goto(Main, "done") /\ UNCHANGED <<look, steady>>
  <2>1. pc' = [pc EXCEPT ![Main] = "done"] /\ UNCHANGED <<look, steady>>
    BY <1>4 DEF Goto
  <2>2. TypeOK'
    BY <1>0, <1>1, <1>2, <2>1 DEF TypeOK
  <2>3. OfThread(Main)'
    <3>1. pc'[Main] = "done"
      BY <1>0, <2>1 DEF TypeOK
    <3> QED BY <1>0, <1>1, <2>1, <3>1, DoneKeeps
  <2>4. \A u \in Threads \ {Main} : pc'[u] = pc[u]
    BY <1>0, <2>1 DEF TypeOK
  <2> QED BY <1>0, <1>1, <2>1, <2>2, <2>3, <2>4, StepOfOne
<1> QED BY <1>3, <1>4

\* What EnterHandler and Unmatched may do to the main thread.
LEMMA UnmatchedCases ==
  ASSUME NEW method, NEW u, NEW name \in Names \cup {None},
         Unmatched(method, u, name) \/ EnterHandler(u, name)
  PROVE  /\ probing' = FALSE
         /\ \/ BeginResolve(Main, name) /\ name \in Names
            \/ Goto(Main, "done") /\ UNCHANGED <<look, steady>>
<1>1. CASE EnterHandler(u, name)
  BY <1>1 DEF EnterHandler, Answer
<1>2. CASE Unmatched(method, u, name) /\ ~ EnterHandler(u, name)
  BY <1>2 DEF Unmatched, Answer
<1> QED BY <1>1, <1>2

\* A request arrives while the main thread is idle.
LEMMA DispatchKeeps ==
  ASSUME RequestInv, NEW hm \in HttpMessages, Dispatch(hm)
  PROVE  RequestInv'
<1> DEFINE u == hm.uri
           name == hm.uri.name
           route == Route(hm.method, u, hm.body)
<1> USE RequestAssumption
<1>0. Main \in Threads /\ TypeOK /\ OfThread(Main) /\ name \in Names \cup {None}
  BY InvMeaning DEF Threads
<1>1. /\ pc[Main] = "idle"
      /\ task' = [task EXCEPT ![Main] = [method |-> hm.method, uri |-> u, name |-> name]]
      /\ quiet' = quiet \cup {Main}
      /\ UNCHANGED fileVars /\ UNCHANGED <<queue, path, cacheVars, ran>>
  BY DEF Dispatch
<1>2. /\ task' \in [Threads -> [method : {h.method : h \in HttpMessages} \cup {None},
                                uri : {h.uri : h \in HttpMessages} \cup {None},
                                name : Names \cup {None}]]
      /\ \A v \in Threads \ {Main} : task'[v] = task[v]
      /\ NameOf(Main)' = name
  BY <1>0, <1>1 DEF TypeOK, NameOf
<1>3. steady[Main] = {}
  <2>1. steady[Main] \subseteq Paths /\ \A p \in steady[Main] : p[1] = None
    BY <1>0, <1>1 DEF OfThread, Working, TypeOK
  <2> QED BY <2>1 DEF Paths
<1>4. /\ probing' \in BOOLEAN
      /\ \/ BeginResolve(Main, name) /\ name \in Names
         \/ Goto(Main, "done") /\ UNCHANGED <<look, steady>>
  <2>1. CASE route = "probe"
    <3>1. name # None
      BY <2>1, ProbeHasName
    <3> QED BY <1>0, <2>1, <3>1 DEF Dispatch
  <2>2. CASE route = "unmatched"
    <3>1. Unmatched(hm.method, u, name)
      BY <2>2 DEF Dispatch
    <3> QED BY <1>0, <3>1, UnmatchedCases
  <2>3. CASE route # "probe" /\ route # "unmatched"
    BY <1>0, <2>3 DEF Dispatch, Answer, TypeOK
  <2> QED BY <2>1, <2>2, <2>3
<1> QED BY <1>1, <1>2, <1>3, <1>4, MainStep

\* The route is decided by the resolution in ev_handler.
LEMMA ProbedKeeps ==
  ASSUME RequestInv, Probed
  PROVE  RequestInv'
<1> DEFINE name == NameOf(Main)
<1>0. Main \in Threads /\ TypeOK /\ OfThread(Main)
  BY InvMeaning DEF Threads
<1>1. /\ pc[Main] \in {"found", "missing"}
      /\ UNCHANGED fileVars /\ UNCHANGED <<queue, task, path, cacheVars, quiet, ran>>
  BY DEF Probed
<1>2. /\ name \in Names /\ NameOf(Main)' = name
      /\ name \notin changed => Main \in quiet
      /\ \A p \in steady[Main] : p[1] = name /\ files[p] # "none"
  BY <1>0, <1>1 DEF OfThread, Working, Seeking, NameOf
<1>3. /\ probing' \in BOOLEAN
      /\ \/ BeginResolve(Main, name) /\ name \in Names
         \/ Goto(Main, "done") /\ UNCHANGED <<look, steady>>
  BY <1>2, UnmatchedCases DEF Probed
<1> QED BY <1>0, <1>1, <1>2, <1>3, MainStep DEF TypeOK

\* Every step, of a thread or of the files, keeps the invariant.
LEMMA RequestStep ==
  ASSUME RequestInv, [Next]_vars
  PROVE  RequestInv'
<1> USE RequestAssumption
<1>1. CASE \E p \in Moving, state \in FileStates : Change(p, state)
  BY <1>1, ChangeKeeps
<1>2. CASE \E hm \in HttpMessages : Dispatch(hm)
  BY <1>2, DispatchKeeps
<1>3. CASE Probed \/ NotFound
  BY <1>3, ProbedKeeps, NotFoundKeeps
<1>4. CASE \E m \in CallShapes, name \in Names : CallMessage(m, name)
  BY <1>4, CallMessageKeeps
<1>5. CASE \E t \in Workers : TakeCall(t)
  BY <1>5, TakeCallKeeps
<1>6. ASSUME NEW t \in Threads, ThreadStep(t) PROVE RequestInv'
  BY <1>6, LookKeeps, OpenKeeps, GetKeeps, NoLibraryKeeps, RunKeeps, RestKeeps
     DEF ThreadStep
<1>7. CASE UNCHANGED vars
  <2>1. /\ UNCHANGED fileVars
        /\ UNCHANGED <<files, changed, changes, queue, pc, task, probing, look, path,
                       known, used, asking, got, quiet, steady, ran>>
    BY <1>7 DEF vars, fileVars, cacheVars, jobVars
  <2>2. TypeOK'
    BY <2>1 DEF RequestInv, TypeOK
  <2>3. \A t \in Threads : OfThread(t)'
    <3>1. \A t \in Threads : OfThread(t)
      BY InvMeaning
    <3> QED BY <2>1, <3>1, OthersKept
  <2>4. \A p \in known' \cup ran' : Right(p)'
    BY <2>1, RightKept DEF RequestInv
  <2> QED BY <2>2, <2>3, <2>4, InvMeaningNext
<1> QED BY <1>1, <1>2, <1>3, <1>4, <1>5, <1>6, <1>7 DEF Next

\* What a thread knows of the files on its way to a plugin function stays true
\* for as long as it is needed, whatever is installed or removed meanwhile.
THEOREM RequestInvariance == Spec => []RequestInv
<1>1. Init => RequestInv
  BY RequestsInitial
<1>2. RequestInv /\ [Next]_vars => RequestInv'
  BY RequestStep
<1> QED BY <1>1, <1>2, PTL DEF Spec

\* Requests for one name run one library, the one that counts, as long as its
\* files do not change (call_local_dyn_libffi behind plugin_resolve_path).
THEOREM OneLibrary == Spec => []OneLibraryPerName
<1>1. RequestInv => OneLibraryPerName
  BY DEF RequestInv, Right, OneLibraryPerName
<1> QED BY <1>1, RequestInvariance, PTL

\* A request whose files did not change goes without its library only for a
\* reason: there is none, dlopen refuses it, or the handle cache is full.
THEOREM RefusedForReason == Spec => []RefusalJustified
<1>1. RequestInv => RefusalJustified
  BY DEF RequestInv
<1> QED BY <1>1, RequestInvariance, PTL

\* The position of a spot in the order of plugin_resolve_path.
Rank(s) == Min({i \in 1 .. 5 : s \in Full[i]})

LEMMA RankFacts ==
  /\ Rank("own") = 1 /\ Rank("lib") = 2 /\ Rank("other") = 3
  /\ Rank("sys") = 4 /\ Rank("syslib") = 5
<1> DEFINE At(s) == {i \in 1 .. 5 : s \in Full[i]}
<1>1. \A i \in 1 .. 5 : i = 1 \/ i = 2 \/ i = 3 \/ i = 4 \/ i = 5
  OBVIOUS
<1>2. /\ At("own") = {1, 3} /\ At("lib") = {2, 3} /\ At("other") = {3}
      /\ At("sys") = {4} /\ At("syslib") = {5}
  BY <1>1, FullFacts
<1>3. Min({1, 3}) = 1 /\ Min({2, 3}) = 2 /\ Min({3}) = 3 /\ Min({4}) = 4 /\ Min({5}) = 5
  <2>1. Min({1, 3}) = 1
    BY MinIs
  <2>2. Min({2, 3}) = 2
    BY MinIs
  <2>3. Min({3}) = 3 /\ Min({4}) = 4 /\ Min({5}) = 5
    BY MinIs
  <2> QED BY <2>1, <2>2, <2>3
<1> QED BY <1>2, <1>3 DEF Rank

\* However files come and go between the stat and readdir calls of
\* plugin_resolve_path, it neither misses a library that was there all the time
\* nor prefers a worse one.
THEOREM ResolutionBest == Spec => []ResolvesBest
<1>1. RequestInv => ResolvesBest
  <2> SUFFICES ASSUME RequestInv, NEW t \in Threads
               PROVE  LET name == NameOf(t)
                          eligible == {p[2] : p \in steady[t]}
                            \cap (IF IsSafe(name) THEN Spots ELSE {"sys", "syslib"})
                      IN  /\ pc[t] = "missing" => eligible = {}
                          /\ pc[t] = "found" =>
                               \A s \in eligible : Rank(path[t][2]) <= Rank(s)
    BY DEF ResolvesBest, Rank, Full
  <2> DEFINE n == NameOf(t)
             eligible == {p[2] : p \in steady[t]}
                           \cap (IF IsSafe(n) THEN Spots ELSE {"sys", "syslib"})
  <2>1. TypeOK /\ OfThread(t)
    BY InvMeaning
  <2>2. \A s \in eligible : <<n, s>> \in steady[t]
    <3>1. \A p \in steady[t] : p \in Paths /\ p[1] = n
      BY <2>1 DEF OfThread, Working, TypeOK
    <3>2. \A p \in steady[t] : p = <<n, p[2]>>
      BY <3>1 DEF Paths
    <3> QED BY <3>2
  <2>3. \A s \in eligible : \E i \in 1 .. Len(Looks(n)) : s \in Looks(n)[i]
    <3>1. CASE IsSafe(n)
      BY <3>1, LooksFacts DEF Spots
    <3>2. CASE ~ IsSafe(n)
      BY <3>2, LooksFacts
    <3> QED BY <3>1, <3>2
  <2>4. pc[t] = "missing" => eligible = {}
    BY <2>1, <2>2, <2>3 DEF OfThread, Looking, Passed
  <2>5. ASSUME pc[t] = "found", NEW s \in eligible PROVE Rank(path[t][2]) <= Rank(s)
    <3>1. PICK i \in DOMAIN Looks(n) : \E z \in Looks(n)[i] :
                 path[t] = <<n, z>> /\ Passed(t, i - 1)
      BY <2>1, <2>5 DEF OfThread, Looking
    <3>2. PICK z \in Looks(n)[i] : path[t] = <<n, z>> /\ Passed(t, i - 1)
      BY <3>1
    <3>3. i \in 1 .. Len(Looks(n)) /\ path[t][2] = z
      BY <3>2, LooksFacts
    <3>4. \A k \in 1 .. i - 1 : s \notin Looks(n)[k]
      BY <2>2, <3>2 DEF Passed
    <3>5. CASE IsSafe(n)
      <4>1. s \in Spots
        BY <3>5
      <4>2. z \in Spots /\ (z = "own" \/ s \notin {"own"}) /\ (z \in {"own", "lib"} \/ s \notin {"lib"})
        BY <3>2, <3>3, <3>4, <3>5, LooksFacts DEF Spots
      <4>3. z = "sys" => s \notin {"own", "lib", "other"}
        BY <3>2, <3>3, <3>4, <3>5, LooksFacts
      <4>4. z = "syslib" => s \notin {"own", "lib", "other", "sys"}
        BY <3>2, <3>3, <3>4, <3>5, LooksFacts
      <4> QED BY <3>3, <4>1, <4>2, <4>3, <4>4, RankFacts DEF Spots
    <3>6. CASE ~ IsSafe(n)
      <4>1. s \in {"sys", "syslib"}
        BY <3>6
      <4> QED BY <3>2, <3>3, <3>4, <3>6, <4>1, LooksFacts, RankFacts
    <3> QED BY <3>5, <3>6
  <2> QED BY <2>4, <2>5
<1> QED BY <1>1, RequestInvariance, PTL
=============================================================================
