------------------------------ MODULE SseProofs ------------------------------
(***************************************************************************)
(* Safety of the SSE streams for any numbers of connections, clients, event *)
(* ids and table entries.                                                  *)
(***************************************************************************)
EXTENDS Sse, FiniteSetTheorems, WellFoundedInduction, TLAPS

\* A set of table indices has a least one: the one with the fewest below it.
LEMMA LeastIndex ==
  ASSUME NEW S \in SUBSET Table, S # {}
  PROVE  Min(S) \in S
<1> DEFINE Below(x) == {y \in S : y < x}
           T == {Below(x) : x \in S}
<1>0. \A z \in S : z \in Int
  BY SseAssumption DEF Table
<1>1. T \subseteq FiniteSubsetsOf(Table) /\ T # {}
  <2>1. ASSUME NEW x \in S PROVE Below(x) \in FiniteSubsetsOf(Table)
    <3>1. IsFiniteSet(Table)
      BY FS_Interval, SseAssumption, SMT DEF Table
    <3>2. Below(x) \in SUBSET Table
      OBVIOUS
    <3> QED BY <3>1, <3>2, FS_Subset DEF FiniteSubsetsOf
  <2> QED BY <2>1
<1>2. PICK m \in T : \A n \in T : ~ (<<n, m>> \in StrictSubsetOrdering(Table))
  <2> HIDE DEF T
  <2> QED BY <1>1, FS_StrictSubsetOrderingWellFounded, WFMin
<1>3. PICK x \in S : m = Below(x)
  OBVIOUS
<1>4. \A y \in S : x <= y
  <2> SUFFICES ASSUME NEW y \in S, ~ (x <= y) PROVE FALSE
    OBVIOUS
  <2>1. y < x /\ x \in Int /\ y \in Int
    BY <1>0
  <2>2. Below(y) \subseteq Below(x) /\ y \in Below(x) /\ y \notin Below(y)
    <3>1. ~ (y < y) /\ \A z \in S : z < y => z < x
      BY <1>0, <2>1
    <3> QED BY <3>1, <2>1, Zenon
  <2>3. <<Below(y), Below(x)>> \in StrictSubsetOrdering(Table)
    BY <2>2 DEF StrictSubsetOrdering
  <2> QED BY <2>3, <1>2, <1>3
<1> QED BY <1>4 DEF Min

\* The next id of the source is above the entry's and above its own.
LEMMA NextIdFacts ==
  ASSUME NEW afterId \in Nat, NEW s \in Nat, source = s
  PROVE  /\ NextId(afterId) \in Nat
         /\ NextId(afterId) > afterId /\ NextId(afterId) > s
         /\ NextId(afterId) = afterId + 1 \/ NextId(afterId) = s + 1
<1>1. PICK x \in {afterId, s} : \A y \in {afterId, s} : x >= y
  OBVIOUS
<1>2. Max({afterId, s}) \in {afterId, s}
      /\ \A y \in {afterId, s} : Max({afterId, s}) >= y
  BY <1>1 DEF Max
<1> QED BY <1>2 DEF NextId

\* The entry at i holds connection c and is the only one of it.
Sole(i, c) == i \in Table /\ SlotsOf(c) = {i}

\* An open stream has an entry that belongs to nobody else, a closed one has none.
LEMMA SoleEntry ==
  ASSUME SseTypeOK, SlotsSound, NEW c \in Conns
  PROVE  /\ phase[c] = "sse" => \E i \in Active : Sole(i, c)
         /\ phase[c] # "sse" => SlotsOf(c) = {}
<1>1. IsFiniteSet(SlotsOf(c))
  <2>1. IsFiniteSet(Table)
    BY FS_Interval, SseAssumption, SMT DEF Table
  <2>2. SlotsOf(c) \in SUBSET Table
    BY DEF SlotsOf, Active
  <2> QED BY <2>1, <2>2, FS_Subset
<1>2. ASSUME phase[c] = "sse" PROVE \E i : SlotsOf(c) = {i}
  BY <1>1, <1>2, FS_Singleton DEF SlotsSound
<1> QED BY <1>2 DEF Sole, SlotsOf, Active, SlotsSound

\* Conversely, one entry for each open stream and none for others is soundness.
LEMMA SoundBySole ==
  ASSUME \A c \in Conns : phase[c] = "sse" => \E i : SlotsOf(c) = {i},
         \A i \in Active : phase[slots[i].conn] = "sse"
  PROVE  SlotsSound
  BY FS_Singleton DEF SlotsSound

\* The empty table and the unused connections satisfy the invariant.
LEMMA SseInitial == SseInit => SseInv
<1> SUFFICES ASSUME SseInit PROVE SseInv
  OBVIOUS
<1>1. Active = {}
  BY DEF SseInit, Active
<1>2. SseTypeOK
  BY SseAssumption DEF SseInit, SseTypeOK
<1>3. SlotsSound
  BY <1>1 DEF SseInit, SlotsSound
<1>4. OnceOneEvent /\ ClientsInv /\ EntryInv /\ StreamInv
  BY <1>1 DEF SseInit, OnceOneEvent, ClientsInv, EntryInv, StreamInv
<1> QED BY <1>2, <1>3, <1>4 DEF SseInv

-----------------------------------------------------------------------------
(* What sse_send_event does to the entry e of connection c.                *)

\* Nothing was sent, or one event: the next number of a custom stream, an id
\* above the entry's lastId of a default one.
Quiet(i, e) ==
  /\ slots' = [slots EXCEPT ![i] = e]
  /\ UNCHANGED <<wire, sent>>

SentCustom(i, e) ==
  /\ ~e.done
  /\ owner'[e.conn] \in Custom
  /\ e.seq + 1 \in Ids
  /\ \E d \in BOOLEAN :
       /\ owner'[e.conn] \in Once => d
       /\ slots' = [slots EXCEPT ![i] = [e EXCEPT !.seq = @ + 1, !.done = d]]
  /\ Write(e, e.seq + 1)

SentDefault(i, e) ==
  /\ ~e.done
  /\ owner'[e.conn] \notin Custom
  /\ source' > e.lastId
  /\ slots' = [slots EXCEPT ![i] = [e EXCEPT !.lastId = source']]
  /\ Write(e, source')

\* What one event of a poll changes: the entry, the source, the wire and the
\* counts of that stream only.
LEMMA SendFacts ==
  ASSUME SseTypeOK, NEW e \in Entry, NEW i \in Table, NEW result \in Results,
         SendEvent(i, e, result)
  PROVE  /\ source' \in 0 .. MaxId /\ calls' \in [Conns -> 0 .. 2]
         /\ slots' \in [Table -> Entry \cup {None}]
         /\ wire' \in [Conns -> Seq(Ids)] /\ sent' \in [Conns -> Nat]
         /\ Quiet(i, e) \/ SentCustom(i, e) \/ SentDefault(i, e)
<1>0. /\ e.conn \in Conns /\ e.seq \in Nat /\ e.lastId \in Nat /\ e.done \in BOOLEAN
      /\ source \in Nat /\ source <= MaxId /\ MaxId \in Nat
      /\ slots \in [Table -> Entry \cup {None}]
      /\ wire \in [Conns -> Seq(Ids)] /\ sent \in [Conns -> Nat]
  BY SseAssumption DEF Entry, SseTypeOK
<1>1. ASSUME Called(e) PROVE calls' \in [Conns -> 0 .. 2]
  <2>1. calls \in [Conns -> 0 .. 2]
    BY DEF SseTypeOK
  <2>2. \A n \in 0 .. 2 : Min({n + 1, 2}) \in 0 .. 2
    <3> SUFFICES ASSUME NEW n \in 0 .. 2 PROVE Min({n + 1, 2}) \in 0 .. 2
      OBVIOUS
    <3>1. PICK x \in {n + 1, 2} : \A y \in {n + 1, 2} : x <= y
      OBVIOUS
    <3>2. Min({n + 1, 2}) \in {n + 1, 2} /\ \A y \in {n + 1, 2} : Min({n + 1, 2}) <= y
      BY <3>1 DEF Min
    <3> QED BY <3>2
  <2> QED BY <1>1, <2>1, <2>2 DEF Called
<1>2. ASSUME NEW id \in Ids, Write(e, id)
      PROVE  wire' \in [Conns -> Seq(Ids)] /\ sent' \in [Conns -> Nat]
  <2>1. Append(wire[e.conn], id) \in Seq(Ids) /\ sent[e.conn] + 1 \in Nat
    BY <1>0, <1>2
  <2> QED BY <1>0, <1>2, <2>1 DEF Write
<1>3. CASE /\ slots' = [slots EXCEPT ![i] = e]
           /\ UNCHANGED <<wire, sent>>
           /\ UNCHANGED source
           /\ UNCHANGED calls \/ Called(e)
  BY <1>0, <1>1, <1>3 DEF SseTypeOK, Quiet
<1>4. CASE /\ ~e.done
           /\ owner'[e.conn] \in Custom
           /\ e.seq < MaxId
           /\ slots' = [slots EXCEPT ![i] = AfterCustom(e, IsOnce(e))]
           /\ Write(e, e.seq + 1) /\ Called(e) /\ UNCHANGED source
  <2>1. e.seq + 1 \in Ids
    BY <1>0, <1>4 DEF Ids
  <2>2. PICK d \in BOOLEAN : d = IsOnce(e)
    <3>1. IsOnce(e) \in BOOLEAN
      BY DEF IsOnce
    <3> QED BY <3>1
  <2>3. AfterCustom(e, IsOnce(e)) = [e EXCEPT !.seq = @ + 1, !.done = d]
    BY <2>2, Zenon DEF AfterCustom
  <2>4. owner'[e.conn] \in Once => d
    BY <2>2 DEF IsOnce
  <2>5. SentCustom(i, e)
    BY <1>4, <2>1, <2>3, <2>4 DEF SentCustom
  <2>6. AfterCustom(e, IsOnce(e)) \in Entry
    <3>1. \A n \in Nat : [e EXCEPT !.seq = n, !.done = d] \in Entry
      BY <2>2 DEF Entry
    <3>2. e.seq + 1 \in Nat
      BY <1>0
    <3> QED BY <3>1, <3>2, <2>3
  <2> QED BY <1>0, <1>1, <1>2, <1>4, <2>1, <2>5, <2>6
<1>5. CASE /\ ~e.done
           /\ owner'[e.conn] \notin Custom
           /\ source < MaxId /\ e.lastId < MaxId
           /\ source' = NextId(e.lastId)
           /\ Called(e)
           /\ \/ /\ IsNew(e, source')
                 /\ slots' = [slots EXCEPT ![i] = AfterDefault(e, source')]
                 /\ Write(e, source')
              \/ Quiet(i, e)
  <2>1. source' \in Ids /\ source' \in Nat
    <3>1. /\ NextId(e.lastId) \in Nat /\ NextId(e.lastId) > e.lastId
          /\ NextId(e.lastId) > source
          /\ NextId(e.lastId) = e.lastId + 1 \/ NextId(e.lastId) = source + 1
      BY <1>0, NextIdFacts, Zenon
    <3> QED BY <1>0, <1>5, <3>1 DEF Ids
  <2>2. source' \in 0 .. MaxId
    BY <2>1, <1>0 DEF Ids
  <2>3. AfterDefault(e, source') \in Entry
    BY <1>0, <2>1 DEF Entry, AfterDefault
  <2>4. CASE Quiet(i, e)
    BY <1>0, <1>1, <1>5, <2>2, <2>4 DEF Quiet
  <2>5. CASE /\ IsNew(e, source')
             /\ slots' = [slots EXCEPT ![i] = AfterDefault(e, source')]
             /\ Write(e, source')
    <3>1. SentDefault(i, e)
      BY <1>5, <2>5 DEF SentDefault, IsNew, AfterDefault
    <3> QED BY <1>0, <1>1, <1>2, <1>5, <2>1, <2>2, <2>3, <2>5, <3>1
  <2> QED BY <1>5, <2>4, <2>5
<1> QED BY <1>3, <1>4, <1>5 DEF SendEvent, IsCustom, Quiet

-----------------------------------------------------------------------------
(* Steps that send: a poll of an open stream and the acceptance of a new   *)
(* one, seen from entry e of connection c owned by client k after it.      *)

\* The elements of a wire with one more id.
LEMMA AppendFacts ==
  ASSUME NEW S, NEW ids \in Seq(S), NEW id \in S
  PROVE  /\ Append(ids, id) \in Seq(S)
         /\ Len(Append(ids, id)) = Len(ids) + 1
         /\ DOMAIN ids = 1 .. Len(ids) /\ Len(ids) \in Nat
         /\ DOMAIN Append(ids, id) = 1 .. Len(ids) + 1
         /\ \A n \in DOMAIN ids : Append(ids, id)[n] = ids[n]
         /\ Append(ids, id)[Len(ids) + 1] = id
OBVIOUS

\* Appending the next number, or an id above all others, keeps a stream in order.
LEMMA CarriesMore ==
  ASSUME NEW k \in Clients, NEW len \in Nat, NEW id \in Nat, NEW total \in Nat,
         NEW ids \in [1 .. len -> Nat], Len(ids) = len,
         NEW more \in [1 .. len + 1 -> Nat], Len(more) = len + 1,
         \A n \in 1 .. len : more[n] = ids[n], more[len + 1] = id,
         lastSeen[k] \in Nat, UNCHANGED lastSeen,
         Carries(k, ids, total),
         k \in Custom => id = total + 1,
         k \notin Custom => id > lastSeen[k] /\ \A n \in 1 .. len : id > ids[n]
  PROVE  Carries(k, more, total + 1)'
<1>1. CASE k \in Custom
  <2>1. ASSUME NEW n \in 1 .. len + 1 PROVE more[n] + (len + 1) = (total + 1) + n
    <3>1. CASE n \in 1 .. len
      <4>1. ids[n] + len = total + n
        BY <1>1, <3>1 DEF Carries
      <4>2. more[n] = ids[n] /\ ids[n] \in Nat /\ n \in Nat
        BY <3>1
      <4>3. PICK a \in Nat : a = ids[n]
        BY <4>2
      <4>4. a + len = total + n
        BY <4>1, <4>3, Zenon
      <4>5. a + (len + 1) = (total + 1) + n
        BY ONLY <4>2, <4>4, a \in Nat, len \in Nat, total \in Nat
      <4> QED BY <4>2, <4>3, <4>5, Zenon
    <3>2. CASE n = len + 1
      BY <1>1, <3>2
    <3> QED BY <3>1, <3>2
  <2> QED BY <1>1, <2>1 DEF Carries
<1>2. CASE k \notin Custom
  <2>1. /\ \A n \in 1 .. len : ids[n] > lastSeen[k]
        /\ \A n, m \in 1 .. len : n < m => ids[n] < ids[m]
    BY <1>2 DEF Carries
  <2>2. \A n \in 1 .. len + 1 : n \in 1 .. len \/ n = len + 1
    OBVIOUS
  <2>3. \A n \in 1 .. len + 1 : more[n] > lastSeen[k]
    BY <1>2, <2>1, <2>2
  <2>4. \A n, m \in 1 .. len + 1 : n < m => more[n] < more[m]
    <3> SUFFICES ASSUME NEW n \in 1 .. len + 1, NEW m \in 1 .. len + 1, n < m
                 PROVE  more[n] < more[m]
      OBVIOUS
    <3>1. n \in 1 .. len
      OBVIOUS
    <3> QED BY <1>2, <2>1, <2>2, <3>1
  <2> QED BY <1>2, <2>3, <2>4 DEF Carries
<1> QED BY <1>1, <1>2

\* An event sent on a stream with a sole entry keeps the invariant.
LEMMA EventStep ==
  ASSUME SseInv, NEW e \in Entry, NEW i \in Table, NEW result \in Results,
         NEW c, c = e.conn, NEW k \in Clients,
         SendEvent(i, e, result),
         owner' = [owner EXCEPT ![c] = k], phase' = [phase EXCEPT ![c] = "sse"],
         current' \in [Clients -> Conns \cup {None}],
         \A m \in Clients : current'[m] = c => m = k,
         \A m \in Clients : current'[m] # c => current'[m] = current[m],
         UNCHANGED lastSeen,
         i \in Active => slots[i].conn = c, SlotsOf(c) \subseteq {i},
         Ahead(e, k), k \notin Custom => lastSeen[k] <= e.lastId \/ current'[k] # c,
         current'[k] = c => Carries(k, wire[c], sent[c]),
         k \in Once \cap Custom => sent[c] <= 1
  PROVE  SseInv'
<1>0. /\ c \in Conns /\ SseTypeOK /\ SlotsSound /\ None \notin Conns \cup Clients
      /\ e.seq \in Nat /\ e.lastId \in Nat /\ e.done \in BOOLEAN /\ Ids \subseteq Nat
  BY SseAssumption DEF SseInv, Entry, Ids
<1>1. /\ slots' \in [Table -> Entry \cup {None}]
      /\ wire' \in [Conns -> Seq(Ids)] /\ sent' \in [Conns -> Nat]
      /\ Quiet(i, e) \/ SentCustom(i, e) \/ SentDefault(i, e)
  BY <1>0, SendFacts
<1>2. SseTypeOK'
  <2>1. owner' \in [Conns -> Clients \cup {None}]
        /\ phase' \in [Conns -> {"new", "http", "sse", "gone"}]
    BY <1>0 DEF SseTypeOK
  <2>2. source' \in 0 .. MaxId /\ calls' \in [Conns -> 0 .. 2]
    BY <1>0, SendFacts
  <2> QED BY <1>0, <1>1, <2>1, <2>2 DEF SseTypeOK
<1>3. PICK f \in Entry : slots' = [slots EXCEPT ![i] = f] /\ f.conn = c
  <2>1. CASE Quiet(i, e)
    BY <2>1 DEF Quiet
  <2>2. CASE SentCustom(i, e)
    <3>1. PICK d \in BOOLEAN :
            slots' = [slots EXCEPT ![i] = [e EXCEPT !.seq = @ + 1, !.done = d]]
      BY <2>2 DEF SentCustom
    <3>2. \A n \in Nat : LET f == [e EXCEPT !.seq = n, !.done = d]
                        IN  f \in Entry /\ f.conn = e.conn
      BY DEF Entry
    <3>3. e.seq + 1 \in Nat
      BY <1>0
    <3> QED BY <3>1, <3>2, <3>3
  <2>3. CASE SentDefault(i, e)
    <3>1. source' \in Nat
      BY <1>2, SseAssumption DEF SseTypeOK
    <3>2. LET f == [e EXCEPT !.lastId = source'] IN f \in Entry /\ f.conn = e.conn
      BY <3>1 DEF Entry
    <3> QED BY <2>3, <3>2 DEF SentDefault
  <2> QED BY <1>1, <2>1, <2>2, <2>3
<1>4. /\ owner'[c] = k /\ phase'[c] = "sse"
      /\ \A d \in Conns : d # c => owner'[d] = owner[d] /\ phase'[d] = phase[d]
                                 /\ wire'[d] = wire[d] /\ sent'[d] = sent[d]
  BY <1>0, <1>1 DEF Quiet, SentCustom, SentDefault, Write, SseTypeOK
<1>5. /\ slots'[i] = f /\ i \in Active'
      /\ \A m \in Active' : m # i => m \in Active /\ slots'[m] = slots[m]
                                      /\ slots[m].conn # c
      /\ \A m \in Active : m # i => m \in Active'
  <2>1. /\ slots'[i] = f /\ f # None
        /\ \A m \in Table : m # i => slots'[m] = slots[m]
    BY <1>0, <1>3, SseAssumption DEF SseTypeOK
  <2> QED BY <2>1 DEF Active, SlotsOf
<1>6. SlotsSound'
  <2>1. SlotsOf(c)' = {i}
    BY <1>3, <1>5 DEF SlotsOf
  <2>2. \A d \in Conns : d # c => SlotsOf(d)' = SlotsOf(d)
    BY <1>3, <1>5 DEF SlotsOf
  <2>3. ASSUME NEW d \in Conns, phase'[d] = "sse" PROVE \E m : SlotsOf(d)' = {m}
    <3>1. CASE d = c
      BY <2>1, <3>1
    <3>2. CASE d # c
      <4>1. \E m : SlotsOf(d) = {m}
        BY <1>0, <1>4, <2>3, <3>2, SoleEntry DEF Sole
      <4> QED BY <2>2, <3>2, <4>1
    <3> QED BY <3>1, <3>2
  <2>4. \A m \in Active' : phase'[slots'[m].conn] = "sse"
    <3> SUFFICES ASSUME NEW m \in Active' PROVE phase'[slots'[m].conn] = "sse"
      OBVIOUS
    <3>1. CASE m = i
      BY <1>3, <1>4, <1>5, <3>1
    <3>2. CASE m # i
      <4>1. m \in Active /\ slots'[m] = slots[m] /\ slots[m].conn # c
        BY <1>5, <3>2
      <4>2. phase[slots[m].conn] = "sse" /\ slots[m].conn \in Conns
        BY <1>0, <4>1 DEF SlotsSound, SseTypeOK, Active, Entry
      <4> QED BY <1>4, <4>1, <4>2
    <3> QED BY <3>1, <3>2
  <2>5. ASSUME NEW d \in Conns, phase'[d] = "sse" PROVE Cardinality(SlotsOf(d)') = 1
    BY <2>3, <2>5, FS_Singleton, Zenon
  <2> QED BY <2>4, <2>5 DEF SlotsSound
<1>7. OnceOneEvent'
  <2>1. ASSUME k \in Once \cap Custom PROVE sent'[c] <= 1
    <3>1. CASE SentCustom(i, e)
      <4>1. sent[c] = 0
        BY <2>1, <3>1 DEF Ahead, SentCustom
      <4> QED BY <1>0, <3>1, <4>1 DEF SentCustom, Write, SseTypeOK
    <3>2. CASE ~ SentCustom(i, e)
      BY <1>1, <1>4, <2>1, <3>2 DEF Quiet, SentDefault
    <3> QED BY <3>1, <3>2
  <2> QED BY <1>4, <2>1 DEF OnceOneEvent, SseInv
<1>8. ClientsInv'
  <2>1. \A d \in Conns : phase'[d] = "new" => wire'[d] = <<>> /\ sent'[d] = 0
    BY <1>4 DEF SseInv, ClientsInv
  <2>2. ASSUME NEW m \in Clients, current'[m] # None
        PROVE  owner'[current'[m]] = m /\ phase'[current'[m]] # "new"
    BY <1>0, <1>4, <2>2 DEF SseInv, ClientsInv
  <2> QED BY <2>1, <2>2 DEF ClientsInv
<1>9. EntryInv'
  <2>1. ASSUME NEW m \in Active', m # i
        PROVE  \E o \in Clients : o = owner'[slots'[m].conn] /\ Ahead(slots[m], o)'
    <3>1. /\ m \in Active /\ slots'[m] = slots[m] /\ slots[m].conn # c
          /\ slots[m].conn \in Conns
      BY <1>0, <1>5, <2>1 DEF SseTypeOK, Active, Entry
    <3>2. PICK o \in Clients : o = owner[slots[m].conn] /\ Ahead(slots[m], o)
      BY <3>1 DEF SseInv, EntryInv
    <3>3. owner'[slots'[m].conn] = o
      BY <1>4, <3>1, <3>2
    <3>4. current'[o] = slots[m].conn => current[o] = slots[m].conn
      BY <3>1
    <3> QED BY <1>4, <3>1, <3>2, <3>3, <3>4 DEF Ahead
  <2>2. Ahead(f, k)'
    <3>1. CASE Quiet(i, e)
      <4>1. f = e
        BY <1>0, <1>3, <3>1 DEF Quiet, SseTypeOK
      <4> QED BY <3>1, <4>1 DEF Quiet, Ahead
    <3>2. CASE SentCustom(i, e)
      <4>1. f.seq = e.seq + 1 /\ (k \in Once => f.done) /\ f.conn = c
        <5>1. PICK d \in BOOLEAN :
                /\ owner'[e.conn] \in Once => d
                /\ slots' = [slots EXCEPT ![i] = [e EXCEPT !.seq = @ + 1, !.done = d]]
          BY <3>2 DEF SentCustom
        <5>2. f = [e EXCEPT !.seq = @ + 1, !.done = d]
          BY <1>0, <1>5, <5>1 DEF SseTypeOK
        <5>3. /\ f.seq = e.seq + 1 /\ f.conn = e.conn
              /\ f.done = d
          BY <5>2 DEF Entry
        <5> QED BY <1>4, <5>1, <5>3
      <4>2. sent'[c] = sent[c] + 1 /\ k \in Custom
        BY <1>0, <1>4, <3>2 DEF SentCustom, Write, SseTypeOK
      <4>3. e.seq = sent[c]
        BY <4>2 DEF Ahead
      <4> QED BY <4>1, <4>2, <4>3 DEF Ahead
    <3>3. CASE SentDefault(i, e)
      <4>1. /\ f.lastId = source' /\ f.conn = c /\ source' > e.lastId
            /\ source' \in Nat /\ k \notin Custom
        <5>1. f = [e EXCEPT !.lastId = source']
          BY <1>0, <1>5, <3>3 DEF SseTypeOK, SentDefault
        <5> QED BY <1>2, <1>4, <3>3, <5>1, SseAssumption DEF SentDefault, Entry, SseTypeOK
      <4>2. wire'[c] = Append(wire[c], source') /\ source' \in Ids /\ wire[c] \in Seq(Ids)
        <5>1. wire'[c] = Append(wire[c], source') /\ wire[c] \in Seq(Ids)
          BY <1>0, <3>3 DEF SentDefault, Write, SseTypeOK
        <5>2. source' \in Ids
          BY <1>0, <1>2, <4>1 DEF SseTypeOK, Ids
        <5> QED BY <5>1, <5>2
      <4>3. \A n \in DOMAIN wire'[c] : wire'[c][n] <= source'
        <5>1. \A n \in DOMAIN wire[c] : wire[c][n] \in Nat
          <6>1. \A s \in Seq(Ids) : \A n \in DOMAIN s : s[n] \in Ids
            OBVIOUS
          <6> QED BY <1>0, <4>2, <6>1, Zenon
        <5>2. \A n \in DOMAIN wire[c] : wire[c][n] <= source'
          BY <1>0, <4>1, <5>1 DEF Ahead
        <5>3. /\ DOMAIN wire'[c] = 1 .. Len(wire[c]) + 1
              /\ DOMAIN wire[c] = 1 .. Len(wire[c]) /\ Len(wire[c]) \in Nat
              /\ \A n \in DOMAIN wire[c] : wire'[c][n] = wire[c][n]
              /\ wire'[c][Len(wire[c]) + 1] = source'
          BY <4>2, AppendFacts
        <5>4. \A n \in DOMAIN wire'[c] : n \in DOMAIN wire[c] \/ n = Len(wire[c]) + 1
          BY <5>3
        <5> QED BY <4>1, <5>2, <5>3, <5>4
      <4>4. current'[k] = c => lastSeen'[k] <= source'
        <5>1. lastSeen[k] \in Nat
          BY <1>0 DEF SseTypeOK
        <5> QED BY <1>0, <4>1, <5>1
      <4> QED BY <4>1, <4>3, <4>4 DEF Ahead
    <3> QED BY <1>1, <3>1, <3>2, <3>3
  <2>3. owner'[slots'[i].conn] = k
    BY <1>3, <1>4, <1>5
  <2>4. \A m \in Active' :
          \E o \in Clients : o = owner'[slots'[m].conn] /\ Ahead(slots[m], o)'
    <3>1. Ahead(slots[i], k)'
      BY <1>5, <2>2 DEF Ahead
    <3> QED BY <2>1, <2>3, <3>1
  <2> QED BY <2>4 DEF EntryInv, Ahead
<1>10. StreamInv'
  <2>1. ASSUME NEW m \in Clients, current'[m] # None, current'[m] # c
        PROVE  Carries(m, wire[current[m]], sent[current[m]])'
    <3>1. PICK d \in Conns : d = current[m] /\ d = current'[m] /\ d # c
      BY <1>0, <2>1 DEF SseTypeOK
    <3>2. Carries(m, wire[d], sent[d])
      BY <1>0, <2>1, <3>1 DEF SseInv, StreamInv
    <3> QED BY <1>4, <3>1, <3>2 DEF Carries
  <2>2. ASSUME current'[k] = c PROVE Carries(k, wire[c], sent[c])'
    <3>1. Carries(k, wire[c], sent[c])
      BY <2>2
    <3>2. CASE Quiet(i, e)
      BY <3>1, <3>2 DEF Quiet, Carries
    <3>3. ASSUME NEW id \in Ids, Write(e, id),
                 k \in Custom => id = sent[c] + 1,
                 k \notin Custom =>
                   id > lastSeen[k] /\ \A n \in DOMAIN wire[c] : id > wire[c][n]
          PROVE  Carries(k, wire[c], sent[c])'
      <4>1. PICK ids \in Seq(Ids), total \in Nat : ids = wire[c] /\ total = sent[c]
        BY <1>0 DEF SseTypeOK
      <4>2. PICK more \in Seq(Ids) : more = wire'[c] /\ more = Append(ids, id)
        BY <1>0, <1>1, <3>3, <4>1 DEF Write, SseTypeOK
      <4>3. sent'[c] = total + 1
        BY <1>0, <3>3, <4>1 DEF Write, SseTypeOK
      <4>4. PICK len \in Nat : len = Len(ids)
        BY <4>1
      <4>5. /\ ids \in [1 .. len -> Nat] /\ more \in [1 .. len + 1 -> Nat]
            /\ Len(more) = len + 1
            /\ \A n \in 1 .. len : more[n] = ids[n]
            /\ more[len + 1] = id
            /\ DOMAIN ids = 1 .. len
        <5>1. /\ Len(more) = len + 1 /\ more[len + 1] = id
              /\ DOMAIN ids = 1 .. len /\ DOMAIN more = 1 .. len + 1
              /\ \A n \in 1 .. len : more[n] = ids[n]
          BY <4>2, <4>4, AppendFacts
        <5>2. /\ \A n \in DOMAIN ids : ids[n] \in Ids
              /\ \A n \in DOMAIN more : more[n] \in Ids
          OBVIOUS
        <5>3. ids \in [1 .. len -> Ids] /\ more \in [1 .. len + 1 -> Ids]
          BY <5>1, <5>2
        <5> QED BY <1>0, <5>1, <5>3
      <4>6. Carries(k, ids, total) /\ lastSeen[k] \in Nat /\ id \in Nat
        BY <1>0, <3>1, <4>1 DEF SseTypeOK
      <4>7. Carries(k, more, total + 1)'
        <5>1. k \in Custom => id = total + 1
          BY <3>3, <4>1
        <5>2. k \notin Custom => id > lastSeen[k] /\ \A n \in 1 .. len : id > ids[n]
          BY <3>3, <4>1, <4>5
        <5> QED BY <4>4, <4>5, <4>6, <5>1, <5>2, CarriesMore
      <4> QED BY <4>2, <4>3, <4>7 DEF Carries
    <3>4. CASE SentCustom(i, e)
      <4>1. k \in Custom /\ e.seq = sent[c] /\ Write(e, e.seq + 1)
        BY <1>4, <3>4 DEF SentCustom, Ahead
      <4>2. e.seq + 1 \in Ids
        BY <3>4 DEF SentCustom
      <4> QED BY <3>3, <4>1, <4>2
    <3>5. CASE SentDefault(i, e)
      <4>1. k \notin Custom /\ source' > e.lastId /\ Write(e, source')
        BY <1>4, <3>5 DEF SentDefault
      <4>2. source' \in Ids
        BY <1>0, <1>2, <4>1 DEF SseTypeOK, Ids
      <4>3. \A n \in DOMAIN wire[c] : source' > wire[c][n]
        <5>1. \A n \in DOMAIN wire[c] : wire[c][n] <= e.lastId /\ wire[c][n] \in Nat
          BY <1>0, <4>1 DEF Ahead, SseTypeOK
        <5>2. source' \in Nat /\ source' > e.lastId
          BY <1>0, <4>1, <4>2
        <5> QED BY <1>0, <5>1, <5>2
      <4>4. source' > lastSeen[k]
        BY <1>0, <2>2, <4>1, <4>2 DEF SseTypeOK
      <4> QED BY <3>3, <4>1, <4>2, <4>3, <4>4
    <3> QED BY <1>1, <3>2, <3>4, <3>5
  <2>3. ASSUME NEW m \in Clients, current'[m] # None
        PROVE  Carries(m, wire[current[m]], sent[current[m]])'
    <3>1. CASE current'[m] # c
      BY <2>1, <2>3, <3>1
    <3>2. CASE current'[m] = c
      BY <2>2, <3>2
    <3> QED BY <3>1, <3>2
  <2> QED BY <2>3 DEF StreamInv
<1> QED BY <1>2, <1>6, <1>7, <1>8, <1>9, <1>10 DEF SseInv

-----------------------------------------------------------------------------
(* Every step keeps the invariant.                                         *)

\* The connection of an entry is an open stream; one of an open stream has one.
LEMMA EntryConn ==
  ASSUME SseInv, NEW i \in Active
  PROVE  /\ slots[i] \in Entry /\ slots[i].conn \in Conns /\ i \in Table
         /\ phase[slots[i].conn] = "sse"
  BY SseAssumption DEF SseInv, SseTypeOK, SlotsSound, Active, Entry

\* ev_handler_sse with a free entry.
LEMMA AcceptStep ==
  ASSUME SseInv, NEW k \in Clients, NEW c \in Conns, NEW result \in Results,
         Accept(k, c, result)
  PROVE  SseInv'
<1>0. PICK e :
        e = [conn |-> c, lastId |-> ResumeFrom(k), seq |-> 0, done |-> FALSE]
  OBVIOUS
<1>1. /\ e \in Entry /\ e.conn = c /\ e.lastId = lastSeen[k] /\ e.seq = 0 /\ ~ e.done
      /\ None \notin Conns
  BY <1>0, SseAssumption DEF ResumeFrom, Entry, SseInv, SseTypeOK
<1>2. FirstFree \in Table \ Active
  <2>1. Table \ Active \in SUBSET Table /\ Table \ Active # {}
    BY DEF Accept, Active
  <2> QED BY <2>1, LeastIndex DEF FirstFree
<1>3. phase[c] = "new" /\ wire[c] = <<>> /\ sent[c] = 0 /\ SlotsOf(c) = {}
  BY SoleEntry DEF Accept, Dials, SseInv, ClientsInv
<1>4. \A m \in Clients : current[m] # c
  BY <1>1, <1>3 DEF SseInv, ClientsInv
<1>5. /\ owner' = [owner EXCEPT ![c] = k] /\ phase' = [phase EXCEPT ![c] = "sse"]
      /\ current' = [current EXCEPT ![k] = c] /\ UNCHANGED lastSeen
      /\ SendEvent(FirstFree, e, result)
  BY <1>0 DEF Accept, Dials
<1>6. /\ current' \in [Clients -> Conns \cup {None}]
      /\ \A m \in Clients : current'[m] = c => m = k
      /\ \A m \in Clients : current'[m] # c => current'[m] = current[m]
  BY <1>4, <1>5 DEF SseInv, SseTypeOK
<1>7. Ahead(e, k) /\ Carries(k, wire[c], sent[c])
  BY <1>1, <1>3, <1>4 DEF Ahead, Carries
<1>8. lastSeen[k] <= e.lastId /\ sent[c] <= 1
  BY <1>1, <1>3 DEF SseInv, SseTypeOK
<1> QED BY <1>1, <1>2, <1>3, <1>5, <1>6, <1>7, <1>8, EventStep

\* sse_on_poll of an open stream.
LEMMA PollStep ==
  ASSUME SseInv, NEW c \in Conns, NEW result \in Results, Poll(c, result)
  PROVE  SseInv'
<1>1. PICK i \in SlotsOf(c) : SendEvent(i, slots[i], result)
  BY DEF Poll
<1>2. /\ i \in Active /\ i \in Table /\ slots[i].conn = c /\ slots[i] \in Entry
      /\ phase[c] = "sse"
  BY <1>1, EntryConn DEF SlotsOf, Active
<1>3. SlotsOf(c) = {i}
  BY <1>1, <1>2, SoleEntry DEF SseInv, Sole
<1>4. PICK k \in Clients : k = owner[c] /\ Ahead(slots[i], k)
  BY <1>2 DEF SseInv, EntryInv
<1>5. /\ owner' = [owner EXCEPT ![c] = k] /\ phase' = [phase EXCEPT ![c] = "sse"]
      /\ UNCHANGED <<current, lastSeen>>
  BY <1>2, <1>4 DEF Poll, SseInv, SseTypeOK
<1>6. None \notin Conns
  BY SseAssumption
<1>7. /\ current' \in [Clients -> Conns \cup {None}]
      /\ \A m \in Clients : current'[m] = c => m = k
  BY <1>4, <1>5, <1>6 DEF SseInv, SseTypeOK, ClientsInv
<1>8. current'[k] = c => Carries(k, wire[c], sent[c])
  BY <1>5, <1>6 DEF SseInv, StreamInv
<1>9. k \in Once \cap Custom => sent[c] <= 1
  BY <1>4 DEF SseInv, OnceOneEvent
<1>10. k \notin Custom => lastSeen[k] <= slots[i].lastId \/ current'[k] # c
  BY <1>2, <1>4, <1>5 DEF Ahead
<1>11. PICK e \in Entry : e = slots[i]
  BY <1>2
<1>12. /\ SendEvent(i, e, result) /\ c = e.conn /\ Ahead(e, k)
       /\ k \notin Custom => lastSeen[k] <= e.lastId \/ current'[k] # c
       /\ \A m \in Clients : current'[m] # c => current'[m] = current[m]
       /\ SlotsOf(c) \subseteq {i} /\ (i \in Active => slots[i].conn = c)
  BY <1>1, <1>2, <1>3, <1>4, <1>5, <1>10, <1>11
<1> QED
  BY <1>2, <1>5, <1>7, <1>8, <1>9, <1>12, EventStep

\* ev_handler_sse that is answered with an error.
LEMMA RefuseStep ==
  ASSUME SseInv, NEW k \in Clients, NEW c \in Conns, Refuse(k, c)
  PROVE  SseInv'
<1>1. /\ phase[c] = "new" /\ wire[c] = <<>> /\ None \notin Conns /\ current[k] = None
      /\ owner' = [owner EXCEPT ![c] = k] /\ phase' = [phase EXCEPT ![c] = "http"]
      /\ current' = [current EXCEPT ![k] = c]
      /\ UNCHANGED <<slots, source, wire, calls, sent, lastSeen>>
  BY SseAssumption DEF Refuse, Dials, SseInv, ClientsInv
<1>2. Active' = Active /\ \A d : SlotsOf(d)' = SlotsOf(d)
  BY <1>1 DEF Active, SlotsOf
<1>3. \A i \in Active : slots[i].conn # c /\ slots[i].conn \in Conns
  BY <1>1, EntryConn
<1>4. \A m \in Clients : current[m] # c
  BY <1>1 DEF SseInv, ClientsInv
<1>5. SseTypeOK'
  BY <1>1 DEF SseInv, SseTypeOK
<1>6. SlotsSound'
  BY <1>1, <1>2, <1>3 DEF SseInv, SseTypeOK, SlotsSound
<1>7. OnceOneEvent'
  <2>1. sent[c] = 0
    BY <1>1 DEF SseInv, ClientsInv
  <2> QED BY <1>1, <2>1 DEF SseInv, SseTypeOK, OnceOneEvent
<1>8. ClientsInv'
  BY <1>1, <1>4 DEF SseInv, SseTypeOK, ClientsInv
<1>9. EntryInv'
  <2> SUFFICES ASSUME NEW i \in Active
               PROVE  owner'[slots[i].conn] \in Clients
                      /\ Ahead(slots[i], owner[slots[i].conn])'
    BY <1>1, <1>2 DEF EntryInv, Ahead
  <2>1. PICK o \in Clients : o = owner[slots[i].conn] /\ Ahead(slots[i], o)
    BY DEF SseInv, EntryInv
  <2>2. owner'[slots[i].conn] = o
    BY <1>1, <1>3, <2>1 DEF SseInv, SseTypeOK
  <2>3. current'[o] = slots[i].conn => current[o] = slots[i].conn
    BY <1>1, <1>3 DEF SseInv, SseTypeOK
  <2> QED BY <1>1, <2>1, <2>2, <2>3 DEF Ahead
<1>10. StreamInv'
  <2>1. ASSUME NEW m \in Clients, current'[m] # None
        PROVE  Carries(m, wire[current[m]], sent[current[m]])'
    <3>1. CASE m = k
      <4>1. current'[m] = c /\ wire'[c] = <<>>
        BY <1>1, <3>1 DEF SseInv, SseTypeOK
      <4> QED BY <4>1 DEF Carries
    <3>2. CASE m # k
      <4>1. current'[m] = current[m]
        BY <1>1, <3>2 DEF SseInv, SseTypeOK
      <4> QED BY <1>1, <2>1, <4>1 DEF SseInv, StreamInv, Carries
    <3> QED BY <3>1, <3>2
  <2> QED BY <2>1 DEF StreamInv
<1> QED BY <1>5, <1>6, <1>7, <1>8, <1>9, <1>10 DEF SseInv

\* Steps that only take entries away and end connections: close and restart.
LEMMA EndStep ==
  ASSUME SseInv, UNCHANGED <<owner, wire, calls, sent, current, lastSeen>>,
         source' \in 0 .. MaxId,
         slots' \in [Table -> Entry \cup {None}],
         phase' \in [Conns -> {"new", "http", "sse", "gone"}],
         \A c \in Conns : phase'[c] = "new" <=> phase[c] = "new",
         \A m \in Active' : m \in Active /\ slots'[m] = slots[m],
         SlotsSound'
  PROVE  SseInv'
<1>1. SseTypeOK' /\ OnceOneEvent'
  BY DEF SseInv, SseTypeOK, OnceOneEvent
<1>2. ClientsInv'
  <2>1. \A k \in Clients : current[k] # None => current[k] \in Conns
    BY DEF SseInv, SseTypeOK
  <2> QED BY <2>1 DEF SseInv, ClientsInv
<1>3. EntryInv'
  BY DEF SseInv, EntryInv, Ahead
<1>4. StreamInv'
  BY DEF SseInv, StreamInv, Carries
<1> QED BY <1>1, <1>2, <1>3, <1>4 DEF SseInv

\* sse_on_close gives the entry of the stream back.
LEMMA CloseStep ==
  ASSUME SseInv, NEW c \in Conns, Close(c)
  PROVE  SseInv'
<1>1. /\ slots \in [Table -> Entry \cup {None}] /\ None \notin Entry
      /\ phase \in [Conns -> {"new", "http", "sse", "gone"}]
      /\ phase' = [phase EXCEPT ![c] = "gone"] /\ phase[c] # "new"
      /\ source' \in 0 .. MaxId
  BY SseAssumption DEF Close, SseInv, SseTypeOK
<1>2. \A m \in Table : slots'[m] = IF m \in SlotsOf(c) THEN None ELSE slots[m]
  BY DEF Close, AfterClose
<1>3. slots' \in [Table -> Entry \cup {None}]
  BY <1>1, <1>2 DEF Close, AfterClose
<1>4. \A m \in Active' : m \in Active /\ slots'[m] = slots[m] /\ slots[m].conn # c
  BY <1>2 DEF Active, SlotsOf
<1>5. \A d \in Conns : d # c => SlotsOf(d)' = SlotsOf(d)
  BY <1>2 DEF SlotsOf, Active
<1>6. SlotsSound'
  <2>1. ASSUME NEW d \in Conns, phase'[d] = "sse" PROVE \E m : SlotsOf(d)' = {m}
    <3>1. d # c /\ phase[d] = "sse"
      BY <1>1, <2>1
    <3>2. \E m : SlotsOf(d) = {m}
      BY <3>1, SoleEntry DEF SseInv, Sole
    <3> QED BY <1>5, <3>1, <3>2
  <2>2. \A m \in Active' : phase'[slots'[m].conn] = "sse"
    BY <1>1, <1>4, EntryConn
  <2> QED BY <2>1, <2>2, FS_Singleton DEF SlotsSound
<1>7. \A d \in Conns : phase'[d] = "new" <=> phase[d] = "new"
  BY <1>1
<1>8. phase' \in [Conns -> {"new", "http", "sse", "gone"}]
  BY <1>1
<1> QED BY <1>1, <1>3, <1>4, <1>6, <1>7, <1>8, EndStep DEF Close

\* A crash of the server: the table and the source are empty again.
LEMMA RestartStep ==
  ASSUME SseInv, Restart
  PROVE  SseInv'
<1>1. Active' = {}
  BY DEF Restart, Active
<1>2. /\ phase' \in [Conns -> {"new", "http", "sse", "gone"}]
      /\ \A c \in Conns : phase'[c] = "new" <=> phase[c] = "new"
      /\ \A c \in Conns : phase'[c] # "sse"
  BY DEF Restart, SseInv, SseTypeOK
<1>3. SlotsSound'
  BY <1>1, <1>2 DEF SlotsSound
<1>4. slots' \in [Table -> Entry \cup {None}] /\ source' \in 0 .. MaxId
  BY SseAssumption DEF Restart
<1> QED BY <1>1, <1>2, <1>3, <1>4, EndStep DEF Restart

\* sse_reset touches the source alone.
LEMMA ResetStep ==
  ASSUME SseInv, Reset
  PROVE  SseInv'
<1>1. Active' = Active /\ \A c : SlotsOf(c)' = SlotsOf(c)
  BY DEF Reset, Active, SlotsOf
<1>2. SlotsSound'
  BY <1>1 DEF Reset, SseInv, SlotsSound
<1>3. source' \in 0 .. MaxId
  BY SseAssumption DEF Reset
<1> QED BY <1>1, <1>2, <1>3, EndStep DEF Reset, SseInv, SseTypeOK

\* Steps of client k that take ids off the wire of its connection c.
LEMMA ClientStep ==
  ASSUME SseInv, NEW k \in Clients, NEW c \in Conns, c = current[k],
         UNCHANGED <<owner, phase, slots, source, calls, sent>>,
         NEW rest \in Seq(Ids), wire' = [wire EXCEPT ![c] = rest],
         NEW seen \in 0 .. MaxId, lastSeen' = [lastSeen EXCEPT ![k] = seen],
         NEW cur \in {c, None}, current' = [current EXCEPT ![k] = cur],
         \A n \in DOMAIN rest : \E m \in DOMAIN wire[c] : rest[n] = wire[c][m],
         seen = lastSeen[k] \/ \E m \in DOMAIN wire[c] : seen = wire[c][m],
         NEW total, sent[c] = total, cur = c => Carries(k, rest, total)'
  PROVE  SseInv'
<1>0. /\ None \notin Conns \cup Clients /\ owner[c] = k /\ phase[c] # "new"
      /\ \A m \in Clients : m # k => current[m] # c
  BY SseAssumption DEF SseInv, ClientsInv
<1>1. SseTypeOK'
  BY <1>0 DEF SseInv, SseTypeOK
<1>2. SlotsSound' /\ OnceOneEvent'
  <2>1. Active' = Active /\ \A d : SlotsOf(d)' = SlotsOf(d)
    BY DEF Active, SlotsOf
  <2> QED BY <2>1 DEF SseInv, SlotsSound, OnceOneEvent
<1>3. ClientsInv'
  BY <1>0 DEF SseInv, SseTypeOK, ClientsInv
<1>4. EntryInv'
  <2> SUFFICES ASSUME NEW i \in Active
               PROVE  owner[slots[i].conn] \in Clients
                      /\ Ahead(slots[i], owner[slots[i].conn])'
    BY DEF EntryInv, Active, Ahead
  <2>1. PICK o \in Clients : o = owner[slots[i].conn] /\ Ahead(slots[i], o)
    BY DEF SseInv, EntryInv
  <2>2. slots[i].conn \in Conns
    BY EntryConn
  <2>3. CASE slots[i].conn = c
    <3>1. o = k
      BY <1>0, <2>1, <2>3
    <3>2. wire'[c] = rest /\ lastSeen'[k] = seen
      BY DEF SseInv, SseTypeOK
    <3>3. k \notin Custom => \A n \in DOMAIN rest : rest[n] <= slots[i].lastId
      BY <2>1, <2>3, <3>1 DEF Ahead
    <3>4. k \notin Custom => seen <= slots[i].lastId
      BY <2>1, <2>3, <3>1 DEF Ahead
    <3> QED BY <2>1, <2>3, <3>1, <3>2, <3>3, <3>4 DEF Ahead
  <2>4. CASE slots[i].conn # c
    <3>1. wire'[slots[i].conn] = wire[slots[i].conn]
      BY <2>2, <2>4 DEF SseInv, SseTypeOK
    <3>2. current'[o] = slots[i].conn =>
            current[o] = slots[i].conn /\ lastSeen'[o] = lastSeen[o]
      BY <1>0, <2>2, <2>4 DEF SseInv, SseTypeOK
    <3> QED BY <2>1, <3>1, <3>2 DEF Ahead
  <2> QED BY <2>3, <2>4
<1>5. StreamInv'
  <2>1. ASSUME NEW m \in Clients, current'[m] # None
        PROVE  Carries(m, wire[current[m]], sent[current[m]])'
    <3>1. CASE m = k
      <4>1. cur = c /\ current'[m] = c /\ wire'[c] = rest /\ sent'[c] = total
        BY <1>0, <2>1, <3>1 DEF SseInv, SseTypeOK
      <4> QED BY <3>1, <4>1 DEF Carries
    <3>2. CASE m # k
      <4>1. current'[m] = current[m] /\ lastSeen'[m] = lastSeen[m]
        BY <3>2 DEF SseInv, SseTypeOK
      <4>2. current[m] # c /\ current[m] \in Conns
        BY <1>0, <2>1, <3>2, <4>1 DEF SseInv, SseTypeOK
      <4>3. wire'[current[m]] = wire[current[m]]
        BY <4>2 DEF SseInv, SseTypeOK
      <4>4. PICK d \in Conns : d = current[m] /\ d = current'[m] /\ wire'[d] = wire[d]
        BY <4>1, <4>2, <4>3
      <4>5. Carries(m, wire[d], sent[d])
        BY <1>0, <4>4 DEF SseInv, StreamInv
      <4> QED BY <4>1, <4>4, <4>5 DEF Carries
    <3> QED BY <3>1, <3>2
  <2> QED BY <2>1 DEF StreamInv
<1> QED BY <1>1, <1>2, <1>3, <1>4, <1>5 DEF SseInv

\* The elements of a wire without its first id.
LEMMA HeadTailFacts ==
  ASSUME NEW S, NEW ids \in Seq(S), ids # <<>>
  PROVE  /\ Tail(ids) \in Seq(S) /\ Head(ids) = ids[1] /\ 1 \in DOMAIN ids
         /\ Len(Tail(ids)) = Len(ids) - 1 /\ Len(ids) \in Nat
         /\ DOMAIN ids = 1 .. Len(ids) /\ DOMAIN Tail(ids) = 1 .. Len(ids) - 1
         /\ \A n \in DOMAIN Tail(ids) : Tail(ids)[n] = ids[n + 1] /\ n + 1 \in DOMAIN ids
         /\ \A n \in DOMAIN ids : ids[n] \in S
OBVIOUS

\* The client reads the first id of its wire.
LEMMA ReceiveStep ==
  ASSUME SseInv, NEW k \in Clients, Receive(k)
  PROVE  SseInv'
<1>1. PICK c \in Conns : c = current[k] /\ c # None
  BY SseAssumption DEF Receive, SseInv, SseTypeOK
<1>2. PICK ids \in Seq(Ids) : ids = wire[c] /\ ids # <<>>
  BY <1>1 DEF Receive, SseInv, SseTypeOK
<1>3. PICK rest, seen : rest = Tail(ids) /\ seen = Head(ids)
  OBVIOUS
<1>4. /\ rest \in Seq(Ids) /\ seen \in Ids /\ seen = ids[1] /\ 1 \in DOMAIN ids
      /\ Len(ids) \in Nat /\ Len(rest) = Len(ids) - 1
      /\ DOMAIN ids = 1 .. Len(ids) /\ DOMAIN rest = 1 .. Len(ids) - 1
      /\ \A n \in DOMAIN rest : rest[n] = ids[n + 1] /\ n + 1 \in DOMAIN ids
      /\ \A n \in DOMAIN ids : ids[n] \in Ids
  BY <1>2, <1>3, HeadTailFacts
<1>5. /\ wire' = [wire EXCEPT ![c] = rest] /\ lastSeen' = [lastSeen EXCEPT ![k] = seen]
      /\ current' = [current EXCEPT ![k] = c]
      /\ UNCHANGED <<owner, phase, slots, source, calls, sent>>
  BY <1>1, <1>2, <1>3 DEF Receive, SseInv, SseTypeOK
<1>6. Carries(k, ids, sent[c])
  BY <1>1, <1>2 DEF SseInv, StreamInv
<1>7. Carries(k, rest, sent[c])'
  <2>0. lastSeen'[k] = seen /\ sent'[c] = sent[c] /\ sent[c] \in Nat /\ Ids \subseteq Nat
    BY <1>5 DEF SseInv, SseTypeOK, Ids
  <2>1. CASE k \in Custom
    <3>1. ASSUME NEW n \in DOMAIN rest PROVE rest[n] + Len(rest) = sent[c] + n
      <4>1. ids[n + 1] + Len(ids) = sent[c] + (n + 1)
        BY <1>4, <1>6, <2>1 DEF Carries
      <4>2. ids[n + 1] \in Nat /\ rest[n] = ids[n + 1]
        <5>1. n + 1 \in DOMAIN ids /\ rest[n] = ids[n + 1]
          BY <1>4, Zenon
        <5>2. \A i \in DOMAIN ids : ids[i] \in Nat
          BY <1>4, <2>0, Zenon
        <5> QED BY <5>1, <5>2, Zenon
      <4>3. n \in Nat /\ Len(ids) \in Nat /\ Len(rest) = Len(ids) - 1 /\ sent[c] \in Nat
        BY <1>4, <2>0
      <4>4. PICK a \in Nat, l \in Nat, t \in Nat : a = ids[n + 1] /\ l = Len(ids) /\ t = sent[c]
        BY <4>2, <4>3, Zenon
      <4>5. a + l = t + (n + 1)
        BY <4>1, <4>4, Zenon
      <4>6. a + (l - 1) = t + n
        BY ONLY <4>3, <4>5, a \in Nat, l \in Nat, t \in Nat
      <4> QED BY <4>2, <4>3, <4>4, <4>6, Zenon
    <3> QED BY <2>0, <2>1, <3>1 DEF Carries
  <2>2. CASE k \notin Custom
    <3>1. \A n, m \in DOMAIN ids : n < m => ids[n] < ids[m]
      BY <1>6, <2>2 DEF Carries
    <3>2. \A n \in DOMAIN rest : rest[n] > seen
      <4> SUFFICES ASSUME NEW n \in DOMAIN rest PROVE rest[n] > seen
        OBVIOUS
      <4>1. n + 1 \in DOMAIN ids /\ 1 < n + 1 /\ 1 \in DOMAIN ids
        BY <1>4
      <4>2. ids[1] < ids[n + 1] /\ ids[1] \in Nat /\ ids[n + 1] \in Nat
        BY <1>4, <2>0, <3>1, <4>1
      <4> QED BY <1>4, <4>2
    <3>3. \A n, m \in DOMAIN rest : n < m => rest[n] < rest[m]
      <4> SUFFICES ASSUME NEW n \in DOMAIN rest, NEW m \in DOMAIN rest, n < m
                   PROVE  rest[n] < rest[m]
        OBVIOUS
      <4>1. n + 1 \in DOMAIN ids /\ m + 1 \in DOMAIN ids /\ n + 1 < m + 1
        BY <1>4
      <4> QED BY <1>4, <3>1, <4>1
    <3> QED BY <2>0, <2>2, <3>2, <3>3 DEF Carries
  <2> QED BY <2>1, <2>2
<1>8. \A n \in DOMAIN rest : \E m \in DOMAIN wire[c] : rest[n] = wire[c][m]
  BY <1>2, <1>4
<1>9. seen \in 0 .. MaxId /\ \E m \in DOMAIN wire[c] : seen = wire[c][m]
  BY <1>2, <1>4 DEF Ids
<1>10. PICK cur \in {c, None} : cur = c /\ current' = [current EXCEPT ![k] = cur]
  BY <1>5
<1>11. rest \in Seq(Ids) /\ c = current[k]
  BY <1>1, <1>4
<1>12. PICK total : sent[c] = total /\ (cur = c => Carries(k, rest, total)')
  <2>1. PICK total : sent[c] = total
    OBVIOUS
  <2> QED BY <1>5, <1>7, <2>1 DEF Carries
<1>13. seen = lastSeen[k] \/ \E m \in DOMAIN wire[c] : seen = wire[c][m]
  BY <1>9
<1>14. seen \in 0 .. MaxId
  BY <1>9
<1> QED BY ONLY SseInv, k \in Clients, c \in Conns,
                <1>5, <1>8, <1>10, <1>11, <1>12, <1>13, <1>14, ClientStep

\* The client gives its connection up, unread ids included.
LEMMA AbandonStep ==
  ASSUME SseInv, NEW k \in Clients, Abandon(k)
  PROVE  SseInv'
<1>1. PICK c \in Conns : c = current[k] /\ c # None
  BY SseAssumption DEF Abandon, SseInv, SseTypeOK
<1>2. PICK seen \in 0 .. MaxId : seen = lastSeen[k]
  BY DEF SseInv, SseTypeOK
<1>3. PICK rest \in Seq(Ids) : rest = <<>>
  <2>1. <<>> \in Seq(Ids)
    OBVIOUS
  <2> QED BY <2>1, Zenon
<1>4. /\ wire' = [wire EXCEPT ![c] = rest] /\ lastSeen' = [lastSeen EXCEPT ![k] = seen]
      /\ current' = [current EXCEPT ![k] = None]
      /\ UNCHANGED <<owner, phase, slots, source, calls, sent>>
  BY <1>1, <1>2, <1>3 DEF Abandon, SseInv, SseTypeOK
<1>5. DOMAIN rest = {}
  BY <1>3
<1> QED BY <1>1, <1>2, <1>4, <1>5, ClientStep

-----------------------------------------------------------------------------
(* The theorems.                                                           *)

\* The inductive invariant holds in every reachable state: entries, streams and
\* what clients have seen fit together across refusals, polls, closes, resets,
\* restarts and reconnections.
THEOREM SseInvariance == SseSpec => []SseInv
<1>1. ASSUME SseInv, [SseNext]_ssevars PROVE SseInv'
  <2>1. CASE UNCHANGED ssevars
    <3>1. Active' = Active /\ \A c : SlotsOf(c)' = SlotsOf(c)
      BY <2>1 DEF ssevars, Active, SlotsOf
    <3>2. SlotsSound'
      BY <1>1, <2>1, <3>1 DEF ssevars, SseInv, SlotsSound
    <3> QED BY <1>1, <2>1, <3>1, <3>2, EndStep DEF ssevars, SseInv, SseTypeOK
  <2>2. CASE SseNext
    BY <1>1, <2>2, ReceiveStep, AbandonStep, RefuseStep, AcceptStep, CloseStep, PollStep,
       ResetStep, RestartStep DEF SseNext
  <2> QED BY <1>1, <2>1, <2>2
<1> QED BY <1>1, SseInitial, PTL DEF SseSpec

\* An open stream has exactly one entry, and every entry an open stream.
THEOREM EntriesSound == SseSpec => []SlotsSound
  BY SseInvariance, PTL DEF SseInv

\* once=1 with a plugin named: one event at most.
THEOREM OnceMeansOne == SseSpec => []OnceOneEvent
  BY SseInvariance, PTL DEF SseInv

\* What a client still has to read is in order and new to it.
THEOREM StreamsOrdered == SseSpec => []StreamOrdered
<1>1. ASSUME SseInv PROVE StreamOrdered
  <2> SUFFICES ASSUME NEW k \in Clients, current[k] # None,
                      NEW ids, ids = wire[current[k]]
               PROVE  /\ \A i, m \in DOMAIN ids : i < m => ids[i] < ids[m]
                      /\ ids # <<>> => IF k \in Custom
                                         THEN ids[Len(ids)] = sent[current[k]]
                                         ELSE ids[1] > lastSeen[k]
    BY DEF StreamOrdered
  <2>1. /\ ids \in Seq(Ids) /\ sent[current[k]] \in Nat
        /\ Carries(k, ids, sent[current[k]])
    BY <1>1 DEF SseInv, SseTypeOK, StreamInv
  <2>2. /\ DOMAIN ids = 1 .. Len(ids) /\ Len(ids) \in Nat
        /\ ids # <<>> => 1 \in DOMAIN ids /\ Len(ids) \in DOMAIN ids
        /\ \A n \in DOMAIN ids : ids[n] \in Nat
    <3>1. \A n \in DOMAIN ids : ids[n] \in Ids
      BY <2>1
    <3> QED BY <2>1, <3>1 DEF Ids
  <2>3. CASE k \in Custom
    <3>1. \A n \in DOMAIN ids : ids[n] + Len(ids) = sent[current[k]] + n
      BY <2>1, <2>3 DEF Carries
    <3>2. \A i, m \in DOMAIN ids : i < m => ids[i] < ids[m]
      <4> SUFFICES ASSUME NEW i \in DOMAIN ids, NEW m \in DOMAIN ids, i < m
                   PROVE  ids[i] < ids[m]
        OBVIOUS
      <4>1. /\ ids[i] + Len(ids) = sent[current[k]] + i
            /\ ids[m] + Len(ids) = sent[current[k]] + m
        BY <3>1
      <4>2. /\ ids[i] \in Nat /\ ids[m] \in Nat /\ i \in Nat /\ m \in Nat
            /\ Len(ids) \in Nat /\ sent[current[k]] \in Nat
        BY <2>1, <2>2
      <4>3. PICK a \in Nat, b \in Nat, l \in Nat, t \in Nat :
              a = ids[i] /\ b = ids[m] /\ l = Len(ids) /\ t = sent[current[k]]
        BY <4>2, Zenon
      <4>4. a + l = t + i /\ b + l = t + m
        BY <4>1, <4>3, Zenon
      <4>5. a < b
        BY ONLY <4>2, <4>4, i < m, a \in Nat, b \in Nat, l \in Nat, t \in Nat
      <4> QED BY <4>3, <4>5, Zenon
    <3>3. ids # <<>> => ids[Len(ids)] = sent[current[k]]
      BY <2>1, <2>2, <3>1
    <3> QED BY <2>3, <3>2, <3>3
  <2>4. CASE k \notin Custom
    BY <2>1, <2>2, <2>4 DEF Carries
  <2> QED BY <2>3, <2>4
<1> QED BY <1>1, SseInvariance, PTL

\* A client in default mode never gets an id again, whatever was lost or reset.
THEOREM NeverAgain == SseSpec => ResumeMonotone
<1> DEFINE Later == \A k \in Clients \ Custom : lastSeen'[k] >= lastSeen[k]
<1>1. ASSUME SseInv, [SseNext]_ssevars PROVE [Later]_ssevars
  <2>0. \A k \in Clients : lastSeen[k] \in Nat
    BY <1>1 DEF SseInv, SseTypeOK
  <2>1. ASSUME NEW k \in Clients, Receive(k) PROVE Later
    <3>1. PICK ids \in Seq(Ids) : ids = wire[current[k]] /\ ids # <<>>
      BY <1>1, <2>1 DEF Receive, SseInv, SseTypeOK
    <3>2. Carries(k, ids, sent[current[k]])
      BY <1>1, <2>1, <3>1 DEF Receive, SseInv, StreamInv
    <3>3. 1 \in DOMAIN ids /\ Head(ids) = ids[1] /\ ids[1] \in Ids
      BY <3>1, HeadTailFacts
    <3>4. k \notin Custom => ids[1] > lastSeen[k] /\ ids[1] \in Nat
      BY <3>2, <3>3 DEF Carries, Ids
    <3>5. lastSeen' = [lastSeen EXCEPT ![k] = ids[1]]
      BY <2>1, <3>1, <3>3 DEF Receive
    <3>6. ASSUME NEW m \in Clients \ Custom PROVE lastSeen'[m] >= lastSeen[m]
      <4>1. lastSeen'[m] = IF m = k THEN ids[1] ELSE lastSeen[m]
        BY <1>1, <3>5 DEF SseInv, SseTypeOK
      <4> QED BY <2>0, <3>4, <4>1
    <3> QED BY <3>6
  <2>2. ASSUME UNCHANGED lastSeen PROVE Later
    BY <2>0, <2>2
  <2> HIDE DEF Later
  <2> QED
    BY <1>1, <2>1, <2>2
    DEF SseNext, ssevars, Abandon, Refuse, Dials, Accept, Close, Poll, Reset, Restart
<1> QED BY <1>1, SseInvariance, PTL DEF SseSpec, ResumeMonotone
=============================================================================
