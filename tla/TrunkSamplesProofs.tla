------------------------- MODULE TrunkSamplesProofs -------------------------
(***************************************************************************)
(* Proofs about TrunkSamples for every capacity of the two rings and of    *)
(* the handover log, every set of cursors and every number of writers.     *)
(***************************************************************************)
EXTENDS TrunkSamples, SequenceTheorems, WellFoundedInduction, TLAPS

Samples == [gen : Nat, idx : Nat]
Marks == [timed_at : Nat, sparse_at : Nat]
RingsOf(E) == [entries : Seq(E), base : Nat, published : Nat]

\* The absolute indices resident in a ring.
Held(r) == r.base..(r.published - 1)

Shape ==
    /\ timed \in RingsOf(Samples) /\ sparse \in RingsOf(Samples) /\ handovers \in RingsOf(Marks)
    /\ RingOK(timed, TimedCapacity) /\ RingOK(sparse, SparseCapacity)
    /\ RingOK(handovers, HandoverCapacity)
    /\ live \subseteq Cursors

\* One handover is recorded per writer after the first, before it publishes.
WritersCounted ==
    /\ issued_once => gen >= 0 /\ gen = handovers.published + (IF writer = "issuing" THEN 1 ELSE 0)
    /\ ~issued_once => writer = "free" /\ gen = -1 /\ handovers.published = 0

\* A sample stands at its own index and on its writer's side of every handover
\* still in the log.
TimedPlaced ==
    \A i \in Held(timed) :
        /\ EntryAt(timed, i).idx = i /\ EntryAt(timed, i).gen <= handovers.published
        /\ \A k \in Held(handovers) :
              EntryAt(timed, i).gen > k <=> EntryAt(handovers, k).timed_at <= i

SparsePlaced ==
    \A i \in Held(sparse) :
        /\ EntryAt(sparse, i).idx = i /\ EntryAt(sparse, i).gen <= handovers.published
        /\ \A k \in Held(handovers) :
              EntryAt(sparse, i).gen > k <=> EntryAt(handovers, k).sparse_at <= i

MarksInRange ==
    \A k \in Held(handovers) :
        /\ EntryAt(handovers, k).timed_at <= timed.published
        /\ EntryAt(handovers, k).sparse_at <= sparse.published

CursorStates ==
    [on : BOOLEAN, timed : Nat, sparse : Nat, handovers : Nat, timed_from : Nat, sparse_from : Nat]
Items == [kind : ItemKinds, n : Nat, idx : Nat]

\* The positions of a cursor are between where it joined and what there is.
InRange(p) ==
    /\ p.timed <= timed.published /\ p.sparse <= sparse.published
    /\ p.handovers <= handovers.published
    /\ p.timed_from <= p.timed /\ p.sparse_from <= p.sparse

\* What a cursor at p has yet to read comes from a writer whose handover it has
\* accounted for, or from a later one.
Ahead(p) ==
    /\ \A i \in Held(timed) : p.timed <= i => p.handovers <= EntryAt(timed, i).gen
    /\ \A i \in Held(sparse) : p.sparse <= i => p.handovers <= EntryAt(sparse, i).gen

\* Handover k lies beyond the place where a cursor at p joined.
Beyond(p, k) ==
    \/ EntryAt(handovers, k).timed_at > p.timed_from
    \/ EntryAt(handovers, k).sparse_at > p.sparse_from

\* A reader that believes in writer g has read past where it joined, so no
\* later handover is one its cursor may swallow.
Told(p, g) ==
    /\ g = p.handovers
    /\ p.timed > p.timed_from \/ p.sparse > p.sparse_from
    /\ \A k \in Held(handovers) : k >= p.handovers => Beyond(p, k)

LiveRight(p, g) == (g # Vague => Ahead(p)) /\ (g >= 0 => Told(p, g))

SamplesInv ==
    /\ TypeOK /\ Shape /\ WritersCounted
    /\ TimedPlaced /\ SparsePlaced /\ MarksInRange
    /\ \A c \in Cursors : InRange(cursor[c])
    /\ NoOvertake
    /\ \A c \in live : cursor[c].on => LiveRight(cursor[c], seen[c])

-----------------------------------------------------------------------------
\* Reading a ring by absolute index.
LEMMA RingLemma ==
    ASSUME NEW E, NEW r \in RingsOf(E), NEW cap, RingOK(r, cap)
    PROVE  /\ r.base \in Nat /\ r.published \in Nat /\ r.base <= r.published
           /\ \A k \in Held(r) : EntryAt(r, k) \in E
           /\ \A k \in Int : Resident(r, k) <=> k \in Held(r)
<1>1. /\ r.base \in Nat /\ r.published \in Nat /\ r.entries \in Seq(E)
      /\ r.base + Len(r.entries) = r.published
  BY DEF RingsOf, RingOK
<1>2. Len(r.entries) \in Nat
  BY <1>1, LenProperties
<1>3. ASSUME NEW k \in Held(r) PROVE EntryAt(r, k) \in E
  <2>1. k - r.base + 1 \in 1..Len(r.entries)
    BY <1>1, <1>2 DEF Held
  <2>2. r.entries[k - r.base + 1] \in E
    BY <1>1, <2>1, ElementOfSeq
  <2> QED BY <2>2 DEF EntryAt
<1>4. ASSUME NEW k \in Int PROVE Resident(r, k) <=> k \in Held(r)
  <2> DEFINE b == r.base
             p == r.published
             n == Len(r.entries)
  <2>1. b \in Nat /\ p \in Nat /\ n \in Nat /\ b + n = p
    BY <1>1, <1>2
  <2>2. Resident(r, k) <=> b <= k /\ k < b + n
    BY DEF Resident
  <2>3. k \in Held(r) <=> k \in b..(p - 1)
    BY DEF Held
  <2> HIDE DEF b, p, n
  <2> QED BY <2>1, <2>2, <2>3
<1> QED BY <1>1, <1>2, <1>3, <1>4

\* A push keeps every entry that stays at its absolute index.
LEMMA PushLemma ==
    ASSUME NEW E, NEW e \in E, NEW r \in RingsOf(E), NEW cap \in Nat \ {0}, RingOK(r, cap),
           NEW q, q = RingPush(r, cap, e)
    PROVE  /\ q \in RingsOf(E) /\ RingOK(q, cap)
           /\ q.published = r.published + 1 /\ r.base <= q.base
           /\ \A k \in Held(q) :
                 \/ k = r.published /\ EntryAt(q, k) = e
                 \/ k \in Held(r) /\ EntryAt(q, k) = EntryAt(r, k)
<1> DEFINE list == IF Len(r.entries) = cap THEN Tail(r.entries) ELSE r.entries
           d == IF Len(r.entries) = cap THEN 1 ELSE 0
<1>1. /\ r.base \in Nat /\ r.published \in Nat /\ r.entries \in Seq(E)
      /\ r.base + Len(r.entries) = r.published /\ Len(r.entries) <= cap
      /\ Len(r.entries) \in Nat
  BY LenProperties DEF RingsOf, RingOK
<1>2. /\ list \in Seq(E) /\ d \in 0..1 /\ Len(list) = Len(r.entries) - d /\ Len(list) + 1 <= cap
      /\ \A i \in 1..Len(list) : list[i] = r.entries[i + d]
  <2>1. CASE Len(r.entries) = cap
    <3>1. /\ Tail(r.entries) \in Seq(E) /\ Len(Tail(r.entries)) = Len(r.entries) - 1
          /\ \A i \in 1..(Len(r.entries) - 1) : Tail(r.entries)[i] = r.entries[i + 1]
      BY <1>1, <2>1
    <3> QED BY <1>1, <2>1, <3>1
  <2>2. CASE Len(r.entries) # cap
    <3>1. list = r.entries /\ d = 0
      BY <2>2
    <3> HIDE DEF list, d
    <3> QED BY <1>1, <2>2, <3>1
  <2> QED BY <2>1, <2>2
<1>3. q = [entries |-> Append(list, e), base |-> r.base + d, published |-> r.published + 1]
  <2>1. r.base + 0 = r.base
    BY <1>1
  <2> QED BY <2>1 DEF RingPush
<1> HIDE DEF list, d
<1>4. q.entries = Append(list, e) /\ q.base = r.base + d /\ q.published = r.published + 1
  BY <1>3
<1>5. /\ q.entries \in Seq(E) /\ Len(q.entries) = Len(list) + 1
      /\ \A i \in 1..Len(list) : q.entries[i] = list[i]
      /\ q.entries[Len(list) + 1] = e
  BY <1>2, <1>4, AppendProperties
<1> DEFINE m == Len(list)
           n == Len(r.entries)
           b == r.base
           p == r.published
<1>6. /\ m \in Nat /\ n \in Nat /\ b \in Nat /\ p \in Nat /\ b + n = p
      /\ d \in 0..1 /\ m = n - d /\ m + 1 <= cap
  BY <1>1, <1>2, LenProperties
<1> HIDE DEF m, n, b, p
<1>7. q \in RingsOf(E) /\ RingOK(q, cap)
  <2>1. q.base \in Nat /\ q.published \in Nat /\ q.base + Len(q.entries) = q.published
        /\ Len(q.entries) <= cap
    <3>1. b + d \in Nat /\ p + 1 \in Nat /\ b + d + (m + 1) = p + 1 /\ m + 1 <= cap
      BY <1>6
    <3>2. q.base = b + d /\ q.published = p + 1 /\ Len(q.entries) = m + 1
      BY <1>4, <1>5 DEF b, p, m
    <3> QED BY <3>1, <3>2
  <2> QED BY <1>3, <1>4, <1>5, <2>1 DEF RingsOf, RingOK
<1>8. ASSUME NEW k \in Held(q)
      PROVE  \/ k = r.published /\ EntryAt(q, k) = e
             \/ k \in Held(r) /\ EntryAt(q, k) = EntryAt(r, k)
  <2> DEFINE i == k - q.base + 1
  <2>1. k \in Int /\ q.base <= k /\ k <= q.published - 1
    BY <1>1, <1>2, <1>4 DEF Held
  <2>2. EntryAt(q, k) = q.entries[i]
    BY DEF EntryAt
  <2>3. CASE k = r.published
    <3>1. i = Len(list) + 1
      <4>1. i = p - (b + d) + 1
        BY <1>4, <2>3 DEF b, p
      <4> HIDE DEF i
      <4>2. i = m + 1
        BY <1>6, <4>1
      <4> QED BY <4>2 DEF m
    <3> HIDE DEF i
    <3> QED BY <1>5, <2>2, <2>3, <3>1
  <2>4. CASE k # r.published
    <3>1. i \in 1..Len(list) /\ i + d = k - r.base + 1 /\ k \in r.base..(r.published - 1)
      <4>1. i = k - (b + d) + 1 /\ b + d <= k /\ k <= (p + 1) - 1 /\ k # p
        BY <1>4, <2>1, <2>4 DEF b, p
      <4> HIDE DEF i
      <4>2. i \in 1..m /\ i + d = k - b + 1 /\ k \in b..(p - 1)
        BY <1>6, <2>1, <4>1
      <4> QED BY <4>2 DEF b, p, m
    <3>2. q.entries[i] = r.entries[k - r.base + 1]
      <4> HIDE DEF i
      <4>1. q.entries[i] = list[i] /\ list[i] = r.entries[i + d]
        BY <1>2, <1>5, <3>1
      <4> QED BY <3>1, <4>1
    <3> QED BY <2>2, <3>1, <3>2 DEF EntryAt, Held
  <2> QED BY <2>3, <2>4
<1>9. r.base <= q.base
  BY <1>1, <1>2, <1>4
<1> QED BY <1>4, <1>7, <1>8, <1>9

\* The numbers and the entries of the three rings.
LEMMA RingFacts ==
    ASSUME Shape
    PROVE  /\ timed.base \in Nat /\ timed.published \in Nat /\ timed.base <= timed.published
           /\ sparse.base \in Nat /\ sparse.published \in Nat /\ sparse.base <= sparse.published
           /\ handovers.base \in Nat /\ handovers.published \in Nat
           /\ handovers.base <= handovers.published
           /\ \A k \in Held(timed) : EntryAt(timed, k) \in Samples
           /\ \A k \in Held(sparse) : EntryAt(sparse, k) \in Samples
           /\ \A k \in Held(handovers) : EntryAt(handovers, k) \in Marks
           /\ \A k \in Int : Resident(timed, k) <=> k \in Held(timed)
           /\ \A k \in Int : Resident(sparse, k) <=> k \in Held(sparse)
<1>1. /\ timed \in RingsOf(Samples) /\ sparse \in RingsOf(Samples) /\ handovers \in RingsOf(Marks)
      /\ RingOK(timed, TimedCapacity) /\ RingOK(sparse, SparseCapacity)
      /\ RingOK(handovers, HandoverCapacity)
  BY DEF Shape
<1>2. /\ timed.base \in Nat /\ timed.published \in Nat /\ timed.base <= timed.published
      /\ \A k \in Held(timed) : EntryAt(timed, k) \in Samples
      /\ \A k \in Int : Resident(timed, k) <=> k \in Held(timed)
  BY <1>1, RingLemma
<1>3. /\ sparse.base \in Nat /\ sparse.published \in Nat /\ sparse.base <= sparse.published
      /\ \A k \in Held(sparse) : EntryAt(sparse, k) \in Samples
      /\ \A k \in Int : Resident(sparse, k) <=> k \in Held(sparse)
  BY <1>1, RingLemma
<1>4. /\ handovers.base \in Nat /\ handovers.published \in Nat
      /\ handovers.base <= handovers.published
      /\ \A k \in Held(handovers) : EntryAt(handovers, k) \in Marks
  BY <1>1, RingLemma
<1> QED BY <1>2, <1>3, <1>4

\* The positions of a cursor.
LEMMA CursorFacts ==
    ASSUME TypeOK, NEW c \in Cursors
    PROVE  /\ cursor[c] \in CursorStates /\ cursor[c].on \in BOOLEAN
           /\ cursor[c].timed \in Nat /\ cursor[c].sparse \in Nat /\ cursor[c].handovers \in Nat
           /\ cursor[c].timed_from \in Nat /\ cursor[c].sparse_from \in Nat
           /\ item[c] \in Items /\ seen[c] \in -2..MaxGeneration
<1>1. cursor \in [Cursors -> CursorStates] /\ item \in [Cursors -> Items]
      /\ seen \in [Cursors -> -2..MaxGeneration]
  BY DEF TypeOK, CursorStates, Items
<1>2. cursor[c] \in CursorStates /\ item[c] \in Items /\ seen[c] \in -2..MaxGeneration
  BY <1>1
<1> QED BY <1>2 DEF CursorStates

\* The while loop of poll stops somewhere, having swallowed every handover before.
LEMMA SettledLemma ==
    ASSUME SamplesInv, NEW c \in Cursors
    PROVE  /\ Settled(c) \in cursor[c].handovers..handovers.published
           /\ Settled(c) < handovers.published => ~Reached(c, Settled(c)) \/ Reportable(c, Settled(c))
           /\ \A j \in cursor[c].handovers..(Settled(c) - 1) : Reached(c, j) /\ ~Reportable(c, j)
<1> DEFINE from == cursor[c].handovers
           to == handovers.published
           Stops(k) == k < to => ~Reached(c, k) \/ Reportable(c, k)
           Stop == {k \in from..to : Stops(k)}
           below == {ss \in Nat \X Nat : ss[1] < ss[2]}
           P(k) == Stops(k) /\ \A j \in from..(k - 1) : Reached(c, j) /\ ~Reportable(c, j)
<1>1. from \in Nat /\ to \in Nat /\ from <= to
  BY RingFacts, CursorFacts DEF SamplesInv, InRange
<1>2. IsWellFoundedOn(below, Nat)
  BY NatLessThanWellFounded DEF OpToRel
<1>3. Stop \subseteq Nat /\ to \in Stop
  <2> HIDE DEF from, to
  <2> QED BY <1>1
<1>4. PICK k \in Stop : \A m \in Stop : ~(<<m, k>> \in below)
  <2> HIDE DEF below, Stop
  <2> QED BY <1>2, <1>3, WFMin
<1>5. k \in from..to /\ Stops(k) /\ k \in Nat
  BY <1>3, <1>4
<1>6. ASSUME NEW j \in from..(k - 1) PROVE Reached(c, j) /\ ~Reportable(c, j)
  <2> HIDE DEF from, to
  <2>1. j \in Nat /\ j < k /\ j \in from..to /\ j < to
    BY <1>1, <1>5
  <2>2. <<j, k>> \in Nat \X Nat /\ <<j, k>>[1] = j /\ <<j, k>>[2] = k
    BY <1>5, <2>1
  <2>3. <<j, k>> \in below
    BY <2>1, <2>2
  <2>4. j \notin Stop
    BY <1>4, <2>3
  <2> QED BY <2>1, <2>4
<1>7. \E x \in from..to : P(x)
  BY <1>5, <1>6
<1>8. Settled(c) = CHOOSE x \in from..to : P(x)
  BY DEF Settled
<1>9. Settled(c) \in from..to /\ P(Settled(c))
  <2> HIDE DEF from, to, P
  <2> QED BY <1>7, <1>8
<1> QED BY <1>9

-----------------------------------------------------------------------------
LEMMA SamplesInit == Init => SamplesInv
<1> SUFFICES ASSUME Init PROVE SamplesInv
  OBVIOUS
<1>1. /\ timed = EmptyRing /\ sparse = EmptyRing /\ handovers = EmptyRing
      /\ writer = "free" /\ issued_once = FALSE /\ gen = -1 /\ live = {}
      /\ cursor = [c \in Cursors |-> NoCursor] /\ item = [c \in Cursors |-> NoItem]
      /\ seen = [c \in Cursors |-> Unknown]
  BY DEF Init
<1>2. /\ EmptyRing.base = 0 /\ EmptyRing.published = 0 /\ Held(EmptyRing) = {}
      /\ Len(EmptyRing.entries) = 0
  BY DEF EmptyRing, Held
<1>3. EmptyRing \in RingsOf(Samples) /\ EmptyRing \in RingsOf(Marks)
  BY DEF EmptyRing, RingsOf
<1>4. Shape
  BY <1>1, <1>2, <1>3, CapacityAssumption DEF Shape, RingOK
<1>5. NoCursor \in CursorStates /\ NoItem \in Items /\ Unknown \in -2..MaxGeneration
  <2>1. NoCursor \in CursorStates
    BY DEF NoCursor, CursorStates
  <2>2. NoItem \in Items
    BY DEF NoItem, Item, Items, ItemKinds
  <2> QED BY <2>1, <2>2, BoundAssumption DEF Unknown
<1>6. TypeOK
  <2>1. cursor \in [Cursors -> CursorStates] /\ item \in [Cursors -> Items]
        /\ seen \in [Cursors -> -2..MaxGeneration]
    BY <1>1, <1>5
  <2>2. gen \in -1..MaxGeneration
    BY <1>1, BoundAssumption
  <2>3. /\ \A r \in {timed, sparse, handovers} : r.base \in Nat /\ r.published \in Nat
        /\ writer \in {"free", "issuing", "live"} /\ issued_once \in BOOLEAN
    <3>1. EmptyRing.base \in Nat /\ EmptyRing.published \in Nat
      BY <1>2
    <3>2. \A r \in {timed, sparse, handovers} : r = EmptyRing
      BY <1>1
    <3>3. writer \in {"free", "issuing", "live"} /\ issued_once \in BOOLEAN
      BY <1>1
    <3> QED BY <3>1, <3>2, <3>3, Zenon
  <2> QED BY <2>1, <2>2, <2>3 DEF TypeOK, CursorStates, Items
<1>7. TimedPlaced /\ SparsePlaced /\ MarksInRange /\ WritersCounted
  BY <1>1, <1>2 DEF TimedPlaced, SparsePlaced, MarksInRange, WritersCounted
<1>8. \A c \in Cursors : InRange(cursor[c]) /\ ~cursor[c].on
  BY <1>1, <1>2 DEF InRange, NoCursor
<1> QED BY <1>1, <1>4, <1>6, <1>7, <1>8 DEF SamplesInv, NoOvertake

\* A step that moves one cursor and leaves the rings and the writer alone.
LEMMA CursorStep ==
    ASSUME SamplesInv, NEW c \in Cursors, NEW new \in CursorStates, NEW it \in Items,
           NEW g \in -2..MaxGeneration,
           cursor' = [cursor EXCEPT ![c] = new], item' = [item EXCEPT ![c] = it],
           seen' = [seen EXCEPT ![c] = g], UNCHANGED <<logVars, writerVars>>,
           live' \subseteq live \cup {c},
           InRange(new), new.on /\ IsData(it) => it.n <= new.handovers,
           c \in live' /\ new.on => LiveRight(new, g)
    PROVE  SamplesInv'
<1>1. UNCHANGED <<timed, sparse, handovers, writer, issued_once, gen>>
  BY DEF logVars, writerVars
<1>2. /\ cursor \in [Cursors -> CursorStates] /\ item \in [Cursors -> Items]
      /\ seen \in [Cursors -> -2..MaxGeneration] /\ live \subseteq Cursors
  BY DEF SamplesInv, TypeOK, Shape, CursorStates, Items
<1>3. /\ cursor' \in [Cursors -> CursorStates] /\ item' \in [Cursors -> Items]
      /\ seen' \in [Cursors -> -2..MaxGeneration] /\ live' \subseteq Cursors
      /\ cursor'[c] = new /\ item'[c] = it /\ seen'[c] = g
      /\ \A d \in Cursors \ {c} : cursor'[d] = cursor[d] /\ item'[d] = item[d] /\ seen'[d] = seen[d]
  BY <1>2
<1>4. TypeOK' /\ Shape' /\ WritersCounted'
  <2>1. TypeOK'
    BY <1>1, <1>3 DEF SamplesInv, TypeOK, CursorStates, Items
  <2>2. Shape'
    BY <1>1, <1>3 DEF SamplesInv, Shape
  <2>3. WritersCounted'
    BY <1>1 DEF SamplesInv, WritersCounted
  <2> QED BY <2>1, <2>2, <2>3
<1>5. TimedPlaced' /\ SparsePlaced' /\ MarksInRange'
  BY <1>1 DEF SamplesInv, TimedPlaced, SparsePlaced, MarksInRange
<1>6. ASSUME NEW d \in Cursors PROVE InRange(cursor[d])'
  <2>1. InRange(cursor'[d])
    BY <1>3 DEF SamplesInv
  <2> QED BY <1>1, <2>1 DEF InRange
<1>7. NoOvertake'
  BY <1>3 DEF SamplesInv, NoOvertake
<1>8. ASSUME NEW d \in live', cursor'[d].on PROVE LiveRight(cursor[d], seen[d])'
  <2>1. LiveRight(cursor'[d], seen'[d])
    BY <1>2, <1>3, <1>8 DEF SamplesInv
  <2> QED BY <1>1, <2>1 DEF LiveRight, Ahead, Told, Beyond
<1> QED BY <1>4, <1>5, <1>6, <1>7, <1>8 DEF SamplesInv

\* Trunk::writer before its lock, and the drop of a TrunkWriter.
LEMMA WriterStep ==
    ASSUME SamplesInv, TakeWriter \/ DropWriter
    PROVE  SamplesInv'
<1>1. UNCHANGED <<timed, sparse, handovers, cursor, item, seen, live>>
  BY DEF TakeWriter, DropWriter, logVars
<1>2. /\ writer \in {"free", "issuing", "live"} /\ issued_once \in BOOLEAN
      /\ gen \in -1..MaxGeneration /\ MaxGeneration \in Nat /\ handovers.published \in Nat
  BY BoundAssumption, RingFacts DEF SamplesInv, TypeOK
<1>3. /\ issued_once => gen >= 0 /\ gen = handovers.published + (IF writer = "issuing" THEN 1 ELSE 0)
      /\ ~issued_once => writer = "free" /\ gen = -1 /\ handovers.published = 0
  BY DEF SamplesInv, WritersCounted
<1>4. /\ writer' \in {"free", "issuing", "live"} /\ issued_once' \in BOOLEAN
      /\ gen' \in -1..MaxGeneration /\ WritersCounted'
  <2>1. CASE TakeWriter /\ issued_once
    <3>1. /\ writer = "free" /\ gen < MaxGeneration /\ writer' = "issuing" /\ issued_once' = TRUE
          /\ gen' = gen + 1 /\ handovers' = handovers
      BY <1>1, <2>1 DEF TakeWriter
    <3>2. gen' \in -1..MaxGeneration /\ gen' >= 0 /\ gen' = handovers.published + 1
      BY <1>2, <1>3, <2>1, <3>1
    <3> QED BY <3>1, <3>2 DEF WritersCounted
  <2>2. CASE TakeWriter /\ ~issued_once
    <3>1. /\ writer = "free" /\ gen < MaxGeneration /\ writer' = "live" /\ issued_once' = TRUE
          /\ gen' = gen + 1 /\ handovers' = handovers
      BY <1>1, <2>2 DEF TakeWriter
    <3>2. gen' \in -1..MaxGeneration /\ gen' >= 0 /\ gen' = handovers.published + 0
      BY <1>2, <1>3, <2>2, <3>1
    <3> QED BY <3>1, <3>2 DEF WritersCounted
  <2>3. CASE DropWriter
    <3>1. writer = "live" /\ writer' = "free" /\ issued_once' = issued_once /\ gen' = gen
          /\ handovers' = handovers
      BY <1>1, <2>3 DEF DropWriter
    <3> QED BY <1>2, <1>3, <3>1 DEF WritersCounted
  <2> QED BY <1>2, <2>1, <2>2, <2>3
<1>5. TypeOK' /\ Shape'
  BY <1>1, <1>4 DEF SamplesInv, TypeOK, Shape
<1>6. TimedPlaced' /\ SparsePlaced' /\ MarksInRange' /\ NoOvertake'
  BY <1>1 DEF SamplesInv, TimedPlaced, SparsePlaced, MarksInRange, NoOvertake
<1>7. \A c \in Cursors : InRange(cursor[c])'
  BY <1>1 DEF SamplesInv, InRange
<1>8. \A c \in live' : cursor'[c].on => LiveRight(cursor[c], seen[c])'
  BY <1>1 DEF SamplesInv, LiveRight, Ahead, Told, Beyond
<1> QED BY <1>4, <1>5, <1>6, <1>7, <1>8 DEF SamplesInv

\* Trunk::writer under the lock: the mark stands after all that was published.
LEMMA HandoverStep ==
    ASSUME SamplesInv, RecordHandover
    PROVE  SamplesInv'
<1> DEFINE mark == [timed_at |-> timed.published, sparse_at |-> sparse.published]
<1>1. /\ writer = "issuing" /\ writer' = "live" /\ handovers' = RingPush(handovers, HandoverCapacity, mark)
      /\ UNCHANGED <<timed, sparse, issued_once, gen, cursor, item, seen, live>>
  BY DEF RecordHandover
<1>2. /\ TypeOK /\ Shape /\ handovers \in RingsOf(Marks) /\ RingOK(handovers, HandoverCapacity)
  BY DEF SamplesInv, Shape
<1>3. /\ timed.base \in Nat /\ timed.published \in Nat
      /\ sparse.base \in Nat /\ sparse.published \in Nat
      /\ handovers.base \in Nat /\ handovers.published \in Nat
      /\ \A k \in Held(timed) : EntryAt(timed, k).gen \in Nat
      /\ \A k \in Held(sparse) : EntryAt(sparse, k).gen \in Nat
  BY <1>2, RingFacts DEF Samples
<1>4. mark \in Marks /\ mark.timed_at = timed.published /\ mark.sparse_at = sparse.published
  BY <1>3 DEF Marks
<1> HIDE DEF mark
<1>5. /\ handovers' \in RingsOf(Marks) /\ RingOK(handovers', HandoverCapacity)
      /\ handovers'.published = handovers.published + 1
      /\ \A k \in Held(handovers') :
            \/ k = handovers.published /\ EntryAt(handovers', k) = mark
            \/ k \in Held(handovers) /\ EntryAt(handovers', k) = EntryAt(handovers, k)
  BY <1>1, <1>2, <1>4, CapacityAssumption, PushLemma
<1>6. Shape'
  BY <1>1, <1>2, <1>5 DEF Shape
<1>7. TypeOK'
  <2>1. handovers'.base \in Nat /\ handovers'.published \in Nat
    BY <1>5 DEF RingsOf
  <2> QED BY <1>1, <1>2, <2>1 DEF TypeOK
<1>8. WritersCounted'
  <2>1. issued_once /\ gen >= 0 /\ gen = handovers.published + 1
    BY <1>1 DEF SamplesInv, WritersCounted
  <2>2. gen' = handovers'.published + 0 /\ gen' >= 0 /\ issued_once' /\ writer' = "live"
    BY <1>1, <1>3, <1>5, <2>1
  <2> QED BY <2>2 DEF WritersCounted
<1>9. TimedPlaced'
  <2> SUFFICES ASSUME NEW i \in Held(timed)
               PROVE  /\ EntryAt(timed, i).idx = i /\ EntryAt(timed, i).gen <= handovers'.published
                      /\ \A k \in Held(handovers') :
                            EntryAt(timed, i).gen > k <=> EntryAt(handovers', k).timed_at <= i
    BY <1>1 DEF TimedPlaced
  <2>1. /\ EntryAt(timed, i).idx = i /\ EntryAt(timed, i).gen <= handovers.published
        /\ \A k \in Held(handovers) :
              EntryAt(timed, i).gen > k <=> EntryAt(handovers, k).timed_at <= i
    BY DEF SamplesInv, TimedPlaced
  <2>2. i \in Int /\ i < timed.published
    BY <1>3 DEF Held
  <2>3. EntryAt(timed, i).gen <= handovers.published + 1 /\ ~(EntryAt(timed, i).gen > handovers.published)
        /\ ~(timed.published <= i)
    BY <1>3, <2>1, <2>2
  <2> QED BY <1>4, <1>5, <2>1, <2>3
<1>10. SparsePlaced'
  <2> SUFFICES ASSUME NEW i \in Held(sparse)
               PROVE  /\ EntryAt(sparse, i).idx = i /\ EntryAt(sparse, i).gen <= handovers'.published
                      /\ \A k \in Held(handovers') :
                            EntryAt(sparse, i).gen > k <=> EntryAt(handovers', k).sparse_at <= i
    BY <1>1 DEF SparsePlaced
  <2>1. /\ EntryAt(sparse, i).idx = i /\ EntryAt(sparse, i).gen <= handovers.published
        /\ \A k \in Held(handovers) :
              EntryAt(sparse, i).gen > k <=> EntryAt(handovers, k).sparse_at <= i
    BY DEF SamplesInv, SparsePlaced
  <2>2. i \in Int /\ i < sparse.published
    BY <1>3 DEF Held
  <2>3. EntryAt(sparse, i).gen <= handovers.published + 1 /\ ~(EntryAt(sparse, i).gen > handovers.published)
        /\ ~(sparse.published <= i)
    BY <1>3, <2>1, <2>2
  <2> QED BY <1>4, <1>5, <2>1, <2>3
<1>11. MarksInRange'
  BY <1>1, <1>3, <1>4, <1>5 DEF SamplesInv, MarksInRange
<1>12. ASSUME NEW c \in Cursors PROVE InRange(cursor[c])'
  <2>1. InRange(cursor[c]) /\ cursor[c].handovers \in Nat
    BY <1>2, CursorFacts DEF SamplesInv
  <2> QED BY <1>1, <1>3, <1>5, <2>1 DEF InRange
<1>13. NoOvertake'
  BY <1>1 DEF SamplesInv, NoOvertake
<1>14. ASSUME NEW c \in live, cursor[c].on PROVE LiveRight(cursor[c], seen[c])'
  <2> DEFINE p == cursor[c]
  <2>1. c \in Cursors /\ LiveRight(p, seen[c]) /\ InRange(p)
    BY <1>2, <1>14 DEF SamplesInv, Shape
  <2>2. /\ p.timed \in Nat /\ p.sparse \in Nat /\ p.timed_from \in Nat /\ p.sparse_from \in Nat
    BY <1>2, <2>1, CursorFacts
  <2>3. UNCHANGED <<p, timed, sparse, seen>>
    BY <1>1
  <2> HIDE DEF p
  <2>4. ASSUME Told(p, seen[c]) PROVE Told(p, seen[c])'
    <3>1. timed.published > p.timed_from \/ sparse.published > p.sparse_from
      BY <1>3, <2>1, <2>2, <2>4 DEF Told, InRange
    <3>2. ASSUME NEW k \in Held(handovers'), k >= p.handovers
          PROVE  \/ EntryAt(handovers', k).timed_at > p.timed_from
                 \/ EntryAt(handovers', k).sparse_at > p.sparse_from
      BY <1>4, <1>5, <2>4, <3>1, <3>2 DEF Told, Beyond
    <3> QED BY <2>3, <2>4, <3>2 DEF Told, Beyond
  <2>5. ASSUME Ahead(p) PROVE Ahead(p)'
    BY <2>3, <2>5 DEF Ahead
  <2>6. LiveRight(p, seen[c])'
    BY <2>1, <2>3, <2>4, <2>5 DEF LiveRight
  <2> QED BY <2>6 DEF p
<1> QED BY <1>1, <1>6, <1>7, <1>8, <1>9, <1>10, <1>11, <1>12, <1>13, <1>14 DEF SamplesInv

\* TrunkWriter::publish of a timed sample: a new entry is the live writer's,
\* beyond every handover recorded.
LEMMA PublishTimedStep ==
    ASSUME SamplesInv, PublishTimed
    PROVE  SamplesInv'
<1> DEFINE e == [gen |-> gen, idx |-> timed.published]
<1>1. /\ writer = "live" /\ timed' = RingPush(timed, TimedCapacity, e)
      /\ UNCHANGED <<sparse, handovers, writer, issued_once, gen, cursor, item, seen, live>>
  BY DEF PublishTimed, writerVars
<1>2. TypeOK /\ Shape /\ timed \in RingsOf(Samples) /\ RingOK(timed, TimedCapacity)
  BY DEF SamplesInv, Shape
<1>3. /\ timed.base \in Nat /\ timed.published \in Nat
      /\ handovers.base \in Nat /\ handovers.published \in Nat
      /\ \A k \in Held(handovers) : EntryAt(handovers, k).timed_at \in Nat
  BY <1>2, RingFacts DEF Marks
<1>4. gen \in Nat /\ gen = handovers.published
  <2>1. issued_once /\ gen >= 0 /\ gen = handovers.published + 0
    BY <1>1 DEF SamplesInv, WritersCounted
  <2> QED BY <1>3, <2>1
<1>5. e \in Samples /\ e.gen = handovers.published /\ e.idx = timed.published
  BY <1>3, <1>4 DEF Samples
<1> HIDE DEF e
<1>6. /\ timed' \in RingsOf(Samples) /\ RingOK(timed', TimedCapacity)
      /\ timed'.published = timed.published + 1
      /\ \A k \in Held(timed') :
            \/ k = timed.published /\ EntryAt(timed', k) = e
            \/ k \in Held(timed) /\ EntryAt(timed', k) = EntryAt(timed, k)
  BY <1>1, <1>2, <1>5, CapacityAssumption, PushLemma
<1>7. Shape'
  BY <1>1, <1>2, <1>6 DEF Shape
<1>8. TypeOK'
  <2>1. timed'.base \in Nat /\ timed'.published \in Nat
    BY <1>6 DEF RingsOf
  <2> QED BY <1>1, <1>2, <2>1 DEF TypeOK
<1>9. TimedPlaced'
  <2> SUFFICES ASSUME NEW i \in Held(timed')
               PROVE  /\ EntryAt(timed', i).idx = i /\ EntryAt(timed', i).gen <= handovers.published
                      /\ \A k \in Held(handovers) :
                            EntryAt(timed', i).gen > k <=> EntryAt(handovers, k).timed_at <= i
    BY <1>1 DEF TimedPlaced
  <2>1. CASE i = timed.published /\ EntryAt(timed', i) = e
    <3>1. ASSUME NEW k \in Held(handovers)
          PROVE  handovers.published > k /\ EntryAt(handovers, k).timed_at <= timed.published
      <4>1. handovers.published > k
        BY <1>3 DEF Held
      <4> QED BY <4>1 DEF SamplesInv, MarksInRange
    <3> QED BY <1>3, <1>5, <2>1, <3>1
  <2>2. CASE i \in Held(timed) /\ EntryAt(timed', i) = EntryAt(timed, i)
    BY <2>2 DEF SamplesInv, TimedPlaced
  <2> QED BY <1>6, <2>1, <2>2
<1>10. SparsePlaced' /\ WritersCounted' /\ NoOvertake'
  BY <1>1 DEF SamplesInv, SparsePlaced, WritersCounted, NoOvertake
<1>11. MarksInRange'
  <2> SUFFICES ASSUME NEW k \in Held(handovers)
               PROVE  /\ EntryAt(handovers, k).timed_at <= timed'.published
                      /\ EntryAt(handovers, k).sparse_at <= sparse.published
    BY <1>1 DEF MarksInRange
  <2>1. /\ EntryAt(handovers, k).timed_at <= timed.published
        /\ EntryAt(handovers, k).sparse_at <= sparse.published
    BY DEF SamplesInv, MarksInRange
  <2> QED BY <1>3, <1>6, <2>1
<1>12. ASSUME NEW c \in Cursors PROVE InRange(cursor[c])'
  <2>1. InRange(cursor[c]) /\ cursor[c].timed \in Nat
    BY <1>2, CursorFacts DEF SamplesInv
  <2> QED BY <1>1, <1>3, <1>6, <2>1 DEF InRange
<1>13. ASSUME NEW c \in live, cursor[c].on PROVE LiveRight(cursor[c], seen[c])'
  <2> DEFINE p == cursor[c]
  <2>1. c \in Cursors /\ LiveRight(p, seen[c]) /\ InRange(p)
    BY <1>2, <1>13 DEF SamplesInv, Shape
  <2>2. UNCHANGED <<p, sparse, handovers, seen>>
    BY <1>1
  <2> HIDE DEF p
  <2>3. ASSUME Told(p, seen[c]) PROVE Told(p, seen[c])'
    BY <2>2, <2>3 DEF Told, Beyond
  <2>4. ASSUME Ahead(p) PROVE Ahead(p)'
    <3>1. ASSUME NEW i \in Held(timed'), p.timed <= i
          PROVE  p.handovers <= EntryAt(timed', i).gen
      BY <1>5, <1>6, <2>1, <2>4, <3>1 DEF InRange, Ahead
    <3> QED BY <2>2, <2>4, <3>1 DEF Ahead
  <2>5. LiveRight(p, seen[c])'
    BY <2>1, <2>2, <2>3, <2>4 DEF LiveRight
  <2> QED BY <2>5 DEF p
<1> QED BY <1>1, <1>7, <1>8, <1>9, <1>10, <1>11, <1>12, <1>13 DEF SamplesInv

\* The same for a sparse sample.
LEMMA PublishSparseStep ==
    ASSUME SamplesInv, PublishSparse
    PROVE  SamplesInv'
<1> DEFINE e == [gen |-> gen, idx |-> sparse.published]
<1>1. /\ writer = "live" /\ sparse' = RingPush(sparse, SparseCapacity, e)
      /\ UNCHANGED <<timed, handovers, writer, issued_once, gen, cursor, item, seen, live>>
  BY DEF PublishSparse, writerVars
<1>2. TypeOK /\ Shape /\ sparse \in RingsOf(Samples) /\ RingOK(sparse, SparseCapacity)
  BY DEF SamplesInv, Shape
<1>3. /\ sparse.base \in Nat /\ sparse.published \in Nat
      /\ handovers.base \in Nat /\ handovers.published \in Nat
      /\ \A k \in Held(handovers) : EntryAt(handovers, k).sparse_at \in Nat
  BY <1>2, RingFacts DEF Marks
<1>4. gen \in Nat /\ gen = handovers.published
  <2>1. issued_once /\ gen >= 0 /\ gen = handovers.published + 0
    BY <1>1 DEF SamplesInv, WritersCounted
  <2> QED BY <1>3, <2>1
<1>5. e \in Samples /\ e.gen = handovers.published /\ e.idx = sparse.published
  BY <1>3, <1>4 DEF Samples
<1> HIDE DEF e
<1>6. /\ sparse' \in RingsOf(Samples) /\ RingOK(sparse', SparseCapacity)
      /\ sparse'.published = sparse.published + 1
      /\ \A k \in Held(sparse') :
            \/ k = sparse.published /\ EntryAt(sparse', k) = e
            \/ k \in Held(sparse) /\ EntryAt(sparse', k) = EntryAt(sparse, k)
  BY <1>1, <1>2, <1>5, CapacityAssumption, PushLemma
<1>7. Shape'
  BY <1>1, <1>2, <1>6 DEF Shape
<1>8. TypeOK'
  <2>1. sparse'.base \in Nat /\ sparse'.published \in Nat
    BY <1>6 DEF RingsOf
  <2> QED BY <1>1, <1>2, <2>1 DEF TypeOK
<1>9. SparsePlaced'
  <2> SUFFICES ASSUME NEW i \in Held(sparse')
               PROVE  /\ EntryAt(sparse', i).idx = i /\ EntryAt(sparse', i).gen <= handovers.published
                      /\ \A k \in Held(handovers) :
                            EntryAt(sparse', i).gen > k <=> EntryAt(handovers, k).sparse_at <= i
    BY <1>1 DEF SparsePlaced
  <2>1. CASE i = sparse.published /\ EntryAt(sparse', i) = e
    <3>1. ASSUME NEW k \in Held(handovers)
          PROVE  handovers.published > k /\ EntryAt(handovers, k).sparse_at <= sparse.published
      <4>1. handovers.published > k
        BY <1>3 DEF Held
      <4> QED BY <4>1 DEF SamplesInv, MarksInRange
    <3> QED BY <1>3, <1>5, <2>1, <3>1
  <2>2. CASE i \in Held(sparse) /\ EntryAt(sparse', i) = EntryAt(sparse, i)
    BY <2>2 DEF SamplesInv, SparsePlaced
  <2> QED BY <1>6, <2>1, <2>2
<1>10. TimedPlaced' /\ WritersCounted' /\ NoOvertake'
  BY <1>1 DEF SamplesInv, TimedPlaced, WritersCounted, NoOvertake
<1>11. MarksInRange'
  <2> SUFFICES ASSUME NEW k \in Held(handovers)
               PROVE  /\ EntryAt(handovers, k).sparse_at <= sparse'.published
                      /\ EntryAt(handovers, k).timed_at <= timed.published
    BY <1>1 DEF MarksInRange
  <2>1. /\ EntryAt(handovers, k).sparse_at <= sparse.published
        /\ EntryAt(handovers, k).timed_at <= timed.published
    BY DEF SamplesInv, MarksInRange
  <2> QED BY <1>3, <1>6, <2>1
<1>12. ASSUME NEW c \in Cursors PROVE InRange(cursor[c])'
  <2>1. InRange(cursor[c]) /\ cursor[c].sparse \in Nat
    BY <1>2, CursorFacts DEF SamplesInv
  <2> QED BY <1>1, <1>3, <1>6, <2>1 DEF InRange
<1>13. ASSUME NEW c \in live, cursor[c].on PROVE LiveRight(cursor[c], seen[c])'
  <2> DEFINE p == cursor[c]
  <2>1. c \in Cursors /\ LiveRight(p, seen[c]) /\ InRange(p)
    BY <1>2, <1>13 DEF SamplesInv, Shape
  <2>2. UNCHANGED <<p, timed, handovers, seen>>
    BY <1>1
  <2> HIDE DEF p
  <2>3. ASSUME Told(p, seen[c]) PROVE Told(p, seen[c])'
    BY <2>2, <2>3 DEF Told, Beyond
  <2>4. ASSUME Ahead(p) PROVE Ahead(p)'
    <3>1. ASSUME NEW i \in Held(sparse'), p.sparse <= i
          PROVE  p.handovers <= EntryAt(sparse', i).gen
      BY <1>5, <1>6, <2>1, <2>4, <3>1 DEF InRange, Ahead
    <3> QED BY <2>2, <2>4, <3>1 DEF Ahead
  <2>5. LiveRight(p, seen[c])'
    BY <2>1, <2>2, <2>3, <2>4 DEF LiveRight
  <2> QED BY <2>5 DEF p
<1> QED BY <1>1, <1>7, <1>8, <1>9, <1>10, <1>11, <1>12, <1>13 DEF SamplesInv

-----------------------------------------------------------------------------
\* What poll knows once it has no loss to report.
LEMMA SwallowLemma ==
    ASSUME SamplesInv, NEW c \in Cursors, NoLoss(c)
    PROVE  /\ Settled(c) \in Nat /\ cursor[c].handovers <= Settled(c)
           /\ Settled(c) <= handovers.published
           /\ Settled(c) < handovers.published => Settled(c) \in Held(handovers)
           /\ c \in live /\ cursor[c].on /\ seen[c] # Vague =>
                 /\ \A i \in Held(timed) :
                       cursor[c].timed <= i => Settled(c) <= EntryAt(timed, i).gen
                 /\ \A i \in Held(sparse) :
                       cursor[c].sparse <= i => Settled(c) <= EntryAt(sparse, i).gen
           /\ c \in live /\ cursor[c].on /\ seen[c] >= 0 => Settled(c) = cursor[c].handovers
<1> DEFINE k == Settled(c)
           h == cursor[c].handovers
<1>1. TypeOK /\ Shape
  BY DEF SamplesInv
<1>2. /\ h \in Nat /\ handovers.published \in Nat /\ handovers.base \in Nat
      /\ cursor[c].timed \in Nat /\ cursor[c].sparse \in Nat
      /\ timed.base \in Nat /\ sparse.base \in Nat
      /\ \A i \in Held(timed) : EntryAt(timed, i).gen \in Nat /\ i \in Int
      /\ \A i \in Held(sparse) : EntryAt(sparse, i).gen \in Nat /\ i \in Int
      /\ \A j \in Held(handovers) :
            EntryAt(handovers, j).timed_at \in Nat /\ EntryAt(handovers, j).sparse_at \in Nat
  BY <1>1, RingFacts, CursorFacts DEF Samples, Marks, Held
<1>3. handovers.base <= h
  BY <1>2 DEF NoLoss, LagsTimed, LagsSparse, LagsHandovers
<1>4. /\ k \in h..handovers.published
      /\ \A j \in h..(k - 1) : Reached(c, j) /\ ~Reportable(c, j)
  BY SettledLemma
<1> HIDE DEF k, h
<1>5. k \in Nat /\ h <= k /\ k <= handovers.published
  BY <1>2, <1>4
<1>6. /\ \A j \in h..(k - 1) : j \in Held(handovers)
      /\ k < handovers.published => k \in Held(handovers)
  BY <1>2, <1>3, <1>5 DEF Held
<1>7. ASSUME h < k
      PROVE  /\ k - 1 \in Held(handovers) /\ h \in Held(handovers)
             /\ EntryAt(handovers, k - 1).timed_at <= cursor[c].timed
             /\ EntryAt(handovers, k - 1).sparse_at <= cursor[c].sparse
             /\ ~Reportable(c, h)
  <2>1. k - 1 \in h..(k - 1) /\ h \in h..(k - 1)
    BY <1>2, <1>5, <1>7
  <2>2. Reached(c, k - 1) /\ k - 1 \in Held(handovers) /\ h \in Held(handovers) /\ ~Reportable(c, h)
    BY <1>4, <1>6, <2>1
  <2>3. /\ cursor[c].timed >= EntryAt(handovers, k - 1).timed_at
        /\ cursor[c].sparse >= EntryAt(handovers, k - 1).sparse_at
    BY <2>2 DEF Reached
  <2> QED BY <1>2, <2>2, <2>3
<1>8. ASSUME c \in live, cursor[c].on, seen[c] # Vague,
             NEW i \in Held(timed), cursor[c].timed <= i
      PROVE  k <= EntryAt(timed, i).gen
  <2>1. CASE h < k
    <3>1. EntryAt(handovers, k - 1).timed_at <= i
      BY <1>2, <1>7, <1>8, <2>1
    <3>2. EntryAt(timed, i).gen > k - 1
      BY <1>7, <2>1, <3>1 DEF SamplesInv, TimedPlaced
    <3> QED BY <1>2, <1>5, <3>2
  <2>2. CASE h = k
    <3>1. Ahead(cursor[c])
      BY <1>8 DEF SamplesInv, LiveRight
    <3> QED BY <1>8, <2>2, <3>1 DEF Ahead, h
  <2> QED BY <1>2, <1>5, <2>1, <2>2
<1>9. ASSUME c \in live, cursor[c].on, seen[c] # Vague,
             NEW i \in Held(sparse), cursor[c].sparse <= i
      PROVE  k <= EntryAt(sparse, i).gen
  <2>1. CASE h < k
    <3>1. EntryAt(handovers, k - 1).sparse_at <= i
      BY <1>2, <1>7, <1>9, <2>1
    <3>2. EntryAt(sparse, i).gen > k - 1
      BY <1>7, <2>1, <3>1 DEF SamplesInv, SparsePlaced
    <3> QED BY <1>2, <1>5, <3>2
  <2>2. CASE h = k
    <3>1. Ahead(cursor[c])
      BY <1>9 DEF SamplesInv, LiveRight
    <3> QED BY <1>9, <2>2, <3>1 DEF Ahead, h
  <2> QED BY <1>2, <1>5, <2>1, <2>2
<1>10. ASSUME c \in live, cursor[c].on, seen[c] >= 0 PROVE k = h
  <2>1. Told(cursor[c], seen[c])
    BY <1>10 DEF SamplesInv, LiveRight
  <2>2. ASSUME h < k PROVE FALSE
    <3>1. h \in Held(handovers) /\ ~Reportable(c, h)
      BY <1>7, <2>2
    <3>2. h >= h
      BY <1>2
    <3>3. Beyond(cursor[c], h)
      BY <2>1, <3>1, <3>2 DEF Told, h
    <3> QED BY <3>1, <3>3 DEF Beyond, Reportable
  <2> QED BY <1>2, <1>5, <2>2
<1> QED BY <1>5, <1>6, <1>8, <1>9, <1>10 DEF k, h

\* poll hands over a sparse sample: of the writer of the handover accounted for.
LEMMA SparseLemma ==
    ASSUME SamplesInv, NEW c \in Cursors, SparseReady(c)
    PROVE  /\ cursor[c].sparse \in Held(sparse)
           /\ EntryAt(sparse, cursor[c].sparse).gen <= Settled(c)
           /\ \A m \in Held(handovers) : m >= Settled(c) =>
                 EntryAt(handovers, m).sparse_at > cursor[c].sparse
<1> DEFINE i == cursor[c].sparse
           k == Settled(c)
           g == EntryAt(sparse, i).gen
<1>1. TypeOK /\ Shape /\ NoLoss(c) /\ ~SparseBlocked(c) /\ Resident(sparse, i)
  BY DEF SamplesInv, SparseReady
<1>2. i \in Nat /\ i \in Held(sparse) /\ handovers.published \in Nat /\ handovers.base \in Nat
  BY <1>1, RingFacts, CursorFacts
<1>3. k \in Nat /\ k <= handovers.published /\ (k < handovers.published => k \in Held(handovers))
  BY <1>1, SwallowLemma
<1>4. g \in Nat /\ \A m \in Held(handovers) : EntryAt(handovers, m).sparse_at \in Nat /\ m \in Int
  BY <1>1, <1>2, RingFacts DEF Samples, Marks, Held
<1>5. /\ g <= handovers.published
      /\ \A m \in Held(handovers) : g > m <=> EntryAt(handovers, m).sparse_at <= i
  BY <1>2 DEF SamplesInv, SparsePlaced
<1>6. k < handovers.published => ~(i >= EntryAt(handovers, k).sparse_at)
  BY <1>1 DEF SparseBlocked
<1> HIDE DEF i, k, g
<1>7. g <= k
  <2>1. CASE k = handovers.published
    BY <1>5, <2>1
  <2>2. CASE k < handovers.published
    <3>1. k \in Held(handovers) /\ ~(EntryAt(handovers, k).sparse_at <= i)
      BY <1>2, <1>3, <1>4, <1>6, <2>2
    <3>2. ~(g > k)
      BY <1>5, <3>1
    <3> QED BY <1>3, <1>4, <3>2
  <2> QED BY <1>2, <1>3, <2>1, <2>2
<1>8. ASSUME NEW m \in Held(handovers), m >= k PROVE EntryAt(handovers, m).sparse_at > i
  <2>1. ~(g > m)
    BY <1>3, <1>4, <1>7, <1>8
  <2>2. ~(EntryAt(handovers, m).sparse_at <= i)
    BY <1>5, <2>1
  <2> QED BY <1>2, <1>4, <2>2
<1> QED BY <1>2, <1>7, <1>8 DEF i, k, g

LEMMA PollSparseStep ==
    ASSUME SamplesInv, NEW c \in Cursors, PollSparse(c)
    PROVE  SamplesInv'
<1> DEFINE p == cursor[c]
           k == Settled(c)
           e == EntryAt(sparse, p.sparse)
           new == [p EXCEPT !.handovers = k, !.sparse = p.sparse + 1]
           it == Item("Sparse", e.gen, e.idx)
           g == Believes(c, e.gen)
<1>1. /\ p.on /\ SparseReady(c) /\ cursor' = [cursor EXCEPT ![c] = new]
      /\ item' = [item EXCEPT ![c] = it] /\ seen' = [seen EXCEPT ![c] = g]
      /\ UNCHANGED <<logVars, writerVars>> /\ live' = live
  BY DEF PollSparse, Returns
<1>2. TypeOK /\ Shape /\ NoLoss(c)
  BY <1>1 DEF SamplesInv, SparseReady
<1>3. /\ p \in CursorStates /\ p.sparse \in Nat /\ p.timed \in Nat /\ p.handovers \in Nat
      /\ p.sparse_from \in Nat /\ p.timed_from \in Nat /\ seen[c] \in -2..MaxGeneration
      /\ sparse.base \in Nat /\ sparse.published \in Nat /\ handovers.published \in Nat
      /\ timed.base \in Nat
  BY <1>2, CursorFacts, RingFacts
<1>4. k \in Nat /\ k <= handovers.published
  BY <1>2, SwallowLemma
<1>5. /\ p.sparse \in Held(sparse) /\ e.gen <= k
      /\ \A m \in Held(handovers) : m >= k => EntryAt(handovers, m).sparse_at > p.sparse
  BY <1>1, SparseLemma
<1>6. e.gen \in Nat /\ e.idx \in Nat /\ p.sparse < sparse.published
      /\ \A m \in Held(handovers) : EntryAt(handovers, m).sparse_at \in Nat
  <2>1. e \in Samples /\ \A m \in Held(handovers) : EntryAt(handovers, m) \in Marks
    BY <1>2, <1>5, RingFacts
  <2>2. p.sparse < sparse.published
    BY <1>3, <1>5 DEF Held
  <2> QED BY <2>1, <2>2 DEF Samples, Marks
<1>7. g \in -2..MaxGeneration
  <2>1. gen \in -1..MaxGeneration /\ MaxGeneration \in Nat
    BY <1>2, BoundAssumption DEF TypeOK
  <2>2. handovers.published <= gen \/ handovers.published = 0
    BY <1>3, <2>1 DEF SamplesInv, WritersCounted
  <2>3. e.gen \in 0..MaxGeneration
    <3> HIDE DEF e, k
    <3> QED BY <1>3, <1>4, <1>5, <1>6, <2>1, <2>2
  <2> HIDE DEF e
  <2> QED BY <1>3, <2>1, <2>3 DEF Believes, Vague
<1>8. /\ new \in CursorStates /\ new.on = p.on /\ new.timed = p.timed /\ new.sparse = p.sparse + 1
      /\ new.handovers = k /\ new.timed_from = p.timed_from /\ new.sparse_from = p.sparse_from
  <2> DEFINE s == p.sparse + 1
  <2>1. /\ p \in CursorStates /\ k \in Nat /\ s \in Nat
        /\ new = [p EXCEPT !.handovers = k, !.sparse = s]
    BY <1>3, <1>4
  <2> HIDE DEF k, p, s, new
  <2>2. new \in CursorStates
    BY <2>1 DEF CursorStates
  <2>3. new.on = p.on
    BY <2>1 DEF CursorStates
  <2>4. /\ new.timed = p.timed /\ new.sparse = s /\ new.handovers = k
        /\ new.timed_from = p.timed_from /\ new.sparse_from = p.sparse_from
    BY <2>1 DEF CursorStates
  <2> QED BY <2>2, <2>3, <2>4 DEF s
<1>9. it \in Items /\ it.n = e.gen
  <2> HIDE DEF e
  <2> QED BY <1>6 DEF Item, Items, ItemKinds
<1>10. InRange(new)
  <2>1. InRange(p)
    BY DEF SamplesInv
  <2> HIDE DEF p, k, new
  <2> QED BY <1>3, <1>4, <1>6, <1>8, <2>1 DEF InRange
<1>11. ASSUME c \in live PROVE LiveRight(new, g)
  <2>1. g # Vague => seen[c] # Vague /\ g = e.gen
    BY DEF Believes
  <2>2. g >= 0 => g # Vague
    BY <1>7 DEF Vague
  <2>3. ASSUME seen[c] # Vague
        PROVE  /\ \A i \in Held(timed) : p.timed <= i => k <= EntryAt(timed, i).gen
               /\ \A i \in Held(sparse) : p.sparse <= i => k <= EntryAt(sparse, i).gen
    BY <1>1, <1>2, <1>11, <2>3, SwallowLemma
  <2>4. ASSUME seen[c] # Vague PROVE Ahead(new)
    <3>1. ASSUME NEW i \in Held(sparse), p.sparse + 1 <= i PROVE p.sparse <= i
      BY <1>3, <3>1 DEF Held
    <3> HIDE DEF p, k, new
    <3> QED BY <1>8, <2>3, <2>4, <3>1 DEF Ahead
  <2>5. ASSUME seen[c] # Vague PROVE Told(new, e.gen)
    <3>1. e.gen = k
      <4>1. p.sparse <= p.sparse
        BY <1>3
      <4>2. k <= e.gen
        BY <1>5, <2>3, <2>5, <4>1
      <4> HIDE DEF e, k
      <4> QED BY <1>4, <1>5, <1>6, <4>2
    <3>2. InRange(p)
      BY DEF SamplesInv
    <3> HIDE DEF p, k, new, e
    <3>3. new.sparse > new.sparse_from
      BY <1>3, <1>8, <3>2 DEF InRange
    <3>4. ASSUME NEW m \in Held(handovers), m >= k PROVE EntryAt(handovers, m).sparse_at > p.sparse_from
      <4>1. EntryAt(handovers, m).sparse_at > p.sparse /\ EntryAt(handovers, m).sparse_at \in Nat
        BY <1>5, <1>6, <3>4
      <4> QED BY <1>3, <3>2, <4>1 DEF InRange
    <3> QED BY <1>8, <3>1, <3>3, <3>4 DEF Told, Beyond
  <2> HIDE DEF new, g, e
  <2> QED BY <2>1, <2>2, <2>4, <2>5 DEF LiveRight
<1>12. new.on /\ IsData(it) => it.n <= new.handovers
  BY <1>5, <1>8, <1>9
<1> HIDE DEF new, it, g, p, k, e
<1> QED BY <1>1, <1>7, <1>8, <1>9, <1>10, <1>11, <1>12, CursorStep

\* The same for a timed sample.
LEMMA TimedLemma ==
    ASSUME SamplesInv, NEW c \in Cursors, TimedReady(c)
    PROVE  /\ cursor[c].timed \in Held(timed)
           /\ EntryAt(timed, cursor[c].timed).gen <= Settled(c)
           /\ \A m \in Held(handovers) : m >= Settled(c) =>
                 EntryAt(handovers, m).timed_at > cursor[c].timed
<1> DEFINE i == cursor[c].timed
           k == Settled(c)
           g == EntryAt(timed, i).gen
<1>1. TypeOK /\ Shape /\ NoLoss(c) /\ ~TimedBlocked(c) /\ Resident(timed, i)
  BY DEF SamplesInv, TimedReady
<1>2. i \in Nat /\ i \in Held(timed) /\ handovers.published \in Nat /\ handovers.base \in Nat
  BY <1>1, RingFacts, CursorFacts
<1>3. k \in Nat /\ k <= handovers.published /\ (k < handovers.published => k \in Held(handovers))
  BY <1>1, SwallowLemma
<1>4. g \in Nat /\ \A m \in Held(handovers) : EntryAt(handovers, m).timed_at \in Nat /\ m \in Int
  BY <1>1, <1>2, RingFacts DEF Samples, Marks, Held
<1>5. /\ g <= handovers.published
      /\ \A m \in Held(handovers) : g > m <=> EntryAt(handovers, m).timed_at <= i
  BY <1>2 DEF SamplesInv, TimedPlaced
<1>6. k < handovers.published => ~(i >= EntryAt(handovers, k).timed_at)
  BY <1>1 DEF TimedBlocked
<1> HIDE DEF i, k, g
<1>7. g <= k
  <2>1. CASE k = handovers.published
    BY <1>5, <2>1
  <2>2. CASE k < handovers.published
    <3>1. k \in Held(handovers) /\ ~(EntryAt(handovers, k).timed_at <= i)
      BY <1>2, <1>3, <1>4, <1>6, <2>2
    <3>2. ~(g > k)
      BY <1>5, <3>1
    <3> QED BY <1>3, <1>4, <3>2
  <2> QED BY <1>2, <1>3, <2>1, <2>2
<1>8. ASSUME NEW m \in Held(handovers), m >= k PROVE EntryAt(handovers, m).timed_at > i
  <2>1. ~(g > m)
    BY <1>3, <1>4, <1>7, <1>8
  <2>2. ~(EntryAt(handovers, m).timed_at <= i)
    BY <1>5, <2>1
  <2> QED BY <1>2, <1>4, <2>2
<1> QED BY <1>2, <1>7, <1>8 DEF i, k, g

LEMMA PollTimedStep ==
    ASSUME SamplesInv, NEW c \in Cursors, PollTimed(c)
    PROVE  SamplesInv'
<1> DEFINE p == cursor[c]
           k == Settled(c)
           e == EntryAt(timed, p.timed)
           new == [p EXCEPT !.handovers = k, !.timed = p.timed + 1]
           it == Item("Timed", e.gen, e.idx)
           g == Believes(c, e.gen)
<1>1. /\ p.on /\ TimedReady(c) /\ cursor' = [cursor EXCEPT ![c] = new]
      /\ item' = [item EXCEPT ![c] = it] /\ seen' = [seen EXCEPT ![c] = g]
      /\ UNCHANGED <<logVars, writerVars>> /\ live' = live
  BY DEF PollTimed, Returns
<1>2. TypeOK /\ Shape /\ NoLoss(c)
  BY <1>1 DEF SamplesInv, TimedReady
<1>3. /\ p \in CursorStates /\ p.timed \in Nat /\ p.sparse \in Nat /\ p.handovers \in Nat
      /\ p.timed_from \in Nat /\ p.sparse_from \in Nat /\ seen[c] \in -2..MaxGeneration
      /\ timed.base \in Nat /\ timed.published \in Nat /\ handovers.published \in Nat
      /\ sparse.base \in Nat
  BY <1>2, CursorFacts, RingFacts
<1>4. k \in Nat /\ k <= handovers.published
  BY <1>2, SwallowLemma
<1>5. /\ p.timed \in Held(timed) /\ e.gen <= k
      /\ \A m \in Held(handovers) : m >= k => EntryAt(handovers, m).timed_at > p.timed
  BY <1>1, TimedLemma
<1>6. e.gen \in Nat /\ e.idx \in Nat /\ p.timed < timed.published
      /\ \A m \in Held(handovers) : EntryAt(handovers, m).timed_at \in Nat
  <2>1. e \in Samples /\ \A m \in Held(handovers) : EntryAt(handovers, m) \in Marks
    BY <1>2, <1>5, RingFacts
  <2>2. p.timed < timed.published
    BY <1>3, <1>5 DEF Held
  <2> QED BY <2>1, <2>2 DEF Samples, Marks
<1>7. g \in -2..MaxGeneration
  <2>1. gen \in -1..MaxGeneration /\ MaxGeneration \in Nat
    BY <1>2, BoundAssumption DEF TypeOK
  <2>2. handovers.published <= gen \/ handovers.published = 0
    BY <1>3, <2>1 DEF SamplesInv, WritersCounted
  <2>3. e.gen \in 0..MaxGeneration
    <3> HIDE DEF e, k
    <3> QED BY <1>3, <1>4, <1>5, <1>6, <2>1, <2>2
  <2> HIDE DEF e
  <2> QED BY <1>3, <2>1, <2>3 DEF Believes, Vague
<1>8. /\ new \in CursorStates /\ new.on = p.on /\ new.sparse = p.sparse /\ new.timed = p.timed + 1
      /\ new.handovers = k /\ new.sparse_from = p.sparse_from /\ new.timed_from = p.timed_from
  <2> DEFINE s == p.timed + 1
  <2>1. /\ p \in CursorStates /\ k \in Nat /\ s \in Nat
        /\ new = [p EXCEPT !.handovers = k, !.timed = s]
    BY <1>3, <1>4
  <2> HIDE DEF k, p, s, new
  <2>2. new \in CursorStates
    BY <2>1 DEF CursorStates
  <2>3. new.on = p.on
    BY <2>1 DEF CursorStates
  <2>4. /\ new.timed = s /\ new.sparse = p.sparse /\ new.handovers = k
        /\ new.timed_from = p.timed_from /\ new.sparse_from = p.sparse_from
    BY <2>1 DEF CursorStates
  <2> QED BY <2>2, <2>3, <2>4 DEF s
<1>9. it \in Items /\ it.n = e.gen
  <2> HIDE DEF e
  <2> QED BY <1>6 DEF Item, Items, ItemKinds
<1>10. InRange(new)
  <2>1. InRange(p)
    BY DEF SamplesInv
  <2> HIDE DEF p, k, new
  <2> QED BY <1>3, <1>4, <1>6, <1>8, <2>1 DEF InRange
<1>11. ASSUME c \in live PROVE LiveRight(new, g)
  <2>1. g # Vague => seen[c] # Vague /\ g = e.gen
    BY DEF Believes
  <2>2. g >= 0 => g # Vague
    BY <1>7 DEF Vague
  <2>3. ASSUME seen[c] # Vague
        PROVE  /\ \A i \in Held(sparse) : p.sparse <= i => k <= EntryAt(sparse, i).gen
               /\ \A i \in Held(timed) : p.timed <= i => k <= EntryAt(timed, i).gen
    BY <1>1, <1>2, <1>11, <2>3, SwallowLemma
  <2>4. ASSUME seen[c] # Vague PROVE Ahead(new)
    <3>1. ASSUME NEW i \in Held(timed), p.timed + 1 <= i PROVE p.timed <= i
      BY <1>3, <3>1 DEF Held
    <3> HIDE DEF p, k, new
    <3> QED BY <1>8, <2>3, <2>4, <3>1 DEF Ahead
  <2>5. ASSUME seen[c] # Vague PROVE Told(new, e.gen)
    <3>1. e.gen = k
      <4>1. p.timed <= p.timed
        BY <1>3
      <4>2. k <= e.gen
        BY <1>5, <2>3, <2>5, <4>1
      <4> HIDE DEF e, k
      <4> QED BY <1>4, <1>5, <1>6, <4>2
    <3>2. InRange(p)
      BY DEF SamplesInv
    <3> HIDE DEF p, k, new, e
    <3>3. new.timed > new.timed_from
      BY <1>3, <1>8, <3>2 DEF InRange
    <3>4. ASSUME NEW m \in Held(handovers), m >= k PROVE EntryAt(handovers, m).timed_at > p.timed_from
      <4>1. EntryAt(handovers, m).timed_at > p.timed /\ EntryAt(handovers, m).timed_at \in Nat
        BY <1>5, <1>6, <3>4
      <4> QED BY <1>3, <3>2, <4>1 DEF InRange
    <3> QED BY <1>8, <3>1, <3>3, <3>4 DEF Told, Beyond
  <2> HIDE DEF new, g, e
  <2> QED BY <2>1, <2>2, <2>4, <2>5 DEF LiveRight
<1>12. new.on /\ IsData(it) => it.n <= new.handovers
  BY <1>5, <1>8, <1>9
<1> HIDE DEF new, it, g, p, k, e
<1> QED BY <1>1, <1>7, <1>8, <1>9, <1>10, <1>11, <1>12, CursorStep

\* A poll that moves one position forward and hands over no sample.
LEMMA ReportStep ==
    ASSUME SamplesInv, NEW c \in Cursors, NEW new, NEW it \in Items, NEW g \in -2..MaxGeneration,
           cursor[c].on, Returns(c, new, it, g), ~IsData(it),
           NEW m \in Nat,
           \/ /\ new = [cursor[c] EXCEPT !.timed = m] /\ g = seen[c]
              /\ cursor[c].timed <= m /\ m <= timed.published
           \/ /\ new = [cursor[c] EXCEPT !.sparse = m] /\ g = seen[c]
              /\ cursor[c].sparse <= m /\ m <= sparse.published
           \/ /\ new = [cursor[c] EXCEPT !.handovers = m] /\ m <= handovers.published
              /\ g >= 0 => g = seen[c] /\ (c \in live => m = cursor[c].handovers)
              /\ c \in live /\ g # Vague =>
                    /\ \A i \in Held(timed) : cursor[c].timed <= i => m <= EntryAt(timed, i).gen
                    /\ \A i \in Held(sparse) : cursor[c].sparse <= i => m <= EntryAt(sparse, i).gen
    PROVE  SamplesInv'
<1> DEFINE p == cursor[c]
<1>1. /\ cursor' = [cursor EXCEPT ![c] = new]
      /\ item' = [item EXCEPT ![c] = it] /\ seen' = [seen EXCEPT ![c] = g]
      /\ UNCHANGED <<logVars, writerVars>> /\ live' = live
  BY DEF Returns
<1>2. /\ TypeOK /\ Shape /\ InRange(p)
      /\ c \in live => LiveRight(p, seen[c])
  BY DEF SamplesInv
<1>3. /\ p \in CursorStates /\ p.sparse \in Nat /\ p.timed \in Nat /\ p.handovers \in Nat
      /\ p.sparse_from \in Nat /\ p.timed_from \in Nat
      /\ sparse.base \in Nat /\ timed.base \in Nat
  BY <1>2, CursorFacts, RingFacts
<1>4. ASSUME new = [p EXCEPT !.timed = m] \/ new = [p EXCEPT !.sparse = m]
               \/ new = [p EXCEPT !.handovers = m]
      PROVE  new \in CursorStates
  <2> HIDE DEF p
  <2> QED BY <1>3, <1>4 DEF CursorStates
<1>5. CASE new = [p EXCEPT !.timed = m] /\ g = seen[c] /\ p.timed <= m /\ m <= timed.published
  <2> HIDE DEF p
  <2>1. /\ new.timed = m /\ new.sparse = p.sparse /\ new.handovers = p.handovers
        /\ new.timed_from = p.timed_from /\ new.sparse_from = p.sparse_from
    BY <1>3, <1>5 DEF CursorStates
  <2>2. InRange(new)
    BY <1>2, <1>3, <1>5, <2>1 DEF InRange
  <2>3. Ahead(p) => Ahead(new)
    <3>1. ASSUME NEW i \in Held(timed), m <= i PROVE p.timed <= i
      BY <1>3, <1>5, <3>1 DEF Held
    <3> QED BY <2>1, <3>1 DEF Ahead
  <2>4. Told(p, g) => Told(new, g)
    BY <1>2, <1>3, <1>5, <2>1 DEF Told, Beyond, InRange
  <2>5. c \in live => LiveRight(new, g)
    BY <1>2, <1>5, <2>3, <2>4 DEF LiveRight
  <2> QED BY <1>1, <1>4, <1>5, <2>2, <2>5, CursorStep
<1>6. CASE new = [p EXCEPT !.sparse = m] /\ g = seen[c] /\ p.sparse <= m /\ m <= sparse.published
  <2> HIDE DEF p
  <2>1. /\ new.timed = p.timed /\ new.sparse = m /\ new.handovers = p.handovers
        /\ new.timed_from = p.timed_from /\ new.sparse_from = p.sparse_from
    BY <1>3, <1>6 DEF CursorStates
  <2>2. InRange(new)
    BY <1>2, <1>3, <1>6, <2>1 DEF InRange
  <2>3. Ahead(p) => Ahead(new)
    <3>1. ASSUME NEW i \in Held(sparse), m <= i PROVE p.sparse <= i
      BY <1>3, <1>6, <3>1 DEF Held
    <3> QED BY <2>1, <3>1 DEF Ahead
  <2>4. Told(p, g) => Told(new, g)
    BY <1>2, <1>3, <1>6, <2>1 DEF Told, Beyond, InRange
  <2>5. c \in live => LiveRight(new, g)
    BY <1>2, <1>6, <2>3, <2>4 DEF LiveRight
  <2> QED BY <1>1, <1>4, <1>6, <2>2, <2>5, CursorStep
<1>7. CASE /\ new = [p EXCEPT !.handovers = m] /\ m <= handovers.published
           /\ g >= 0 => g = seen[c] /\ (c \in live => m = p.handovers)
           /\ c \in live /\ g # Vague =>
                 /\ \A i \in Held(timed) : p.timed <= i => m <= EntryAt(timed, i).gen
                 /\ \A i \in Held(sparse) : p.sparse <= i => m <= EntryAt(sparse, i).gen
  <2> HIDE DEF p
  <2>1. /\ new.timed = p.timed /\ new.sparse = p.sparse /\ new.handovers = m
        /\ new.timed_from = p.timed_from /\ new.sparse_from = p.sparse_from
    BY <1>3, <1>7 DEF CursorStates
  <2>2. InRange(new)
    BY <1>2, <1>7, <2>1 DEF InRange
  <2>3. c \in live /\ g # Vague => Ahead(new)
    BY <1>7, <2>1 DEF Ahead
  <2>4. ASSUME c \in live, g >= 0 PROVE Told(new, g)
    <3>1. g = seen[c] /\ m = p.handovers
      BY <1>7, <2>4
    <3>2. Told(p, g)
      BY <1>2, <2>4, <3>1 DEF LiveRight
    <3> QED BY <2>1, <3>1, <3>2 DEF Told, Beyond
  <2>5. c \in live => LiveRight(new, g)
    BY <2>3, <2>4 DEF LiveRight
  <2> QED BY <1>1, <1>4, <1>7, <2>2, <2>5, CursorStep
<1> QED BY <1>5, <1>6, <1>7

\* The three loss reports.
LEMMA LossStep ==
    ASSUME SamplesInv, NEW c \in Cursors, PollLagged(c) \/ PollDegraded(c) \/ PollHandoversLagged(c)
    PROVE  SamplesInv'
<1> DEFINE p == cursor[c]
<1>1. TypeOK /\ Shape
  BY DEF SamplesInv
<1>2. /\ p.timed \in Nat /\ p.sparse \in Nat /\ p.handovers \in Nat /\ seen[c] \in -2..MaxGeneration
      /\ timed.base \in Nat /\ timed.published \in Nat /\ timed.base <= timed.published
      /\ sparse.base \in Nat /\ sparse.published \in Nat /\ sparse.base <= sparse.published
      /\ handovers.base \in Nat /\ handovers.published \in Nat
      /\ handovers.base <= handovers.published
  BY <1>1, CursorFacts, RingFacts
<1>3. ASSUME NEW kind \in {"Lagged", "Degraded", "HandoversLagged"}, NEW n \in Nat
      PROVE  Item(kind, n, 0) \in Items /\ ~IsData(Item(kind, n, 0))
  BY DEF Item, Items, ItemKinds, IsData
<1>4. CASE PollLagged(c)
  <2>1. p.on /\ p.timed < timed.base
        /\ Returns(c, [p EXCEPT !.timed = timed.base], Item("Lagged", timed.base - p.timed, 0), seen[c])
    BY <1>4 DEF PollLagged, LagsTimed
  <2>2. timed.base - p.timed \in Nat /\ p.timed <= timed.base
    BY <1>2, <2>1
  <2>3. /\ Item("Lagged", timed.base - p.timed, 0) \in Items
        /\ ~IsData(Item("Lagged", timed.base - p.timed, 0))
    BY <1>3, <2>2
  <2> QED BY <1>2, <2>1, <2>2, <2>3, ReportStep
<1>5. CASE PollDegraded(c)
  <2>1. p.on /\ p.sparse < sparse.base
        /\ Returns(c, [p EXCEPT !.sparse = sparse.base],
                   Item("Degraded", sparse.base - p.sparse, 0), seen[c])
    BY <1>5 DEF PollDegraded, LagsSparse
  <2>2. sparse.base - p.sparse \in Nat /\ p.sparse <= sparse.base
    BY <1>2, <2>1
  <2>3. /\ Item("Degraded", sparse.base - p.sparse, 0) \in Items
        /\ ~IsData(Item("Degraded", sparse.base - p.sparse, 0))
    BY <1>3, <2>2
  <2> QED BY <1>2, <2>1, <2>2, <2>3, ReportStep
<1>6. CASE PollHandoversLagged(c)
  <2>1. p.on /\ p.handovers < handovers.base
        /\ Returns(c, [p EXCEPT !.handovers = handovers.base],
                   Item("HandoversLagged", handovers.base - p.handovers, 0), Vague)
    BY <1>6 DEF PollHandoversLagged, LagsHandovers
  <2>2. handovers.base - p.handovers \in Nat
    BY <1>2, <2>1
  <2>3. /\ Item("HandoversLagged", handovers.base - p.handovers, 0) \in Items
        /\ ~IsData(Item("HandoversLagged", handovers.base - p.handovers, 0))
    BY <1>3, <2>2
  <2>4. Vague \in -2..MaxGeneration /\ ~(Vague >= 0)
    BY BoundAssumption DEF Vague
  <2> QED BY <1>2, <2>1, <2>3, <2>4, ReportStep
<1> QED BY <1>4, <1>5, <1>6

\* The report of a discontinuity, and a poll that returns nothing.
LEMMA PendingStep ==
    ASSUME SamplesInv, NEW c \in Cursors, PollDiscontinuity(c) \/ PollNone(c)
    PROVE  SamplesInv'
<1> DEFINE p == cursor[c]
           k == Settled(c)
<1>1. TypeOK /\ Shape /\ NoLoss(c)
  BY DEF SamplesInv, PollDiscontinuity, PollNone, Empty
<1>2. /\ p.timed \in Nat /\ p.sparse \in Nat /\ p.handovers \in Nat /\ seen[c] \in -2..MaxGeneration
      /\ handovers.published \in Nat
      /\ \A i \in Held(timed) : EntryAt(timed, i).gen \in Nat /\ i \in Int
      /\ \A i \in Held(sparse) : EntryAt(sparse, i).gen \in Nat /\ i \in Int
      /\ \A j \in Held(handovers) :
            EntryAt(handovers, j).timed_at \in Nat /\ EntryAt(handovers, j).sparse_at \in Nat
  BY <1>1, CursorFacts, RingFacts DEF Samples, Marks, Held
<1>3. /\ k \in Nat /\ k <= handovers.published
      /\ k < handovers.published => k \in Held(handovers)
  BY <1>1, SwallowLemma
<1>4. CASE PollDiscontinuity(c)
  <2> DEFINE it == Item("Discontinuity", k + 1, 0)
  <2>1. p.on /\ Discontinues(c) /\ Returns(c, [p EXCEPT !.handovers = k + 1], it, Unknown)
    BY <1>4 DEF PollDiscontinuity
  <2>2. /\ k < handovers.published /\ p.timed >= EntryAt(handovers, k).timed_at
        /\ p.sparse >= EntryAt(handovers, k).sparse_at
    BY <2>1 DEF Discontinues, Reached
  <2> HIDE DEF p, k
  <2>3. k + 1 \in Nat /\ k + 1 <= handovers.published /\ k \in Held(handovers)
    BY <1>2, <1>3, <2>2
  <2>4. it \in Items /\ ~IsData(it)
    BY <2>3 DEF Item, Items, ItemKinds, IsData
  <2>5. ASSUME NEW i \in Held(timed), p.timed <= i PROVE k + 1 <= EntryAt(timed, i).gen
    <3>1. EntryAt(handovers, k).timed_at <= i
      BY <1>2, <2>2, <2>3, <2>5
    <3>2. EntryAt(timed, i).gen > k
      BY <2>3, <3>1 DEF SamplesInv, TimedPlaced
    <3> QED BY <1>2, <1>3, <3>2
  <2>6. ASSUME NEW i \in Held(sparse), p.sparse <= i PROVE k + 1 <= EntryAt(sparse, i).gen
    <3>1. EntryAt(handovers, k).sparse_at <= i
      BY <1>2, <2>2, <2>3, <2>6
    <3>2. EntryAt(sparse, i).gen > k
      BY <2>3, <3>1 DEF SamplesInv, SparsePlaced
    <3> QED BY <1>2, <1>3, <3>2
  <2>7. Unknown \in -2..MaxGeneration /\ ~(Unknown >= 0)
    BY BoundAssumption DEF Unknown
  <2> HIDE DEF it
  <2> QED BY <2>1, <2>3, <2>4, <2>5, <2>6, <2>7, ReportStep DEF p
<1>5. CASE PollNone(c)
  <2>1. p.on /\ Returns(c, [p EXCEPT !.handovers = k], NoItem, seen[c])
    BY <1>5 DEF PollNone
  <2>2. NoItem \in Items /\ ~IsData(NoItem)
    BY DEF NoItem, Item, Items, ItemKinds, IsData
  <2>3. ASSUME c \in live, seen[c] # Vague
        PROVE  /\ \A i \in Held(timed) : p.timed <= i => k <= EntryAt(timed, i).gen
               /\ \A i \in Held(sparse) : p.sparse <= i => k <= EntryAt(sparse, i).gen
    BY <1>1, <2>1, <2>3, SwallowLemma
  <2>4. ASSUME c \in live, seen[c] >= 0 PROVE k = p.handovers
    BY <1>1, <2>1, <2>4, SwallowLemma
  <2> HIDE DEF k
  <2> QED BY <1>2, <1>3, <2>1, <2>2, <2>3, <2>4, ReportStep
<1> QED BY <1>4, <1>5

\* Trunk::subscribe, subscribe_from_backlog and the drop of a cursor.
LEMMA JoinStep ==
    ASSUME SamplesInv, NEW c \in Cursors, Subscribe(c) \/ SubscribeFromBacklog(c) \/ DropCursor(c)
    PROVE  SamplesInv'
<1>1. TypeOK /\ Shape
  BY DEF SamplesInv
<1>2. /\ timed.base \in Nat /\ timed.published \in Nat /\ timed.base <= timed.published
      /\ sparse.base \in Nat /\ sparse.published \in Nat /\ sparse.base <= sparse.published
      /\ handovers.base \in Nat /\ handovers.published \in Nat
      /\ handovers.base <= handovers.published
  BY <1>1, RingFacts
<1>3. NoItem \in Items /\ ~IsData(NoItem)
  BY DEF NoItem, Item, Items, ItemKinds, IsData
<1>4. Unknown \in -2..MaxGeneration /\ ~(Unknown >= 0)
  BY BoundAssumption DEF Unknown
<1>5. ASSUME NEW t \in Nat, NEW s \in Nat, NEW h \in Nat
      PROVE  /\ NewCursor(t, s, h) \in CursorStates
             /\ NewCursor(t, s, h).timed = t /\ NewCursor(t, s, h).sparse = s
             /\ NewCursor(t, s, h).handovers = h
             /\ NewCursor(t, s, h).timed_from = t /\ NewCursor(t, s, h).sparse_from = s
  BY DEF NewCursor, CursorStates
<1>6. CASE Subscribe(c)
  <2> DEFINE new == NewCursor(timed.published, sparse.published, handovers.published)
  <2>1. /\ cursor' = [cursor EXCEPT ![c] = new] /\ item' = [item EXCEPT ![c] = NoItem]
        /\ seen' = [seen EXCEPT ![c] = Unknown] /\ UNCHANGED <<logVars, writerVars>>
        /\ live' = live \cup {c}
    BY <1>6 DEF Subscribe, Join
  <2>2. /\ new \in CursorStates /\ new.timed = timed.published /\ new.sparse = sparse.published
        /\ new.handovers = handovers.published /\ new.timed_from = timed.published
        /\ new.sparse_from = sparse.published
    BY <1>2, <1>5, SMTT(60)
  <2> HIDE DEF new
  <2>3. InRange(new)
    BY <1>2, <2>2 DEF InRange
  <2>4. Ahead(new)
    BY <1>2, <2>2 DEF Ahead, Held
  <2>5. LiveRight(new, Unknown)
    BY <1>4, <2>4 DEF LiveRight
  <2> QED BY <1>3, <1>4, <2>1, <2>2, <2>3, <2>5, CursorStep
<1>7. CASE SubscribeFromBacklog(c)
  <2> DEFINE new == NewCursor(timed.base, sparse.base, handovers.base)
  <2>1. /\ cursor' = [cursor EXCEPT ![c] = new] /\ item' = [item EXCEPT ![c] = NoItem]
        /\ seen' = [seen EXCEPT ![c] = Unknown] /\ UNCHANGED <<logVars, writerVars>>
        /\ live' = live \ {c}
    BY <1>7 DEF SubscribeFromBacklog, Join
  <2>2. /\ new \in CursorStates /\ new.timed = timed.base /\ new.sparse = sparse.base
        /\ new.handovers = handovers.base /\ new.timed_from = timed.base
        /\ new.sparse_from = sparse.base
    BY <1>2, <1>5, SMTT(60)
  <2> HIDE DEF new
  <2>3. InRange(new)
    BY <1>2, <2>2 DEF InRange
  <2>4. live' \subseteq live \cup {c} /\ c \notin live'
    BY <2>1
  <2> QED BY <1>3, <1>4, <2>1, <2>2, <2>3, <2>4, CursorStep
<1>8. CASE DropCursor(c)
  <2>1. /\ cursor' = [cursor EXCEPT ![c] = NoCursor] /\ UNCHANGED <<item, seen, live>>
        /\ UNCHANGED <<logVars, writerVars>>
    BY <1>8 DEF DropCursor
  <2>2. /\ item \in [Cursors -> Items] /\ seen \in [Cursors -> -2..MaxGeneration]
    BY <1>1 DEF TypeOK, Items
  <2>3. /\ item[c] \in Items /\ seen[c] \in -2..MaxGeneration
        /\ item' = [item EXCEPT ![c] = item[c]] /\ seen' = [seen EXCEPT ![c] = seen[c]]
    BY <2>1, <2>2
  <2>4. NoCursor \in CursorStates /\ ~NoCursor.on
    BY DEF NoCursor, CursorStates
  <2>5. InRange(NoCursor)
    BY <1>2 DEF InRange, NoCursor
  <2>6. live' \subseteq live \cup {c}
    BY <2>1
  <2> QED BY <2>1, <2>3, <2>4, <2>5, <2>6, CursorStep, ZenonT(60)
<1> QED BY <1>6, <1>7, <1>8

LEMMA SamplesStep == SamplesInv /\ [Next]_vars => SamplesInv'
<1> SUFFICES ASSUME SamplesInv, [Next]_vars PROVE SamplesInv'
  OBVIOUS
<1>1. CASE UNCHANGED vars
  <2>1. UNCHANGED <<timed, sparse, handovers, writer, issued_once, gen, cursor, item, seen, live>>
    BY <1>1 DEF vars
  <2>2. TypeOK' /\ Shape' /\ WritersCounted' /\ NoOvertake'
    BY <2>1 DEF SamplesInv, TypeOK, Shape, WritersCounted, NoOvertake
  <2>3. TimedPlaced' /\ SparsePlaced' /\ MarksInRange'
    BY <2>1 DEF SamplesInv, TimedPlaced, SparsePlaced, MarksInRange
  <2>4. \A c \in Cursors : InRange(cursor[c])'
    BY <2>1 DEF SamplesInv, InRange
  <2>5. \A c \in live' : cursor'[c].on => LiveRight(cursor[c], seen[c])'
    BY <2>1 DEF SamplesInv, LiveRight, Ahead, Told, Beyond
  <2> QED BY <2>2, <2>3, <2>4, <2>5 DEF SamplesInv
<1>2. CASE TakeWriter \/ DropWriter
  BY <1>2, WriterStep
<1>3. CASE RecordHandover \/ PublishTimed \/ PublishSparse
  BY <1>3, HandoverStep, PublishTimedStep, PublishSparseStep
<1>4. ASSUME NEW c \in Cursors,
             Subscribe(c) \/ SubscribeFromBacklog(c) \/ DropCursor(c) \/ PollStep(c)
      PROVE  SamplesInv'
  <2>1. CASE Subscribe(c) \/ SubscribeFromBacklog(c) \/ DropCursor(c)
    BY <2>1, JoinStep
  <2>2. CASE PollLagged(c) \/ PollDegraded(c) \/ PollHandoversLagged(c)
    BY <2>2, LossStep
  <2>3. CASE PollDiscontinuity(c) \/ PollNone(c)
    BY <2>3, PendingStep
  <2>4. CASE PollSparse(c) \/ PollTimed(c)
    BY <2>4, PollSparseStep, PollTimedStep
  <2> QED BY <1>4, <2>1, <2>2, <2>3, <2>4 DEF PollStep
<1> QED BY <1>1, <1>2, <1>3, <1>4 DEF Next

\* The absolute indices of the ring, as RingsIndexed states them.
LEMMA IndexLemma ==
    ASSUME NEW r \in RingsOf(Samples), NEW cap, RingOK(r, cap),
           \A i \in Held(r) : EntryAt(r, i).idx = i
    PROVE  \A i \in 1..Len(r.entries) : r.entries[i].idx = r.base + i - 1
<1> SUFFICES ASSUME NEW i \in 1..Len(r.entries) PROVE r.entries[i].idx = r.base + i - 1
  OBVIOUS
<1> DEFINE b == r.base
           n == Len(r.entries)
           a == b + (i - 1)
<1>1. b \in Nat /\ r.published \in Nat /\ n \in Nat /\ b + n = r.published
  BY LenProperties DEF RingsOf, RingOK
<1>2. a \in b..(r.published - 1) /\ a - b + 1 = i
  <2>1. i \in 1..n
    OBVIOUS
  <2> HIDE DEF b, n
  <2> QED BY <1>1, <2>1
<1>3. a \in Held(r)
  BY <1>2 DEF Held
<1>4. EntryAt(r, a) = r.entries[a - b + 1]
  BY DEF EntryAt
<1>5. r.entries[i].idx = a
  <2> HIDE DEF a, b
  <2> QED BY <1>2, <1>3, <1>4
<1> QED BY <1>5

\* The rings find every sample at its index whatever was evicted, and neither
\* class delivers a sample of a new writer before that writer's handover has
\* been accounted for (ClassLog::push, SampleCursor::poll).
THEOREM StreamInOrderHolds == Spec => []StreamInOrder
<1>1. SamplesInv => StreamInOrder
  <2> SUFFICES ASSUME SamplesInv PROVE TypeOK /\ RingsIndexed /\ NoOvertake
    BY DEF StreamInOrder
  <2>1. /\ timed \in RingsOf(Samples) /\ sparse \in RingsOf(Samples)
        /\ RingOK(timed, TimedCapacity) /\ RingOK(sparse, SparseCapacity)
        /\ RingOK(handovers, HandoverCapacity)
        /\ \A i \in Held(timed) : EntryAt(timed, i).idx = i
        /\ \A i \in Held(sparse) : EntryAt(sparse, i).idx = i
    BY DEF SamplesInv, Shape, TimedPlaced, SparsePlaced
  <2>2. \A i \in 1..Len(timed.entries) : timed.entries[i].idx = timed.base + i - 1
    BY <2>1, IndexLemma
  <2>3. \A i \in 1..Len(sparse.entries) : sparse.entries[i].idx = sparse.base + i - 1
    BY <2>1, IndexLemma
  <2> QED BY <2>1, <2>2, <2>3 DEF RingsIndexed, SamplesInv
<1> QED BY <1>1, SamplesInit, SamplesStep, PTL DEF Spec

\* poll returns None only when both classes and the handover log have been read
\* to the end: a pending handover never holds back both classes at once.
THEOREM NothingStuckHolds == Spec => []NothingStuck
<1>1. SamplesInv => NothingStuck
  <2> SUFFICES ASSUME SamplesInv, NEW c \in Cursors, cursor[c].on, Empty(c)
               PROVE  /\ cursor[c].timed = timed.published /\ cursor[c].sparse = sparse.published
                      /\ Settled(c) = handovers.published
    BY DEF NothingStuck
  <2> DEFINE k == Settled(c)
             t == cursor[c].timed
             s == cursor[c].sparse
  <2>1. /\ TypeOK /\ Shape /\ NoLoss(c) /\ ~Discontinues(c) /\ ~SparseReady(c) /\ ~TimedReady(c)
        /\ InRange(cursor[c])
    BY DEF SamplesInv, Empty
  <2>2. /\ t \in Nat /\ s \in Nat /\ timed.base \in Nat /\ timed.published \in Nat
        /\ sparse.base \in Nat /\ sparse.published \in Nat /\ handovers.published \in Nat
        /\ Resident(timed, t) <=> t \in Held(timed)
        /\ Resident(sparse, s) <=> s \in Held(sparse)
    BY <2>1, RingFacts, CursorFacts
  <2>3. /\ k \in Nat /\ k <= handovers.published
        /\ k < handovers.published => k \in Held(handovers)
    BY <2>1, SwallowLemma
  <2>4. timed.base <= t /\ sparse.base <= s /\ t <= timed.published /\ s <= sparse.published
    BY <2>1, <2>2 DEF NoLoss, LagsTimed, LagsSparse, InRange
  <2>5. s < sparse.published => SparseBlocked(c)
    <3>1. s < sparse.published => Resident(sparse, s)
      BY <2>2, <2>4 DEF Held
    <3> QED BY <2>1, <3>1 DEF SparseReady
  <2>6. t < timed.published => TimedBlocked(c)
    <3>1. t < timed.published => Resident(timed, t)
      BY <2>2, <2>4 DEF Held
    <3> QED BY <2>1, <3>1 DEF TimedReady
  <2>7. k = handovers.published
    <3> SUFFICES ASSUME k < handovers.published PROVE FALSE
      BY <2>2, <2>3
    <3> DEFINE h == EntryAt(handovers, k)
    <3>1. /\ h.timed_at \in Nat /\ h.sparse_at \in Nat
          /\ h.timed_at <= timed.published /\ h.sparse_at <= sparse.published
      <4>1. k \in Held(handovers) /\ h \in Marks
        BY <2>1, <2>3, RingFacts
      <4> QED BY <4>1 DEF Marks, SamplesInv, MarksInRange
    <3>2. ~(t >= h.timed_at /\ s >= h.sparse_at)
      BY <2>1 DEF Discontinues, Reached
    <3>3. /\ s < sparse.published => s >= h.sparse_at
          /\ t < timed.published => t >= h.timed_at
      BY <2>5, <2>6 DEF SparseBlocked, TimedBlocked
    <3> HIDE DEF h, k, t, s
    <3> QED BY <2>2, <2>4, <3>1, <3>2, <3>3
  <2>8. ~SparseBlocked(c) /\ ~TimedBlocked(c)
    BY <2>2, <2>7 DEF SparseBlocked, TimedBlocked
  <2> HIDE DEF t, s
  <2>9. t = timed.published /\ s = sparse.published
    BY <2>2, <2>4, <2>5, <2>6, <2>8
  <2> QED BY <2>7, <2>9 DEF t, s
<1> QED BY <1>1, SamplesInit, SamplesStep, PTL DEF Spec

\* A live reader never goes from one writer's samples to another's without a
\* Discontinuity or a HandoversLagged in between, however many markers the
\* bounded handover log has dropped.
THEOREM LiveHandoverReportedHolds == Spec => LiveHandoverReported
<1>1. SamplesInv => \A c \in live : Continues(c)
  <2> SUFFICES ASSUME SamplesInv, NEW c \in live, PollSparse(c) \/ PollTimed(c),
                      seen[c] # Unknown, seen[c] # Vague
               PROVE  seen'[c] = seen[c]
    BY DEF Continues
  <2>1. TypeOK /\ Shape /\ c \in Cursors /\ cursor[c].on
    BY DEF SamplesInv, Shape, PollSparse, PollTimed
  <2>2. /\ seen \in [Cursors -> -2..MaxGeneration] /\ seen[c] \in -2..MaxGeneration
        /\ cursor[c].timed \in Nat /\ cursor[c].sparse \in Nat
    BY <2>1, CursorFacts DEF TypeOK
  <2>3. seen[c] >= 0
    BY <2>2, BoundAssumption DEF Unknown, Vague
  <2>4. Told(cursor[c], seen[c])
    BY <2>1, <2>3 DEF SamplesInv, LiveRight
  <2>5. NoLoss(c)
    BY DEF PollSparse, PollTimed, SparseReady, TimedReady
  <2>6. Settled(c) \in Nat /\ Settled(c) = seen[c]
    <3>1. Settled(c) \in Nat /\ Settled(c) = cursor[c].handovers
      BY <2>1, <2>3, <2>5, SwallowLemma
    <3> QED BY <2>4, <3>1 DEF Told
  <2>7. CASE PollSparse(c)
    <3> DEFINE g == EntryAt(sparse, cursor[c].sparse).gen
    <3>1. SparseReady(c) /\ seen' = [seen EXCEPT ![c] = Believes(c, g)]
      BY <2>7 DEF PollSparse, Returns
    <3>2. cursor[c].sparse \in Held(sparse) /\ g <= Settled(c)
      BY <2>1, <3>1, SparseLemma
    <3>3. g \in Nat
      BY <2>1, <3>2, RingFacts DEF Samples
    <3>4. Settled(c) <= g
      <4>1. cursor[c].sparse <= cursor[c].sparse
        BY <2>2
      <4> QED BY <2>1, <2>5, <3>2, <4>1, SwallowLemma
    <3> HIDE DEF g
    <3>5. g = seen[c]
      BY <2>6, <3>2, <3>3, <3>4
    <3> QED BY <2>1, <2>2, <3>1, <3>5 DEF Believes
  <2>8. CASE PollTimed(c)
    <3> DEFINE g == EntryAt(timed, cursor[c].timed).gen
    <3>1. TimedReady(c) /\ seen' = [seen EXCEPT ![c] = Believes(c, g)]
      BY <2>8 DEF PollTimed, Returns
    <3>2. cursor[c].timed \in Held(timed) /\ g <= Settled(c)
      BY <2>1, <3>1, TimedLemma
    <3>3. g \in Nat
      BY <2>1, <3>2, RingFacts DEF Samples
    <3>4. Settled(c) <= g
      <4>1. cursor[c].timed <= cursor[c].timed
        BY <2>2
      <4> QED BY <2>1, <2>5, <3>2, <4>1, SwallowLemma
    <3> HIDE DEF g
    <3>5. g = seen[c]
      BY <2>6, <3>2, <3>3, <3>4
    <3> QED BY <2>1, <2>2, <3>1, <3>5 DEF Believes
  <2> QED BY <2>7, <2>8
<1>2. SamplesInv /\ [Next]_vars => [\A c \in live : Continues(c)]_vars
  BY <1>1
<1> QED BY <1>2, SamplesInit, SamplesStep, PTL DEF Spec, LiveHandoverReported
=============================================================================
