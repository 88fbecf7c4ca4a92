-------------------------- MODULE TrunkPartsProofs --------------------------
(***************************************************************************)
(* Proofs about the live-part log for every capacity, set of segments and  *)
(* part indices and number of parts, and the lemmas about filtered         *)
(* sequences and the part index that other components' proofs cite.        *)
(***************************************************************************)
EXTENDS TrunkParts, SequenceTheorems, WellFoundedInduction, NaturalsInduction, TLAPS

-----------------------------------------------------------------------------
\* Induction over the naturals, for a set in place of a predicate.
LEMMA SetInduction ==
    ASSUME NEW S, 0 \in S, \A n \in Nat : n \in S => n + 1 \in S
    PROVE  \A n \in Nat : n \in S
<1> DEFINE T == {n \in Nat : n \notin S}
           below == {ss \in Nat \X Nat : ss[1] < ss[2]}
<1>1. IsWellFoundedOn(below, Nat)
  BY NatLessThanWellFounded DEF OpToRel
<1> SUFFICES ASSUME T # {} PROVE FALSE
  OBVIOUS
<1>2. PICK t \in T : \A u \in T : ~(<<u, t>> \in below)
  <2>1. T \subseteq Nat
    OBVIOUS
  <2> HIDE DEF below, T
  <2> QED BY <1>1, <2>1, WFMin
<1>3. t \in Nat /\ t # 0 /\ t \notin S
  OBVIOUS
<1>4. t - 1 \in Nat /\ (t - 1) + 1 = t
  BY <1>3
<1>5. t - 1 \notin S
  BY <1>3, <1>4
<1>6. t - 1 \in T /\ <<t - 1, t>> \in below
  BY <1>3, <1>4, <1>5
<1> QED BY <1>2, <1>6

-----------------------------------------------------------------------------
\* Enumerations: a set of naturals as an ascending sequence.

Enumerates(w, S) ==
    /\ w \in Seq(Nat)
    /\ \A i \in 1..Len(w) : w[i] \in S
    /\ \A y \in S : \E i \in 1..Len(w) : w[i] = y
    /\ \A i, j \in 1..Len(w) : i < j => w[i] < w[j]

\* The empty sequence enumerates the empty set.
LEMMA EnumeratesNone == Enumerates(<<>>, {})
BY EmptySeq DEF Enumerates

\* A sequence grows by a number beyond all of the set.
LEMMA EnumeratesMore ==
    ASSUME NEW w, NEW S, Enumerates(w, S), NEW x \in Nat, \A y \in S : y < x
    PROVE  Enumerates(Append(w, x), S \cup {x})
<1> DEFINE v == Append(w, x)
           n == Len(w)
<1>1. w \in Seq(Nat) /\ n \in Nat
  BY LenProperties DEF Enumerates
<1>2. v \in Seq(Nat) /\ Len(v) = n + 1 /\ v[n + 1] = x /\ \A i \in 1..n : v[i] = w[i]
  BY <1>1, AppendProperties
<1> HIDE DEF v
<1>3. \A i \in 1..n : w[i] \in S /\ w[i] < x
  BY DEF Enumerates
<1>4. \A i \in 1..(n + 1) : v[i] \in S \cup {x}
  <2> SUFFICES ASSUME NEW i \in 1..(n + 1) PROVE v[i] \in S \cup {x}
    OBVIOUS
  <2> i \in 1..n \/ i = n + 1
    BY <1>1
  <2> QED BY <1>2, <1>3
<1>5. ASSUME NEW y \in S \cup {x} PROVE \E i \in 1..(n + 1) : v[i] = y
  <2>1. CASE y = x
    <3>1. n + 1 \in 1..(n + 1)
      BY <1>1
    <3> QED BY <1>2, <2>1, <3>1
  <2>2. CASE y \in S
    <3>1. PICK i \in 1..n : w[i] = y
      BY <2>2 DEF Enumerates
    <3>2. i \in 1..(n + 1)
      BY <1>1
    <3> QED BY <1>2, <3>1, <3>2
  <2> QED BY <2>1, <2>2
<1>6. ASSUME NEW i \in 1..(n + 1), NEW j \in 1..(n + 1), i < j PROVE v[i] < v[j]
  <2>1. i \in 1..n
    BY <1>1, <1>6
  <2>2. CASE j \in 1..n
    <3>1. w[i] < w[j]
      BY <1>6, <2>1, <2>2 DEF Enumerates
    <3> QED BY <1>2, <2>1, <2>2, <3>1
  <2>3. CASE j = n + 1
    BY <1>2, <1>3, <2>1, <2>3
  <2> QED BY <1>1, <2>2, <2>3
<1>7. Enumerates(v, S \cup {x})
  BY <1>2, <1>4, <1>5, <1>6 DEF Enumerates
<1> QED BY <1>7 DEF v

\* Without its head, a sequence enumerates all but the least number.
LEMMA EnumeratesLess ==
    ASSUME NEW w, NEW S, Enumerates(w, S), NEW m \in S, \A y \in S : m <= y
    PROVE  /\ w # <<>> /\ Head(w) = m
           /\ Enumerates(Tail(w), S \ {m})
<1> DEFINE v == Tail(w)
           n == Len(w)
<1>1. w \in Seq(Nat) /\ n \in Nat
  BY LenProperties DEF Enumerates
<1>2. PICK a \in 1..n : w[a] = m
  BY DEF Enumerates
<1>3. n >= 1 /\ 1 \in 1..n
  BY <1>1
<1>4. w # <<>>
  BY <1>1, <1>3, EmptySeq
<1>5. \A i \in 1..n : w[i] \in Nat
  BY <1>1, ElementOfSeq
<1>6. w[1] = m
  <2> SUFFICES ASSUME 1 # a PROVE FALSE
    BY <1>2
  <2>1. 1 < a
    BY <1>1
  <2>2. w[1] < w[a] /\ w[1] \in S
    BY <1>3, <2>1 DEF Enumerates
  <2>3. m <= w[1]
    BY <2>2
  <2> QED BY <1>2, <1>3, <1>5, <2>2, <2>3
<1>7. /\ Head(w) = w[1] /\ v \in Seq(Nat) /\ Len(v) = n - 1
      /\ \A i \in 1..Len(v) : v[i] = w[i + 1]
  BY <1>1, <1>4, HeadTailProperties
<1> HIDE DEF v
<1>8. ASSUME NEW i \in 1..Len(v) PROVE i + 1 \in 1..n /\ v[i] = w[i + 1] /\ v[i] # m
  <2>1. i + 1 \in 1..n /\ 1 < i + 1
    BY <1>1, <1>7
  <2>2. w[1] < w[i + 1]
    BY <1>3, <2>1 DEF Enumerates
  <2> QED BY <1>3, <1>5, <1>6, <1>7, <2>1, <2>2
<1>9. \A i \in 1..Len(v) : v[i] \in S \ {m}
  BY <1>8 DEF Enumerates
<1>10. ASSUME NEW y \in S \ {m} PROVE \E i \in 1..Len(v) : v[i] = y
  <2>1. PICK b \in 1..n : w[b] = y
    BY DEF Enumerates
  <2>2. b # 1
    BY <1>6, <2>1
  <2>3. b - 1 \in 1..Len(v) /\ (b - 1) + 1 = b
    BY <1>1, <1>7, <2>2
  <2> QED BY <1>7, <2>1, <2>3
<1>11. ASSUME NEW i \in 1..Len(v), NEW j \in 1..Len(v), i < j PROVE v[i] < v[j]
  <2>1. i + 1 < j + 1
    BY <1>1, <1>7, <1>11
  <2>2. w[i + 1] < w[j + 1]
    BY <1>8, <2>1 DEF Enumerates
  <2> QED BY <1>8, <2>2
<1>12. Enumerates(v, S \ {m})
  BY <1>7, <1>9, <1>10, <1>11 DEF Enumerates
<1> QED BY <1>4, <1>6, <1>7, <1>12 DEF v

\* Where one enumeration has a number, another one of the same set has it too.
LEMMA EnumeratesAlike ==
    ASSUME NEW v, NEW w, NEW S, Enumerates(v, S), Enumerates(w, S)
    PROVE  Len(v) <= Len(w) /\ \A i \in 1..Len(v) : v[i] = w[i]
<1> DEFINE a == Len(v)
           b == Len(w)
           Same(i) == i <= b /\ v[i] = w[i]
           N == {n \in Nat : \A i \in 1..n : i <= a => Same(i)}
<1>1. a \in Nat /\ b \in Nat
  BY LenProperties DEF Enumerates
<1>2. (\A i \in 1..a : v[i] \in Nat) /\ \A i \in 1..b : w[i] \in Nat
  BY ElementOfSeq DEF Enumerates
<1>3. 0 \in N
  OBVIOUS
<1>4. ASSUME NEW n \in Nat, n \in N PROVE n + 1 \in N
  <2> SUFFICES ASSUME n + 1 <= a PROVE Same(n + 1)
    <3>1. \A i \in 1..(n + 1) : i \in 1..n \/ i = n + 1
      OBVIOUS
    <3> QED BY <1>4, <3>1
  <2>1. n + 1 \in 1..a /\ \A i \in 1..n : i \in 1..a /\ i \in 1..b /\ v[i] = w[i]
    BY <1>1, <1>4
  <2>2. PICK j \in 1..b : w[j] = v[n + 1]
    BY <2>1 DEF Enumerates
  <2>3. j > n
    <3> SUFFICES ASSUME j \in 1..n PROVE FALSE
      BY <1>1
    <3>1. v[j] < v[n + 1]
      BY <2>1 DEF Enumerates
    <3> QED BY <1>2, <2>1, <2>2, <3>1
  <2>4. n + 1 \in 1..b
    BY <1>1, <2>3
  <2>5. CASE j = n + 1
    BY <1>1, <2>2, <2>4, <2>5
  <2>6. CASE j > n + 1
    <3>1. w[n + 1] < w[j] /\ w[n + 1] \in S
      BY <2>4, <2>6 DEF Enumerates
    <3>2. PICK i \in 1..a : v[i] = w[n + 1]
      BY <3>1 DEF Enumerates
    <3>3. v[i] < v[n + 1]
      BY <2>2, <3>1, <3>2
    <3>4. i <= n
      <4> SUFFICES ASSUME i > n PROVE FALSE
        BY <1>1
      <4>1. i = n + 1 \/ n + 1 < i
        BY <1>1
      <4>2. i = n + 1 \/ v[n + 1] < v[i]
        BY <2>1, <4>1 DEF Enumerates
      <4> QED BY <1>2, <2>1, <3>3, <4>2
    <3>5. i \in 1..n /\ i < n + 1
      BY <1>1, <3>4
    <3>6. v[i] = w[i] /\ i \in 1..b
      BY <2>1, <3>5
    <3>7. w[i] < w[n + 1]
      BY <2>4, <3>5, <3>6 DEF Enumerates
    <3> QED BY <1>2, <2>4, <3>2, <3>6, <3>7
  <2> QED BY <1>1, <2>3, <2>5, <2>6
<1>5. \A n \in Nat : n \in N
  <2> HIDE DEF N
  <2> QED BY <1>3, <1>4, SetInduction
<1>6. \A i \in 1..a : i <= b /\ v[i] = w[i]
  BY <1>1, <1>5
<1>7. a <= b
  BY <1>1, <1>6
<1> QED BY <1>6, <1>7

\* There is one enumeration of a set.
LEMMA EnumeratesOnce ==
    ASSUME NEW v, NEW w, NEW S, Enumerates(v, S), Enumerates(w, S)
    PROVE  v = w
<1>1. v \in Seq(Nat) /\ w \in Seq(Nat) /\ Len(v) \in Nat /\ Len(w) \in Nat
  BY LenProperties DEF Enumerates
<1>2. Len(v) <= Len(w) /\ Len(w) <= Len(v) /\ \A i \in 1..Len(v) : v[i] = w[i]
  BY EnumeratesAlike
<1>3. Len(v) = Len(w)
  BY <1>1, <1>2
<1> QED BY <1>1, <1>2, <1>3, SeqEqual

-----------------------------------------------------------------------------
\* Where.

\* The recursion that defines it, up to position n.
WhereStep(s, x, f, k) ==
    IF k = 0 THEN <<>> ELSE IF s[k] = x THEN Append(f[k - 1], k) ELSE f[k - 1]
WhereSolves(s, x, f, n) == f = [k \in 0..n |-> WhereStep(s, x, f, k)]

\* It has a solution.
LEMMA WhereExists ==
    ASSUME NEW s, Len(s) \in Nat, NEW x
    PROVE  \E at : WhereSolves(s, x, at, Len(s))
<1> DEFINE Step(f, k) == WhereStep(s, x, f, k)
           Solves(f, n) == WhereSolves(s, x, f, n)
           N == {n \in Nat : \E f : Solves(f, n)}
<1>1. 0 \in N
  <2> DEFINE f == [k \in 0..0 |-> <<>>]
  <2>1. Solves(f, 0)
    BY DEF WhereSolves, WhereStep
  <2> HIDE DEF f, Solves
  <2> QED BY <2>1
<1>2. ASSUME NEW n \in Nat, n \in N PROVE n + 1 \in N
  <2>1. PICK f : f = [k \in 0..n |-> Step(f, k)]
    BY <1>2 DEF WhereSolves
  <2> DEFINE g == [k \in 0..(n + 1) |-> IF k = n + 1 THEN Step(f, n + 1) ELSE f[k]]
  <2>2. ASSUME NEW k \in 0..(n + 1) PROVE g[k] = Step(g, k)
    <3>1. CASE k = 0
      <4>1. 0 \in 0..n /\ 0 \in 0..(n + 1) /\ 0 # n + 1
        OBVIOUS
      <4>2. f[0] = <<>>
        BY <2>1, <4>1 DEF WhereStep
      <4> QED BY <3>1, <4>1, <4>2 DEF WhereStep
    <3>2. CASE k # 0
      <4>1. k - 1 \in 0..n /\ k - 1 \in 0..(n + 1) /\ k - 1 # n + 1
        BY <3>2
      <4>2. g[k - 1] = f[k - 1]
        BY <4>1
      <4>3. Step(g, k) = Step(f, k)
        BY <3>2, <4>2 DEF WhereStep
      <4>4. CASE k = n + 1
        BY <4>3, <4>4
      <4>5. CASE k # n + 1
        <5>1. k \in 0..n
          BY <4>5
        <5>2. f[k] = Step(f, k)
          BY <2>1, <5>1
        <5> QED BY <4>3, <4>5, <5>2
      <4> QED BY <4>4, <4>5
    <3> QED BY <3>1, <3>2
  <2>3. Solves(g, n + 1)
    <3>1. DOMAIN g = 0..(n + 1) /\ g = [k \in 0..(n + 1) |-> g[k]]
      OBVIOUS
    <3> HIDE DEF g
    <3> QED BY <2>2, <3>1 DEF WhereSolves
  <2> HIDE DEF g, Solves
  <2> QED BY <2>3
<1>3. Len(s) \in N
  <2> HIDE DEF N
  <2> QED BY <1>1, <1>2, SetInduction
<1> QED BY <1>3

\* Where enumerates the positions that hold x.
LEMMA WhereEnumerates ==
    ASSUME NEW s, Len(s) \in Nat, NEW x
    PROVE  Enumerates(Where(s, x), {k \in 1..Len(s) : s[k] = x})
<1> DEFINE at == CHOOSE f : WhereSolves(s, x, f, Len(s))
           Hits(n) == {k \in 1..n : s[k] = x}
           N == {n \in Nat : n <= Len(s) => Enumerates(at[n], Hits(n))}
<1>1. Where(s, x) = at[Len(s)]
  BY DEF Where, WhereSolves, WhereStep
<1>2. at = [k \in 0..Len(s) |-> WhereStep(s, x, at, k)]
  <2>1. WhereSolves(s, x, at, Len(s))
    BY WhereExists, Zenon
  <2> HIDE DEF at
  <2> QED BY <2>1 DEF WhereSolves
<1> HIDE DEF at
<1>3. 0 \in N
  <2>1. at[0] = <<>>
    BY <1>2 DEF WhereStep
  <2>2. Hits(0) = {}
    OBVIOUS
  <2> HIDE DEF Hits
  <2> QED BY <2>1, <2>2, EnumeratesNone
<1>4. ASSUME NEW n \in Nat, n \in N PROVE n + 1 \in N
  <2> SUFFICES ASSUME n + 1 <= Len(s) PROVE Enumerates(at[n + 1], Hits(n + 1))
    OBVIOUS
  <2>1. Enumerates(at[n], Hits(n))
    BY <1>4
  <2>2. n + 1 \in 0..Len(s) /\ n + 1 # 0 /\ (n + 1) - 1 = n
    OBVIOUS
  <2>3. at[n + 1] = WhereStep(s, x, at, n + 1)
    BY <1>2, <2>2
  <2>4. CASE s[n + 1] = x
    <3>1. at[n + 1] = Append(at[n], n + 1)
      BY <2>2, <2>3, <2>4 DEF WhereStep
    <3>2. Hits(n + 1) = Hits(n) \cup {n + 1}
      BY <2>4
    <3>3. \A y \in Hits(n) : y < n + 1
      OBVIOUS
    <3> HIDE DEF Hits
    <3> QED BY <2>1, <3>1, <3>2, <3>3, EnumeratesMore
  <2>5. CASE s[n + 1] # x
    <3>1. at[n + 1] = at[n]
      BY <2>2, <2>3, <2>5 DEF WhereStep
    <3>2. Hits(n + 1) = Hits(n)
      BY <2>5
    <3> HIDE DEF Hits
    <3> QED BY <2>1, <3>1, <3>2
  <2> QED BY <2>4, <2>5
<1>5. Len(s) \in N
  <2> HIDE DEF N
  <2> QED BY <1>3, <1>4, SetInduction
<1> QED BY <1>1, <1>5

-----------------------------------------------------------------------------
\* The part log of a ring of parts, X, and its index.

PartRings(X) == [entries : Seq(X), base : Nat, published : Nat]

\* The absolute positions of the parts of segment n.
PositionsOf(ring, n) ==
    {a \in ring.base..(ring.base + Len(ring.entries) - 1) :
        ring.entries[a - ring.base + 1].n = n}

\* n is a key exactly when there are positions, and then enumerates them.
KeyRight(index, n, positions) ==
    /\ n \in DOMAIN index <=> positions # {}
    /\ n \in DOMAIN index => Enumerates(index[n], positions)

IndexRight(log, X, capacity) ==
    /\ log.ring \in PartRings(X) /\ RingOK(log.ring, capacity)
    /\ \A n : KeyRight(log.by_segment, n, PositionsOf(log.ring, n))

\* A segment that is not in the index has no parts.
LEMMA PositionsRight ==
    ASSUME NEW log, NEW X, NEW capacity, IndexRight(log, X, capacity), NEW n
    PROVE  Enumerates(Positions(log, n), PositionsOf(log.ring, n))
<1>1. CASE n \in DOMAIN log.by_segment
  BY <1>1 DEF IndexRight, KeyRight, Positions
<1>2. CASE n \notin DOMAIN log.by_segment
  <2>1. PositionsOf(log.ring, n) = {} /\ Positions(log, n) = <<>>
    BY <1>2 DEF IndexRight, KeyRight, Positions
  <2> QED BY <2>1, EnumeratesNone
<1> QED BY <1>1, <1>2

\* An empty part log.
LEMMA EmptyIndexRight ==
    ASSUME NEW X, NEW capacity \in Nat
    PROVE  IndexRight(EmptyPartLog, X, capacity)
<1> DEFINE ring == EmptyPartLog.ring
<1>1. ring.entries = <<>> /\ ring.base = 0 /\ ring.published = 0 /\ ring \in PartRings(X)
  BY EmptySeq DEF EmptyPartLog, EmptyRing, PartRings
<1>2. Len(ring.entries) = 0
  BY <1>1, EmptySeq
<1>3. \A n : PositionsOf(ring, n) = {}
  BY <1>1, <1>2 DEF PositionsOf
<1>4. DOMAIN EmptyPartLog.by_segment = {}
  BY DEF EmptyPartLog
<1>5. RingOK(ring, capacity)
  BY <1>1, <1>2 DEF RingOK
<1>6. \A n : KeyRight(EmptyPartLog.by_segment, n, PositionsOf(ring, n))
  BY <1>3, <1>4 DEF KeyRight
<1> QED BY <1>1, <1>5, <1>6 DEF IndexRight

\* What a push does to the ring, d being the parts it evicts.
Pushed(ring, new, capacity, x, X, d) ==
    LET len == Len(ring.entries) - d
    IN  /\ new \in PartRings(X) /\ RingOK(new, capacity)
        /\ len \in Nat /\ Len(new.entries) = len + 1
        /\ new.base = ring.base + d /\ new.published = ring.published + 1
        /\ ring.published = ring.base + Len(ring.entries)
        /\ \A k \in 1..len : new.entries[k] = ring.entries[k + d] /\ k + d \in 1..Len(ring.entries)
        /\ new.entries[len + 1] = x
        /\ d = 1 => Len(ring.entries) > 0

\* A full ring evicts one part, any other none.
LEMMA RingPushed ==
    ASSUME NEW X, NEW capacity \in Nat \ {0}, NEW ring \in PartRings(X), RingOK(ring, capacity),
           NEW x \in X
    PROVE  Pushed(ring, RingPush(ring, capacity, x), capacity, x, X,
                  IF Len(ring.entries) = capacity THEN 1 ELSE 0)
<1> DEFINE new == RingPush(ring, capacity, x)
           d == IF Len(ring.entries) = capacity THEN 1 ELSE 0
           s == ring.entries
           kept == IF Len(s) = capacity THEN Tail(s) ELSE s
           len == Len(s) - d
<1>1. s \in Seq(X) /\ Len(s) \in Nat /\ ring.base \in Nat /\ ring.published \in Nat
  BY LenProperties DEF PartRings
<1>2. ring.base + Len(s) = ring.published /\ Len(s) <= capacity
  BY DEF RingOK
<1>3. /\ kept \in Seq(X) /\ Len(kept) = len /\ len \in Nat
      /\ \A k \in 1..len : kept[k] = s[k + d] /\ k + d \in 1..Len(s)
  <2>1. CASE Len(s) = capacity
    <3>1. s # <<>> /\ Len(s) >= 1
      BY <1>1, <2>1, EmptySeq
    <3>2. /\ Tail(s) \in Seq(X) /\ Len(Tail(s)) = Len(s) - 1
          /\ \A k \in 1..Len(Tail(s)) : Tail(s)[k] = s[k + 1]
      BY <1>1, <3>1, HeadTailProperties
    <3>3. kept = Tail(s) /\ d = 1
      BY <2>1
    <3>4. \A k \in 1..(Len(s) - 1) : k + 1 \in 1..Len(s)
      BY <1>1
    <3> HIDE DEF kept, d
    <3> QED BY <1>1, <3>1, <3>2, <3>3, <3>4
  <2>2. CASE Len(s) # capacity
    <3>1. kept = s /\ d = 0
      BY <2>2
    <3> HIDE DEF kept, d
    <3> QED BY <1>1, <3>1
  <2> QED BY <2>1, <2>2
<1>4. new = [entries |-> Append(kept, x), base |-> ring.base + d, published |-> ring.published + 1]
  <2>1. CASE Len(s) = capacity
    <3>1. kept = Tail(s) /\ ring.base + d = ring.base + 1
      BY <2>1
    <3>2. new = [entries |-> Append(Tail(s), x), base |-> ring.base + 1,
                 published |-> ring.published + 1]
      BY <2>1 DEF RingPush
    <3> HIDE DEF kept, d, new
    <3> QED BY <3>1, <3>2
  <2>2. CASE Len(s) # capacity
    <3>1. kept = s /\ ring.base + d = ring.base
      BY <1>1, <2>2
    <3>2. new = [entries |-> Append(s, x), base |-> ring.base,
                 published |-> ring.published + 1]
      BY <2>2 DEF RingPush
    <3> HIDE DEF kept, d, new
    <3> QED BY <3>1, <3>2
  <2> QED BY <2>1, <2>2
<1>5. d \in {0, 1} /\ (d = 1 => Len(s) > 0) /\ len + 1 <= capacity
  BY <1>1, <1>2
<1> HIDE DEF kept, d
<1>6. /\ Append(kept, x) \in Seq(X) /\ Len(Append(kept, x)) = len + 1
      /\ Append(kept, x)[len + 1] = x /\ \A k \in 1..len : Append(kept, x)[k] = kept[k]
  BY <1>3, AppendProperties
<1>7. new \in PartRings(X)
  BY <1>1, <1>4, <1>5, <1>6 DEF PartRings
<1>8. new.entries = Append(kept, x) /\ new.base = ring.base + d /\ new.published = ring.published + 1
  BY <1>4
<1> HIDE DEF new
<1>9. RingOK(new, capacity)
  <2> DEFINE base == ring.base
             published == ring.published
             m == Len(s)
             n == Len(new.entries)
  <2>1. /\ base \in Nat /\ published \in Nat /\ m \in Nat /\ base + m = published
        /\ n = m - d + 1 /\ m - d + 1 <= capacity
    BY <1>1, <1>2, <1>5, <1>6, <1>8
  <2>2. new.base = base + d /\ new.published = published + 1
    BY <1>8
  <2> HIDE DEF base, published, m, n
  <2>3. (base + d) + n = published + 1 /\ n <= capacity
    BY <1>5, <2>1
  <2> QED BY <2>2, <2>3 DEF RingOK, n
<1>10. \A k \in 1..len : new.entries[k] = s[k + d] /\ k + d \in 1..Len(s)
  BY <1>3, <1>6, <1>8
<1>11. Pushed(ring, new, capacity, x, X, d)
  BY <1>1, <1>2, <1>3, <1>5, <1>6, <1>7, <1>8, <1>9, <1>10 DEF Pushed
<1> QED BY <1>11 DEF new, d


\* What a push does to the positions of a segment.
LEMMA PositionsMoved ==
    ASSUME NEW X, NEW capacity \in Nat \ {0}, NEW ring \in PartRings(X), RingOK(ring, capacity),
           NEW x \in X, NEW n
    PROVE  PositionsOf(RingPush(ring, capacity, x), n)
              = (PositionsOf(ring, n)
                    \ (IF Len(ring.entries) = capacity THEN {ring.base} ELSE {}))
                \cup (IF x.n = n THEN {ring.published} ELSE {})
<1> DEFINE new == RingPush(ring, capacity, x)
           d == IF Len(ring.entries) = capacity THEN 1 ELSE 0
           s == ring.entries
           m == Len(s)
           len == m - d
           base == ring.base
           published == ring.published
           Old(a) == s[a - base + 1].n
           New(a) == new.entries[a - (base + d) + 1].n
           gone == IF Len(s) = capacity THEN {base} ELSE {}
           come == IF x.n = n THEN {published} ELSE {}
<1>1. /\ len \in Nat /\ Len(new.entries) = len + 1
      /\ new.base = base + d /\ published = base + m
      /\ \A k \in 1..len : new.entries[k] = s[k + d] /\ k + d \in 1..m
      /\ new.entries[len + 1] = x
  <2>1. Pushed(ring, new, capacity, x, X, d)
    BY RingPushed
  <2> HIDE DEF new, d
  <2> QED BY <2>1 DEF Pushed
<1>2. base \in Nat /\ m \in Nat /\ d \in {0, 1} /\ gone = (IF d = 1 THEN {base} ELSE {})
  BY LenProperties DEF PartRings
<1>3. m = len + d
  <2> HIDE DEF m, d
  <2> QED BY <1>2
<1>4. PositionsOf(ring, n) = {a \in base..(base + m - 1) : Old(a) = n}
  BY DEF PositionsOf
<1>5. PositionsOf(new, n) = {a \in (base + d)..((base + d) + (len + 1) - 1) : New(a) = n}
  <2> HIDE DEF new, d, len
  <2> QED BY <1>1 DEF PositionsOf
<1> HIDE DEF new, d, s, m, len, base, published, gone
<1>6. ASSUME NEW a \in (base + d)..(base + m - 1) PROVE Old(a) = New(a)
  <2> DEFINE k == a - (base + d) + 1
  <2>1. k \in 1..len /\ k + d = a - base + 1
    BY <1>1, <1>2, <1>3
  <2>2. new.entries[k] = s[k + d]
    BY <1>1, <2>1
  <2> QED BY <2>1, <2>2
<1>7. New(published) = x.n
  <2>1. published - (base + d) + 1 = len + 1
    BY <1>1, <1>2, <1>3
  <2> QED BY <1>1, <2>1
<1> HIDE DEF Old, New
<1>8. (base + d)..((base + d) + (len + 1) - 1) = ((base + d)..(base + m - 1)) \cup {published}
  BY <1>1, <1>2, <1>3
<1>9. (base + d)..(base + m - 1) = (base..(base + m - 1)) \ gone
  BY <1>1, <1>2, <1>3
<1>10. {a \in (base + d)..(base + m - 1) : New(a) = n}
          = {a \in base..(base + m - 1) : Old(a) = n} \ gone
  BY <1>6, <1>9
<1>11. {a \in {published} : New(a) = n} = come
  BY <1>7
<1>12. PositionsOf(new, n)
          = {a \in (base + d)..(base + m - 1) : New(a) = n} \cup {a \in {published} : New(a) = n}
  BY <1>5, <1>8
<1>13. PositionsOf(new, n) = (PositionsOf(ring, n) \ gone) \cup come
  BY <1>4, <1>10, <1>11, <1>12
<1> QED BY <1>13 DEF new, gone, come, s, base, published

\* The enumeration of no numbers is empty, and only that one.
LEMMA EnumeratesEmpty ==
    ASSUME NEW w, NEW S, Enumerates(w, S)
    PROVE  w = <<>> <=> S = {}
<1>1. ASSUME w = <<>> PROVE S = {}
  <2>1. Len(w) = 0
    BY <1>1, EmptySeq
  <2> QED BY <2>1 DEF Enumerates
<1>2. ASSUME S = {} PROVE w = <<>>
  BY <1>2, EnumeratesNone, EnumeratesOnce
<1> QED BY <1>1, <1>2

\* An eviction takes the oldest position of its segment and no other.
LEMMA UnindexedRight ==
    ASSUME NEW index, NEW h, NEW S, KeyRight(index, h, S), NEW m \in S, \A y \in S : m <= y
    PROVE  /\ KeyRight(Unindexed(index, h), h, S \ {m})
           /\ \A n, T : n # h /\ KeyRight(index, n, T) => KeyRight(Unindexed(index, h), n, T)
<1> DEFINE rest == Tail(index[h])
           keys == IF rest = <<>> THEN DOMAIN index \ {h} ELSE DOMAIN index
           new == Unindexed(index, h)
<1>1. h \in DOMAIN index /\ Enumerates(index[h], S)
  BY DEF KeyRight
<1>2. Enumerates(rest, S \ {m})
  BY <1>1, EnumeratesLess
<1>3. rest = <<>> <=> S \ {m} = {}
  <2> HIDE DEF rest
  <2> QED BY <1>2, EnumeratesEmpty
<1>4. new = [k \in keys |-> IF k = h THEN rest ELSE index[k]]
  BY DEF Unindexed
<1> HIDE DEF rest, new
<1>5. DOMAIN new = keys /\ \A k \in keys : new[k] = IF k = h THEN rest ELSE index[k]
  BY <1>4
<1>6. h \in keys <=> S \ {m} # {}
  BY <1>1, <1>3
<1>7. KeyRight(new, h, S \ {m})
  <2> HIDE DEF keys
  <2> QED BY <1>2, <1>5, <1>6 DEF KeyRight
<1>8. ASSUME NEW n, NEW T, n # h, KeyRight(index, n, T) PROVE KeyRight(new, n, T)
  <2>1. n \in keys <=> n \in DOMAIN index
    BY <1>8
  <2> HIDE DEF keys
  <2>2. n \in DOMAIN index => new[n] = index[n]
    BY <1>5, <1>8, <2>1
  <2> QED BY <1>5, <1>8, <2>1, <2>2 DEF KeyRight
<1> QED BY <1>7, <1>8 DEF new

\* A push adds the newest position to its segment and to no other.
LEMMA IndexedRight ==
    ASSUME NEW index, NEW h, NEW S, KeyRight(index, h, S), NEW pos \in Nat, \A y \in S : y < pos
    PROVE  /\ KeyRight(Indexed(index, h, pos), h, S \cup {pos})
           /\ \A n, T : n # h /\ KeyRight(index, n, T) => KeyRight(Indexed(index, h, pos), n, T)
<1> DEFINE new == Indexed(index, h, pos)
           more == IF h \in DOMAIN index THEN Append(index[h], pos) ELSE <<pos>>
<1>1. new = [k \in DOMAIN index \cup {h} |-> IF k # h THEN index[k] ELSE more]
  BY DEF Indexed
<1>2. Enumerates(more, S \cup {pos})
  <2>1. CASE h \in DOMAIN index
    <3>1. Enumerates(index[h], S)
      BY <2>1 DEF KeyRight
    <3>2. Enumerates(Append(index[h], pos), S \cup {pos})
      BY <3>1, EnumeratesMore
    <3> QED BY <2>1, <3>2
  <2>2. CASE h \notin DOMAIN index
    <3>1. S = {}
      BY <2>2 DEF KeyRight
    <3>2. Append(<<>>, pos) = <<pos>>
      OBVIOUS
    <3>3. Enumerates(Append(<<>>, pos), S \cup {pos})
      BY <3>1, EnumeratesNone, EnumeratesMore
    <3> QED BY <2>2, <3>2, <3>3
  <2> QED BY <2>1, <2>2
<1> HIDE DEF new, more
<1>3. DOMAIN new = DOMAIN index \cup {h} /\ new[h] = more
  BY <1>1
<1>4. KeyRight(new, h, S \cup {pos})
  BY <1>2, <1>3 DEF KeyRight
<1>5. ASSUME NEW n, NEW T, n # h, KeyRight(index, n, T) PROVE KeyRight(new, n, T)
  <2>1. n \in DOMAIN new <=> n \in DOMAIN index
    BY <1>3, <1>5
  <2>2. n \in DOMAIN index => new[n] = index[n]
    BY <1>1, <1>5
  <2> QED BY <1>5, <2>1, <2>2 DEF KeyRight
<1> QED BY <1>4, <1>5 DEF new

\* A push keeps the index right.
LEMMA PushIndexRight ==
    ASSUME NEW X, NEW capacity \in Nat \ {0}, NEW log, IndexRight(log, X, capacity), NEW x \in X
    PROVE  IndexRight(push(log, capacity, x), X, capacity)
<1> DEFINE ring == log.ring
           s == ring.entries
           full == Len(s) = capacity
           h == s[1].n
           kept == IF full THEN Unindexed(log.by_segment, h) ELSE log.by_segment
           index == Indexed(kept, x.n, ring.published)
           new == push(log, capacity, x)
           Kept(n) == PositionsOf(ring, n) \ (IF full THEN {ring.base} ELSE {})
           Come(n) == IF x.n = n THEN {ring.published} ELSE {}
<1>1. ring \in PartRings(X) /\ RingOK(ring, capacity)
  BY DEF IndexRight
<1>2. /\ s \in Seq(X) /\ Len(s) \in Nat /\ ring.base \in Nat /\ ring.published \in Nat
      /\ ring.base + Len(s) = ring.published
  BY <1>1, LenProperties DEF PartRings, RingOK
<1>3. new.ring = RingPush(ring, capacity, x) /\ new.by_segment = index
  BY DEF push
<1>4. ASSUME NEW n PROVE KeyRight(log.by_segment, n, PositionsOf(ring, n))
  BY DEF IndexRight
<1>5. \A n : \A y \in PositionsOf(ring, n) : y \in Nat /\ ring.base <= y /\ y < ring.published
  BY <1>2 DEF PositionsOf
<1>6. ASSUME NEW n PROVE KeyRight(kept, n, Kept(n))
  <2>1. CASE ~full
    <3>1. Kept(n) = PositionsOf(ring, n) /\ kept = log.by_segment
      BY <2>1
    <3> HIDE DEF Kept, kept
    <3> QED BY <1>4, <3>1
  <2>2. CASE full
    <3>1. kept = Unindexed(log.by_segment, h) /\ Kept(n) = PositionsOf(ring, n) \ {ring.base}
      BY <2>2
    <3>2. ring.base \in PositionsOf(ring, h)
      <4>1. /\ ring.base \in ring.base..(ring.base + Len(s) - 1)
            /\ ring.base - ring.base + 1 = 1
        BY <1>2, <2>2
      <4> QED BY <4>1 DEF PositionsOf
    <3>3. \A y \in PositionsOf(ring, h) : ring.base <= y
      BY <1>5
    <3>4. CASE n = h
      <4> HIDE DEF h, kept, Kept, ring
      <4> QED BY <1>4, <3>1, <3>2, <3>3, <3>4, UnindexedRight
    <3>5. CASE n # h
      <4>1. ring.base \notin PositionsOf(ring, n)
        <5>1. ring.base - ring.base + 1 = 1
          BY <1>2
        <5> QED BY <3>5, <5>1 DEF PositionsOf
      <4>2. Kept(n) = PositionsOf(ring, n)
        BY <3>1, <4>1
      <4>3. KeyRight(log.by_segment, n, PositionsOf(ring, n))
            /\ KeyRight(log.by_segment, h, PositionsOf(ring, h))
        BY <1>4
      <4> HIDE DEF h, kept, Kept, ring
      <4> QED BY <3>1, <3>2, <3>3, <3>5, <4>2, <4>3, UnindexedRight
    <3> QED BY <3>4, <3>5
  <2> QED BY <2>1, <2>2
<1>7. \A n : PositionsOf(new.ring, n) = Kept(n) \cup Come(n)
  BY <1>1, <1>3, PositionsMoved
<1>8. \A n : \A y \in Kept(n) : y < ring.published
  BY <1>5
<1>9. new.ring \in PartRings(X) /\ RingOK(new.ring, capacity)
  <2> DEFINE pushed == RingPush(ring, capacity, x)
  <2>1. pushed \in PartRings(X) /\ RingOK(pushed, capacity)
    <3> HIDE DEF ring
    <3> QED BY <1>1, RingPushed DEF Pushed
  <2> HIDE DEF pushed, new
  <2> QED BY <1>3, <2>1 DEF pushed
<1>10. ASSUME NEW n PROVE KeyRight(new.by_segment, n, PositionsOf(new.ring, n))
  <2> DEFINE hx == x.n
             pos == ring.published
  <2>1. KeyRight(kept, hx, Kept(hx)) /\ KeyRight(kept, n, Kept(n))
    BY <1>6
  <2>2. pos \in Nat /\ \A y \in Kept(hx) : y < pos
    BY <1>2, <1>8
  <2>3. new.by_segment = Indexed(kept, hx, pos)
    BY <1>3
  <2>4. n = hx => Come(n) = {pos}
    OBVIOUS
  <2>5. n # hx => Come(n) = {}
    OBVIOUS
  <2>6. PositionsOf(new.ring, n) = Kept(n) \cup Come(n)
    BY <1>7
  <2> HIDE DEF kept, Kept, Come, hx, pos, new
  <2>7. CASE n = hx
    <3>1. KeyRight(Indexed(kept, hx, pos), hx, Kept(hx) \cup {pos})
      BY <2>1, <2>2, IndexedRight
    <3> QED BY <2>3, <2>4, <2>6, <2>7, <3>1
  <2>8. CASE n # hx
    <3>1. KeyRight(Indexed(kept, hx, pos), n, Kept(n))
      BY <2>1, <2>2, <2>8, IndexedRight
    <3>2. PositionsOf(new.ring, n) = Kept(n)
      BY <2>5, <2>6, <2>8
    <3> QED BY <2>3, <3>1, <3>2
  <2> QED BY <2>7, <2>8
<1> HIDE DEF new
<1>11. IndexRight(new, X, capacity)
  BY <1>9, <1>10 DEF IndexRight
<1> QED BY <1>11 DEF new

-----------------------------------------------------------------------------
\* Lookups.

\* Where finds the positions that any enumeration of them has.
LEMMA WhereIs ==
    ASSUME NEW s, Len(s) \in Nat, NEW x, NEW w, Enumerates(w, {k \in 1..Len(s) : s[k] = x})
    PROVE  Where(s, x) = w
BY WhereEnumerates, EnumeratesOnce

\* All the positions, in order.
LEMMA EnumeratesAll ==
    ASSUME NEW n \in Nat
    PROVE  Enumerates([k \in 1..n |-> k], 1..n) /\ Len([k \in 1..n |-> k]) = n
<1> DEFINE w == [k \in 1..n |-> k]
<1>1. w \in Seq(Nat) /\ Len(w) = n
  BY IsASeq, LenProperties
<1>2. \A i \in 1..n : w[i] = i
  OBVIOUS
<1> HIDE DEF w
<1>3. Enumerates(w, 1..n)
  BY <1>1, <1>2 DEF Enumerates
<1> QED BY <1>1, <1>3 DEF w

\* A sequence of functions of the positions has their length.
LEMMA PickLength ==
    ASSUME NEW s, NEW w \in Seq(Nat)
    PROVE  /\ Len(Pick(s, w)) = Len(w)
           /\ \A k \in 1..Len(w) : Pick(s, w)[k] = s[w[k]]
<1>1. Len(w) \in Nat
  BY LenProperties
<1>2. DOMAIN Pick(s, w) = 1..Len(w) /\ \A k \in 1..Len(w) : Pick(s, w)[k] = s[w[k]]
  BY DEF Pick
<1>3. Len(Pick(s, w)) = Len(w)
  <2>1. Pick(s, w) \in Seq({s[w[k]] : k \in 1..Len(w)})
    BY <1>1, IsASeq DEF Pick
  <2> QED BY <1>1, <1>2, <2>1, LenProperties
<1> QED BY <1>2, <1>3

\* The positions of a segment's parts in a list.
LEMMA PartsOfPositions ==
    ASSUME NEW list, Len(list) \in Nat, NEW n
    PROVE  LET w == Where([k \in 1..Len(list) |-> list[k].n], n)
           IN  /\ PartsOf(list, n) = Pick(list, w)
               /\ Enumerates(w, {k \in 1..Len(list) : list[k].n = n})
<1> DEFINE s == [k \in 1..Len(list) |-> list[k].n]
<1>1. Len(s) = Len(list)
  <2>1. s \in Seq({list[k].n : k \in 1..Len(list)})
    BY IsASeq
  <2> QED BY <2>1, LenProperties
<1>2. \A k \in 1..Len(list) : s[k] = list[k].n
  OBVIOUS
<1> HIDE DEF s
<1>3. {k \in 1..Len(s) : s[k] = n} = {k \in 1..Len(list) : list[k].n = n}
  BY <1>1, <1>2
<1>4. Enumerates(Where(s, n), {k \in 1..Len(list) : list[k].n = n})
  BY <1>1, <1>3, WhereEnumerates
<1>5. PartsOf(list, n) = Pick(list, Where(s, n))
  BY DEF PartsOf, s
<1> QED BY <1>4, <1>5 DEF s

\* A right index finds what a scan of the ring finds, and holds as many
\* positions (PartLog::in_segment).
LEMMA LookupIsScan ==
    ASSUME NEW log, NEW X, NEW capacity, IndexRight(log, X, capacity), NEW n
    PROVE  /\ in_segment(log, n) = PartsOf(log.ring.entries, n)
           /\ Len(Positions(log, n)) = Len(PartsOf(log.ring.entries, n))
<1> DEFINE ring == log.ring
           list == ring.entries
           base == ring.base
           m == Len(list)
           abs == Positions(log, n)
           size == Len(abs)
           S == PositionsOf(ring, n)
           flags == [k \in 1..size |-> Resident(ring, abs[k])]
           rel == [k \in 1..size |-> abs[k] - base + 1]
           names == {k \in 1..m : list[k].n = n}
           w == Where([k \in 1..m |-> list[k].n], n)
<1>1. Enumerates(abs, S)
  BY PositionsRight
<1>2. abs \in Seq(Nat) /\ size \in Nat /\ \A k \in 1..size : abs[k] \in S
  BY <1>1, LenProperties DEF Enumerates
<1>3. m \in Nat /\ base \in Nat
  BY LenProperties DEF IndexRight, PartRings
<1>4. ASSUME NEW a \in S
      PROVE  a \in Nat /\ base <= a /\ a < base + m /\ list[a - base + 1].n = n
  BY <1>3 DEF PositionsOf
<1>5. Where(flags, TRUE) = [k \in 1..size |-> k]
  <2>1. Len(flags) = size
    <3>1. flags \in Seq({Resident(ring, abs[k]) : k \in 1..size})
      BY <1>2, IsASeq
    <3>2. DOMAIN flags = 1..size
      OBVIOUS
    <3> HIDE DEF flags, size
    <3> QED BY <1>2, <3>1, <3>2, LenProperties
  <2>2. \A k \in 1..size : flags[k] = TRUE
    <3> SUFFICES ASSUME NEW k \in 1..size PROVE Resident(ring, abs[k])
      OBVIOUS
    <3> abs[k] \in S
      BY <1>2
    <3> QED BY <1>4 DEF Resident
  <2> HIDE DEF flags, size
  <2>3. {k \in 1..Len(flags) : flags[k] = TRUE} = 1..size
    BY <2>1, <2>2
  <2>4. Enumerates([k \in 1..size |-> k], 1..size)
    BY <1>2, EnumeratesAll
  <2>5. Len(flags) \in Nat
    BY <1>2, <2>1
  <2>6. Enumerates([k \in 1..size |-> k], {k \in 1..Len(flags) : flags[k] = TRUE})
    BY <2>3, <2>4
  <2> QED BY <2>5, <2>6, WhereIs, Zenon
<1>6. \A k \in 1..size : [j \in 1..size |-> j][k] = k
  OBVIOUS
<1>7. in_segment(log, n) = [k \in 1..size |-> EntryAt(ring, abs[k])]
  <2> DEFINE id == [k \in 1..size |-> k]
  <2>1. Len(id) = size
    BY <1>2, EnumeratesAll
  <2>2. in_segment(log, n) = [k \in 1..Len(id) |-> EntryAt(ring, abs[id[k]])]
    <3> HIDE DEF id
    <3> QED BY <1>5 DEF in_segment, id
  <2> HIDE DEF id, size, abs, ring
  <2>3. [k \in 1..size |-> EntryAt(ring, abs[id[k]])] = [k \in 1..size |-> EntryAt(ring, abs[k])]
    BY <1>6 DEF id
  <2> QED BY <2>1, <2>2, <2>3
<1>8. Enumerates(rel, names) /\ Len(rel) = size
  <2>1. \A k \in 1..size : abs[k] - base + 1 \in names /\ abs[k] - base + 1 \in Nat
    <3> SUFFICES ASSUME NEW k \in 1..size PROVE abs[k] - base + 1 \in names
      BY <1>3
    <3> abs[k] \in S
      BY <1>2
    <3>1. abs[k] - base + 1 \in 1..m
      BY <1>3, <1>4
    <3> QED BY <1>4, <3>1
  <2>2. rel \in Seq(Nat) /\ Len(rel) = size /\ \A k \in 1..size : rel[k] = abs[k] - base + 1
    <3>1. rel \in Seq(Nat)
      BY <1>2, <2>1, IsASeq
    <3>2. DOMAIN rel = 1..size
      OBVIOUS
    <3>3. Len(rel) = size
      <4> HIDE DEF rel, size
      <4> QED BY <1>2, <3>1, <3>2, LenProperties
    <3> QED BY <3>1, <3>3
  <2>3. ASSUME NEW y \in names PROVE \E k \in 1..size : rel[k] = y
    <3> DEFINE a == y + base - 1
    <3>1. a \in base..(base + m - 1) /\ a - base + 1 = y
      BY <1>3, SMTT(40)
    <3>2. a \in S
      BY <3>1 DEF PositionsOf
    <3>3. PICK k \in 1..size : abs[k] = a
      BY <1>1, <3>2 DEF Enumerates
    <3>4. rel[k] = a - base + 1
      BY <2>2, <3>3
    <3> QED BY <3>1, <3>4
  <2>4. ASSUME NEW i \in 1..size, NEW j \in 1..size, i < j PROVE rel[i] < rel[j]
    <3>1. abs[i] < abs[j]
      BY <1>1, <2>4 DEF Enumerates
    <3>2. abs[i] \in Nat /\ abs[j] \in Nat
      BY <1>2, <1>4
    <3>3. rel[i] = abs[i] - base + 1 /\ rel[j] = abs[j] - base + 1
      BY <2>2
    <3> HIDE DEF rel, abs, base
    <3> QED BY <1>3, <3>1, <3>2, <3>3
  <2> HIDE DEF rel, size, names
  <2> QED BY <2>1, <2>2, <2>3, <2>4 DEF Enumerates
<1>9. PartsOf(list, n) = Pick(list, w) /\ Enumerates(w, names)
  BY <1>3, PartsOfPositions
<1>10. w = rel
  <2> HIDE DEF w, rel, names
  <2> QED BY <1>8, <1>9, EnumeratesOnce
<1>11. Pick(list, rel) = [k \in 1..size |-> list[abs[k] - base + 1]]
  <2>1. \A k \in 1..size : rel[k] = abs[k] - base + 1
    OBVIOUS
  <2> HIDE DEF rel, size, abs, base
  <2> QED BY <1>8, <2>1 DEF Pick
<1>12. [k \in 1..size |-> EntryAt(ring, abs[k])] = [k \in 1..size |-> list[abs[k] - base + 1]]
  BY DEF EntryAt
<1>13. Len(Pick(list, rel)) = size
  <2>1. rel \in Seq(Nat)
    BY <1>8 DEF Enumerates
  <2> HIDE DEF rel, list, size
  <2> QED BY <1>8, <2>1, PickLength
<1> HIDE DEF w, rel, list, size, abs, base, ring
<1>14. in_segment(log, n) = PartsOf(list, n) /\ size = Len(PartsOf(list, n))
  BY <1>7, <1>9, <1>10, <1>11, <1>12, <1>13
<1> QED BY <1>14 DEF list, ring, size, abs

-----------------------------------------------------------------------------
\* The newest hit.

\* A non-empty set of positions has a last one.
LEMMA LastPosition ==
    ASSUME NEW n \in Nat, NEW S \in SUBSET (1..n), S # {}
    PROVE  \E m \in S : \A j \in S : j <= m
<1> DEFINE HasLast(T) == \E m \in T : \A j \in T : j <= m
           N == {k \in Nat : \A T \in SUBSET (1..k) : T # {} => HasLast(T)}
<1>1. 0 \in N
  <2>1. 1..0 = {}
    OBVIOUS
  <2>2. \A T \in SUBSET (1..0) : T = {}
    BY <2>1
  <2> QED BY <2>2
<1>2. ASSUME NEW k \in Nat, k \in N PROVE k + 1 \in N
  <2> SUFFICES ASSUME NEW T \in SUBSET (1..(k + 1)), T # {} PROVE HasLast(T)
    OBVIOUS
  <2>1. CASE k + 1 \in T
    BY <2>1
  <2>2. CASE k + 1 \notin T
    <3>1. T \in SUBSET (1..k)
      BY <2>2
    <3> QED BY <1>2, <3>1
  <2> QED BY <2>1, <2>2
<1>3. n \in N
  <2> HIDE DEF N
  <2> QED BY <1>1, <1>2, SetInduction
<1> QED BY <1>3

\* What part_bytes returns when the index is right.
LEMMA NewestHit ==
    ASSUME NEW log, NEW X, NEW capacity, IndexRight(log, X, capacity), NEW n, NEW i
    PROVE  LET list == log.ring.entries
               hits == {k \in 1..Len(list) : list[k].n = n /\ list[k].i = i}
           IN  part_bytes(log, n, i) = {list[k].id : k \in {h \in hits : \A j \in hits : j <= h}}
<1> DEFINE list == log.ring.entries
           hits == {k \in 1..Len(list) : list[k].n = n /\ list[k].i = i}
           w == Where([k \in 1..Len(list) |-> list[k].n], n)
           ps == in_segment(log, n)
           found == {k \in 1..Len(ps) : ps[k].i = i}
           Last(k) == k \in found /\ \A j \in found : j <= k
           newest == {h \in hits : \A j \in hits : j <= h}
<1>1. Len(list) \in Nat
  BY LenProperties DEF IndexRight, PartRings
<1>2. ps = PartsOf(list, n)
  BY LookupIsScan
<1>3. ps = Pick(list, w) /\ Enumerates(w, {k \in 1..Len(list) : list[k].n = n})
  BY <1>1, <1>2, PartsOfPositions
<1> HIDE DEF list, w, ps
<1>4. w \in Seq(Nat) /\ Len(w) \in Nat
  BY <1>3, LenProperties DEF Enumerates
<1>5. Len(ps) = Len(w) /\ \A k \in 1..Len(w) : ps[k] = list[w[k]]
  BY <1>3, <1>4, PickLength
<1>6. ASSUME NEW k \in found PROVE w[k] \in hits /\ w[k] \in Nat
  <2>1. k \in 1..Len(w) /\ ps[k].i = i
    BY <1>5
  <2>2. w[k] \in {b \in 1..Len(list) : list[b].n = n}
    BY <1>3, <2>1 DEF Enumerates
  <2>3. list[w[k]].i = i
    BY <1>5, <2>1
  <2> QED BY <1>1, <2>2, <2>3
<1>7. ASSUME NEW h \in hits PROVE \E k \in found : w[k] = h
  <2>1. h \in {b \in 1..Len(list) : list[b].n = n} /\ list[h].i = i
    OBVIOUS
  <2>2. PICK k \in 1..Len(w) : w[k] = h
    BY <1>3, <2>1 DEF Enumerates
  <2>3. ps[k].i = i
    BY <1>5, <2>1, <2>2
  <2> QED BY <1>5, <2>2, <2>3
<1>8. part_bytes(log, n, i)
        = IF found = {} THEN {} ELSE {ps[CHOOSE k \in found : \A j \in found : j <= k].id}
  <2> DEFINE chosen == CHOOSE k \in found : \A j \in found : j <= k
  <2>1. part_bytes(log, n, i) = IF found = {} THEN {} ELSE {ps[chosen].id}
    BY Zenon DEF part_bytes, ps
  <2> QED BY <2>1
<1>9. CASE found = {}
  <2>1. newest = {}
    BY <1>7, <1>9
  <2>2. {list[k].id : k \in newest} = {}
    BY <2>1
  <2> QED BY <1>8, <1>9, <2>2 DEF list
<1>10. CASE found # {}
  <2> DEFINE m == CHOOSE k \in found : \A j \in found : j <= k
  <2>1. \E k \in found : \A j \in found : j <= k
    <3>1. found \in SUBSET (1..Len(ps))
      OBVIOUS
    <3> HIDE DEF found
    <3> QED BY <1>4, <1>5, <1>10, <3>1, LastPosition
  <2>2. m \in found /\ \A j \in found : j <= m
    BY <2>1
  <2> HIDE DEF m
  <2>3. w[m] \in hits
    BY <1>6, <2>2
  <2>4. ASSUME NEW h \in hits PROVE h <= w[m]
    <3>1. PICK k \in found : w[k] = h
      BY <1>7
    <3>2. k <= m /\ k \in 1..Len(w) /\ m \in 1..Len(w) /\ w[k] \in Nat /\ w[m] \in Nat
      BY <1>5, <1>6, <2>2
    <3>3. k < m => w[k] < w[m]
      BY <1>3, <3>2 DEF Enumerates
    <3>4. k = m \/ k < m
      BY <1>4, <3>2
    <3> QED BY <3>1, <3>2, <3>3, <3>4
  <2>5. newest = {w[m]}
    <3>1. w[m] \in newest
      BY <2>3, <2>4
    <3>2. \A h \in newest : h = w[m]
      <4> SUFFICES ASSUME NEW h \in newest PROVE h = w[m]
        OBVIOUS
      <4>1. w[m] <= h /\ h <= w[m] /\ h \in Nat /\ w[m] \in Nat
        BY <1>6, <2>2, <2>3, <2>4
      <4> HIDE DEF newest
      <4> QED BY <4>1
    <3> QED BY <3>1, <3>2
  <2>6. m \in 1..Len(w)
    BY <1>5, <2>2
  <2>7. ps[m].id = list[w[m]].id
    BY <1>5, <2>6
  <2>8. part_bytes(log, n, i) = {ps[m].id}
    BY <1>8, <1>10 DEF m
  <2> HIDE DEF newest
  <2>9. {list[k].id : k \in newest} = {list[w[m]].id}
    BY <2>5
  <2>10. part_bytes(log, n, i) = {list[k].id : k \in newest}
    BY <2>7, <2>8, <2>9
  <2> QED BY <2>10 DEF list, newest
<1> QED BY <1>9, <1>10

-----------------------------------------------------------------------------
\* The newest elements of a list.

\* A ring holds the newest elements of all that was pushed.
HoldsNewest(ring, list, capacity) ==
    /\ ring.published = Len(list)
    /\ ring.base > 0 => Len(ring.entries) = capacity
    /\ \A k \in 1..Len(ring.entries) : ring.entries[k] = list[ring.base + k]

\* Then it is NewestOf.
LEMMA NewestHeld ==
    ASSUME NEW X, NEW capacity \in Nat \ {0}, NEW list \in Seq(X), NEW ring \in PartRings(X),
           RingOK(ring, capacity), HoldsNewest(ring, list, capacity)
    PROVE  ring.entries = NewestOf(list, capacity)
<1> DEFINE n == Len(list)
           s == ring.entries
           m == Len(s)
           base == ring.base
           from == IF n > capacity THEN n - capacity + 1 ELSE 1
<1>1. s \in Seq(X) /\ m \in Nat /\ base \in Nat /\ n \in Nat
  BY LenProperties DEF PartRings
<1>2. base + m = n /\ m <= capacity /\ (base > 0 => m = capacity)
  BY DEF RingOK, HoldsNewest
<1>3. \A k \in 1..m : s[k] = list[base + k]
  BY DEF HoldsNewest
<1>4. \A k \in 1..n : list[k] \in X
  BY ElementOfSeq
<1> HIDE DEF n, m, base, s
<1>5. from = base + 1 /\ from \in 1..(n + 1)
  BY <1>1, <1>2
<1> HIDE DEF from
<1>6. \A k \in from..n : list[k] \in X
  BY <1>1, <1>4, <1>5
<1> DEFINE t == SubSeq(list, from, n)
<1>7. /\ t \in Seq(X) /\ Len(t) = (IF from <= n THEN n - from + 1 ELSE 0)
      /\ \A k \in 1..(n - from + 1) : t[k] = list[from + k - 1]
  <2>1. from \in Int /\ n \in Int
    BY <1>1, <1>5
  <2> QED BY <1>6, <2>1, SubSeqProperties
<1> HIDE DEF t
<1>8. Len(t) = m /\ n - from + 1 = m
  BY <1>1, <1>2, <1>5, <1>7
<1>9. \A k \in 1..m : t[k] = s[k]
  <2> SUFFICES ASSUME NEW k \in 1..m PROVE t[k] = s[k]
    OBVIOUS
  <2>1. t[k] = list[from + k - 1]
    BY <1>7, <1>8
  <2>2. from + k - 1 = base + k
    BY <1>1, <1>5
  <2> QED BY <1>3, <2>1, <2>2
<1>10. s = t
  BY <1>1, <1>7, <1>8, <1>9, SeqEqual DEF m
<1>11. NewestOf(list, capacity) = t
  BY DEF NewestOf, t, from, n
<1> QED BY <1>10, <1>11 DEF s

\* A push keeps it so.
LEMMA NewestPushed ==
    ASSUME NEW X, NEW capacity \in Nat \ {0}, NEW list \in Seq(X), NEW ring \in PartRings(X),
           RingOK(ring, capacity), HoldsNewest(ring, list, capacity), NEW x \in X
    PROVE  HoldsNewest(RingPush(ring, capacity, x), Append(list, x), capacity)
<1> DEFINE new == RingPush(ring, capacity, x)
           more == Append(list, x)
           d == IF Len(ring.entries) = capacity THEN 1 ELSE 0
           base == ring.base
           m == Len(ring.entries)
           len == m - d
           n == Len(list)
<1>1. Pushed(ring, new, capacity, x, X, d)
  BY RingPushed
<1>2. base \in Nat /\ m \in Nat /\ n \in Nat /\ d \in {0, 1}
  BY LenProperties DEF PartRings
<1>3. more \in Seq(X) /\ Len(more) = n + 1 /\ more[n + 1] = x /\ \A k \in 1..n : more[k] = list[k]
  BY AppendProperties
<1>4. d = 1 => m = capacity
  OBVIOUS
<1>5. base > 0 => m = capacity
  BY DEF HoldsNewest
<1>6. m = capacity => d = 1
  OBVIOUS
<1> HIDE DEF new, more, d
<1>7. /\ len \in Nat /\ Len(new.entries) = len + 1
      /\ new.base = base + d /\ new.published = ring.published + 1
      /\ ring.published = base + m /\ ring.published = n
      /\ \A k \in 1..len : new.entries[k] = ring.entries[k + d] /\ k + d \in 1..m
      /\ new.entries[len + 1] = x
  BY <1>1 DEF Pushed, HoldsNewest
<1>8. \A k \in 1..m : ring.entries[k] = list[base + k]
  BY DEF HoldsNewest
<1> HIDE DEF base, m, n
<1>9. new.base > 0 => Len(new.entries) = capacity
  BY <1>2, <1>4, <1>5, <1>6, <1>7
<1>10. ASSUME NEW k \in 1..(len + 1) PROVE new.entries[k] = more[new.base + k]
  <2>1. CASE k \in 1..len
    <3>1. new.entries[k] = ring.entries[k + d] /\ k + d \in 1..m
      BY <1>7, <2>1
    <3>2. ring.entries[k + d] = list[base + (k + d)]
      BY <1>8, <3>1
    <3>3. base + (k + d) \in 1..n /\ base + (k + d) = new.base + k
      BY <1>2, <1>7, <2>1, <3>1
    <3>4. list[base + (k + d)] = more[base + (k + d)]
      BY <1>3, <3>3
    <3> QED BY <3>1, <3>2, <3>3, <3>4
  <2>2. CASE k = len + 1
    <3>1. new.base + k = n + 1
      BY <1>2, <1>7, <2>2
    <3> QED BY <1>3, <1>7, <2>2, <3>1
  <2> HIDE DEF len
  <2> QED BY <1>7, <2>1, <2>2
<1>11. HoldsNewest(new, more, capacity)
  BY <1>3, <1>7, <1>9, <1>10 DEF HoldsNewest
<1> QED BY <1>11 DEF new, more

-----------------------------------------------------------------------------
\* The inductive invariant: everything published is a part, the index is right,
\* and the ring holds the newest parts.

Logged == [n : PartSegments, i : PartIndices, id : Nat]

PartInv(log, list, capacity) ==
    /\ list \in Seq(Logged)
    /\ IndexRight(log, Logged, capacity)
    /\ HoldsNewest(log.ring, list, capacity)

PartIInv == PartInv(part_log, logged, LogCapacity)

\* The initial part log is empty.
LEMMA PartInitial == PartsInit => PartIInv
<1> SUFFICES ASSUME PartsInit PROVE PartIInv
  OBVIOUS
<1>1. part_log = EmptyPartLog /\ logged = <<>>
  BY DEF PartsInit
<1>2. LogCapacity \in Nat
  BY LogCapacityAssumption
<1>3. IndexRight(EmptyPartLog, Logged, LogCapacity)
  BY <1>2, EmptyIndexRight
<1>4. /\ EmptyPartLog.ring.entries = <<>> /\ EmptyPartLog.ring.base = 0
      /\ EmptyPartLog.ring.published = 0
  BY DEF EmptyPartLog, EmptyRing
<1>5. HoldsNewest(EmptyPartLog.ring, <<>>, LogCapacity)
  BY <1>4, EmptySeq DEF HoldsNewest
<1>6. <<>> \in Seq(Logged)
  BY EmptySeq
<1> QED BY <1>1, <1>3, <1>5, <1>6 DEF PartIInv, PartInv

\* Every publish_part keeps it.
LEMMA PartStep == PartIInv /\ [PartsNext]_partVars => PartIInv'
<1> SUFFICES ASSUME PartIInv, [PartsNext]_partVars PROVE PartIInv'
  OBVIOUS
<1>1. CASE UNCHANGED partVars
  BY <1>1 DEF PartIInv, PartInv, partVars
<1>2. CASE PartsAtBound
  BY <1>2 DEF PartIInv, PartInv, PartsAtBound, partVars
<1>3. ASSUME NEW n \in PartSegments, NEW i \in PartIndices, publish_part(n, i) PROVE PartIInv'
  <2> DEFINE x == [n |-> n, i |-> i, id |-> Len(logged) + 1]
             log == push(part_log, LogCapacity, x)
  <2>1. part_log' = log /\ logged' = Append(logged, x)
    BY <1>3 DEF publish_part
  <2>2. /\ logged \in Seq(Logged) /\ IndexRight(part_log, Logged, LogCapacity)
        /\ HoldsNewest(part_log.ring, logged, LogCapacity)
    BY DEF PartIInv, PartInv
  <2>3. x \in Logged
    BY <2>2, LenProperties DEF Logged
  <2> HIDE DEF x
  <2>4. Append(logged, x) \in Seq(Logged)
    BY <2>2, <2>3, AppendProperties
  <2>5. IndexRight(log, Logged, LogCapacity)
    BY <2>2, <2>3, LogCapacityAssumption, PushIndexRight
  <2>6. log.ring = RingPush(part_log.ring, LogCapacity, x)
    BY DEF push
  <2>7. part_log.ring \in PartRings(Logged) /\ RingOK(part_log.ring, LogCapacity)
    BY <2>2 DEF IndexRight
  <2>8. HoldsNewest(RingPush(part_log.ring, LogCapacity, x), Append(logged, x), LogCapacity)
    BY <2>2, <2>3, <2>7, LogCapacityAssumption, NewestPushed
  <2> HIDE DEF log
  <2> QED BY <2>1, <2>4, <2>5, <2>6, <2>8 DEF PartIInv, PartInv
<1> QED BY <1>1, <1>2, <1>3 DEF PartsNext

\* It is what the property says, for every set of parts.
LEMMA PartInvariantEnough == PartIInv => PartIndexSound
<1> SUFFICES ASSUME PartIInv PROVE PartIndexSound
  OBVIOUS
<1> DEFINE list == part_log.ring.entries
           index == part_log.by_segment
<1>1. /\ logged \in Seq(Logged) /\ IndexRight(part_log, Logged, LogCapacity)
      /\ HoldsNewest(part_log.ring, logged, LogCapacity)
  BY DEF PartIInv, PartInv
<1>2. part_log.ring \in PartRings(Logged) /\ RingOK(part_log.ring, LogCapacity)
  BY <1>1 DEF IndexRight
<1>3. ResidentParts = list
  BY <1>1, <1>2, LogCapacityAssumption, NewestHeld DEF ResidentParts
<1>4. IndexIsExact
  <2>1. \A n : in_segment(part_log, n) = PartsOf(list, n)
    BY <1>1, LookupIsScan
  <2> QED BY <1>3, <2>1 DEF IndexIsExact
<1>5. NewestPartWins
  <2>1. \A n, i :
          LET hits == {k \in 1..Len(list) : list[k].n = n /\ list[k].i = i}
          IN  part_bytes(part_log, n, i)
                = {list[k].id : k \in {h \in hits : \A j \in hits : j <= h}}
    BY <1>1, NewestHit
  <2> HIDE DEF list
  <2> QED BY <1>3, <2>1 DEF NewestPartWins
<1>6. IndexIsBounded
  <2>1. Len(list) \in Nat /\ part_log.ring.base \in Nat
    BY <1>2, LenProperties DEF PartRings
  <2>2. \A n : n \in DOMAIN index <=> \E k \in 1..Len(list) : list[k].n = n
    <3> SUFFICES ASSUME NEW n PROVE n \in DOMAIN index <=> \E k \in 1..Len(list) : list[k].n = n
      OBVIOUS
    <3> DEFINE base == part_log.ring.base
    <3>1. n \in DOMAIN index <=> PositionsOf(part_log.ring, n) # {}
      BY <1>1 DEF IndexRight, KeyRight
    <3>2. ASSUME NEW a \in PositionsOf(part_log.ring, n)
          PROVE  \E k \in 1..Len(list) : list[k].n = n
      <4>1. a \in base..(base + Len(list) - 1) /\ list[a - base + 1].n = n
        BY DEF PositionsOf
      <4>2. a - base + 1 \in 1..Len(list)
        BY <2>1, <4>1
      <4> QED BY <4>1, <4>2
    <3>3. ASSUME NEW k \in 1..Len(list), list[k].n = n
          PROVE  PositionsOf(part_log.ring, n) # {}
      <4>1. /\ base + k - 1 \in base..(base + Len(list) - 1)
            /\ (base + k - 1) - base + 1 = k
        BY <2>1
      <4>2. base + k - 1 \in PositionsOf(part_log.ring, n)
        BY <3>3, <4>1 DEF PositionsOf
      <4> QED BY <4>2
    <3> QED BY <3>1, <3>2, <3>3
  <2>3. DOMAIN index = {list[k].n : k \in 1..Len(list)}
    <3> HIDE DEF list
    <3> QED BY <2>2
  <2>4. \A n \in DOMAIN index : Len(index[n]) = Len(PartsOf(list, n))
    <3> SUFFICES ASSUME NEW n \in DOMAIN index PROVE Len(index[n]) = Len(PartsOf(list, n))
      OBVIOUS
    <3>1. Len(Positions(part_log, n)) = Len(PartsOf(list, n))
      BY <1>1, LookupIsScan
    <3>2. Positions(part_log, n) = index[n]
      BY DEF Positions
    <3> QED BY <3>1, <3>2
  <2> QED BY <1>3, <2>3, <2>4 DEF IndexIsBounded
<1> QED BY <1>4, <1>5, <1>6 DEF PartIndexSound

\* The live-part log: after any publish_part calls, by_segment finds exactly the
\* resident parts of a segment, in order, part_bytes answers with the newest
\* bytes, and the index never outgrows the ring.
THEOREM PartIndexSoundHolds == PartsSpec => []PartIndexSound
<1>1. PartsSpec => []PartIInv
  BY PartInitial, PartStep, PTL DEF PartsSpec
<1> QED BY <1>1, PartInvariantEnough, PTL
=============================================================================
