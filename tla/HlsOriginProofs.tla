-------------------------- MODULE HlsOriginProofs --------------------------
(***************************************************************************)
(* Proofs about the HlsOrigin's shared drain and the pages made from it,   *)
(* for every number of requests, every capacity of the trunk's rings and   *)
(* of the window, and any number of segments, parts and inits.             *)
(***************************************************************************)
EXTENDS HlsOrigin, TrunkPartsProofs, FiniteSetTheorems

Entries == [n : Nat, discontinuous : BOOLEAN, under : Nat, count : Nat]
Items == [item : Entries, init_gen : Nat]
Listed == [n : Nat, init_gen : Nat, under : Nat, count : Nat,
           discontinuous : BOOLEAN]
SegmentRings == [entries : Seq(Entries), base : Nat, published : Nat]
Stores == [generation : Nat, current : Nat, starts : Seq([first : Nat, g : Nat])]
Windows == [segments : Seq(Listed), discontinuity_sequence : Nat, gap_pending : BOOLEAN]
Fields == {"head", "polled", "prepared", "view", "edge", "open", "from", "ask", "hinted"}
Places == {"idle", "gate", "poll", "prepare", "fill", "view", "edge", "probe", "render",
           "part", "closed?", "hinted?", "pending", "Ready", "NotFound"}
Holding == {"poll", "prepare", "fill"}

Shape ==
    /\ open \in Nat /\ inits \in Stores /\ queued \in 0..MaxQueued
    /\ pc \in [Requests -> Places]
    /\ DOMAIN loc = Requests /\ loc = [p \in Requests |-> loc[p]]
    /\ \A p \in Requests : loc[p] = [f \in Fields |-> loc[p][f]]

\* The ring holds the newest segments, which are numbered as they are counted.
SegsRight ==
    /\ segs \in SegmentRings /\ RingOK(segs, SegmentCapacity)
    /\ \A k \in 1..Len(segs.entries) : segs.entries[k].n = segs.base + k
    /\ segs.published > 0 => Len(segs.entries) > 0

\* The number of the window's last segment, 0 before the first.
EndOf(w) == IF w.segments = <<>> THEN 0 ELSE w.segments[Len(w.segments)].n

\* The window is one run of consecutive numbers.
WindowRight(w) ==
    /\ w \in Windows /\ Len(w.segments) <= WindowCapacity
    /\ \A k \in 1..Len(w.segments) : w.segments[k].n = w.segments[1].n + k - 1

Below(x, y) == x = Gap \/ y = Gap \/ x.n < y.n

\* An item on its way into a window that ends at e, from a cursor at c.
OnItsWay(x, e, c) == x = Gap \/ (e < x.n /\ x.n <= c)

\* What the holder of the gate has in hand: everything between the window's end
\* and the cursor, in order, and nothing when the two agree.
InHand(l, at, e, c) ==
    /\ l.polled \in Seq(Entries) /\ l.prepared \in Seq(Items)
    /\ \A i \in 1..Len(l.polled) : OnItsWay(l.polled[i], e, c)
    /\ \A i \in 1..Len(l.prepared) : OnItsWay(l.prepared[i].item, e, c)
    /\ \A i, j \in 1..Len(l.polled) : i < j => Below(l.polled[i], l.polled[j])
    /\ \A i, j \in 1..Len(l.prepared) : i < j => Below(l.prepared[i].item, l.prepared[j].item)
    /\ \A i \in 1..Len(l.prepared), j \in 1..Len(l.polled) : Below(l.prepared[i].item, l.polled[j])
    /\ at = "poll" => l.prepared = <<>>
    /\ at = "fill" => l.polled = <<>>

\* The last item in hand is the segment just before the cursor, or a gap that
\* the next poll will follow with one.
EndsAtCursor(l, at, e, c, m) ==
    /\ l.polled = <<>> /\ l.prepared = <<>> => e = c
    /\ l.polled = <<>> /\ l.prepared # <<>> => l.prepared[Len(l.prepared)].item.n = c
    /\ l.polled # <<>> /\ at # "poll" => l.polled[Len(l.polled)].n = c
    /\ l.polled # <<>> /\ at = "poll" =>
          l.polled[Len(l.polled)].n = c \/ c < m

\* A drain that found anything has moved the cursor past the stored mark; one
\* that is past its polls has reached the head it will store.
MarkBehind(l, at, c, d) ==
    /\ l.polled # <<>> \/ l.prepared # <<>> => d <= c
    /\ at \in {"prepare", "fill"} => l.head <= c + 1

DrainRight(p) ==
    /\ InHand(loc[p], pc[p], EndOf(window), cursor)
    /\ EndsAtCursor(loc[p], pc[p], EndOf(window), cursor, segs.published)
    /\ MarkBehind(loc[p], pc[p], cursor, drained)

OriginInv ==
    /\ Shape /\ SegsRight /\ WindowRight(window)
    /\ cursor \in 0..segs.published /\ drained \in Int /\ drained <= cursor + 1
    /\ EndOf(window) <= cursor
    /\ \A p \in Requests : loc[p].head \in Nat /\ loc[p].head <= segs.published + 1
    /\ \A p \in Requests : pc[p] = "gate" => loc[p].polled = <<>> /\ loc[p].prepared = <<>>
    /\ gate \in Requests \cup {Nobody}
    /\ gate = Nobody => EndOf(window) = cursor
    /\ \A p \in Requests : pc[p] \in Holding <=> gate = p
    /\ \A p \in Requests : pc[p] \in Holding => DrainRight(p)

-----------------------------------------------------------------------------
\* The trunk's ring of segments.

\* The trunk holds the last closed segments, each at the position of its number.
LEMMA SegsLemma ==
    ASSUME SegsRight
    PROVE  /\ segs.entries \in Seq(Entries) /\ Len(segs.entries) \in Nat
           /\ segs.base \in Nat /\ segs.published \in Nat /\ segs.base <= segs.published
           /\ segs.base + Len(segs.entries) = segs.published
           /\ last_closed = segs.published
           /\ Head_ = IF segs.published = 0 THEN 0 ELSE segs.published + 1
           /\ segs.published > 0 => segs.base < segs.published
           /\ (segs.entries = <<>>) <=> (segs.published = 0)
<1> DEFINE n == Len(segs.entries)
           b == segs.base
           m == segs.published
<1>1. /\ segs.entries \in Seq(Entries) /\ n \in Nat /\ b \in Nat /\ m \in Nat /\ b + n = m
  BY LenProperties DEF SegsRight, SegmentRings, RingOK
<1>2. m > 0 => n > 0
  BY DEF SegsRight
<1>3. (segs.entries = <<>>) <=> (n = 0)
  BY <1>1, EmptySeq
<1>4. n > 0 => segs.entries[n].n = b + n
  BY <1>1 DEF SegsRight
<1>5. last_closed = IF segs.entries = <<>> THEN 0 ELSE segs.entries[n].n
  BY DEF last_closed, Last
<1>6. Head_ = IF segs.entries = <<>> THEN 0 ELSE last_closed + 1
  BY DEF Head_
<1> HIDE DEF n, b, m
<1>7. /\ b <= m /\ m > 0 => b < m
      /\ (n = 0) <=> (m = 0)
  BY <1>1, <1>2
<1>8. last_closed = m
  BY <1>1, <1>3, <1>4, <1>5, <1>7
<1> QED BY <1>1, <1>3, <1>6, <1>7, <1>8 DEF n, b, m

\* A poll of a resident position returns the segment numbered one past it.
LEMMA ResidentLemma ==
    ASSUME SegsRight, cursor \in 0..segs.published, Resident(segs, cursor)
    PROVE  /\ EntryAt(segs, cursor) \in Entries /\ EntryAt(segs, cursor).n = cursor + 1
           /\ cursor + 1 \in 0..segs.published
<1> DEFINE n == Len(segs.entries)
           b == segs.base
           m == segs.published
           k == cursor - b + 1
<1>1. /\ segs.entries \in Seq(Entries) /\ n \in Nat /\ b \in Nat /\ m \in Nat /\ b + n = m
  BY SegsLemma
<1>2. b <= cursor /\ cursor < b + n /\ cursor \in 0..m
  BY DEF Resident
<1>3. \A i \in 1..n : segs.entries[i].n = b + i
  BY DEF SegsRight
<1>4. EntryAt(segs, cursor) = segs.entries[k]
  BY DEF EntryAt
<1> HIDE DEF n, b, m
<1>5. k \in 1..n /\ b + k = cursor + 1 /\ cursor + 1 \in 0..m
  BY <1>1, <1>2
<1> HIDE DEF k
<1>6. segs.entries[k] \in Entries
  BY <1>1, <1>5, ElementOfSeq DEF n
<1> QED BY <1>3, <1>4, <1>5, <1>6 DEF m

\* Closing a segment keeps numbers and positions in step.
LEMMA CloseLemma ==
    ASSUME SegsRight, NEW e \in Entries, e.n = last_closed + 1,
           segs' = RingPush(segs, SegmentCapacity, e)
    PROVE  SegsRight' /\ segs'.published = segs.published + 1
<1> DEFINE full == Len(segs.entries) = SegmentCapacity
           list == IF full THEN Tail(segs.entries) ELSE segs.entries
           d == IF full THEN 1 ELSE 0
           n == Len(segs.entries)
           b == segs.base
           m == segs.published
           c == SegmentCapacity
<1>1. /\ segs.entries \in Seq(Entries) /\ n \in Nat /\ b \in Nat /\ m \in Nat /\ b + n = m
      /\ last_closed = m
  BY SegsLemma
<1>2. n <= c /\ c \in Nat \ {0}
  BY CapacitiesAssumption DEF SegsRight, RingOK
<1>3. \A i \in 1..n : segs.entries[i].n = b + i
  BY DEF SegsRight
<1>4. /\ list \in Seq(Entries) /\ Len(list) = n - d /\ d \in 0..1 /\ n - d + 1 <= c
      /\ n - d \in Nat
      /\ \A i \in 1..(n - d) : list[i] = segs.entries[i + d]
  <2>1. CASE full
    <3>1. n > 0 /\ segs.entries # <<>>
      BY <1>1, <1>2, <2>1
    <3>2. /\ Tail(segs.entries) \in Seq(Entries) /\ Len(Tail(segs.entries)) = n - 1
          /\ \A i \in 1..Len(Tail(segs.entries)) : Tail(segs.entries)[i] = segs.entries[i + 1]
      BY <1>1, <3>1, HeadTailProperties
    <3>3. list = Tail(segs.entries) /\ d = 1
      BY <2>1
    <3> HIDE DEF list, d
    <3> QED BY <1>1, <1>2, <2>1, <3>1, <3>2, <3>3
  <2>2. CASE ~full
    <3>1. list = segs.entries /\ d = 0
      BY <2>2
    <3>2. n # c
      BY <2>2
    <3> HIDE DEF list, d, full
    <3> QED BY <1>1, <1>2, <3>1, <3>2
  <2> QED BY <2>1, <2>2
<1>5. segs' = [entries |-> Append(list, e), base |-> b + d, published |-> m + 1]
  <2>1. b + 0 = b
    BY <1>1
  <2> QED BY <2>1 DEF RingPush
<1> HIDE DEF list, d, full
<1>6. /\ segs'.entries \in Seq(Entries) /\ Len(segs'.entries) = n - d + 1
      /\ \A i \in 1..(n - d) : segs'.entries[i] = list[i]
      /\ segs'.entries[n - d + 1] = e
  BY <1>4, <1>5, AppendProperties
<1>7. segs'.base = b + d /\ segs'.published = m + 1
  BY <1>5
<1> HIDE DEF n, b, m, c
<1>8. b + d \in Nat /\ m + 1 \in Nat /\ (b + d) + (n - d + 1) = m + 1 /\ n - d + 1 > 0
  BY <1>1, <1>4
<1>9. ASSUME NEW k \in 1..(n - d + 1) PROVE segs'.entries[k].n = (b + d) + k
  <2>1. CASE k = n - d + 1
    BY <1>1, <1>6, <1>8, <2>1
  <2>2. CASE k # n - d + 1
    <3>1. k \in 1..(n - d) /\ k + d \in 1..n /\ b + (k + d) = (b + d) + k
      <4>1. n \in Nat /\ b \in Nat /\ d \in 0..1 /\ n - d \in Nat
        BY <1>1, <1>4
      <4> QED BY <2>2, <4>1
    <3>2. segs'.entries[k] = segs.entries[k + d]
      BY <1>4, <1>6, <3>1
    <3> QED BY <1>3, <3>1, <3>2
  <2> QED BY <2>1, <2>2
<1>10. segs' \in SegmentRings
  BY <1>5, <1>6, <1>7, <1>8 DEF SegmentRings
<1>11. RingOK(segs', SegmentCapacity)
  BY <1>4, <1>6, <1>7, <1>8 DEF RingOK, c
<1> QED BY <1>6, <1>7, <1>8, <1>9, <1>10, <1>11 DEF SegsRight, m

-----------------------------------------------------------------------------
\* InitStore.

\* A non-empty bounded set of naturals has a maximum.
LEMMA Greatest ==
    ASSUME NEW c \in Nat, NEW S \in SUBSET (0..c), S # {}
    PROVE  Max(S) \in S /\ \A y \in S : y <= Max(S)
<1> DEFINE T == {x + 1 : x \in S}
           n == c + 1
<1>1. T \in SUBSET (1..n) /\ T # {} /\ n \in Nat
  <2>1. \A x \in S : x + 1 \in 1..n
    OBVIOUS
  <2> HIDE DEF n
  <2>2. T \subseteq 1..n /\ T # {}
    BY <2>1
  <2> QED BY <2>2 DEF n
<1> HIDE DEF n
<1>2. PICK t \in T : \A u \in T : u <= t
  <2> HIDE DEF T
  <2> QED BY <1>1, LastPosition
<1>3. PICK x \in S : t = x + 1
  BY <1>2
<1>4. \A y \in S : x >= y
  <2> SUFFICES ASSUME NEW y \in S PROVE x >= y
    OBVIOUS
  <2>1. y + 1 <= x + 1
    BY <1>2, <1>3
  <2> QED BY <2>1
<1>5. \E z \in S : \A y \in S : z >= y
  BY <1>4
<1>6. Max(S) \in S /\ \A y \in S : Max(S) >= y
  BY <1>5, Zenon DEF Max
<1>7. \A y \in S : y \in 0..c
  OBVIOUS
<1> HIDE DEF T
<1> QED BY <1>6, <1>7

\* generation_for answers with a generation, whichever segment is asked about.
LEMMA GenerationLemma ==
    ASSUME NEW store \in Stores, NEW seq \in Nat
    PROVE  generation_for(store, seq) \in Nat
<1> DEFINE at == {k \in 1..Len(store.starts) : store.starts[k].first <= seq}
<1>1. /\ store.starts \in Seq([first : Nat, g : Nat]) /\ Len(store.starts) \in Nat
      /\ (store.starts = <<>>) <=> (Len(store.starts) = 0)
  BY LenProperties, EmptySeq DEF Stores
<1>2. \A k \in 1..Len(store.starts) : store.starts[k].g \in Nat
  <2>1. \A k \in 1..Len(store.starts) : store.starts[k] \in [first : Nat, g : Nat]
    BY <1>1, ElementOfSeq
  <2> QED BY <2>1
<1>3. at # {} => Max(at) \in 1..Len(store.starts)
  <2>1. at \in SUBSET (0..Len(store.starts))
    BY <1>1
  <2>2. at # {} => Max(at) \in at
    <3> HIDE DEF at
    <3> QED BY <1>1, <2>1, Greatest
  <2> QED BY <2>2
<1> HIDE DEF at
<1>4. generation_for(store, seq) =
        IF store.starts = <<>> THEN 1
        ELSE IF at = {} THEN store.starts[1].g ELSE store.starts[Max(at)].g
  BY DEF generation_for, at
<1> QED BY <1>1, <1>2, <1>3, <1>4

\* set leaves an InitStore.
LEMMA InitSetLemma ==
    ASSUME NEW store \in Stores, NEW bytes \in Nat, NEW seq \in Nat
    PROVE  InitSet(store, InitHistory, bytes, seq) \in Stores
<1> DEFINE S == [first : Nat, g : Nat]
           g == store.generation + 1
           first == IF store.current = NoInit THEN 0 ELSE seq
           list == Append(store.starts, [first |-> first, g |-> g])
           low == IF Len(list) > InitHistory THEN Len(list) - InitHistory + 1 ELSE 1
<1>1. store.starts \in Seq(S) /\ store.generation \in Nat
  BY DEF Stores
<1>2. [first |-> first, g |-> g] \in S /\ g \in Nat
  BY <1>1
<1>3. list \in Seq(S) /\ Len(list) \in Nat
  BY <1>1, <1>2, AppendProperties, LenProperties
<1>4. InitHistory \in Nat \ {0}
  BY CapacitiesAssumption
<1>5. InitSet(store, InitHistory, bytes, seq) =
        IF store.current = bytes THEN store
        ELSE [generation |-> g, current |-> bytes, starts |-> SubSeq(list, low, Len(list))]
  BY DEF InitSet, Newest
<1> HIDE DEF list
<1>6. low \in 1..(Len(list) + 1)
  BY <1>3, <1>4
<1> HIDE DEF low
<1>7. \A i \in low..Len(list) : list[i] \in S
  <2> HIDE DEF S
  <2> QED BY <1>3, <1>6
<1>8. SubSeq(list, low, Len(list)) \in Seq(S)
  BY <1>3, <1>6, <1>7, SubSeqProperties
<1> HIDE DEF g
<1> QED BY <1>2, <1>5, <1>8 DEF Stores

-----------------------------------------------------------------------------
\* Discontinuities counted along a window.

MarkedSet(s, a, b) == {i \in a..b : s[i].discontinuous}
M(s, k) == Cardinality(MarkedSet(s, 1, k))

\* There are finitely many marks between two positions.
LEMMA MarkedSetFinite ==
    ASSUME NEW s, NEW a \in Int, NEW b \in Int
    PROVE  /\ IsFiniteSet(MarkedSet(s, a, b)) /\ MarkedSet(s, a, b) \subseteq a..b
           /\ Cardinality(MarkedSet(s, a, b)) \in Nat
<1>1. MarkedSet(s, a, b) \subseteq a..b
  BY DEF MarkedSet
<1>2. IsFiniteSet(a..b)
  BY FS_Interval
<1>3. IsFiniteSet(MarkedSet(s, a, b))
  BY <1>1, <1>2, FS_Subset
<1> QED BY <1>1, <1>3, FS_CardinalityType

\* What the model counts is M.
LEMMA MarkedLemma ==
    ASSUME NEW s \in Seq(Listed), NEW k \in 0..Len(s)
    PROVE  Marked(SubSeq(s, 1, k)) = M(s, k) /\ Marked(s) = M(s, Len(s))
<1>1. Len(s) \in Nat /\ k \in Nat
  BY LenProperties
<1>2. \A i \in 1..k : s[i] \in Listed
  BY <1>1, ElementOfSeq
<1> DEFINE q == SubSeq(s, 1, k)
<1>3. Len(q) = (IF 1 <= k THEN k - 1 + 1 ELSE 0) /\ \A i \in 1..(k - 1 + 1) : q[i] = s[1 + i - 1]
  BY <1>1, <1>2, SubSeqProperties
<1> HIDE DEF q
<1>4. Len(q) = k /\ \A i \in 1..k : q[i] = s[i]
  BY <1>1, <1>3
<1>5. {i \in 1..Len(q) : q[i].discontinuous} = MarkedSet(s, 1, k)
  BY <1>4 DEF MarkedSet
<1>6. {i \in 1..Len(s) : s[i].discontinuous} = MarkedSet(s, 1, Len(s))
  BY DEF MarkedSet
<1> QED BY <1>5, <1>6 DEF q, M, Marked

\* A longer prefix has at least as many marks, and more when its last is one.
LEMMA CountsGrow ==
    ASSUME NEW s, NEW k \in Nat, NEW j \in Nat, k <= j
    PROVE  /\ M(s, k) \in Nat /\ M(s, j) \in Nat /\ M(s, k) <= M(s, j)
           /\ k < j /\ s[j].discontinuous => M(s, k) < M(s, j)
<1>1. /\ IsFiniteSet(MarkedSet(s, 1, j)) /\ M(s, k) \in Nat /\ M(s, j) \in Nat
  BY MarkedSetFinite DEF M
<1>2. MarkedSet(s, 1, k) \subseteq MarkedSet(s, 1, j)
  BY DEF MarkedSet
<1>3. /\ M(s, k) <= M(s, j)
      /\ M(s, k) = M(s, j) => MarkedSet(s, 1, k) = MarkedSet(s, 1, j)
  BY <1>1, <1>2, FS_Subset DEF M
<1>4. ASSUME k < j, s[j].discontinuous PROVE MarkedSet(s, 1, k) # MarkedSet(s, 1, j)
  <2>1. j \in MarkedSet(s, 1, j) /\ j \notin MarkedSet(s, 1, k)
    BY <1>4 DEF MarkedSet
  <2> QED BY <2>1
<1> QED BY <1>1, <1>3, <1>4

\* The first m of t are those that follow the first d of s.
Continues(s, t, d, m) == \A i \in 1..m : t[i] = s[i + d]

\* Counting along a sequence and then along what follows.
LEMMA CountsShift ==
    ASSUME NEW s, NEW t, NEW d \in Nat, NEW m \in Nat, Continues(s, t, d, m)
    PROVE  M(s, d) + M(t, m) = M(s, d + m)
<1> DEFINE A == MarkedSet(s, 1, d)
           B == MarkedSet(s, d + 1, d + m)
           T == MarkedSet(t, 1, m)
           f == [i \in T |-> i + d]
<1>1. IsFiniteSet(A) /\ IsFiniteSet(B) /\ IsFiniteSet(T)
  BY MarkedSetFinite
<1>2. Cardinality(A) \in Nat /\ Cardinality(B) \in Nat /\ Cardinality(T) \in Nat
  BY MarkedSetFinite
<1>3. A \cup B = MarkedSet(s, 1, d + m) /\ A \cap B = {}
  BY DEF MarkedSet
<1>4. \A i \in T : i \in Nat /\ i + d \in B
  BY DEF MarkedSet, Continues
<1>5. \A b \in B : b - d \in T /\ (b - d) + d = b
  BY DEF MarkedSet, Continues
<1> HIDE DEF A, B, T
<1>6. f \in Bijection(T, B)
  <2>1. f \in [T -> B] /\ \A i \in T : f[i] = i + d
    BY <1>4
  <2>2. \A i, j \in T : f[i] = f[j] => i = j
    BY <1>4, <2>1
  <2>3. \A b \in B : \E i \in T : f[i] = b
    BY <1>5, <2>1
  <2> HIDE DEF f
  <2> QED BY <2>1, <2>2, <2>3 DEF Bijection, Injection, Surjection, IsInjective
<1>7. Cardinality(B) = Cardinality(T)
  <2>1. ExistsBijection(T, B)
    BY <1>6 DEF ExistsBijection
  <2> QED BY <1>1, <2>1, FS_Bijection
<1>8. Cardinality(A \cup B) = Cardinality(A) + Cardinality(B)
  <2>1. Cardinality(A \cup B) = Cardinality(A) + Cardinality(B) - Cardinality(A \cap B)
    BY <1>1, FS_Union
  <2>2. Cardinality(A \cap B) = 0
    BY <1>3, FS_EmptySet
  <2> QED BY <1>2, <2>1, <2>2
<1> QED BY <1>3, <1>7, <1>8 DEF M, A, T

-----------------------------------------------------------------------------
\* Window::push.

\* The window w2 is w without its first d segments, and the segment n behind them.
Rolled(w, w2, n, d) ==
    LET len == Len(w.segments) - d
    IN  /\ Len(w2.segments) = len + 1
        /\ \A i \in 1..len : w2.segments[i] = w.segments[i + d]
        /\ w2.segments[len + 1].n = n
        /\ len > 0 => w.segments[Len(w.segments)].n + 1 = n
        /\ w2.discontinuity_sequence = w.discontinuity_sequence + M(w.segments, d)

\* A push drops d segments from the front, counts their marks and appends one.
LEMMA RolledLemma ==
    ASSUME NEW w, WindowRight(w), NEW x \in Entries, NEW g \in Nat
    PROVE  \E d \in 0..Len(w.segments) :
              LET w2 == window_push(w, WindowCapacity, x, g)
              IN  /\ w2 \in Windows /\ Len(w2.segments) <= WindowCapacity
                  /\ Rolled(w, w2, x.n, d)
<1> DEFINE run == starts_run(w, x)
           base == IF run THEN clear_rolling_off(w) ELSE w
           changed == base.segments # <<>> /\ Last(base.segments).init_gen # g
           full == Len(base.segments) >= WindowCapacity
           kept == IF full THEN Tail(base.segments) ELSE base.segments
           rolled == IF full /\ Head(base.segments).discontinuous THEN 1 ELSE 0
           new == [n |-> x.n, init_gen |-> g, under |-> x.under,
                   count |-> x.count, discontinuous |-> x.discontinuous \/ run \/ changed]
           s == w.segments
           w2 == window_push(w, WindowCapacity, x, g)
<1>1. /\ w \in Windows /\ s \in Seq(Listed) /\ Len(s) \in Nat /\ Len(s) <= WindowCapacity
      /\ w.discontinuity_sequence \in Nat
  BY LenProperties DEF WindowRight, Windows
<1>2. WindowCapacity \in Nat \ {0}
  BY CapacitiesAssumption
<1>3. w2 = [segments |-> Append(kept, new),
            discontinuity_sequence |-> base.discontinuity_sequence + rolled,
            gap_pending |-> FALSE]
  BY DEF window_push
<1>4. new \in Listed /\ new.n = x.n
  <2>1. x.n \in Nat /\ x.under \in Nat /\ x.count \in Nat /\ x.discontinuous \in BOOLEAN
    BY DEF Entries
  <2>2. (x.discontinuous \/ run \/ changed) \in BOOLEAN
    OBVIOUS
  <2> HIDE DEF run, changed
  <2> QED BY <2>1, <2>2 DEF Listed
<1> HIDE DEF new
<1>a. ASSUME NEW q \in Seq(Listed)
      PROVE  /\ Append(q, new) \in Seq(Listed) /\ Len(Append(q, new)) = Len(q) + 1
             /\ \A i \in 1..Len(q) : Append(q, new)[i] = q[i]
             /\ Append(q, new)[Len(q) + 1] = new
  BY <1>4, AppendProperties
<1> SUFFICES \E d \in 0..Len(s) :
               /\ kept \in Seq(Listed) /\ Len(kept) = Len(s) - d
               /\ Len(kept) + 1 <= WindowCapacity
               /\ \A i \in 1..(Len(s) - d) : kept[i] = s[i + d]
               /\ Len(s) - d > 0 => s[Len(s)].n + 1 = x.n
               /\ base.discontinuity_sequence + rolled = w.discontinuity_sequence + M(s, d)
  <2> HIDE DEF kept, base, rolled, s
  <2>1. PICK d \in 0..Len(s) :
               /\ kept \in Seq(Listed) /\ Len(kept) = Len(s) - d
               /\ Len(kept) + 1 <= WindowCapacity
               /\ \A i \in 1..(Len(s) - d) : kept[i] = s[i + d]
               /\ Len(s) - d > 0 => s[Len(s)].n + 1 = x.n
               /\ base.discontinuity_sequence + rolled = w.discontinuity_sequence + M(s, d)
    OBVIOUS
  <2>2. /\ w2.segments = Append(kept, new)
        /\ w2.discontinuity_sequence = w.discontinuity_sequence + M(s, d)
    BY <1>3, <2>1
  <2>3. /\ w2.segments \in Seq(Listed) /\ Len(w2.segments) = Len(s) - d + 1
        /\ \A i \in 1..(Len(s) - d) : w2.segments[i] = s[i + d]
        /\ w2.segments[Len(s) - d + 1] = new
    <3>0. kept \in Seq(Listed) /\ new \in Listed
      BY <1>4, <2>1
    <3>1. /\ Append(kept, new) \in Seq(Listed) /\ Len(Append(kept, new)) = Len(kept) + 1
          /\ \A i \in 1..Len(kept) : Append(kept, new)[i] = kept[i]
          /\ Append(kept, new)[Len(kept) + 1] = new
      BY <3>0, <1>a, Zenon
    <3> HIDE DEF w2
    <3> QED BY <2>1, <2>2, <3>1
  <2>4. M(s, d) \in Nat
    BY <1>1, CountsGrow
  <2>5. w2 \in Windows
    BY <1>1, <1>3, <2>1, <2>2, <2>3, <2>4, SMTT(40) DEF Windows
  <2> HIDE DEF w2
  <2>6. Rolled(w, w2, x.n, d)
    BY <1>4, <2>1, <2>2, <2>3 DEF Rolled, s
  <2>7. Len(w2.segments) <= WindowCapacity
    BY <2>1, <2>3
  <2> QED BY <2>5, <2>6, <2>7 DEF w2, s
<1>5. CASE run
  <2>1. base.segments = <<>> /\ base.discontinuity_sequence = w.discontinuity_sequence + Marked(s)
    BY <1>1, <1>5 DEF clear_rolling_off, Windows
  <2>2. Len(base.segments) = 0 /\ ~full
    BY <1>2, <2>1
  <2>3. kept = <<>> /\ rolled = 0
    BY <2>1, <2>2
  <2>4. Marked(s) = M(s, Len(s)) /\ M(s, Len(s)) \in Nat
    BY <1>1, MarkedLemma, CountsGrow
  <2> HIDE DEF base, kept, rolled, s
  <2>5. base.discontinuity_sequence + rolled = w.discontinuity_sequence + M(s, Len(s))
    BY <1>1, <2>1, <2>3, <2>4
  <2>6. kept \in Seq(Listed) /\ Len(kept) = 0 /\ Len(s) - Len(s) = 0
    BY <1>1, <2>3
  <2> QED BY <1>1, <1>2, <2>5, <2>6
<1>6. CASE ~run
  <2>1. base = w
    BY <1>6
  <2>2. s = <<>> \/ s[Len(s)].n + 1 = x.n
    BY <1>6 DEF starts_run, follows, Last
  <2>3. Len(s) > 0 => s[Len(s)].n + 1 = x.n
    BY <2>2
  <2>4. CASE full
    <3>1. s # <<>> /\ Len(s) > 0 /\ Len(s) = WindowCapacity
      BY <1>1, <1>2, <2>1, <2>4
    <3>2. /\ Tail(s) \in Seq(Listed) /\ Len(Tail(s)) = Len(s) - 1
          /\ \A i \in 1..Len(Tail(s)) : Tail(s)[i] = s[i + 1]
      BY <1>1, <3>1, HeadTailProperties
    <3>3. kept = Tail(s) /\ rolled = IF s[1].discontinuous THEN 1 ELSE 0
      BY <2>1, <2>4, Head(s) = s[1]
    <3>4. M(s, 1) = rolled
      <4>1. MarkedSet(s, 1, 1) = IF s[1].discontinuous THEN {1} ELSE {}
        BY DEF MarkedSet
      <4> QED BY <3>3, <4>1, FS_EmptySet, FS_Singleton DEF M
    <3> HIDE DEF kept, rolled, s, base
    <3> QED BY <1>1, <1>2, <2>1, <2>3, <3>1, <3>2, <3>3, <3>4
  <2>5. CASE ~full
    <3>1. kept = s /\ rolled = 0 /\ Len(s) < WindowCapacity
      BY <1>1, <1>2, <2>1, <2>5
    <3>2. M(s, 0) = 0
      <4>1. MarkedSet(s, 1, 0) = {}
        BY DEF MarkedSet
      <4> QED BY <4>1, FS_EmptySet DEF M
    <3> HIDE DEF kept, rolled, s, base
    <3> QED BY <1>1, <1>2, <2>1, <2>3, <3>1, <3>2
  <2> QED BY <2>4, <2>5
<1> QED BY <1>5, <1>6

\* A push leaves one run of consecutive numbers that ends with the new segment.
LEMMA PushLemma ==
    ASSUME NEW w, WindowRight(w), NEW x \in Entries, NEW g \in Nat,
           NEW w2, w2 = window_push(w, WindowCapacity, x, g)
    PROVE  /\ WindowRight(w2) /\ EndOf(w2) = x.n
           /\ \E d \in 0..Len(w.segments) : Rolled(w, w2, x.n, d)
<1>1. PICK d \in 0..Len(w.segments) :
         /\ w2 \in Windows /\ Len(w2.segments) <= WindowCapacity
         /\ Rolled(w, w2, x.n, d)
  BY RolledLemma
<1> DEFINE s == w.segments
           t == w2.segments
           m == Len(s) - d
<1>2. /\ s \in Seq(Listed) /\ Len(s) \in Nat /\ t \in Seq(Listed) /\ Len(t) \in Nat
      /\ \A k \in 1..Len(s) : s[k].n = s[1].n + k - 1
  BY <1>1, LenProperties DEF WindowRight, Windows
<1>3. /\ Len(t) = m + 1 /\ \A i \in 1..m : t[i] = s[i + d]
      /\ t[m + 1].n = x.n
      /\ m > 0 => s[Len(s)].n + 1 = x.n
  BY <1>1 DEF Rolled
<1>4. \A k \in 1..Len(s) : s[k].n \in Nat
  <2>1. \A k \in 1..Len(s) : s[k] \in Listed
    BY <1>2, ElementOfSeq
  <2> QED BY <2>1 DEF Listed
<1>5. x.n \in Nat
  BY DEF Entries
<1> HIDE DEF s, t
<1>6. d \in 0..Len(s)
  BY DEF s
<1>7. ASSUME NEW k \in 1..Len(t) PROVE t[k].n = t[1].n + k - 1
  <2>1. CASE m = 0
    BY <1>2, <1>3, <1>5, <2>1
  <2>2. CASE m > 0
    <3>1. 1 \in 1..m /\ 1 + d \in 1..Len(s) /\ t[1] = s[1 + d]
      BY <1>2, <1>3, <1>6, <2>2
    <3>2. t[1].n = s[1].n + d /\ s[1].n \in Nat
      BY <1>2, <1>4, <1>6, <3>1
    <3>3. CASE k = m + 1
      <4>1. s[Len(s)].n = s[1].n + Len(s) - 1
        BY <1>2, <1>6, <2>2
      <4>2. t[k].n = s[Len(s)].n + 1
        BY <1>3, <2>2, <3>3
      <4> QED BY <1>2, <1>6, <3>2, <3>3, <4>1, <4>2
    <3>4. CASE k # m + 1
      <4>0. k \in 1..(m + 1) /\ m \in Nat /\ m + d = Len(s)
        BY <1>2, <1>3, <1>6
      <4> HIDE DEF m
      <4>1. k \in 1..m /\ k + d \in 1..Len(s) /\ t[k] = s[k + d]
        <5>1. k \in 1..m
          BY <4>0, <3>4
        <5>2. k + d \in 1..(m + d)
          BY <1>6, <4>0, <5>1
        <5> QED BY <1>3, <4>0, <5>1, <5>2
      <4>2. t[k].n = s[1].n + (k + d) - 1
        BY <1>2, <4>1
      <4>3. k \in Nat /\ d \in Nat
        BY <1>6
      <4> QED BY <3>2, <4>2, <4>3
    <3> QED BY <3>3, <3>4
  <2> QED BY <1>6, <1>2, <2>1, <2>2
<1>8. Len(t) > 0 /\ t # <<>> /\ t[Len(t)].n = x.n
  BY <1>2, <1>3, <1>6, EmptySeq
<1>9. EndOf(w2) = x.n
  BY <1>8 DEF EndOf, t
<1> QED BY <1>1, <1>7, <1>9 DEF WindowRight, t

\* ListedIsServed is that the window is one run.
LEMMA ServedLemma ==
    ASSUME WindowRight(window)
    PROVE  ListedIsServed
<1> SUFFICES ASSUME NEW k \in 1..Len(window.segments)
             PROVE  window_bytes_of(window, window.segments[k].n) = {window.segments[k]}
  BY DEF ListedIsServed
<1> DEFINE s == window.segments
<1>1. s \in Seq(Listed) /\ Len(s) \in Nat /\ s[k].n = s[1].n + k - 1
  BY LenProperties DEF WindowRight, Windows
<1>2. s # <<>> /\ s[1].n \in Nat
  <2>1. 1 \in 1..Len(s)
    BY <1>1
  <2>2. s[1] \in Listed
    BY <1>1, <2>1, ElementOfSeq
  <2> QED BY <1>1, <2>1, <2>2, SMTT(40) DEF Listed
<1>3. s[k].n - s[1].n + 1 = k
  BY <1>1, <1>2
<1> QED BY <1>2, <1>3 DEF window_bytes_of

-----------------------------------------------------------------------------
\* The locals of a request.

Local(l) == l = [f \in Fields |-> l[f]]

\* The locals of a request before it drains.
LEMMA NoLocalsLemma ==
    /\ Local(NoLocals) /\ NoLocals.head = 0 /\ NoLocals.polled = <<>> /\ NoLocals.prepared = <<>>
BY DEF NoLocals, Local, Fields

\* The locals of a request that has nothing left to drain.
LEMMA FromField ==
    ASSUME NEW x
    PROVE  /\ Local([NoLocals EXCEPT !.from = x]) /\ [NoLocals EXCEPT !.from = x].head = 0
BY DEF NoLocals, Local, Fields

-----------------------------------------------------------------------------
\* One step of one request.

\* What a step of request p has to preserve for OriginInv to hold after it.
LEMMA RequestStep ==
    ASSUME OriginInv, NEW p \in Requests, NEW at \in Places, NEW l, Local(l),
           pc' = [pc EXCEPT ![p] = at], loc' = [loc EXCEPT ![p] = l], UNCHANGED trunkVars,
           WindowRight(window'), cursor' \in 0..segs.published,
           drained' \in Int, drained' <= cursor' + 1, EndOf(window') <= cursor',
           l.head \in Nat, l.head <= segs.published + 1,
           at = "gate" => l.polled = <<>> /\ l.prepared = <<>>,
           gate' = Nobody => EndOf(window') = cursor',
           \/ pc[p] \notin Holding /\ at \notin Holding /\ UNCHANGED drainVars
           \/ /\ gate \in {Nobody, p} /\ gate' = IF at \in Holding THEN p ELSE Nobody
              /\ at \in Holding => DrainRight(p)'
    PROVE  OriginInv'
<1>1. /\ Shape /\ SegsRight /\ pc \in [Requests -> Places] /\ DOMAIN loc = Requests
      /\ UNCHANGED <<segs, parts, queued, open, inits>>
  BY DEF OriginInv, Shape, trunkVars
<1>2. /\ pc'[p] = at /\ loc'[p] = l
      /\ \A q \in Requests \ {p} : pc'[q] = pc[q] /\ loc'[q] = loc[q]
  BY <1>1
<1>3. Shape'
  <2>1. pc' \in [Requests -> Places] /\ DOMAIN loc' = Requests
    BY <1>1
  <2>2. loc' = [q \in Requests |-> loc'[q]]
    BY <1>1
  <2>3. \A q \in Requests : loc'[q] = [f \in Fields |-> loc'[q][f]]
    BY <1>1, <1>2 DEF Shape, Local
  <2> QED BY <1>1, <2>1, <2>2, <2>3 DEF Shape
<1>4. SegsRight'
  BY <1>1 DEF SegsRight, RingOK
<1>5. \A q \in Requests : loc'[q].head \in Nat /\ loc'[q].head <= segs.published + 1
  BY <1>2 DEF OriginInv
<1>6. \A q \in Requests : pc'[q] = "gate" => loc'[q].polled = <<>> /\ loc'[q].prepared = <<>>
  BY <1>2 DEF OriginInv
<1>7. Nobody \notin Requests
  BY NobodyAssumption
<1>8. /\ \A q \in Requests : pc'[q] \in Holding <=> gate' = q
      /\ \A q \in Requests : pc'[q] \in Holding => DrainRight(q)'
  <2>0. \A q \in Requests : pc[q] \in Holding <=> gate = q
    BY DEF OriginInv
  <2>1. CASE pc[p] \notin Holding /\ at \notin Holding /\ UNCHANGED drainVars
    <3>1. UNCHANGED <<window, cursor, drained, gate>>
      BY <2>1 DEF drainVars
    <3>2. \A q \in Requests : pc'[q] \in Holding <=> gate' = q
      BY <1>2, <2>0, <2>1, <3>1, SMTT(40)
    <3>3. ASSUME NEW q \in Requests, pc'[q] \in Holding PROVE DrainRight(q)'
      <4>1. q # p /\ pc'[q] = pc[q] /\ loc'[q] = loc[q]
        BY <1>2, <2>1, <3>3
      <4>2. DrainRight(q)
        BY <3>3, <4>1 DEF OriginInv
      <4> QED BY <1>1, <3>1, <4>1, <4>2 DEF DrainRight, InHand, EndsAtCursor, MarkBehind, EndOf
    <3> QED BY <3>2, <3>3
  <2>2. CASE /\ gate \in {Nobody, p} /\ gate' = IF at \in Holding THEN p ELSE Nobody
             /\ at \in Holding => DrainRight(p)'
    BY <1>2, <1>7, <2>0, <2>2
  <2> QED BY <2>1, <2>2
<1>9. segs' = segs
  BY <1>1
<1>10. /\ cursor' \in 0..segs'.published
       /\ \A q \in Requests : loc'[q].head \in Nat /\ loc'[q].head <= segs'.published + 1
  BY <1>5, <1>9
<1>11. gate' \in Requests \cup {Nobody}
  BY DEF OriginInv, drainVars
<1> QED BY <1>3, <1>4, <1>6, <1>8, <1>10, <1>11 DEF OriginInv

\* The locals of a request in OriginInv.
LEMMA LocLemma ==
    ASSUME OriginInv, NEW p \in Requests
    PROVE  /\ Local(loc[p]) /\ loc[p].head \in Nat /\ loc[p].head <= segs.published + 1
           /\ pc \in [Requests -> Places] /\ pc[p] \in Places /\ DOMAIN loc = Requests
           /\ loc = [loc EXCEPT ![p] = loc[p]]
BY DEF OriginInv, Shape, Local

\* A step outside of the drain.
LEMMA QuietStep ==
    ASSUME OriginInv, NEW p \in Requests, NEW at \in Places, NEW l, Local(l),
           pc' = [pc EXCEPT ![p] = at], loc' = [loc EXCEPT ![p] = l],
           UNCHANGED <<trunkVars, drainVars>>, pc[p] \notin Holding, at \notin Holding,
           l.head \in Nat, l.head <= segs.published + 1,
           at = "gate" => l.polled = <<>> /\ l.prepared = <<>>
    PROVE  OriginInv'
<1>1. UNCHANGED trunkVars /\ UNCHANGED drainVars /\ UNCHANGED <<window, cursor, drained, gate>>
  BY DEF drainVars
<1>2. /\ WindowRight(window) /\ cursor \in 0..segs.published /\ drained \in Int
      /\ drained <= cursor + 1 /\ EndOf(window) <= cursor
      /\ gate = Nobody => EndOf(window) = cursor
  BY DEF OriginInv
<1>3. /\ WindowRight(window') /\ cursor' \in 0..segs.published /\ drained' \in Int
      /\ drained' <= cursor' + 1 /\ EndOf(window') <= cursor'
      /\ gate' = Nobody => EndOf(window') = cursor'
  BY <1>1, <1>2
<1> QED BY <1>1, <1>3, RequestStep

-----------------------------------------------------------------------------
\* OriginInv holds initially.
LEMMA OriginInit == Init => OriginInv
<1> SUFFICES ASSUME Init PROVE OriginInv
  OBVIOUS
<1>1. /\ segs = EmptyRing /\ queued = 0 /\ open = 0
      /\ inits = EmptyInits /\ window = EmptyWindow
      /\ cursor = 0 /\ drained = -1 /\ gate = Nobody
      /\ pc = [r \in Requests |-> "idle"] /\ loc = [r \in Requests |-> NoLocals]
  BY DEF Init, UNDRAINED
<1>2. Shape
  <2>1. inits \in Stores
    BY <1>1 DEF EmptyInits, NoInit, Stores
  <2>2. pc \in [Requests -> Places]
    BY <1>1 DEF Places
  <2>3. /\ DOMAIN loc = Requests /\ loc = [p \in Requests |-> loc[p]]
        /\ \A p \in Requests : loc[p] = NoLocals
    BY <1>1
  <2>4. \A p \in Requests : loc[p] = [f \in Fields |-> loc[p][f]]
    BY <2>3, NoLocalsLemma DEF Local
  <2>5. queued \in 0..MaxQueued
    BY <1>1, BoundsAssumption
  <2> QED BY <1>1, <2>1, <2>2, <2>3, <2>4, <2>5 DEF Shape
<1>3. SegsRight
  <2>1. segs.entries = <<>> /\ segs.base = 0 /\ segs.published = 0 /\ Len(segs.entries) = 0
    BY <1>1 DEF EmptyRing
  <2>2. segs \in SegmentRings
    BY <1>1 DEF EmptyRing, SegmentRings
  <2> QED BY <2>1, <2>2, CapacitiesAssumption DEF SegsRight, RingOK
<1>4. WindowRight(window) /\ EndOf(window) = 0
  <2>1. window.segments = <<>> /\ Len(window.segments) = 0
    BY <1>1 DEF EmptyWindow
  <2>2. window \in Windows
    BY <1>1 DEF EmptyWindow, Windows
  <2> QED BY <2>1, <2>2, CapacitiesAssumption DEF WindowRight, EndOf
<1>5. segs.published = 0
  BY <1>1 DEF EmptyRing
<1>6. /\ \A p \in Requests : loc[p].head = 0 /\ loc[p].polled = <<>> /\ loc[p].prepared = <<>>
      /\ \A p \in Requests : pc[p] = "idle"
  BY <1>1, NoLocalsLemma
<1>7. \A p \in Requests : pc[p] \notin Holding /\ gate # p
  BY <1>1, <1>6, NobodyAssumption DEF Holding
<1> QED BY <1>1, <1>2, <1>3, <1>4, <1>5, <1>6, <1>7 DEF OriginInv

-----------------------------------------------------------------------------
\* The segmenter.

\* The segmenter may publish, close and announce between any two steps of a drain.
LEMMA SegmenterSafe == ASSUME OriginInv, Segmenter PROVE OriginInv'
<1>1. /\ Shape /\ SegsRight /\ open \in Nat /\ inits \in Stores /\ queued \in 0..MaxQueued
      /\ segs.published \in Nat /\ last_closed = segs.published
  BY SegsLemma DEF OriginInv, Shape
<1>0. CASE Cut
  <2>1. /\ queued' = queued + 1
        /\ UNCHANGED <<segs, open, inits, window, cursor, drained, gate, pc, loc>>
    BY <1>0 DEF Cut, drainVars
  <2>2. queued' \in 0..MaxQueued
    BY <1>0, <1>1, <2>1, BoundsAssumption DEF Cut
  <2> QED BY <2>1, <2>2 DEF OriginInv, Shape, SegsRight, RingOK, WindowRight, EndOf, DrainRight,
                            InHand, EndsAtCursor, MarkBehind
<1>2. CASE PublishPart
  <2>1. open' \in Nat /\ UNCHANGED <<segs, queued, inits, window, cursor, drained, gate, pc, loc>>
    BY <1>1, <1>2 DEF PublishPart, drainVars
  <2> QED BY <2>1 DEF OriginInv, Shape, SegsRight, RingOK, WindowRight, EndOf, DrainRight,
                      InHand, EndsAtCursor, MarkBehind
<1>3. CASE \E bytes \in 1..MaxInits : set_init(bytes)
  <2>1. PICK bytes \in 1..MaxInits : set_init(bytes)
    BY <1>3
  <2>2. /\ inits' = InitSet(inits, InitHistory, bytes, last_closed + 1)
        /\ UNCHANGED <<segs, queued, open, window, cursor, drained, gate, pc, loc>>
    BY <2>1 DEF set_init, drainVars
  <2>3. inits' \in Stores
    BY <1>1, <2>2, InitSetLemma
  <2> QED BY <2>2, <2>3 DEF OriginInv, Shape, SegsRight, RingOK, WindowRight, EndOf, DrainRight,
                            InHand, EndsAtCursor, MarkBehind
<1>4. CASE CloseSegment
  <2> DEFINE e == [n |-> last_closed + 1, discontinuous |-> last_closed + 1 \in Breaks,
                   under |-> inits.generation, count |-> open]
  <2>1. /\ segs' = RingPush(segs, SegmentCapacity, e) /\ open' = 0
        /\ UNCHANGED <<inits, window, cursor, drained, gate, pc, loc>>
    BY <1>4 DEF CloseSegment, drainVars
  <2>2. e \in Entries /\ e.n = last_closed + 1
    <3>1. inits.generation \in Nat
      BY <1>1 DEF Stores
    <3> QED BY <1>1, <3>1 DEF Entries
  <2> HIDE DEF e
  <2>3. SegsRight' /\ segs'.published = segs.published + 1
    BY <1>1, <2>1, <2>2, CloseLemma
  <2>4. Shape'
    <3>1. queued' \in 0..MaxQueued
      BY <1>1, <1>4, BoundsAssumption DEF CloseSegment
    <3> QED BY <1>1, <2>1, <3>1 DEF Shape
  <2>5. /\ cursor' \in 0..segs'.published
        /\ \A p \in Requests : loc'[p].head \in Nat /\ loc'[p].head <= segs'.published + 1
    BY <1>1, <2>1, <2>3 DEF OriginInv
  <2>6. ASSUME NEW p \in Requests, pc'[p] \in Holding PROVE DrainRight(p)'
    <3>1. DrainRight(p) /\ cursor \in Int
      BY <2>1, <2>6 DEF OriginInv
    <3>2. cursor < segs.published => cursor < segs'.published
      BY <1>1, <2>3, <3>1
    <3>3. EndOf(window)' = EndOf(window)
      BY <2>1 DEF EndOf
    <3> QED BY <2>1, <3>1, <3>2, <3>3 DEF DrainRight, InHand, EndsAtCursor, MarkBehind
  <2> QED BY <2>1, <2>3, <2>4, <2>5, <2>6 DEF OriginInv, WindowRight, EndOf
<1> QED BY <1>0, <1>2, <1>3, <1>4 DEF Segmenter

-----------------------------------------------------------------------------
\* The drain.

\* The gate is taken with nothing in hand and the window at the cursor.
LEMMA TakeGateSafe ==
    ASSUME OriginInv, NEW p \in Requests, TakeGate(p) PROVE OriginInv'
<1>1. /\ pc[p] = "gate" /\ gate = Nobody /\ gate' = p /\ pc' = [pc EXCEPT ![p] = "poll"]
      /\ UNCHANGED trunkVars /\ UNCHANGED <<segs, window, cursor, drained, loc>>
  BY DEF TakeGate, Goto, trunkVars
<1>2. /\ loc[p].polled = <<>> /\ loc[p].prepared = <<>> /\ EndOf(window) = cursor
      /\ cursor \in 0..segs.published /\ drained \in Int /\ drained <= cursor + 1
      /\ WindowRight(window) /\ EndOf(window) <= cursor
  BY <1>1 DEF OriginInv
<1>3. /\ Local(loc[p]) /\ loc[p].head \in Nat /\ loc[p].head <= segs.published + 1
      /\ pc \in [Requests -> Places] /\ loc' = [loc EXCEPT ![p] = loc[p]]
  BY <1>1, LocLemma
<1>4. "poll" \in Places /\ "poll" \in Holding /\ p # Nobody
  BY NobodyAssumption DEF Places, Holding
<1>5. pc'[p] = "poll" /\ loc'[p] = loc[p]
  BY <1>1, <1>3
<1>6. DrainRight(p)'
  <2>1. InHand(loc'[p], pc'[p], EndOf(window)', cursor')
    <3>1. <<>> \in Seq(Entries) /\ <<>> \in Seq(Items) /\ 1..Len(<<>>) = {}
      OBVIOUS
    <3> QED BY <1>2, <1>5, <3>1 DEF InHand
  <2>2. EndsAtCursor(loc'[p], pc'[p], EndOf(window)', cursor', segs'.published)
    BY <1>1, <1>2, <1>5 DEF EndsAtCursor, EndOf
  <2>3. MarkBehind(loc'[p], pc'[p], cursor', drained')
    BY <1>1, <1>2, <1>5 DEF MarkBehind
  <2> QED BY <2>1, <2>2, <2>3 DEF DrainRight
<1> QED BY <1>1, <1>2, <1>3, <1>4, <1>6, RequestStep

\* The window ends with its greatest number.
LEMMA EndLemma ==
    ASSUME NEW w, WindowRight(w)
    PROVE  /\ EndOf(w) \in Nat
           /\ \A k \in 1..Len(w.segments) : w.segments[k].n \in Nat /\ w.segments[k].n <= EndOf(w)
<1> DEFINE s == w.segments
<1>1. /\ s \in Seq(Listed) /\ Len(s) \in Nat /\ \A k \in 1..Len(s) : s[k].n = s[1].n + k - 1
  BY LenProperties DEF WindowRight, Windows
<1>2. \A k \in 1..Len(s) : s[k].n \in Nat
  <2>1. \A k \in 1..Len(s) : s[k] \in Listed
    BY <1>1, ElementOfSeq
  <2> QED BY <2>1 DEF Listed
<1>3. EndOf(w) = IF s = <<>> THEN 0 ELSE s[Len(s)].n
  BY DEF EndOf
<1>4. (s = <<>>) <=> (Len(s) = 0)
  BY <1>1, EmptySeq
<1> HIDE DEF s
<1>5. EndOf(w) \in Nat
  BY <1>1, <1>2, <1>3, <1>4
<1>6. ASSUME NEW k \in 1..Len(s) PROVE s[k].n <= EndOf(w)
  <2>1. Len(s) \in 1..Len(s) /\ 1 \in 1..Len(s) /\ s # <<>>
    BY <1>1, <1>4
  <2>2. s[k].n = s[1].n + k - 1 /\ s[Len(s)].n = s[1].n + Len(s) - 1 /\ s[1].n \in Nat
    BY <1>1, <1>2, <2>1
  <2> QED BY <1>1, <1>3, <2>1, <2>2
<1> QED BY <1>2, <1>5, <1>6 DEF s

\* One more item polled, ahead of everything in hand.
LEMMA PolledLemma ==
    ASSUME NEW l, NEW l2, NEW e \in Nat, NEW c \in Nat, NEW c2 \in Nat, c <= c2,
           InHand(l, "poll", e, c), NEW x \in Entries, OnItsWay(x, e, c2), x = Gap \/ c < x.n,
           l2.polled = Append(l.polled, x), l2.prepared = l.prepared
    PROVE  /\ InHand(l2, "poll", e, c2) /\ l2.polled # <<>> /\ l2.prepared = <<>>
           /\ l2.polled[Len(l2.polled)] = x
<1> DEFINE s == l.polled
           t == l2.polled
           n == Len(s)
<1>1. /\ s \in Seq(Entries) /\ n \in Nat /\ l.prepared = <<>>
      /\ \A i \in 1..n : OnItsWay(s[i], e, c)
      /\ \A i, j \in 1..n : i < j => Below(s[i], s[j])
  BY LenProperties DEF InHand
<1>2. /\ t \in Seq(Entries) /\ t # <<>> /\ Len(t) = n + 1
      /\ \A i \in 1..n : t[i] = s[i]
      /\ t[n + 1] = x
  BY <1>1, AppendProperties
<1>3. \A i \in 1..n : s[i] \in Entries /\ s[i].n \in Nat
  <2>1. \A i \in 1..n : s[i] \in Entries
    BY <1>1, ElementOfSeq
  <2> QED BY <2>1 DEF Entries
<1>4. x.n \in Nat
  BY DEF Entries
<1> HIDE DEF s, t, n
<1>5. \A i \in 1..n : OnItsWay(s[i], e, c2) /\ Below(s[i], x)
  BY <1>1, <1>3, <1>4 DEF OnItsWay, Below
<1>6. \A i \in 1..Len(t) : OnItsWay(t[i], e, c2)
  BY <1>1, <1>2, <1>5
<1>7. ASSUME NEW i \in 1..Len(t), NEW j \in 1..Len(t), i < j PROVE Below(t[i], t[j])
  <2>1. i \in 1..n /\ (j \in 1..n \/ j = n + 1)
    BY <1>1, <1>2, <1>7
  <2> QED BY <1>1, <1>2, <1>5, <1>7, <2>1
<1>8. l2.prepared = <<>> /\ <<>> \in Seq(Items) /\ 1..Len(<<>>) = {}
  BY <1>1
<1>9. InHand(l2, "poll", e, c2)
  BY <1>2, <1>6, <1>7, <1>8 DEF InHand, t
<1> QED BY <1>2, <1>8, <1>9 DEF t

\* The first item polled is prepared.
LEMMA PreparedLemma ==
    ASSUME NEW l, NEW l2, NEW e, NEW c, InHand(l, "prepare", e, c), l.polled # <<>>,
           NEW g \in Nat, l2.polled = Tail(l.polled),
           l2.prepared = Append(l.prepared, [item |-> Head(l.polled), init_gen |-> g])
    PROVE  /\ InHand(l2, "prepare", e, c) /\ l2.prepared # <<>>
           /\ l2.prepared[Len(l2.prepared)].item = l.polled[1]
           /\ l2.polled # <<>> => l2.polled[Len(l2.polled)] = l.polled[Len(l.polled)]
           /\ l2.polled = <<>> => l.polled[1] = l.polled[Len(l.polled)]
<1> DEFINE s == l.polled
           r == l.prepared
           n == Len(s)
           m == Len(r)
           x == [item |-> Head(s), init_gen |-> g]
           s2 == l2.polled
           r2 == l2.prepared
<1>1. /\ s \in Seq(Entries) /\ n \in Nat /\ r \in Seq(Items) /\ m \in Nat
      /\ \A i \in 1..n : OnItsWay(s[i], e, c)
      /\ \A i \in 1..m : OnItsWay(r[i].item, e, c)
      /\ \A i, j \in 1..n : i < j => Below(s[i], s[j])
      /\ \A i, j \in 1..m : i < j => Below(r[i].item, r[j].item)
      /\ \A i \in 1..m, j \in 1..n : Below(r[i].item, s[j])
  BY LenProperties DEF InHand
<1>2. n > 0
  BY <1>1, EmptySeq
<1>3. /\ Head(s) \in Entries /\ s2 \in Seq(Entries) /\ Len(s2) = n - 1
      /\ \A i \in 1..(n - 1) : s2[i] = s[i + 1]
      /\ Head(s) = s[1]
  <2>1. /\ Head(s) \in Entries /\ Tail(s) \in Seq(Entries) /\ Len(Tail(s)) = n - 1
        /\ \A i \in 1..Len(Tail(s)) : Tail(s)[i] = s[i + 1]
    BY <1>1, HeadTailProperties
  <2>2. Head(s) = s[1]
    BY <1>1, <1>2
  <2> QED BY <2>1, <2>2
<1>4. x \in Items /\ x.item = s[1]
  BY <1>3 DEF Items
<1> HIDE DEF x
<1>5. /\ r2 \in Seq(Items) /\ r2 # <<>> /\ Len(r2) = m + 1
      /\ \A i \in 1..m : r2[i] = r[i]
      /\ r2[m + 1] = x
  <2>1. r2 = Append(r, x)
    BY DEF x
  <2> HIDE DEF r2, r, m
  <2> QED BY <1>1, <1>4, <2>1, AppendProperties DEF m
<1>6. (s2 = <<>>) <=> (n - 1 = 0)
  BY <1>3, EmptySeq
<1> HIDE DEF s, r, n, m, s2, r2
<1>7. /\ \A i \in 1..Len(s2) : OnItsWay(s2[i], e, c)
      /\ \A i, j \in 1..Len(s2) : i < j => Below(s2[i], s2[j])
  BY <1>1, <1>2, <1>3
<1>8. \A i \in 1..Len(r2) : OnItsWay(r2[i].item, e, c)
  BY <1>1, <1>2, <1>4, <1>5
<1>9. ASSUME NEW i \in 1..Len(r2), NEW j \in 1..Len(r2), i < j
      PROVE  Below(r2[i].item, r2[j].item)
  <2>1. i \in 1..m /\ (j \in 1..m \/ j = m + 1) /\ 1 \in 1..n
    BY <1>1, <1>2, <1>5, <1>9
  <2> QED BY <1>1, <1>4, <1>5, <1>9, <2>1
<1>10. ASSUME NEW i \in 1..Len(r2), NEW j \in 1..Len(s2) PROVE Below(r2[i].item, s2[j])
  <2>1. (i \in 1..m \/ i = m + 1) /\ j + 1 \in 1..n /\ s2[j] = s[j + 1] /\ 1 \in 1..n /\ 1 < j + 1
    BY <1>1, <1>2, <1>3, <1>5
  <2> QED BY <1>1, <1>4, <1>5, <2>1
<1>11. InHand(l2, "prepare", e, c)
  BY <1>3, <1>5, <1>7, <1>8, <1>9, <1>10 DEF InHand, s2, r2
<1>12. s2 # <<>> => s2[Len(s2)] = s[n]
  <2> SUFFICES ASSUME s2 # <<>> PROVE s2[Len(s2)] = s[n]
    OBVIOUS
  <2>1. n - 1 \in 1..(n - 1) /\ (n - 1) + 1 = n
    BY <1>1, <1>2, <1>6
  <2> QED BY <1>3, <2>1
<1>13. s2 = <<>> => s[1] = s[n]
  BY <1>1, <1>6
<1> QED BY <1>4, <1>5, <1>11, <1>12, <1>13 DEF s, r, n, m, s2, r2

\* The first item prepared goes into the window, which then ends at e2.
LEMMA AbsorbedLemma ==
    ASSUME NEW l, NEW l2, NEW e \in Nat, NEW c, NEW e2, InHand(l, "fill", e, c), l.prepared # <<>>,
           l2.polled = l.polled, l2.prepared = Tail(l.prepared),
           e2 = IF Head(l.prepared).item = Gap THEN e ELSE Head(l.prepared).item.n
    PROVE  /\ InHand(l2, "fill", e2, c) /\ Head(l.prepared) \in Items
           /\ OnItsWay(Head(l.prepared).item, e, c)
           /\ l2.prepared # <<>> => l2.prepared[Len(l2.prepared)] = l.prepared[Len(l.prepared)]
           /\ l2.prepared = <<>> => Head(l.prepared) = l.prepared[Len(l.prepared)]
<1> DEFINE r == l.prepared
           n == Len(r)
           r2 == l2.prepared
           x == Head(r)
<1>1. /\ r \in Seq(Items) /\ n \in Nat /\ l.polled = <<>>
      /\ \A i \in 1..n : OnItsWay(r[i].item, e, c)
      /\ \A i, j \in 1..n : i < j => Below(r[i].item, r[j].item)
  BY LenProperties DEF InHand
<1>2. n > 0
  BY <1>1, EmptySeq
<1>3. /\ x \in Items /\ r2 \in Seq(Items) /\ Len(r2) = n - 1
      /\ \A i \in 1..(n - 1) : r2[i] = r[i + 1]
      /\ x = r[1]
  <2>1. /\ Head(r) \in Items /\ Tail(r) \in Seq(Items) /\ Len(Tail(r)) = n - 1
        /\ \A i \in 1..Len(Tail(r)) : Tail(r)[i] = r[i + 1]
    BY <1>1, HeadTailProperties
  <2>2. Head(r) = r[1]
    BY <1>1, <1>2
  <2> QED BY <2>1, <2>2
<1>4. (r2 = <<>>) <=> (n - 1 = 0)
  BY <1>3, EmptySeq
<1>5. e2 = IF x.item = Gap THEN e ELSE x.item.n
  OBVIOUS
<1> HIDE DEF r, n, r2, x
<1>6. OnItsWay(x.item, e, c)
  BY <1>1, <1>2, <1>3
<1>7. ASSUME NEW i \in 1..Len(r2) PROVE OnItsWay(r2[i].item, e2, c)
  <2>1. i + 1 \in 1..n /\ r2[i] = r[i + 1] /\ 1 \in 1..n /\ 1 < i + 1
    BY <1>1, <1>2, <1>3
  <2>2. OnItsWay(r2[i].item, e, c) /\ Below(x.item, r2[i].item)
    BY <1>1, <1>3, <2>1
  <2> QED BY <1>5, <2>2 DEF OnItsWay, Below
<1>8. ASSUME NEW i \in 1..Len(r2), NEW j \in 1..Len(r2), i < j
      PROVE  Below(r2[i].item, r2[j].item)
  <2>1. /\ i + 1 \in 1..n /\ j + 1 \in 1..n /\ i + 1 < j + 1
        /\ r2[i] = r[i + 1] /\ r2[j] = r[j + 1]
    BY <1>1, <1>2, <1>3, <1>8
  <2> QED BY <1>1, <2>1
<1>9. InHand(l2, "fill", e2, c)
  <2>1. l2.polled = <<>> /\ <<>> \in Seq(Entries) /\ 1..Len(<<>>) = {}
    BY <1>1
  <2> QED BY <1>3, <1>7, <1>8, <2>1 DEF InHand, r2
<1>10. r2 # <<>> => r2[Len(r2)] = r[n]
  <2> SUFFICES ASSUME r2 # <<>> PROVE r2[Len(r2)] = r[n]
    OBVIOUS
  <2>1. n - 1 \in 1..(n - 1) /\ (n - 1) + 1 = n
    BY <1>1, <1>2, <1>4
  <2> QED BY <1>3, <2>1
<1>11. r2 = <<>> => x = r[n]
  BY <1>1, <1>3, <1>4
<1> QED BY <1>3, <1>6, <1>9, <1>10, <1>11 DEF r, n, r2, x

\* A polled segment is the next after all that are in hand.
LEMMA PollSegmentSafe ==
    ASSUME OriginInv, NEW p \in Requests, PollSegment(p) PROVE OriginInv'
<1> DEFINE x == EntryAt(segs, cursor)
           l == [loc[p] EXCEPT !.polled = Append(loc[p].polled, x)]
           e == EndOf(window)
<1>1. /\ pc[p] = "poll" /\ Resident(segs, cursor) /\ loc' = [loc EXCEPT ![p] = l]
      /\ cursor' = cursor + 1 /\ UNCHANGED trunkVars
      /\ UNCHANGED <<segs, window, drained, gate, pc>>
  BY DEF PollSegment, trunkVars
<1>2. /\ SegsRight /\ WindowRight(window) /\ cursor \in 0..segs.published /\ drained \in Int
      /\ drained <= cursor + 1 /\ e <= cursor /\ segs.published \in Nat
  BY SegsLemma DEF OriginInv
<1>3. /\ Local(loc[p]) /\ loc[p].head \in Nat /\ loc[p].head <= segs.published + 1
      /\ pc \in [Requests -> Places] /\ DOMAIN loc = Requests
  BY LocLemma
<1>4. "poll" \in Places /\ "poll" \in Holding /\ p # Nobody
  BY NobodyAssumption DEF Places, Holding
<1>5. gate = p /\ DrainRight(p)
  BY <1>1, <1>4 DEF OriginInv
<1>6. x \in Entries /\ x.n = cursor + 1 /\ cursor + 1 \in 0..segs.published
  BY <1>1, <1>2, ResidentLemma
<1>7. e \in Nat
  BY <1>2, EndLemma
<1> HIDE DEF x
<1>a. l = [loc[p] EXCEPT !.polled = Append(loc[p].polled, x)]
  OBVIOUS
<1> HIDE DEF l
<1>8. /\ Local(l) /\ l.polled = Append(loc[p].polled, x) /\ l.prepared = loc[p].prepared
      /\ l.head = loc[p].head
  <2>1. DOMAIN loc[p] = Fields
    BY <1>3 DEF Local
  <2> QED BY <1>a, <1>3, <2>1 DEF Local, Fields
<1>9. InHand(loc[p], "poll", e, cursor)
  BY <1>1, <1>5 DEF DrainRight
<1>10. OnItsWay(x, e, cursor + 1) /\ cursor < x.n /\ cursor \in Nat /\ cursor + 1 \in Nat
       /\ cursor <= cursor + 1
  BY <1>2, <1>6, <1>7 DEF OnItsWay
<1> HIDE DEF e
<1>11. /\ InHand(l, "poll", e, cursor + 1) /\ l.polled # <<>> /\ l.prepared = <<>>
       /\ l.polled[Len(l.polled)] = x
  BY <1>6, <1>7, <1>8, <1>9, <1>10, PolledLemma
<1>12. pc'[p] = "poll" /\ loc'[p] = l /\ pc' = [pc EXCEPT ![p] = "poll"] /\ e = EndOf(window)'
  BY <1>1, <1>3 DEF e
<1>13. DrainRight(p)'
  <2>1. EndsAtCursor(l, "poll", e, cursor + 1, segs.published)
    BY <1>6, <1>11 DEF EndsAtCursor
  <2>2. MarkBehind(l, "poll", cursor + 1, drained)
    BY <1>2 DEF MarkBehind
  <2> QED BY <1>1, <1>11, <1>12, <2>1, <2>2 DEF DrainRight
<1>14. e <= cursor + 1 /\ drained <= (cursor + 1) + 1
  BY <1>2, <1>7 DEF e
<1>15. /\ WindowRight(window') /\ cursor' \in 0..segs.published /\ drained' \in Int
       /\ drained' <= cursor' + 1 /\ EndOf(window') <= cursor' /\ gate' # Nobody
       /\ gate \in {Nobody, p} /\ gate' = p
  BY <1>1, <1>2, <1>4, <1>5, <1>6, <1>12, <1>14
<1> QED BY <1>1, <1>3, <1>4, <1>8, <1>12, <1>13, <1>15, RequestStep

\* A lag report moves the cursor past segments that nobody will list.
LEMMA PollLaggedSafe ==
    ASSUME OriginInv, NEW p \in Requests, PollLagged(p) PROVE OriginInv'
<1> DEFINE l == [loc[p] EXCEPT !.polled = Append(loc[p].polled, Gap)]
           e == EndOf(window)
           b == segs.base
<1>1. /\ pc[p] = "poll" /\ cursor < b /\ loc' = [loc EXCEPT ![p] = l]
      /\ cursor' = b /\ UNCHANGED trunkVars
      /\ UNCHANGED <<segs, window, drained, gate, pc>>
  BY DEF PollLagged, trunkVars
<1>2. /\ SegsRight /\ WindowRight(window) /\ cursor \in 0..segs.published /\ drained \in Int
      /\ drained <= cursor + 1 /\ e <= cursor /\ segs.published \in Nat
      /\ b \in Nat /\ b <= segs.published
      /\ segs.published > 0 => b < segs.published
  BY SegsLemma DEF OriginInv
<1>3. /\ Local(loc[p]) /\ loc[p].head \in Nat /\ loc[p].head <= segs.published + 1
      /\ pc \in [Requests -> Places] /\ DOMAIN loc = Requests
  BY LocLemma
<1>4. "poll" \in Places /\ "poll" \in Holding /\ p # Nobody
  BY NobodyAssumption DEF Places, Holding
<1>5. gate = p /\ DrainRight(p)
  BY <1>1, <1>4 DEF OriginInv
<1>6. Gap \in Entries
  BY DEF Gap, Entries
<1>7. e \in Nat
  BY <1>2, EndLemma
<1>a. l = [loc[p] EXCEPT !.polled = Append(loc[p].polled, Gap)]
  OBVIOUS
<1> HIDE DEF l
<1>8. /\ Local(l) /\ l.polled = Append(loc[p].polled, Gap) /\ l.prepared = loc[p].prepared
      /\ l.head = loc[p].head
  <2>1. DOMAIN loc[p] = Fields
    BY <1>3 DEF Local
  <2> QED BY <1>a, <1>3, <2>1 DEF Local, Fields
<1>9. InHand(loc[p], "poll", e, cursor)
  BY <1>1, <1>5 DEF DrainRight
<1>10. OnItsWay(Gap, e, b) /\ cursor \in Nat /\ cursor <= b /\ b < segs.published
  BY <1>1, <1>2 DEF OnItsWay
<1> HIDE DEF e, b
<1>11. /\ InHand(l, "poll", e, b) /\ l.polled # <<>> /\ l.prepared = <<>>
  BY <1>2, <1>6, <1>7, <1>8, <1>9, <1>10, PolledLemma
<1>12. pc'[p] = "poll" /\ loc'[p] = l /\ pc' = [pc EXCEPT ![p] = "poll"] /\ e = EndOf(window)'
  BY <1>1, <1>3 DEF e
<1>13. DrainRight(p)'
  <2>1. EndsAtCursor(l, "poll", e, b, segs.published)
    BY <1>10, <1>11 DEF EndsAtCursor
  <2>2. MarkBehind(l, "poll", b, drained)
    BY <1>1, <1>2 DEF MarkBehind
  <2> QED BY <1>1, <1>11, <1>12, <2>1, <2>2 DEF DrainRight
<1>14. e <= b /\ drained <= b + 1 /\ b \in 0..segs.published
  BY <1>1, <1>2, <1>7 DEF e
<1>15. /\ WindowRight(window') /\ cursor' \in 0..segs.published /\ drained' \in Int
       /\ drained' <= cursor' + 1 /\ EndOf(window') <= cursor' /\ gate' # Nobody
       /\ gate \in {Nobody, p} /\ gate' = p
  BY <1>1, <1>2, <1>4, <1>5, <1>12, <1>14
<1> QED BY <1>1, <1>3, <1>4, <1>8, <1>12, <1>13, <1>15, RequestStep

\* A step of the drain's holder that leaves window, cursor and mark alone.
LEMMA HolderStep ==
    ASSUME OriginInv, NEW p \in Requests, gate = p, NEW at \in Holding, NEW l, Local(l),
           pc' = [pc EXCEPT ![p] = at], loc' = [loc EXCEPT ![p] = l],
           UNCHANGED <<trunkVars, drainVars>>, l.head = loc[p].head,
           InHand(l, at, EndOf(window), cursor), MarkBehind(l, at, cursor, drained),
           EndsAtCursor(l, at, EndOf(window), cursor, segs.published)
    PROVE  OriginInv'
<1>1. UNCHANGED trunkVars /\ UNCHANGED <<segs, window, cursor, drained, gate>>
  BY DEF drainVars, trunkVars
<1>2. /\ WindowRight(window) /\ cursor \in 0..segs.published /\ drained \in Int
      /\ drained <= cursor + 1 /\ EndOf(window) <= cursor
  BY DEF OriginInv
<1>3. /\ WindowRight(window') /\ cursor' \in 0..segs.published /\ drained' \in Int
      /\ drained' <= cursor' + 1 /\ EndOf(window') <= cursor'
  BY <1>1, <1>2
<1>4. /\ at \in Places /\ at # "gate" /\ p # Nobody
  BY NobodyAssumption DEF Holding, Places
<1>5. /\ l.head \in Nat /\ l.head <= segs.published + 1
      /\ pc'[p] = at /\ loc'[p] = l
  BY LocLemma
<1>6. DrainRight(p)'
  <2>1. EndOf(window)' = EndOf(window)
    BY <1>1 DEF EndOf
  <2>2. InHand(loc'[p], pc'[p], EndOf(window)', cursor')
    BY <1>1, <1>5, <2>1
  <2>3. EndsAtCursor(loc'[p], pc'[p], EndOf(window)', cursor', segs'.published)
    BY <1>1, <1>5, <2>1
  <2>4. MarkBehind(loc'[p], pc'[p], cursor', drained')
    BY <1>1, <1>5
  <2> QED BY <2>2, <2>3, <2>4 DEF DrainRight
<1> QED BY <1>1, <1>3, <1>4, <1>5, <1>6, RequestStep

\* The cursor has reached the end of the log, so at least the head read before.
LEMMA PollEmptySafe ==
    ASSUME OriginInv, NEW p \in Requests, PollEmpty(p) PROVE OriginInv'
<1> DEFINE l == loc[p]
           e == EndOf(window)
<1>1. /\ pc[p] = "poll" /\ cursor = segs.published /\ pc' = [pc EXCEPT ![p] = "prepare"]
      /\ UNCHANGED <<trunkVars, drainVars>> /\ UNCHANGED loc
  BY DEF PollEmpty, Goto
<1>2. /\ Local(l) /\ l.head \in Nat /\ l.head <= segs.published + 1
      /\ loc' = [loc EXCEPT ![p] = l]
  BY <1>1, LocLemma
<1>3. "poll" \in Holding /\ "prepare" \in Holding
  BY DEF Holding
<1>4. gate = p /\ DrainRight(p) /\ segs.published \in Nat
  BY <1>1, <1>3, SegsLemma DEF OriginInv
<1>5. /\ InHand(l, "poll", e, cursor) /\ EndsAtCursor(l, "poll", e, cursor, segs.published)
      /\ MarkBehind(l, "poll", cursor, drained)
  BY <1>1, <1>4 DEF DrainRight
<1> HIDE DEF l, e
<1>6. InHand(l, "prepare", e, cursor)
  BY <1>5 DEF InHand
<1>7. EndsAtCursor(l, "prepare", e, cursor, segs.published)
  <2>1. ~(cursor < segs.published) /\ l.prepared = <<>>
    BY <1>1, <1>4, <1>5 DEF InHand
  <2> QED BY <1>5, <2>1 DEF EndsAtCursor
<1>8. MarkBehind(l, "prepare", cursor, drained)
  BY <1>1, <1>2, <1>5 DEF MarkBehind
<1> QED BY <1>1, <1>2, <1>3, <1>4, <1>6, <1>7, <1>8, HolderStep DEF l, e

\* Everything polled is prepared when the window is locked.
LEMMA LockWindowSafe ==
    ASSUME OriginInv, NEW p \in Requests, LockWindow(p) PROVE OriginInv'
<1> DEFINE l == loc[p]
           e == EndOf(window)
<1>1. /\ pc[p] = "prepare" /\ l.polled = <<>> /\ pc' = [pc EXCEPT ![p] = "fill"]
      /\ UNCHANGED <<trunkVars, drainVars>> /\ UNCHANGED loc
  BY DEF LockWindow, Goto
<1>2. Local(l) /\ loc' = [loc EXCEPT ![p] = l]
  BY <1>1, LocLemma
<1>3. "prepare" \in Holding /\ "fill" \in Holding
  BY DEF Holding
<1>4. gate = p /\ DrainRight(p)
  BY <1>1, <1>3 DEF OriginInv
<1>5. /\ InHand(l, "prepare", e, cursor) /\ EndsAtCursor(l, "prepare", e, cursor, segs.published)
      /\ MarkBehind(l, "prepare", cursor, drained)
  BY <1>1, <1>4 DEF DrainRight
<1> HIDE DEF l, e
<1>6. InHand(l, "fill", e, cursor)
  BY <1>1, <1>5 DEF InHand
<1>7. EndsAtCursor(l, "fill", e, cursor, segs.published)
  BY <1>5 DEF EndsAtCursor
<1>8. MarkBehind(l, "fill", cursor, drained)
  BY <1>5 DEF MarkBehind
<1> QED BY <1>1, <1>2, <1>3, <1>4, <1>6, <1>7, <1>8, HolderStep DEF l, e

\* Preparing keeps the items in order.
LEMMA PrepareSafe ==
    ASSUME OriginInv, NEW p \in Requests, Prepare(p) PROVE OriginInv'
<1> DEFINE l == loc[p]
           e == EndOf(window)
           g == generation_for(inits, Head(l.polled).n)
           item == [item |-> Head(l.polled), init_gen |-> g]
           l2 == [l EXCEPT !.polled = Tail(l.polled), !.prepared = Append(l.prepared, item)]
<1>1. /\ pc[p] = "prepare" /\ l.polled # <<>> /\ loc' = [loc EXCEPT ![p] = l2]
      /\ UNCHANGED <<trunkVars, drainVars>> /\ UNCHANGED pc
  BY DEF Prepare
<1>2. /\ Local(l) /\ pc' = [pc EXCEPT ![p] = "prepare"] /\ inits \in Stores
  BY <1>1, LocLemma DEF OriginInv, Shape
<1>3. "prepare" \in Holding
  BY DEF Holding
<1>4. gate = p /\ DrainRight(p)
  BY <1>1, <1>3 DEF OriginInv
<1>5. /\ InHand(l, "prepare", e, cursor) /\ EndsAtCursor(l, "prepare", e, cursor, segs.published)
      /\ MarkBehind(l, "prepare", cursor, drained)
  BY <1>1, <1>4 DEF DrainRight
<1>6. g \in Nat
  <2>1. l.polled \in Seq(Entries)
    BY <1>5 DEF InHand
  <2>2. Head(l.polled) \in Entries
    BY <1>1, <2>1, HeadTailProperties
  <2>3. Head(l.polled).n \in Nat
    BY <2>2 DEF Entries
  <2> QED BY <1>2, <2>3, GenerationLemma
<1> HIDE DEF g, l, e
<1>a. l2 = [l EXCEPT !.polled = Tail(l.polled), !.prepared = Append(l.prepared, item)]
  OBVIOUS
<1> HIDE DEF l2
<1>7. /\ Local(l2) /\ l2.polled = Tail(l.polled) /\ l2.prepared = Append(l.prepared, item)
      /\ l2.head = l.head
  <2>1. DOMAIN l = Fields
    BY <1>2 DEF Local
  <2> QED BY <1>a, <1>2, <2>1 DEF Local, Fields
<1>8. /\ InHand(l2, "prepare", e, cursor) /\ l2.prepared # <<>>
      /\ l2.prepared[Len(l2.prepared)].item = l.polled[1]
      /\ l2.polled # <<>> => l2.polled[Len(l2.polled)] = l.polled[Len(l.polled)]
      /\ l2.polled = <<>> => l.polled[1] = l.polled[Len(l.polled)]
  BY <1>1, <1>5, <1>6, <1>7, PreparedLemma
<1>9. l.polled[Len(l.polled)].n = cursor
  BY <1>1, <1>5 DEF EndsAtCursor
<1>10. EndsAtCursor(l2, "prepare", e, cursor, segs.published)
  BY <1>8, <1>9 DEF EndsAtCursor
<1>11. MarkBehind(l2, "prepare", cursor, drained)
  BY <1>1, <1>5, <1>7 DEF MarkBehind
<1> QED BY <1>1, <1>2, <1>3, <1>4, <1>7, <1>8, <1>10, <1>11, HolderStep DEF l, e

\* Filling the window keeps it one run, and rolls it or leaves its segments alone.
LEMMA AbsorbSafe ==
    ASSUME OriginInv, NEW p \in Requests, Absorb(p)
    PROVE  /\ OriginInv'
           /\ \/ window' = note_gap(window)
              \/ \E n \in Nat, d \in 0..Len(window.segments) :
                    EndOf(window) < n /\ Rolled(window, window', n, d)
<1> DEFINE l == loc[p]
           e == EndOf(window)
           x == Head(l.prepared)
           e2 == IF x.item = Gap THEN e ELSE x.item.n
           l2 == [l EXCEPT !.prepared = Tail(l.prepared)]
<1>1. /\ pc[p] = "fill" /\ l.prepared # <<>> /\ loc' = [loc EXCEPT ![p] = l2]
      /\ window' = IF x.item = Gap THEN note_gap(window)
                   ELSE window_push(window, WindowCapacity, x.item, x.init_gen)
      /\ UNCHANGED trunkVars /\ UNCHANGED <<segs, cursor, drained, gate, pc>>
  BY DEF Absorb, trunkVars
<1>2. /\ Local(l) /\ pc' = [pc EXCEPT ![p] = "fill"] /\ l.head \in Nat
      /\ l.head <= segs.published + 1 /\ DOMAIN loc = Requests /\ pc \in [Requests -> Places]
  BY <1>1, LocLemma
<1>3. "fill" \in Holding /\ "fill" \in Places /\ p # Nobody
  BY NobodyAssumption DEF Holding, Places
<1>4. /\ gate = p /\ DrainRight(p) /\ WindowRight(window) /\ cursor \in 0..segs.published
      /\ drained \in Int /\ drained <= cursor + 1 /\ e <= cursor /\ segs.published \in Nat
  BY <1>1, <1>3, SegsLemma DEF OriginInv
<1>5. /\ InHand(l, "fill", e, cursor) /\ EndsAtCursor(l, "fill", e, cursor, segs.published)
      /\ MarkBehind(l, "fill", cursor, drained)
  BY <1>1, <1>4 DEF DrainRight
<1>6. e \in Nat
  BY <1>4, EndLemma
<1> HIDE DEF e, l
<1>a. l2 = [l EXCEPT !.prepared = Tail(l.prepared)]
  OBVIOUS
<1> HIDE DEF l2
<1>7. /\ Local(l2) /\ l2.polled = l.polled /\ l2.prepared = Tail(l.prepared) /\ l2.head = l.head
  <2>1. DOMAIN l = Fields
    BY <1>2 DEF Local
  <2> QED BY <1>a, <1>2, <2>1 DEF Local, Fields
<1>8. /\ InHand(l2, "fill", e2, cursor) /\ x \in Items /\ OnItsWay(x.item, e, cursor)
      /\ l2.prepared # <<>> => l2.prepared[Len(l2.prepared)] = l.prepared[Len(l.prepared)]
      /\ l2.prepared = <<>> => x = l.prepared[Len(l.prepared)]
  BY <1>1, <1>5, <1>6, <1>7, AbsorbedLemma
<1> HIDE DEF x
<1>9. x.item \in Entries /\ x.item.n \in Nat /\ x.init_gen \in Nat
  BY <1>8 DEF Items, Entries
<1>10. WindowRight(window') /\ EndOf(window') = e2
  <2>1. CASE x.item = Gap
    <3>1. window' = [window EXCEPT !.gap_pending = TRUE]
      BY <1>1, <2>1 DEF note_gap
    <3>2. /\ window' \in Windows /\ window'.segments = window.segments
      BY <1>4, <3>1 DEF WindowRight, Windows
    <3> QED BY <1>4, <2>1, <3>2 DEF WindowRight, EndOf, e
  <2>2. CASE x.item # Gap
    <3>1. window' = window_push(window, WindowCapacity, x.item, x.init_gen)
      BY <1>1, <2>2
    <3> QED BY <1>4, <1>9, <2>2, <3>1, PushLemma
  <2> QED BY <2>1, <2>2
<1>11. \/ window' = note_gap(window)
       \/ \E n \in Nat, d \in 0..Len(window.segments) :
             EndOf(window) < n /\ Rolled(window, window', n, d)
  <2>1. CASE x.item = Gap
    BY <1>1, <2>1
  <2>2. CASE x.item # Gap
    <3>1. window' = window_push(window, WindowCapacity, x.item, x.init_gen)
      BY <1>1, <2>2
    <3>2. \E d \in 0..Len(window.segments) : Rolled(window, window', x.item.n, d)
      BY <1>4, <1>9, <3>1, PushLemma
    <3>3. EndOf(window) < x.item.n
      BY <1>8, <2>2 DEF OnItsWay, e
    <3> QED BY <1>9, <3>2, <3>3
  <2> QED BY <2>1, <2>2
<1>12. e2 \in Nat /\ e2 <= cursor
  BY <1>4, <1>6, <1>8, <1>9 DEF OnItsWay
<1>13. pc'[p] = "fill" /\ loc'[p] = l2
  BY <1>1, <1>2
<1>14. DrainRight(p)'
  <2>1. l.polled = <<>> /\ l.prepared[Len(l.prepared)].item.n = cursor
    BY <1>1, <1>5 DEF InHand, EndsAtCursor
  <2>2. l2.prepared = <<>> => e2 = cursor
    <3> SUFFICES ASSUME l2.prepared = <<>> PROVE e2 = cursor
      OBVIOUS
    <3>1. x.item.n = cursor
      BY <1>8, <2>1
    <3>2. CASE x.item = Gap
      <4>1. cursor = 0
        BY <3>1, <3>2 DEF Gap
      <4> QED BY <1>12, <4>1
    <3> QED BY <3>1, <3>2
  <2>3. EndsAtCursor(l2, "fill", e2, cursor, segs.published)
    BY <1>7, <1>8, <2>1, <2>2 DEF EndsAtCursor
  <2>4. MarkBehind(l2, "fill", cursor, drained)
    BY <1>1, <1>5, <1>7 DEF MarkBehind
  <2> QED BY <1>1, <1>8, <1>10, <1>13, <2>3, <2>4 DEF DrainRight
<1>15. /\ cursor' \in 0..segs.published /\ drained' \in Int
       /\ drained' <= cursor' + 1 /\ EndOf(window') <= cursor' /\ gate' # Nobody
       /\ gate \in {Nobody, p} /\ gate' = p
  BY <1>1, <1>3, <1>4, <1>10, <1>12
<1>16. OriginInv'
  BY <1>1, <1>2, <1>3, <1>7, <1>10, <1>14, <1>15, RequestStep
<1> QED BY <1>11, <1>16

\* The mark stored is not ahead of what the window absorbed.
LEMMA StoreHeadSafe ==
    ASSUME OriginInv, NEW p \in Requests, StoreHead(p) PROVE OriginInv'
<1> DEFINE l == [NoLocals EXCEPT !.from = loc[p].from]
<1>1. /\ pc[p] = "fill" /\ loc[p].prepared = <<>> /\ drained' = loc[p].head
      /\ gate' = Nobody /\ loc' = [loc EXCEPT ![p] = l] /\ pc' = [pc EXCEPT ![p] = "view"]
      /\ UNCHANGED trunkVars /\ UNCHANGED <<segs, window, cursor>>
  BY DEF StoreHead, Goto, trunkVars
<1>2. "fill" \in Holding /\ "view" \notin Holding /\ "view" \in Places
  BY DEF Holding, Places
<1>3. /\ gate = p /\ DrainRight(p) /\ WindowRight(window) /\ cursor \in 0..segs.published
      /\ segs.published \in Nat
  BY <1>1, <1>2, SegsLemma DEF OriginInv
<1>4. EndOf(window) = cursor /\ loc[p].head <= cursor + 1
  BY <1>1, <1>3 DEF DrainRight, InHand, EndsAtCursor, MarkBehind
<1>5. loc[p].head \in Nat
  BY LocLemma
<1>6. Local(l) /\ l.head = 0
  BY FromField
<1> HIDE DEF l
<1>7. /\ WindowRight(window') /\ cursor' \in 0..segs.published /\ drained' \in Int
      /\ drained' <= cursor' + 1 /\ EndOf(window') <= cursor' /\ EndOf(window') = cursor'
      /\ gate \in {Nobody, p} /\ l.head \in Nat /\ l.head <= segs.published + 1
  BY <1>1, <1>3, <1>4, <1>5, <1>6
<1> QED BY <1>1, <1>2, <1>6, <1>7, RequestStep

-----------------------------------------------------------------------------
\* The steps outside of the drain.

\* The steps of a playlist request before and after its drain.
LEMMA PlaylistSafe ==
    ASSUME OriginInv, NEW p \in Requests,
           \/ BeginPlaylist(p) \/ GateNotNeeded(p) \/ WindowView(p) \/ LiveEdgeClosed(p)
           \/ LiveEdgeParts(p) \/ Render(p)
    PROVE  OriginInv'
<1>1. /\ Local(loc[p]) /\ loc[p].head \in Nat /\ loc[p].head <= segs.published + 1
      /\ DOMAIN loc = Requests /\ DOMAIN loc[p] = Fields
  BY LocLemma DEF Local
<1>2. segs.published \in Nat /\ Head_ \in Nat /\ Head_ <= segs.published + 1
  BY SegsLemma DEF OriginInv
<1>3. /\ {"idle", "gate", "view", "edge", "probe", "render"} \subseteq Places \ Holding
  BY DEF Places, Holding
<1>4. CASE BeginPlaylist(p)
  <2> DEFINE at == IF drained = Head_ THEN "view" ELSE "gate"
             h == IF drained = Head_ THEN 0 ELSE Head_
             f == [n |-> last_closed + 1, i |-> open]
             l == [NoLocals EXCEPT !.head = h, !.from = f]
  <2>1. /\ pc[p] = "idle" /\ pc' = [pc EXCEPT ![p] = at] /\ loc' = [loc EXCEPT ![p] = l]
        /\ UNCHANGED <<trunkVars, drainVars>>
    BY <1>4 DEF BeginPlaylist, Goto
  <2>2. at \in Places /\ at \notin Holding /\ h \in Nat /\ h <= segs.published + 1
    BY <1>2, <1>3
  <2> HIDE DEF at, h, f
  <2>3. Local(l) /\ l.head = h /\ l.polled = <<>> /\ l.prepared = <<>>
    BY DEF NoLocals, Local, Fields
  <2> HIDE DEF l
  <2>4. pc[p] \notin Holding
    BY <1>3, <2>1
  <2> QED BY <2>1, <2>2, <2>3, <2>4, QuietStep
<1>5. CASE GateNotNeeded(p)
  <2> DEFINE l == [NoLocals EXCEPT !.from = loc[p].from]
  <2>1. /\ pc[p] = "gate" /\ pc' = [pc EXCEPT ![p] = "view"] /\ loc' = [loc EXCEPT ![p] = l]
        /\ UNCHANGED <<trunkVars, drainVars>>
    BY <1>5 DEF GateNotNeeded, Goto
  <2>2. Local(l) /\ l.head = 0
    BY FromField
  <2> HIDE DEF l
  <2>3. pc[p] \notin Holding /\ l.head \in Nat /\ l.head <= segs.published + 1
    BY <1>2, <1>3, <2>1, <2>2
  <2> QED BY <1>3, <2>1, <2>2, <2>3, QuietStep
<1>6. CASE WindowView(p)
  <2> DEFINE l == [loc[p] EXCEPT !.view = window.segments]
  <2>1. /\ pc[p] = "view" /\ pc' = [pc EXCEPT ![p] = "edge"] /\ loc' = [loc EXCEPT ![p] = l]
        /\ UNCHANGED <<trunkVars, drainVars>>
    BY <1>6 DEF WindowView, Goto
  <2>2. Local(l) /\ l.head = loc[p].head
    BY <1>1 DEF Local, Fields
  <2> HIDE DEF l
  <2>3. pc[p] \notin Holding
    BY <1>3, <2>1
  <2> QED BY <1>1, <1>3, <2>1, <2>2, <2>3, QuietStep
<1>7. CASE LiveEdgeClosed(p)
  <2> DEFINE l == [loc[p] EXCEPT !.edge = last_closed]
  <2>1. /\ pc[p] = "edge" /\ pc' = [pc EXCEPT ![p] = "probe"] /\ loc' = [loc EXCEPT ![p] = l]
        /\ UNCHANGED <<trunkVars, drainVars>>
    BY <1>7 DEF LiveEdgeClosed, Goto
  <2>2. Local(l) /\ l.head = loc[p].head
    BY <1>1 DEF Local, Fields
  <2> HIDE DEF l
  <2>3. pc[p] \notin Holding
    BY <1>3, <2>1
  <2> QED BY <1>1, <1>3, <2>1, <2>2, <2>3, QuietStep
<1>8. CASE LiveEdgeParts(p)
  <2> DEFINE x == in_segment(parts, loc[p].edge + 1)
             l == [loc[p] EXCEPT !.open = x]
  <2>1. /\ pc[p] = "probe" /\ pc' = [pc EXCEPT ![p] = "render"] /\ loc' = [loc EXCEPT ![p] = l]
        /\ UNCHANGED <<trunkVars, drainVars>>
    BY <1>8 DEF LiveEdgeParts, Goto
  <2> HIDE DEF x
  <2>2. Local(l) /\ l.head = loc[p].head
    BY <1>1 DEF Local, Fields
  <2> HIDE DEF l
  <2>3. pc[p] \notin Holding
    BY <1>3, <2>1
  <2> QED BY <1>1, <1>3, <2>1, <2>2, <2>3, QuietStep
<1>9. CASE Render(p)
  <2>1. /\ pc[p] = "render" /\ pc' = [pc EXCEPT ![p] = "idle"]
        /\ loc' = [loc EXCEPT ![p] = NoLocals] /\ UNCHANGED <<trunkVars, drainVars>>
    BY <1>9 DEF Render, Goto
  <2>2. Local(NoLocals) /\ NoLocals.head \in Nat /\ NoLocals.head <= segs.published + 1
    BY <1>2, NoLocalsLemma
  <2>3. pc[p] \notin Holding
    BY <1>3, <2>1
  <2> QED BY <1>3, <2>1, <2>2, <2>3, QuietStep
<1> QED BY <1>4, <1>5, <1>6, <1>7, <1>8, <1>9

\* A request for a part drains nothing.
LEMMA PartSafe == ASSUME OriginInv, NEW p \in Requests, Part(p) PROVE OriginInv'
<1>1. /\ Local(loc[p]) /\ loc[p].head \in Nat /\ loc[p].head <= segs.published + 1
      /\ DOMAIN loc = Requests /\ DOMAIN loc[p] = Fields /\ loc = [loc EXCEPT ![p] = loc[p]]
  BY LocLemma DEF Local
<1>2. segs.published \in Nat
  BY SegsLemma DEF OriginInv
<1> DEFINE Here == {"idle", "part", "closed?", "hinted?", "pending", "Ready", "NotFound"}
<1>3. Here \subseteq Places \ Holding /\ "gate" \notin Here
  BY DEF Places, Holding
<1>4. CASE Finish(p)
  <2>1. /\ pc[p] \in Here /\ pc' = [pc EXCEPT ![p] = "idle"]
        /\ loc' = [loc EXCEPT ![p] = NoLocals] /\ UNCHANGED <<trunkVars, drainVars>>
    BY <1>4 DEF Finish, Goto
  <2>2. Local(NoLocals) /\ NoLocals.head \in Nat /\ NoLocals.head <= segs.published + 1
    BY <1>2, NoLocalsLemma
  <2>3. pc[p] \notin Holding
    BY <1>3, <2>1
  <2> QED BY <1>3, <2>1, <2>2, <2>3, QuietStep
<1>5. ASSUME NEW n, NEW i, RequestPart(p, n, i) PROVE OriginInv'
  <2> DEFINE a == [n |-> n, i |-> i]
             h == (n = last_closed + 1 /\ i = open)
             l == [loc[p] EXCEPT !.ask = a, !.hinted = h]
  <2>1. /\ pc[p] = "idle" /\ pc' = [pc EXCEPT ![p] = "part"]
        /\ loc' = [loc EXCEPT ![p].ask = a, ![p].hinted = h] /\ UNCHANGED <<trunkVars, drainVars>>
    BY <1>5 DEF RequestPart, Goto
  <2> HIDE DEF a, h
  <2>2. Local(l) /\ l.head = loc[p].head
    BY <1>1 DEF Local, Fields
  <2>3. loc' = [loc EXCEPT ![p] = l]
    BY <1>1, <2>1
  <2> HIDE DEF l
  <2>4. pc[p] \notin Holding
    BY <1>3, <2>1
  <2> QED BY <1>1, <1>3, <2>1, <2>2, <2>3, <2>4, QuietStep
<1>6. CASE \/ PartReady(p) \/ PartMissing(p) \/ PartOutOfReach(p) \/ PartInReach(p)
           \/ PartNotHinted(p) \/ PartPending(p) \/ ResolveAgain(p)
  <2>1. PICK at \in Here : pc' = [pc EXCEPT ![p] = at]
    BY <1>6 DEF PartReady, PartMissing, PartOutOfReach, PartInReach, PartNotHinted, PartPending,
                ResolveAgain, Goto
  <2>2. pc[p] \in Here /\ UNCHANGED <<trunkVars, drainVars>> /\ UNCHANGED loc
    BY <1>6 DEF PartReady, PartMissing, PartOutOfReach, PartInReach, PartNotHinted, PartPending,
                ResolveAgain
  <2>3. pc[p] \notin Holding /\ at \in Places /\ at \notin Holding /\ at # "gate"
    BY <1>3, <2>1, <2>2
  <2>4. loc' = [loc EXCEPT ![p] = loc[p]]
    BY <1>1, <2>2
  <2> HIDE DEF Here
  <2> QED BY <1>1, <2>1, <2>2, <2>3, <2>4, QuietStep
<1> QED BY <1>4, <1>5, <1>6 DEF Part

\* OriginInv is inductive.
LEMMA OriginStep == OriginInv /\ [Next]_vars => OriginInv'
<1> SUFFICES ASSUME OriginInv, [Next]_vars PROVE OriginInv'
  OBVIOUS
<1>1. CASE UNCHANGED vars
  <2>1. UNCHANGED <<segs, queued, open, inits, window, cursor, drained, gate, pc, loc>>
    BY <1>1 DEF vars, trunkVars, drainVars
  <2> QED BY <2>1 DEF OriginInv, Shape, SegsRight, RingOK, WindowRight, EndOf, DrainRight,
                      InHand, EndsAtCursor, MarkBehind
<1>2. ASSUME NEW p \in Requests, Playlist(p) PROVE OriginInv'
  <2>1. CASE Drain(p)
    BY <2>1, TakeGateSafe, PollSegmentSafe, PollLaggedSafe, PollEmptySafe, PrepareSafe,
       LockWindowSafe, AbsorbSafe, StoreHeadSafe DEF Drain
  <2> QED BY <1>2, <2>1, PlaylistSafe DEF Playlist
<1> QED BY <1>1, <1>2, SegmenterSafe, PartSafe DEF Next

\* The inductive invariant of the shared drain holds in every reachable state: the
\* window, then the items in hand, then the cursor follow each other in the order of
\* the segment numbers, and the drained mark is behind them.
THEOREM OriginSafe == Spec => []OriginInv
BY OriginInit, OriginStep, PTL DEF Spec

\* The shortcut of drain never hides a segment: whenever the stored mark equals
\* the trunk's head, the window ends with the last closed segment, also while
\* another request is in the middle of its drain.
THEOREM DrainCompleteHolds == Spec => []DrainComplete
<1>1. OriginInv => DrainComplete
  <2> SUFFICES ASSUME OriginInv, drained = Head_, segs.entries # <<>>
               PROVE  window.segments # <<>> /\ Last(window.segments).n = last_closed
    BY DEF DrainComplete
  <2>1. /\ segs.published \in Nat /\ last_closed = segs.published /\ segs.published > 0
        /\ drained = segs.published + 1
    BY SegsLemma DEF OriginInv
  <2>2. cursor = segs.published
    BY <2>1 DEF OriginInv
  <2>3. EndOf(window) = cursor
    <3>1. CASE gate = Nobody
      BY <3>1 DEF OriginInv
    <3>2. CASE gate # Nobody
      <4>1. PICK p \in Requests : gate = p
        BY <3>2 DEF OriginInv
      <4>2. DrainRight(p)
        BY <4>1 DEF OriginInv
      <4>3. loc[p].polled = <<>> /\ loc[p].prepared = <<>>
        BY <2>1, <2>2, <4>2 DEF DrainRight, MarkBehind
      <4> QED BY <4>2, <4>3 DEF DrainRight, EndsAtCursor
    <3> QED BY <3>1, <3>2
  <2> QED BY <2>1, <2>2, <2>3 DEF EndOf, Last
<1> QED BY <1>1, OriginSafe, PTL

\* Every segment a playlist lists is found again by its number, at any size of
\* the window and of the ring the cursor may fall behind.
THEOREM ListedIsServedHolds == Spec => []ListedIsServed
<1>1. OriginInv => ListedIsServed
  BY ServedLemma DEF OriginInv
<1> QED BY <1>1, OriginSafe, PTL

-----------------------------------------------------------------------------
\* Discontinuity numbers.

\* What a push does to them, given that the window is a run before and after.
LEMMA NumbersLemma ==
    ASSUME NEW w, NEW w2, WindowRight(w), WindowRight(w2), NEW n \in Nat, EndOf(w) < n,
           NEW d \in 0..Len(w.segments), Rolled(w, w2, n, d),
           NEW k \in 1..Len(w.segments), NEW j \in 1..Len(w2.segments)
    PROVE  LET s == w.segments[k]
               t == w2.segments[j]
           IN  /\ s.n = t.n => DiscontinuityNumber(w, k) = DiscontinuityNumber(w2, j)
               /\ s.n < t.n /\ t.discontinuous =>
                     DiscontinuityNumber(w, k) < DiscontinuityNumber(w2, j)
<1> DEFINE s == w.segments
           t == w2.segments
           len == Len(s) - d
           D == w.discontinuity_sequence
           D2 == w2.discontinuity_sequence
<1>1. /\ s \in Seq(Listed) /\ Len(s) \in Nat /\ t \in Seq(Listed) /\ Len(t) \in Nat /\ D \in Nat
      /\ \A i \in 1..Len(s) : s[i].n = s[1].n + i - 1
  BY LenProperties DEF WindowRight, Windows
<1>2. /\ Len(t) = len + 1 /\ \A i \in 1..len : t[i] = s[i + d]
      /\ t[len + 1].n = n /\ D2 = D + M(s, d)
  BY DEF Rolled
<1>3. \A i \in 1..Len(s) : s[i].n \in Nat /\ s[i].n <= EndOf(w)
  BY EndLemma
<1>4. EndOf(w) \in Nat
  BY EndLemma
<1>5. /\ DiscontinuityNumber(w, k) = D + Marked(SubSeq(s, 1, k))
      /\ DiscontinuityNumber(w2, j) = D2 + Marked(SubSeq(t, 1, j))
  BY DEF DiscontinuityNumber
<1>6. DiscontinuityNumber(w, k) = D + M(s, k) /\ DiscontinuityNumber(w2, j) = D2 + M(t, j)
  <2>1. k \in 0..Len(s) /\ j \in 0..Len(t)
    BY <1>1
  <2>2. Marked(SubSeq(s, 1, k)) = M(s, k)
    <3> HIDE DEF s
    <3> QED BY <1>1, <2>1, MarkedLemma
  <2>3. Marked(SubSeq(t, 1, j)) = M(t, j)
    <3> HIDE DEF t
    <3> QED BY <1>1, <2>1, MarkedLemma
  <2> QED BY <1>5, <2>2, <2>3
<1>7. d \in 0..Len(s) /\ k \in 1..Len(s) /\ j \in 1..Len(t)
  OBVIOUS
<1> HIDE DEF s, t, D, D2
<1>8. len \in Nat /\ d \in Nat /\ len + d = Len(s) /\ d + len = Len(s) /\ k \in Nat /\ j \in Nat
  BY <1>1, <1>7
<1> HIDE DEF len
<1>9. M(s, d) \in Nat /\ M(s, k) \in Nat /\ M(s, Len(s)) \in Nat /\ M(s, k) <= M(s, Len(s))
  <2>1. k <= Len(s) /\ d <= Len(s)
    BY <1>1, <1>7
  <2> QED BY <1>1, <1>8, <2>1, CountsGrow
<1>10. CASE j \in 1..len
  <2>1. t[j] = s[j + d] /\ j + d \in 1..Len(s) /\ d + j = j + d
    BY <1>1, <1>2, <1>8, <1>10, SMTT(40)
  <2>2. M(s, d) + M(t, j) = M(s, j + d)
    <3>1. Continues(s, t, d, j)
      BY <1>2, <1>8, <1>10 DEF Continues
    <3>2. M(s, d) + M(t, j) = M(s, d + j)
      BY <1>8, <3>1, CountsShift
    <3> QED BY <2>1, <3>2
  <2>3. M(t, j) \in Nat /\ M(s, j + d) \in Nat
    BY <1>8, <2>1, CountsGrow
  <2>4. D2 + M(t, j) = D + M(s, j + d)
    BY <1>1, <1>2, <1>9, <2>2, <2>3
  <2>5. /\ s[k].n = s[1].n + k - 1 /\ s[j + d].n = s[1].n + (j + d) - 1 /\ s[1].n \in Nat
    <3>1. 1 \in 1..Len(s)
      BY <1>1, <1>7
    <3> QED BY <1>1, <1>3, <1>7, <2>1, <3>1
  <2>6. /\ s[k].n = t[j].n => k = j + d
        /\ s[k].n < t[j].n => k < j + d
    BY <1>8, <2>1, <2>5
  <2>7. ASSUME k < j + d, t[j].discontinuous PROVE M(s, k) < M(s, j + d)
    <3>1. j + d \in Nat /\ k <= j + d /\ s[j + d].discontinuous
      BY <1>8, <2>1, <2>7
    <3> QED BY <1>8, <2>7, <3>1, CountsGrow
  <2>8. s[k].n = t[j].n => D + M(s, k) = D2 + M(t, j)
    BY <2>4, <2>6
  <2>9. s[k].n < t[j].n /\ t[j].discontinuous => D + M(s, k) < D2 + M(t, j)
    BY <1>1, <1>9, <2>3, <2>4, <2>6, <2>7
  <2> QED BY <1>6, <2>8, <2>9 DEF s, t
<1>11. CASE j = len + 1
  <2>1. t[j].n = n /\ s[k].n # n
    BY <1>2, <1>3, <1>4, <1>7, <1>11
  <2>2. M(s, d) + M(t, len) = M(s, Len(s))
    <3>0. Continues(s, t, d, len)
      BY <1>2 DEF Continues
    <3>1. M(s, d) + M(t, len) = M(s, d + len)
      BY <1>8, <3>0, CountsShift
    <3> QED BY <1>8, <3>1
  <2>3. ASSUME t[j].discontinuous PROVE M(t, len) < M(t, j)
    <3>1. len <= j /\ len < j
      BY <1>8, <1>11
    <3> QED BY <1>8, <2>3, <3>1, CountsGrow
  <2>4. M(t, len) \in Nat /\ M(t, j) \in Nat
    BY <1>8, CountsGrow
  <2>5. t[j].discontinuous => D + M(s, k) < D2 + M(t, j)
    BY <1>1, <1>2, <1>9, <2>2, <2>3, <2>4, SMTT(40)
  <2> QED BY <1>6, <2>1, <2>5 DEF s, t
<1> QED BY <1>2, <1>7, <1>8, <1>10, <1>11

\* A segment keeps its discontinuity number for as long as it is listed, and a
\* new run has a larger one, whatever rolls off or is skipped.
THEOREM DiscontinuityStableHolds == Spec => DiscontinuityStable
<1> DEFINE Stable ==
        \A k \in 1..Len(window.segments), j \in 1..Len(window'.segments) :
          LET s == window.segments[k]
              t == window'.segments[j]
          IN  /\ s.n = t.n => DiscontinuityNumber(window, k) = DiscontinuityNumber(window', j)
              /\ s.n < t.n /\ t.discontinuous =>
                    DiscontinuityNumber(window, k) < DiscontinuityNumber(window', j)
<1>1. OriginInv /\ OriginInv' /\ [Next]_vars => [Stable]_window
  <2> SUFFICES ASSUME OriginInv, OriginInv', [Next]_vars, window' # window PROVE Stable
    OBVIOUS
  <2>1. PICK p \in Requests : Absorb(p)
    <3>1. Next
      BY DEF vars, drainVars
    <3>2. ~Segmenter
      BY DEF Segmenter, Cut, PublishPart, CloseSegment, set_init, drainVars
    <3>3. PICK p \in Requests : Playlist(p) \/ Part(p)
      BY <3>1, <3>2 DEF Next
    <3>4. ~Part(p)
      <4>1. ASSUME NEW n, NEW i PROVE ~RequestPart(p, n, i)
        BY DEF RequestPart, drainVars
      <4> QED BY <4>1 DEF Part, PartReady, PartMissing, PartOutOfReach, PartInReach,
                          PartNotHinted, PartPending, ResolveAgain, Finish, drainVars
    <3>5. Drain(p)
      BY <3>3, <3>4 DEF Playlist, BeginPlaylist, GateNotNeeded, WindowView, LiveEdgeClosed,
                        LiveEdgeParts, Render, drainVars
    <3> QED BY <3>5 DEF Drain, TakeGate, PollSegment, PollLagged, PollEmpty, Prepare, LockWindow,
                        StoreHead, drainVars
  <2>2. WindowRight(window) /\ WindowRight(window')
    BY DEF OriginInv
  <2>3. \/ window' = note_gap(window)
        \/ \E n \in Nat, d \in 0..Len(window.segments) :
              EndOf(window) < n /\ Rolled(window, window', n, d)
    BY <2>1, AbsorbSafe
  <2>4. CASE window' = note_gap(window)
    <3> SUFFICES ASSUME NEW k \in 1..Len(window.segments), NEW j \in 1..Len(window'.segments)
                 PROVE  /\ window.segments[k].n = window'.segments[j].n =>
                              DiscontinuityNumber(window, k) = DiscontinuityNumber(window', j)
                        /\ window.segments[k].n < window'.segments[j].n
                              /\ window'.segments[j].discontinuous =>
                              DiscontinuityNumber(window, k) < DiscontinuityNumber(window', j)
      OBVIOUS
    <3> DEFINE s == window.segments
               D == window.discontinuity_sequence
    <3>1. window'.segments = s /\ window'.discontinuity_sequence = D /\ D \in Nat
          /\ s \in Seq(Listed) /\ Len(s) \in Nat
      BY <2>2, <2>4, LenProperties DEF note_gap, WindowRight, Windows
    <3>2. /\ \A i \in 1..Len(s) : s[i].n = s[1].n + i - 1
          /\ \A i \in 1..Len(s) : s[i].n \in Nat
      BY <2>2, EndLemma DEF WindowRight
    <3>3. j \in 1..Len(s)
      BY <3>1
    <3>4. \A i \in 1..Len(s) : /\ DiscontinuityNumber(window, i) = D + M(s, i)
                               /\ DiscontinuityNumber(window', i) = D + M(s, i)
      <4> SUFFICES ASSUME NEW i \in 1..Len(s)
                   PROVE  /\ DiscontinuityNumber(window, i) = D + M(s, i)
                          /\ DiscontinuityNumber(window', i) = D + M(s, i)
        OBVIOUS
      <4>1. i \in 0..Len(s)
        BY <3>1
      <4>2. Marked(SubSeq(s, 1, i)) = M(s, i)
        <5> HIDE DEF s
        <5> QED BY <3>1, <4>1, MarkedLemma
      <4> QED BY <3>1, <4>2 DEF DiscontinuityNumber
    <3> HIDE DEF s, D
    <3>5. /\ s[k].n = s[j].n => k = j
          /\ s[k].n < s[j].n => k < j
      <4>1. s[k].n = s[1].n + k - 1 /\ s[j].n = s[1].n + j - 1 /\ s[1].n \in Nat
        BY <3>1, <3>2, <3>3 DEF s
      <4> QED BY <4>1
    <3>6. ASSUME k < j, s[j].discontinuous PROVE D + M(s, k) < D + M(s, j)
      <4>1. k \in Nat /\ j \in Nat /\ k <= j
        BY <3>6
      <4>2. M(s, k) < M(s, j) /\ M(s, k) \in Nat /\ M(s, j) \in Nat
        BY <3>6, <4>1, CountsGrow
      <4> QED BY <3>1, <4>2
    <3>7. k \in 1..Len(s) /\ window.segments = s
      BY DEF s
    <3> QED BY <3>1, <3>3, <3>4, <3>5, <3>6, <3>7
  <2>5. CASE \E n \in Nat, d \in 0..Len(window.segments) :
               EndOf(window) < n /\ Rolled(window, window', n, d)
    BY <2>2, <2>5, NumbersLemma
  <2> QED BY <2>3, <2>4, <2>5
<1> QED BY <1>1, OriginSafe, PTL DEF Spec, DiscontinuityStable

-----------------------------------------------------------------------------
\* What a request has copied when it renders.

Copied == {"edge", "probe", "render"}

\* The window it copied ends at or before the last closed segment it then read.
ViewRight(l, at, m) ==
    /\ at \in Copied => \A k \in 1..Len(l.view) : l.view[k].n \in Nat /\ l.view[k].n <= m
    /\ at \in Copied \ {"edge"} =>
          l.edge \in Nat /\ \A k \in 1..Len(l.view) : l.view[k].n <= l.edge

ViewInv == \A p \in Requests : ViewRight(loc[p], pc[p], segs.published)

\* The other requests are left alone.
LEMMA OthersLemma ==
    ASSUME OriginInv, NEW p \in Requests, Playlist(p) \/ Part(p)
    PROVE  /\ segs' = segs
           /\ \A q \in Requests \ {p} : pc'[q] = pc[q] /\ loc'[q] = loc[q]
<1>1. pc \in [Requests -> Places] /\ DOMAIN loc = Requests
  BY DEF OriginInv, Shape
<1>2. CASE Drain(p)
  BY <1>1, <1>2 DEF Drain, TakeGate, PollSegment, PollLagged, PollEmpty, Prepare, LockWindow,
                    Absorb, StoreHead, Goto, trunkVars
<1>3. CASE \/ BeginPlaylist(p) \/ GateNotNeeded(p) \/ WindowView(p) \/ LiveEdgeClosed(p)
           \/ LiveEdgeParts(p) \/ Render(p)
  BY <1>1, <1>3 DEF BeginPlaylist, GateNotNeeded, WindowView, LiveEdgeClosed, LiveEdgeParts,
                    Render, Goto, trunkVars
<1>4. ASSUME NEW n, NEW i, RequestPart(p, n, i)
      PROVE  /\ segs' = segs
             /\ \A q \in Requests \ {p} : pc'[q] = pc[q] /\ loc'[q] = loc[q]
  BY <1>1, <1>4 DEF RequestPart, Goto, trunkVars
<1>5. CASE \/ PartReady(p) \/ PartMissing(p) \/ PartOutOfReach(p) \/ PartInReach(p)
           \/ PartNotHinted(p) \/ PartPending(p) \/ ResolveAgain(p) \/ Finish(p)
  BY <1>1, <1>5 DEF PartReady, PartMissing, PartOutOfReach, PartInReach, PartNotHinted,
                    PartPending, ResolveAgain, Finish, Goto, trunkVars
<1> QED BY <1>2, <1>3, <1>4, <1>5 DEF Playlist, Part

\* Only three steps lead to a place where the copy is used.
LEMMA CopiedLemma ==
    ASSUME OriginInv, NEW p \in Requests, Playlist(p) \/ Part(p), pc'[p] \in Copied
    PROVE  WindowView(p) \/ LiveEdgeClosed(p) \/ LiveEdgeParts(p)
<1>1. pc \in [Requests -> Places]
  BY DEF OriginInv, Shape
<1>2. ~Drain(p)
  BY <1>1 DEF Drain, TakeGate, PollSegment, PollLagged, PollEmpty, Prepare, LockWindow,
              Absorb, StoreHead, Goto, Copied
<1>3. ~BeginPlaylist(p) /\ ~GateNotNeeded(p) /\ ~Render(p)
  BY <1>1 DEF BeginPlaylist, GateNotNeeded, Render, Goto, Copied
<1>4. ASSUME NEW n, NEW i PROVE ~RequestPart(p, n, i)
  BY <1>1 DEF RequestPart, Goto, Copied
<1>5. /\ ~PartReady(p) /\ ~PartMissing(p) /\ ~PartOutOfReach(p) /\ ~PartInReach(p)
      /\ ~PartNotHinted(p) /\ ~PartPending(p) /\ ~ResolveAgain(p) /\ ~Finish(p)
  BY <1>1 DEF PartReady, PartMissing, PartOutOfReach, PartInReach, PartNotHinted,
              PartPending, ResolveAgain, Finish, Goto, Copied
<1> QED BY <1>2, <1>3, <1>4, <1>5 DEF Playlist, Part

\* ViewInv is inductive.
LEMMA ViewStep == OriginInv /\ ViewInv /\ [Next]_vars => ViewInv'
<1> SUFFICES ASSUME OriginInv, ViewInv, [Next]_vars PROVE ViewInv'
  OBVIOUS
<1>1. SegsRight /\ segs.published \in Nat /\ last_closed = segs.published
  BY SegsLemma DEF OriginInv
<1>2. CASE UNCHANGED <<pc, loc>> /\ segs'.published \in Nat /\ segs.published <= segs'.published
  BY <1>1, <1>2 DEF ViewInv, ViewRight
<1>3. ASSUME NEW p \in Requests, Playlist(p) \/ Part(p) PROVE ViewInv'
  <2>1. /\ segs' = segs
        /\ \A q \in Requests \ {p} : pc'[q] = pc[q] /\ loc'[q] = loc[q]
    BY <1>3, OthersLemma
  <2>2. ViewRight(loc'[p], pc'[p], segs.published)
    <3>0. /\ pc \in [Requests -> Places] /\ DOMAIN loc = Requests /\ DOMAIN loc[p] = Fields
      BY LocLemma DEF Local
    <3>1. CASE pc'[p] \notin Copied
      BY <3>1 DEF ViewRight
    <3>2. CASE WindowView(p)
      <4>1. pc'[p] = "edge" /\ loc'[p] = [loc[p] EXCEPT !.view = window.segments]
        BY <3>0, <3>2 DEF WindowView, Goto
      <4>2. loc'[p].view = window.segments
        BY <3>0, <4>1 DEF Fields
      <4>3. \A k \in 1..Len(window.segments) :
               window.segments[k].n \in Nat /\ window.segments[k].n <= segs.published
        <5>1. /\ WindowRight(window) /\ EndOf(window) <= cursor /\ cursor \in 0..segs.published
          BY DEF OriginInv
        <5>2. EndOf(window) \in Nat /\ EndOf(window) <= segs.published
          BY <1>1, <5>1, EndLemma
        <5>3. \A k \in 1..Len(window.segments) :
                 window.segments[k].n \in Nat /\ window.segments[k].n <= EndOf(window)
          BY <5>1, EndLemma
        <5> QED BY <1>1, <5>2, <5>3
      <4> QED BY <4>1, <4>2, <4>3 DEF ViewRight
    <3>3. CASE LiveEdgeClosed(p)
      <4>1. /\ pc[p] = "edge" /\ pc'[p] = "probe"
            /\ loc'[p] = [loc[p] EXCEPT !.edge = last_closed]
        BY <3>0, <3>3 DEF LiveEdgeClosed, Goto
      <4>2. loc'[p].view = loc[p].view /\ loc'[p].edge = segs.published
        BY <1>1, <3>0, <4>1 DEF Fields
      <4>3. \A k \in 1..Len(loc[p].view) :
               loc[p].view[k].n \in Nat /\ loc[p].view[k].n <= segs.published
        BY <4>1 DEF ViewInv, ViewRight, Copied
      <4> QED BY <1>1, <4>1, <4>2, <4>3 DEF ViewRight
    <3>4. CASE LiveEdgeParts(p)
      <4> DEFINE x == in_segment(parts, loc[p].edge + 1)
      <4>1. /\ pc[p] = "probe" /\ pc'[p] = "render"
            /\ loc'[p] = [loc[p] EXCEPT !.open = x]
        BY <3>0, <3>4 DEF LiveEdgeParts, Goto
      <4> HIDE DEF x
      <4>2. loc'[p].view = loc[p].view /\ loc'[p].edge = loc[p].edge
        BY <3>0, <4>1 DEF Fields
      <4>3. ViewRight(loc[p], "probe", segs.published)
        BY <4>1 DEF ViewInv
      <4> QED BY <4>1, <4>2, <4>3 DEF ViewRight, Copied
    <3> QED BY <1>3, <3>1, <3>2, <3>3, <3>4, CopiedLemma
  <2> QED BY <2>1, <2>2 DEF ViewInv
<1>4. CASE UNCHANGED vars
  BY <1>1, <1>2, <1>4 DEF vars, trunkVars
<1>5. CASE Segmenter
  <2>1. UNCHANGED <<pc, loc>>
    BY <1>5 DEF Segmenter, Cut, PublishPart, CloseSegment, set_init
  <2>2. segs'.published \in Nat /\ segs.published <= segs'.published
    <3>1. CASE UNCHANGED segs
      BY <1>1, <3>1
    <3>2. CASE CloseSegment
      BY <1>1, <3>2 DEF CloseSegment, RingPush
    <3> QED BY <1>5, <3>1, <3>2 DEF Segmenter, Cut, PublishPart, set_init
  <2> QED BY <1>2, <2>1, <2>2
<1> QED BY <1>3, <1>4, <1>5 DEF Next

\* A segment that is listed as closed is never the open one as well: the window
\* is copied before the last closed number is read, and that number only grows.
THEOREM NoSegmentTwiceHolds == Spec => []NoSegmentTwice
<1>1. Init => ViewInv
  BY DEF Init, ViewInv, ViewRight, Copied
<1>2. OriginInv /\ ViewInv /\ [Next]_vars => ViewInv'
  BY ViewStep
<1>3. ViewInv => NoSegmentTwice
  <2> SUFFICES ASSUME ViewInv, NEW p \in Requests, pc[p] = "render",
                      playlist(loc[p]).open # <<>>,
                      NEW k \in 1..Len(playlist(loc[p]).segments)
               PROVE  playlist(loc[p]).segments[k].n < playlist(loc[p]).open_seq
    BY DEF NoSegmentTwice, Rendering
  <2> DEFINE l == loc[p]
             near == Len(l.view) - PartRetention
             listed == [i \in 1..Len(l.view) |->
                          [n |-> l.view[i].n, init_gen |-> l.view[i].init_gen,
                           count |-> l.view[i].count,
                           parts |-> IF i > near THEN resident_part_specs(l.view[i].n) ELSE {}]]
  <2>1. /\ playlist(l).segments = listed /\ playlist(l).open = l.open
        /\ playlist(l).open_seq = IF l.open = <<>> THEN l.edge ELSE l.edge + 1
    BY DEF playlist
  <2>2. /\ l.edge \in Nat /\ \A i \in 1..Len(l.view) : l.view[i].n \in Nat /\ l.view[i].n <= l.edge
    BY DEF ViewInv, ViewRight, Copied
  <2>3. ASSUME NEW i \in 1..Len(l.view) PROVE listed[i].n = l.view[i].n
    OBVIOUS
  <2>4. Len(listed) = Len(l.view)
    OBVIOUS
  <2> HIDE DEF listed, l
  <2>5. k \in 1..Len(l.view)
    BY <2>1, <2>4 DEF l
  <2> QED BY <2>1, <2>2, <2>3, <2>5 DEF l
<1> QED BY <1>1, <1>2, <1>3, OriginSafe, PTL DEF Spec
-----------------------------------------------------------------------------
\* The parts in the trunk, R, against the last closed segment m and the o parts
\* published of the open one.

PartRecords == [n : Nat \ {0}, i : {x \in Nat : x < MaxParts}, id : Nat \X Nat]

\* The resident parts of segment n are its last ones, of c.
EndsWhole(R, n, c) ==
    \A k \in 1..Len(R) : R[k].n = n =>
        /\ R[k].i < c
        /\ \A i \in R[k].i..(c - 1) : \E j \in k..Len(R) : R[j].n = n /\ R[j].i = i

\* No segment between two resident parts is without any.
Unbroken(R) ==
    \A k \in 1..Len(R), n \in Nat :
        R[k].n <= n /\ n <= R[Len(R)].n => \E j \in k..Len(R) : R[j].n = n

UpTo(R, m, o) ==
    /\ \A k \in 1..Len(R) : R[k].n <= m + 1
    /\ m > 0 \/ o > 0 => Len(R) > 0 /\ R[Len(R)].n = IF o > 0 THEN m + 1 ELSE m
    /\ EndsWhole(R, m + 1, o)
    /\ Unbroken(R)

PartsRight ==
    /\ IndexRight(parts, PartRecords, PartCapacity)
    /\ UpTo(parts.ring.entries, segs.published, open)
    /\ open \in 0..MaxParts

\* R2 is R without its first d parts, and the part x behind them.
Shifted(R, R2, x, d) ==
    /\ R \in Seq(PartRecords) /\ R2 \in Seq(PartRecords) /\ d \in 0..1
    /\ Len(R) - d \in Nat /\ Len(R2) = Len(R) - d + 1
    /\ \A k \in 1..(Len(R) - d) : R2[k] = R[k + d] /\ k + d \in 1..Len(R)
    /\ R2[Len(R) - d + 1] = x

\* What is at or after a position moves with it.
LEMMA ShiftedPositions ==
    ASSUME NEW R, NEW R2, NEW x, NEW d, Shifted(R, R2, x, d)
    PROVE  /\ Len(R) \in Nat /\ Len(R2) \in Nat /\ Len(R2) \in 1..Len(R2) /\ d \in 0..1
           /\ R2[Len(R2)] = x
           /\ \A k \in 1..Len(R2) : k # Len(R2) =>
                 R2[k] = R[k + d] /\ k + d \in 1..Len(R)
           /\ \A k \in 1..Len(R2), j \in 1..Len(R) : j >= k + d =>
                 /\ j - d \in k..Len(R2) /\ j - d # Len(R2) /\ R2[j - d] = R[j]
<1> DEFINE a == Len(R)
           b == Len(R2)
<1>1. /\ a \in Nat /\ b \in Nat /\ d \in 0..1 /\ a - d \in Nat /\ b = a - d + 1
      /\ \A k \in 1..(a - d) : R2[k] = R[k + d] /\ k + d \in 1..a
      /\ R2[a - d + 1] = x
  BY LenProperties DEF Shifted
<1> HIDE DEF a, b
<1>2. b \in 1..b /\ R2[b] = x
  BY <1>1
<1>3. ASSUME NEW k \in 1..b, k # b PROVE R2[k] = R[k + d] /\ k + d \in 1..a
  <2>1. k \in 1..(a - d)
    BY <1>1, <1>3
  <2> QED BY <1>1, <2>1
<1>4. ASSUME NEW k \in 1..b, NEW j \in 1..a, j >= k + d
      PROVE  j - d \in k..b /\ j - d # b /\ R2[j - d] = R[j]
  <2>1. j - d \in 1..(a - d) /\ j - d \in k..b /\ j - d # b /\ (j - d) + d = j
    BY <1>1, <1>4
  <2>2. R2[j - d] = R[(j - d) + d]
    BY <1>1, <2>1
  <2> QED BY <2>1, <2>2
<1> QED BY <1>1, <1>2, <1>3, <1>4 DEF a, b

\* A part of another segment does not matter to a segment.
LEMMA OldWhole ==
    ASSUME NEW R, NEW R2, NEW x, NEW d, Shifted(R, R2, x, d), NEW n, NEW c \in Nat,
           x.n # n, EndsWhole(R, n, c)
    PROVE  EndsWhole(R2, n, c)
<1>1. /\ Len(R) \in Nat /\ Len(R2) \in Nat /\ R2[Len(R2)] = x /\ d \in 0..1
      /\ \A k \in 1..Len(R2) : k # Len(R2) => R2[k] = R[k + d] /\ k + d \in 1..Len(R)
      /\ \A k \in 1..Len(R2), j \in 1..Len(R) : j >= k + d =>
            /\ j - d \in k..Len(R2) /\ j - d # Len(R2) /\ R2[j - d] = R[j]
  BY ShiftedPositions
<1> SUFFICES ASSUME NEW k \in 1..Len(R2), R2[k].n = n
             PROVE  /\ R2[k].i < c
                    /\ \A i \in R2[k].i..(c - 1) : \E j \in k..Len(R2) : R2[j].n = n /\ R2[j].i = i
  BY DEF EndsWhole
<1>2. k # Len(R2) /\ R2[k] = R[k + d] /\ k + d \in 1..Len(R)
  BY <1>1
<1> DEFINE h == k + d
<1>3. h \in 1..Len(R) /\ R[h].n = n /\ R2[k].i = R[h].i
  BY <1>2
<1> HIDE DEF h
<1>4. /\ R[h].i < c
      /\ \A i \in R[h].i..(c - 1) : \E j \in h..Len(R) : R[j].n = n /\ R[j].i = i
  BY <1>3 DEF EndsWhole
<1>5. ASSUME NEW i \in R2[k].i..(c - 1) PROVE \E j \in k..Len(R2) : R2[j].n = n /\ R2[j].i = i
  <2>1. PICK j \in h..Len(R) : R[j].n = n /\ R[j].i = i
    BY <1>3, <1>4
  <2>2. j \in 1..Len(R) /\ j >= k + d
    BY <1>1, <1>3, <2>1 DEF h
  <2>3. j - d \in k..Len(R2) /\ R2[j - d] = R[j]
    BY <1>1, <2>2
  <2> QED BY <2>1, <2>3
<1> QED BY <1>3, <1>4, <1>5

\* The next part of a segment comes last.
LEMMA NewWhole ==
    ASSUME NEW R, NEW R2, NEW x, NEW d, Shifted(R, R2, x, d), NEW n, NEW c \in Nat,
           x.n = n, x.i = c, EndsWhole(R, n, c)
    PROVE  EndsWhole(R2, n, c + 1)
<1>1. /\ Len(R) \in Nat /\ Len(R2) \in Nat /\ R2[Len(R2)] = x /\ d \in 0..1
      /\ Len(R2) \in 1..Len(R2)
      /\ \A k \in 1..Len(R2) : k # Len(R2) => R2[k] = R[k + d] /\ k + d \in 1..Len(R)
      /\ \A k \in 1..Len(R2), j \in 1..Len(R) : j >= k + d =>
            /\ j - d \in k..Len(R2) /\ j - d # Len(R2) /\ R2[j - d] = R[j]
  BY ShiftedPositions
<1> DEFINE b == Len(R2)
<1> SUFFICES ASSUME NEW k \in 1..b, R2[k].n = n
             PROVE  /\ R2[k].i < c + 1
                    /\ \A i \in R2[k].i..((c + 1) - 1) : \E j \in k..b : R2[j].n = n /\ R2[j].i = i
  BY DEF EndsWhole
<1>0. b \in k..b /\ R2[b].n = n /\ R2[b].i = c
  BY <1>1
<1>2. R2[k].i \in Nat
  <2>1. R2[k] \in PartRecords
    BY ElementOfSeq DEF Shifted
  <2> QED BY <2>1 DEF PartRecords
<1>3. CASE k = b
  <2>1. R2[k].i = c
    BY <1>0, <1>3
  <2>2. \A i \in c..((c + 1) - 1) : i = c
    OBVIOUS
  <2> QED BY <1>0, <1>3, <2>1, <2>2
<1>4. CASE k # b
  <2> DEFINE h == k + d
  <2>1. h \in 1..Len(R) /\ R[h].n = n /\ R2[k].i = R[h].i
    BY <1>1, <1>4
  <2> HIDE DEF h, b
  <2>2. /\ R[h].i < c
        /\ \A i \in R[h].i..(c - 1) : \E j \in h..Len(R) : R[j].n = n /\ R[j].i = i
    BY <2>1 DEF EndsWhole
  <2>3. ASSUME NEW i \in R2[k].i..((c + 1) - 1) PROVE \E j \in k..b : R2[j].n = n /\ R2[j].i = i
    <3>1. CASE i = c
      BY <1>0, <3>1
    <3>2. CASE i # c
      <4>1. i \in R[h].i..(c - 1)
        BY <1>2, <2>1, <3>2
      <4>2. PICK j \in h..Len(R) : R[j].n = n /\ R[j].i = i
        BY <2>2, <4>1
      <4>3. j \in 1..Len(R) /\ j >= k + d
        BY <1>1, <2>1, <4>2 DEF h
      <4>4. j - d \in k..b /\ R2[j - d] = R[j]
        BY <1>1, <4>3 DEF b
      <4> QED BY <4>2, <4>4
    <3> QED BY <3>1, <3>2
  <2>4. R2[k].i < c + 1
    BY <1>2, <2>1, <2>2
  <2> QED BY <2>3, <2>4
<1> QED BY <1>3, <1>4

\* A part published keeps the log in step with the segmenter.
LEMMA UpToPushed ==
    ASSUME NEW R, NEW R2, NEW x, NEW d, Shifted(R, R2, x, d), NEW m \in Nat, NEW o \in Nat,
           UpTo(R, m, o), x.n = m + 1, x.i = o
    PROVE  UpTo(R2, m, o + 1)
<1>1. /\ Len(R) \in Nat /\ Len(R2) \in Nat /\ R2[Len(R2)] = x /\ d \in 0..1
      /\ Len(R2) \in 1..Len(R2)
      /\ \A k \in 1..Len(R2) : k # Len(R2) => R2[k] = R[k + d] /\ k + d \in 1..Len(R)
      /\ \A k \in 1..Len(R2), j \in 1..Len(R) : j >= k + d =>
            /\ j - d \in k..Len(R2) /\ j - d # Len(R2) /\ R2[j - d] = R[j]
  BY ShiftedPositions, SMTT(30)
<1>2. \A k \in 1..Len(R2) : R2[k].n <= m + 1
  <2> SUFFICES ASSUME NEW k \in 1..Len(R2) PROVE R2[k].n <= m + 1
    OBVIOUS
  <2>1. CASE k = Len(R2)
    BY <1>1, <2>1
  <2>2. CASE k # Len(R2)
    BY <1>1, <2>2 DEF UpTo
  <2> QED BY <2>1, <2>2
<1>3. Len(R2) > 0 /\ R2[Len(R2)].n = m + 1
  BY <1>1
<1>4. EndsWhole(R2, m + 1, o + 1)
  <2>1. EndsWhole(R, m + 1, o)
    BY DEF UpTo
  <2> DEFINE n == m + 1
  <2>2. x.n = n /\ EndsWhole(R, n, o)
    BY <2>1
  <2> HIDE DEF n
  <2>3. EndsWhole(R2, n, o + 1)
    BY <2>2, NewWhole
  <2> QED BY <2>3 DEF n
<1>5. Unbroken(R2)
  <2> SUFFICES ASSUME NEW k \in 1..Len(R2), NEW n \in Nat, R2[k].n <= n, n <= R2[Len(R2)].n
               PROVE  \E j \in k..Len(R2) : R2[j].n = n
    BY DEF Unbroken
  <2>0. Len(R2) \in k..Len(R2) /\ R2[Len(R2)].n = m + 1
    BY <1>1
  <2>1. CASE n = m + 1
    BY <2>0, <2>1
  <2>2. CASE n # m + 1
    <3>1. n <= m /\ k # Len(R2)
      BY <2>0, <2>2
    <3> DEFINE h == k + d
    <3>2. h \in 1..Len(R) /\ R[h].n <= n
      BY <1>1, <3>1
    <3> HIDE DEF h
    <3>3. R[h] \in PartRecords
      BY <3>2, ElementOfSeq DEF Shifted
    <3>4. R[h].n \in Nat \ {0}
      BY <3>3 DEF PartRecords
    <3>5. m > 0
      BY <3>1, <3>2, <3>4
    <3>6. R[Len(R)].n >= m
      BY <3>5 DEF UpTo
    <3>7. R[Len(R)].n \in Nat
      BY <3>5 DEF UpTo
    <3>8. n <= R[Len(R)].n
      BY <3>1, <3>6, <3>7
    <3>9. PICK j \in h..Len(R) : R[j].n = n
      BY <3>2, <3>8 DEF UpTo, Unbroken
    <3>10. j \in 1..Len(R) /\ j >= k + d
      BY <1>1, <3>2, <3>9 DEF h
    <3>11. j - d \in k..Len(R2) /\ R2[j - d] = R[j]
      BY <1>1, <3>10
    <3> QED BY <3>9, <3>11
  <2> QED BY <2>1, <2>2
<1>6. m > 0 \/ o + 1 > 0 => Len(R2) > 0 /\ R2[Len(R2)].n = IF o + 1 > 0 THEN m + 1 ELSE m
  BY <1>3
<1> QED BY <1>2, <1>4, <1>5, <1>6 DEF UpTo

\* Closing the open segment leaves the parts as they are.
LEMMA UpToClosed ==
    ASSUME NEW R \in Seq(PartRecords), NEW m \in Nat, NEW o \in Nat, o > 0, UpTo(R, m, o)
    PROVE  UpTo(R, m + 1, 0)
<1>1. \A k \in 1..Len(R) : R[k].n \in Nat
  <2> SUFFICES ASSUME NEW k \in 1..Len(R) PROVE R[k].n \in Nat
    OBVIOUS
  <2>1. R[k] \in PartRecords
    BY ElementOfSeq
  <2> QED BY <2>1 DEF PartRecords
<1>2. \A k \in 1..Len(R) : R[k].n <= m + 1
  BY DEF UpTo
<1>3. \A k \in 1..Len(R) : R[k].n <= (m + 1) + 1 /\ R[k].n # (m + 1) + 1
  BY <1>1, <1>2
<1>4. EndsWhole(R, (m + 1) + 1, 0)
  BY <1>3 DEF EndsWhole
<1>5. Len(R) > 0 /\ R[Len(R)].n = m + 1 /\ Unbroken(R)
  BY DEF UpTo
<1> QED BY <1>3, <1>4, <1>5 DEF UpTo

\* An empty log.
LEMMA UpToNone == UpTo(<<>>, 0, 0)
<1>1. Len(<<>>) = 0
  BY EmptySeq
<1> QED BY <1>1 DEF UpTo, EndsWhole, Unbroken

-----------------------------------------------------------------------------
\* What a lookup of segment n returns.

\* ps are the parts of segment n in R, all of them and no other.
Found(R, n, ps) ==
    /\ R \in Seq(PartRecords) /\ Len(R) \in Nat /\ Len(ps) \in Nat /\ DOMAIN ps = 1..Len(ps)
    /\ \A k \in 1..Len(ps) : \E j \in 1..Len(R) : R[j].n = n /\ ps[k] = R[j]
    /\ \A j \in 1..Len(R) : R[j].n = n => \E k \in 1..Len(ps) : ps[k] = R[j]
    /\ (ps = <<>>) <=> (\A j \in 1..Len(R) : R[j].n # n)

\* The index finds the resident parts of n.
LEMMA Lookup ==
    ASSUME NEW log, IndexRight(log, PartRecords, PartCapacity), NEW n
    PROVE  Found(log.ring.entries, n, in_segment(log, n))
<1> DEFINE R == log.ring.entries
           ps == in_segment(log, n)
           w == Where([k \in 1..Len(R) |-> R[k].n], n)
           S == {k \in 1..Len(R) : R[k].n = n}
<1>1. R \in Seq(PartRecords) /\ Len(R) \in Nat
  BY LenProperties DEF IndexRight, PartRings
<1>2. ps = PartsOf(R, n)
  BY LookupIsScan
<1>3. PartsOf(R, n) = Pick(R, w) /\ Enumerates(w, S)
  BY <1>1, PartsOfPositions
<1> HIDE DEF w, R, ps
<1>4. w \in Seq(Nat) /\ Len(w) \in Nat
  BY <1>3, LenProperties DEF Enumerates
<1>5. Len(ps) = Len(w) /\ \A k \in 1..Len(w) : ps[k] = R[w[k]]
  BY <1>2, <1>3, <1>4, PickLength
<1>6. DOMAIN ps = 1..Len(w)
  BY <1>2, <1>3 DEF Pick
<1>7. \A k \in 1..Len(w) : w[k] \in S
  BY <1>3 DEF Enumerates
<1>8. \A j \in S : \E k \in 1..Len(w) : w[k] = j
  BY <1>3 DEF Enumerates
<1>9. \A k \in 1..Len(ps) : \E j \in 1..Len(R) : R[j].n = n /\ ps[k] = R[j]
  <2> SUFFICES ASSUME NEW k \in 1..Len(ps)
               PROVE  \E j \in 1..Len(R) : R[j].n = n /\ ps[k] = R[j]
    OBVIOUS
  <2>1. k \in 1..Len(w) /\ w[k] \in S
    BY <1>5, <1>7
  <2> QED BY <1>5, <2>1
<1>10. \A j \in 1..Len(R) : R[j].n = n => \E k \in 1..Len(ps) : ps[k] = R[j]
  BY <1>5, <1>8
<1>11. (ps = <<>>) <=> (Len(ps) = 0)
  <2>1. ps = [k \in 1..Len(w) |-> R[w[k]]]
    BY <1>2, <1>3 DEF Pick
  <2>2. ps \in Seq({R[w[k]] : k \in 1..Len(w)})
    BY <1>4, <2>1, IsASeq
  <2> QED BY <2>2, EmptySeq
<1>12. (Len(ps) = 0) <=> (\A j \in 1..Len(R) : R[j].n # n)
  <2>1. ASSUME Len(ps) = 0, NEW j \in 1..Len(R), R[j].n = n PROVE FALSE
    BY <1>10, <2>1
  <2>2. ASSUME Len(ps) # 0, \A j \in 1..Len(R) : R[j].n # n PROVE FALSE
    <3>1. 1 \in 1..Len(ps)
      BY <1>4, <1>5, <2>2
    <3> QED BY <1>9, <2>2, <3>1
  <2> QED BY <2>1, <2>2
<1> QED BY <1>1, <1>4, <1>5, <1>6, <1>9, <1>10, <1>11, <1>12 DEF R, ps, Found

\* The highest index a lookup finds, plus one.
LEMMA OnePast ==
    ASSUME NEW R, NEW n, NEW ps, Found(R, n, ps), NEW h, h = one_past(ps)
    PROVE  /\ h \in Nat
           /\ \A j \in 1..Len(R) : R[j].n = n => R[j].i + 1 <= h
           /\ h = 0 \/ \E j \in 1..Len(R) : R[j].n = n /\ h = R[j].i + 1
<1> DEFINE S == {0} \cup {ps[k].i + 1 : k \in 1..Len(ps)}
<1>1. /\ R \in Seq(PartRecords) /\ Len(R) \in Nat /\ Len(ps) \in Nat
      /\ \A k \in 1..Len(ps) : \E j \in 1..Len(R) : R[j].n = n /\ ps[k] = R[j]
      /\ \A j \in 1..Len(R) : R[j].n = n => \E k \in 1..Len(ps) : ps[k] = R[j]
  BY DEF Found
<1>2. h = Max(S)
  BY DEF one_past
<1>3. \A j \in 1..Len(R) : R[j].i \in Nat /\ R[j].i < MaxParts
  <2> SUFFICES ASSUME NEW j \in 1..Len(R) PROVE R[j].i \in Nat /\ R[j].i < MaxParts
    OBVIOUS
  <2>1. R[j] \in PartRecords
    BY <1>1, ElementOfSeq
  <2> QED BY <2>1 DEF PartRecords
<1>4. MaxParts \in Nat
  BY BoundsAssumption
<1>5. \A k \in 1..Len(ps) : ps[k].i + 1 \in 0..MaxParts
  <2> SUFFICES ASSUME NEW k \in 1..Len(ps) PROVE ps[k].i + 1 \in 0..MaxParts
    OBVIOUS
  <2>1. PICK j \in 1..Len(R) : ps[k] = R[j]
    BY <1>1
  <2>2. ps[k].i \in Nat /\ ps[k].i < MaxParts
    BY <1>3, <2>1
  <2> QED BY <1>4, <2>2
<1>6. S \in SUBSET (0..MaxParts) /\ S # {}
  BY <1>4, <1>5
<1>7. h \in S /\ \A y \in S : y <= h
  <2> HIDE DEF S
  <2> QED BY <1>2, <1>4, <1>6, Greatest
<1>8. h \in Nat
  BY <1>6, <1>7
<1>9. ASSUME NEW j \in 1..Len(R), R[j].n = n PROVE R[j].i + 1 <= h
  <2>1. PICK k \in 1..Len(ps) : ps[k] = R[j]
    BY <1>1, <1>9
  <2>2. ps[k].i + 1 \in S
    OBVIOUS
  <2> QED BY <1>7, <2>1, <2>2
<1>10. h = 0 \/ \E j \in 1..Len(R) : R[j].n = n /\ h = R[j].i + 1
  <2>1. ASSUME h # 0 PROVE \E k \in 1..Len(ps) : h = ps[k].i + 1
    BY <1>7, <2>1
  <2>2. ASSUME NEW k \in 1..Len(ps), h = ps[k].i + 1
        PROVE  \E j \in 1..Len(R) : R[j].n = n /\ h = R[j].i + 1
    <3>1. PICK j \in 1..Len(R) : R[j].n = n /\ ps[k] = R[j]
      BY <1>1
    <3> QED BY <2>2, <3>1
  <2> QED BY <2>1, <2>2
<1> QED BY <1>8, <1>9, <1>10

\* The parts a closed segment is listed with: all of them, or none.
LEMMA WholeOrNone ==
    ASSUME IndexRight(parts, PartRecords, PartCapacity), NEW n, NEW c \in Nat,
           EndsWhole(parts.ring.entries, n, c)
    PROVE  /\ resident_part_specs(n) \in {{}, 0..(c - 1)}
           /\ resident_part_specs(n) # {} =>
                 \E j \in 1..Len(parts.ring.entries) : parts.ring.entries[j].n = n
<1> DEFINE R == parts.ring.entries
           ps == in_segment(parts, n)
           is == {q.i : q \in ToSet(ps)}
<1>1. /\ R \in Seq(PartRecords) /\ Len(R) \in Nat /\ Len(ps) \in Nat /\ DOMAIN ps = 1..Len(ps)
      /\ \A k \in 1..Len(ps) : \E j \in 1..Len(R) : R[j].n = n /\ ps[k] = R[j]
      /\ \A j \in 1..Len(R) : R[j].n = n => \E k \in 1..Len(ps) : ps[k] = R[j]
  <2>1. Found(R, n, ps)
    BY Lookup
  <2> HIDE DEF ps, R
  <2> QED BY <2>1 DEF Found
<1>2. resident_part_specs(n) = IF is = 0..(Cardinality(is) - 1) THEN is ELSE {}
  BY DEF resident_part_specs
<1> HIDE DEF ps
<1>3. \A x : x \in is <=> \E j \in 1..Len(R) : R[j].n = n /\ R[j].i = x
  <2>1. \A x : x \in is <=> \E k \in 1..Len(ps) : ps[k].i = x
    <3>1. ToSet(ps) = {ps[k] : k \in 1..Len(ps)}
      BY <1>1 DEF ToSet
    <3> QED BY <3>1
  <2> HIDE DEF is, R
  <2>2. ASSUME NEW x, NEW k \in 1..Len(ps), ps[k].i = x
        PROVE  \E j \in 1..Len(R) : R[j].n = n /\ R[j].i = x
    <3>1. PICK j \in 1..Len(R) : R[j].n = n /\ ps[k] = R[j]
      BY <1>1
    <3> QED BY <2>2, <3>1
  <2>3. ASSUME NEW x, NEW j \in 1..Len(R), R[j].n = n, R[j].i = x
        PROVE  \E k \in 1..Len(ps) : ps[k].i = x
    <3>1. PICK k \in 1..Len(ps) : ps[k] = R[j]
      BY <1>1, <2>3
    <3> QED BY <2>3, <3>1
  <2> QED BY <2>1, <2>2, <2>3
<1> HIDE DEF is
<1>4. \A j \in 1..Len(R) : R[j].i \in Nat
  <2> SUFFICES ASSUME NEW j \in 1..Len(R) PROVE R[j].i \in Nat
    OBVIOUS
  <2>1. R[j] \in PartRecords
    BY <1>1, ElementOfSeq
  <2> QED BY <2>1 DEF PartRecords
<1>5. is \subseteq 0..(c - 1)
  <2> SUFFICES ASSUME NEW x \in is PROVE x \in 0..(c - 1)
    OBVIOUS
  <2>1. PICK j \in 1..Len(R) : R[j].n = n /\ R[j].i = x
    BY <1>3
  <2>2. R[j].i < c /\ R[j].i \in Nat
    BY <1>4, <2>1 DEF EndsWhole
  <2> QED BY <2>1, <2>2
<1>6. IsFiniteSet(is) /\ Cardinality(is) \in Nat
  <2>1. IsFiniteSet(0..(c - 1))
    BY FS_Interval
  <2> QED BY <1>5, <2>1, FS_Subset, FS_CardinalityType
<1>7. ASSUME is = 0..(Cardinality(is) - 1), is # {} PROVE is = 0..(c - 1)
  <2>1. 0 \in is
    <3> DEFINE z == Cardinality(is) - 1
    <3>1. z \in Int /\ is = 0..z
      BY <1>6, <1>7
    <3> HIDE DEF z
    <3> QED BY <1>7, <3>1
  <2>2. PICK j \in 1..Len(R) : R[j].n = n /\ R[j].i = 0
    BY <1>3, <2>1
  <2>3. ASSUME NEW x \in 0..(c - 1) PROVE x \in is
    <3>1. \E u \in j..Len(R) : R[u].n = n /\ R[u].i = x
      BY <2>2 DEF EndsWhole
    <3>2. PICK u \in j..Len(R) : R[u].n = n /\ R[u].i = x
      BY <3>1
    <3>3. u \in 1..Len(R)
      BY <1>1
    <3> QED BY <1>3, <3>2, <3>3
  <2> QED BY <1>5, <2>3
<1>8. resident_part_specs(n) # {} => is # {}
  BY <1>2
<1>9. is # {} => \E j \in 1..Len(R) : R[j].n = n
  BY <1>3
<1> QED BY <1>2, <1>7, <1>8, <1>9 DEF R

-----------------------------------------------------------------------------
\* Segments on their way from the trunk into a playlist.

\* What is said of a segment wherever it is kept.
Key(e) == [n |-> e.n, under |-> e.under, count |-> e.count]

\* A request has nothing but segments of G in hand.
Hand(l, G) ==
    /\ \A k \in 1..Len(l.polled) : Key(l.polled[k]) \in G
    /\ \A k \in 1..Len(l.prepared) : Key(l.prepared[k].item) \in G
    /\ \A k \in 1..Len(l.view) : Key(l.view[k]) \in G

Carries(S, W, L, G) ==
    /\ \A k \in 1..Len(S.entries) : Key(S.entries[k]) \in G
    /\ \A k \in 1..Len(W.segments) : Key(W.segments[k]) \in G
    /\ \A p \in Requests : Hand(L[p], G)

\* Where the elements of a sequence come from after Append and Tail.
LEMMA AppendElements ==
    ASSUME NEW X, NEW s \in Seq(X), NEW x \in X
    PROVE  \A k \in 1..Len(Append(s, x)) :
              Append(s, x)[k] = x \/ \E j \in 1..Len(s) : Append(s, x)[k] = s[j]
<1>1. /\ Len(Append(s, x)) = Len(s) + 1 /\ Len(s) \in Nat
      /\ \A i \in 1..Len(s) : Append(s, x)[i] = s[i]
      /\ Append(s, x)[Len(s) + 1] = x
  BY AppendProperties, LenProperties
<1> DEFINE t == Append(s, x)
           n == Len(s)
<1> HIDE DEF t, n
<1>2. Len(t) = n + 1 /\ n \in Nat /\ t[n + 1] = x /\ \A i \in 1..n : t[i] = s[i]
  BY <1>1 DEF t, n
<1>3. ASSUME NEW k \in 1..Len(t) PROVE t[k] = x \/ \E j \in 1..n : t[k] = s[j]
  <2>1. k = n + 1 \/ k \in 1..n
    BY <1>2
  <2> QED BY <1>2, <2>1
<1> QED BY <1>3 DEF t, n

\* The elements of a tail, and the head.
LEMMA TailElements ==
    ASSUME NEW X, NEW s \in Seq(X), s # <<>>
    PROVE  /\ \A k \in 1..Len(Tail(s)) : \E j \in 1..Len(s) : Tail(s)[k] = s[j]
           /\ \E j \in 1..Len(s) : Head(s) = s[j]
           /\ Tail(s) \in Seq(X) /\ Head(s) \in X
<1> DEFINE t == Tail(s)
           n == Len(s)
<1>1. /\ t \in Seq(X) /\ Len(t) = n - 1 /\ n \in Nat /\ n > 0
      /\ \A i \in 1..Len(t) : t[i] = s[i + 1]
  BY HeadTailProperties, LenProperties, EmptySeq
<1> HIDE DEF t, n
<1>2. ASSUME NEW k \in 1..Len(t) PROVE \E j \in 1..n : t[k] = s[j]
  <2>1. k + 1 \in 1..n /\ t[k] = s[k + 1]
    BY <1>1
  <2> QED BY <2>1
<1>3. 1 \in 1..n /\ Head(s) = s[1]
  BY <1>1, Head(s) = s[1]
<1>4. s[1] \in X
  BY <1>3, ElementOfSeq DEF n
<1> QED BY <1>1, <1>2, <1>3, <1>4 DEF t, n

\* The segments of a window after a push.
LEMMA PushedElements ==
    ASSUME NEW w, WindowRight(w), NEW x \in Entries, NEW g \in Nat,
           NEW w2, w2 = window_push(w, WindowCapacity, x, g)
    PROVE  \A k \in 1..Len(w2.segments) :
              \/ Key(w2.segments[k]) = Key(x) /\ w2.segments[k].init_gen = g
              \/ \E j \in 1..Len(w.segments) : w2.segments[k] = w.segments[j]
<1> DEFINE run == starts_run(w, x)
           base == IF run THEN clear_rolling_off(w) ELSE w
           changed == base.segments # <<>> /\ Last(base.segments).init_gen # g
           full == Len(base.segments) >= WindowCapacity
           kept == IF full THEN Tail(base.segments) ELSE base.segments
           rolled == IF full /\ Head(base.segments).discontinuous THEN 1 ELSE 0
           new == [n |-> x.n, init_gen |-> g, under |-> x.under,
                   count |-> x.count, discontinuous |-> x.discontinuous \/ run \/ changed]
           s == w.segments
<1>1. /\ w \in Windows /\ s \in Seq(Listed) /\ Len(s) \in Nat
  BY LenProperties DEF WindowRight, Windows
<1>2. WindowCapacity \in Nat \ {0}
  BY CapacitiesAssumption
<1>3. w2.segments = Append(kept, new)
  BY DEF window_push
<1>4. new \in Listed /\ Key(new) = Key(x) /\ new.init_gen = g
  <2>1. x.n \in Nat /\ x.under \in Nat /\ x.count \in Nat /\ x.discontinuous \in BOOLEAN
    BY DEF Entries
  <2>2. (x.discontinuous \/ run \/ changed) \in BOOLEAN
    OBVIOUS
  <2> HIDE DEF run, changed
  <2> QED BY <2>1, <2>2 DEF Listed, Key
<1> HIDE DEF new, run
<1>5. base.segments \in {<<>>, s}
  BY <1>1 DEF clear_rolling_off, Windows
<1>6. kept \in Seq(Listed) /\ \A k \in 1..Len(kept) : \E j \in 1..Len(s) : kept[k] = s[j]
  <2>1. CASE base.segments = <<>>
    <3>1. Len(base.segments) = 0
      BY <2>1
    <3>2. kept = <<>>
      BY <1>2, <2>1, <3>1
    <3>3. <<>> \in Seq(Listed) /\ 1..Len(<<>>) = {}
      OBVIOUS
    <3> HIDE DEF kept, s
    <3> QED BY <3>2, <3>3
  <2>2. CASE base.segments = s
    <3>1. CASE full
      <4>1. s # <<>> /\ kept = Tail(s)
        BY <1>2, <2>2, <3>1
      <4> HIDE DEF kept, s
      <4> QED BY <1>1, <4>1, TailElements
    <3>2. CASE ~full
      <4>1. kept = s
        BY <2>2, <3>2
      <4> HIDE DEF kept, s
      <4> QED BY <1>1, <4>1
    <3> QED BY <3>1, <3>2
  <2> QED BY <1>5, <2>1, <2>2
<1> HIDE DEF kept, s
<1>7. \A k \in 1..Len(Append(kept, new)) :
         Append(kept, new)[k] = new \/ \E j \in 1..Len(kept) : Append(kept, new)[k] = kept[j]
  BY <1>4, <1>6, AppendElements
<1> DEFINE t == w2.segments
<1>8. \A k \in 1..Len(t) : t[k] = new \/ \E j \in 1..Len(kept) : t[k] = kept[j]
  BY <1>3, <1>7
<1> HIDE DEF t
<1>9. ASSUME NEW k \in 1..Len(t)
      PROVE  (Key(t[k]) = Key(x) /\ t[k].init_gen = g) \/ \E j \in 1..Len(s) : t[k] = s[j]
  <2>1. CASE t[k] = new
    BY <1>4, <2>1
  <2>2. ASSUME NEW j \in 1..Len(kept), t[k] = kept[j]
        PROVE  \E h \in 1..Len(s) : t[k] = s[h]
    BY <1>6, <2>2
  <2> QED BY <1>8, <2>1, <2>2
<1> QED BY <1>9 DEF t, s

\* A request only hands segments on.
LEMMA HandStep ==
    ASSUME OriginInv, NEW p \in Requests, Playlist(p) \/ Part(p),
           NEW G, Carries(segs, window, loc, G), Key(Gap) \in G
    PROVE  Hand(loc'[p], G)
<1> DEFINE l == loc[p]
           m == loc'[p]
<1> SUFFICES Hand(m, G)
  OBVIOUS
<1>1. /\ Local(l) /\ DOMAIN loc = Requests /\ DOMAIN l = Fields /\ pc \in [Requests -> Places]
  BY LocLemma DEF Local
<1>2. Hand(l, G)
  BY DEF Carries
<1>3. CASE m.polled = <<>> /\ m.prepared = <<>> /\ m.view = <<>>
  <2>1. Len(<<>>) = 0
    BY EmptySeq
  <2> QED BY <1>3, <2>1 DEF Hand
<1>4. CASE m.polled = l.polled /\ m.prepared = l.prepared /\ m.view = l.view
  BY <1>2, <1>4 DEF Hand
<1>5. ASSUME NEW e \in Entries, Key(e) \in G, l.polled \in Seq(Entries),
             m.polled = Append(l.polled, e), m.prepared = l.prepared, m.view = l.view
      PROVE  Hand(m, G)
  <2> DEFINE s == l.polled
             t == m.polled
  <2>1. \A k \in 1..Len(Append(s, e)) :
           Append(s, e)[k] = e \/ \E j \in 1..Len(s) : Append(s, e)[k] = s[j]
    BY <1>5, AppendElements
  <2>2. \A k \in 1..Len(t) : t[k] = e \/ \E j \in 1..Len(s) : t[k] = s[j]
    BY <1>5, <2>1
  <2>3. \A j \in 1..Len(s) : Key(s[j]) \in G
    BY <1>2 DEF Hand
  <2>4. \A k \in 1..Len(t) : Key(t[k]) \in G
    BY <1>5, <2>2, <2>3
  <2> QED BY <1>2, <1>5, <2>4 DEF Hand
<1>6. pc[p] \in Holding => l.polled \in Seq(Entries) /\ l.prepared \in Seq(Items)
  BY DEF OriginInv, DrainRight, InHand
<1>7. CASE PollSegment(p)
  <2> DEFINE e == EntryAt(segs, cursor)
  <2>1. /\ pc[p] \in Holding /\ Resident(segs, cursor)
        /\ loc' = [loc EXCEPT ![p].polled = Append(@, e)]
    BY <1>7 DEF PollSegment, Holding
  <2> HIDE DEF e
  <2>2. m.polled = Append(l.polled, e) /\ m.prepared = l.prepared /\ m.view = l.view
    BY <1>1, <2>1 DEF Fields
  <2>3. e \in Entries
    BY <2>1, ResidentLemma DEF OriginInv, e
  <2>4. Key(e) \in G
    <3> DEFINE k == cursor - segs.base + 1
    <3>1. e = segs.entries[k]
      BY DEF e, EntryAt
    <3>2. segs.base \in Nat /\ Len(segs.entries) \in Nat /\ cursor \in Int
      BY SegsLemma DEF OriginInv
    <3>3. k \in 1..Len(segs.entries)
      BY <2>1, <3>2 DEF Resident
    <3> HIDE DEF k
    <3> QED BY <3>1, <3>3 DEF Carries
  <2> HIDE DEF l, m
  <2> QED BY <1>5, <1>6, <2>1, <2>2, <2>3, <2>4 DEF l
<1>8. CASE PollLagged(p)
  <2>1. /\ pc[p] \in Holding /\ loc' = [loc EXCEPT ![p].polled = Append(@, Gap)]
    BY <1>8 DEF PollLagged, Holding
  <2>2. m.polled = Append(l.polled, Gap) /\ m.prepared = l.prepared /\ m.view = l.view
    BY <1>1, <2>1 DEF Fields
  <2>3. Gap \in Entries
    BY DEF Gap, Entries
  <2> HIDE DEF l, m
  <2> QED BY <1>5, <1>6, <2>1, <2>2, <2>3 DEF l
<1>9. CASE Prepare(p)
  <2> DEFINE item == Head(l.polled)
             q == [item |-> item, init_gen |-> generation_for(inits, item.n)]
             s == l.polled
             u == l.prepared
  <2>1. /\ pc[p] \in Holding /\ s # <<>>
        /\ loc' = [loc EXCEPT ![p].polled = Tail(@), ![p].prepared = Append(@, q)]
    BY <1>9 DEF Prepare, Holding
  <2>2. s \in Seq(Entries) /\ u \in Seq(Items)
    BY <1>6, <2>1
  <2>3. /\ \A k \in 1..Len(Tail(s)) : \E j \in 1..Len(s) : Tail(s)[k] = s[j]
        /\ \E j \in 1..Len(s) : item = s[j]
        /\ Tail(s) \in Seq(Entries) /\ item \in Entries
    BY <2>1, <2>2, TailElements
  <2>4. q \in Items /\ q.item = item
    <3>1. item.n \in Nat /\ inits \in Stores
      BY <2>3 DEF Entries, OriginInv, Shape
    <3>2. generation_for(inits, item.n) \in Nat
      BY <3>1, GenerationLemma
    <3> QED BY <2>3, <3>2 DEF Items
  <2> HIDE DEF q, item
  <2>5. m.polled = Tail(s) /\ m.prepared = Append(u, q) /\ m.view = l.view
    BY <1>1, <2>1 DEF Fields
  <2>6. \A k \in 1..Len(Append(u, q)) :
           Append(u, q)[k] = q \/ \E j \in 1..Len(u) : Append(u, q)[k] = u[j]
    BY <2>2, <2>4, AppendElements
  <2>7. /\ \A j \in 1..Len(s) : Key(s[j]) \in G
        /\ \A j \in 1..Len(u) : Key(u[j].item) \in G
    BY <1>2 DEF Hand
  <2>8. \A k \in 1..Len(Tail(s)) : Key(Tail(s)[k]) \in G
    BY <2>3, <2>7
  <2>9. Key(item) \in G
    BY <2>3, <2>7
  <2>10. \A k \in 1..Len(Append(u, q)) : Key(Append(u, q)[k].item) \in G
    BY <2>4, <2>6, <2>7, <2>9
  <2>11. \A k \in 1..Len(l.view) : Key(l.view[k]) \in G
    BY <1>2 DEF Hand
  <2> HIDE DEF s, u, m
  <2> QED BY <2>5, <2>8, <2>10, <2>11 DEF Hand
<1>10. CASE Absorb(p)
  <2> DEFINE u == l.prepared
  <2>1. pc[p] \in Holding /\ u # <<>> /\ loc' = [loc EXCEPT ![p].prepared = Tail(@)]
    BY <1>10 DEF Absorb, Holding
  <2>2. m.polled = l.polled /\ m.prepared = Tail(u) /\ m.view = l.view
    BY <1>1, <2>1 DEF Fields
  <2>3. \A k \in 1..Len(Tail(u)) : \E j \in 1..Len(u) : Tail(u)[k] = u[j]
    <3>1. u \in Seq(Items)
      BY <1>6, <2>1
    <3> HIDE DEF u
    <3> QED BY <2>1, <3>1, TailElements
  <2>4. \A j \in 1..Len(u) : Key(u[j].item) \in G
    BY <1>2 DEF Hand
  <2>5. \A k \in 1..Len(Tail(u)) : Key(Tail(u)[k].item) \in G
    BY <2>3, <2>4
  <2> HIDE DEF u, m
  <2> QED BY <1>2, <2>2, <2>5 DEF Hand
<1>11. CASE WindowView(p)
  <2>1. loc' = [loc EXCEPT ![p].view = window.segments]
    BY <1>11 DEF WindowView
  <2>2. m.polled = l.polled /\ m.prepared = l.prepared /\ m.view = window.segments
    BY <1>1, <2>1 DEF Fields
  <2>3. \A k \in 1..Len(window.segments) : Key(window.segments[k]) \in G
    BY DEF Carries
  <2> HIDE DEF m
  <2> QED BY <1>2, <2>2, <2>3 DEF Hand
<1>12. CASE BeginPlaylist(p) \/ GateNotNeeded(p) \/ StoreHead(p) \/ Render(p) \/ Finish(p)
  <2>1. m.polled = <<>> /\ m.prepared = <<>> /\ m.view = <<>>
    <3> DEFINE Bare(v) == v.polled = <<>> /\ v.prepared = <<>> /\ v.view = <<>>
    <3>1. ASSUME NEW v, Bare(v), loc' = [loc EXCEPT ![p] = v] PROVE Bare(m)
      BY <1>1, <3>1
    <3>2. /\ Bare(NoLocals) /\ \A x : Bare([NoLocals EXCEPT !.from = x])
          /\ \A x, y : Bare([NoLocals EXCEPT !.head = x, !.from = y])
      BY DEF NoLocals
    <3>3. CASE BeginPlaylist(p)
      <4>1. PICK x, y : loc' = [loc EXCEPT ![p] = [NoLocals EXCEPT !.head = x, !.from = y]]
        BY <3>3 DEF BeginPlaylist
      <4> HIDE DEF Bare
      <4>2. Bare(m)
        BY <3>1, <3>2, <4>1
      <4> QED BY <4>2 DEF Bare
    <3>4. CASE GateNotNeeded(p) \/ StoreHead(p)
      <4>1. PICK x : loc' = [loc EXCEPT ![p] = [NoLocals EXCEPT !.from = x]]
        BY <3>4 DEF GateNotNeeded, StoreHead
      <4> HIDE DEF Bare
      <4>2. Bare(m)
        BY <3>1, <3>2, <4>1
      <4> QED BY <4>2 DEF Bare
    <3>5. CASE Render(p) \/ Finish(p)
      <4>1. loc' = [loc EXCEPT ![p] = NoLocals]
        BY <3>5 DEF Render, Finish
      <4> HIDE DEF Bare
      <4>2. Bare(m)
        BY <3>1, <3>2, <4>1
      <4> QED BY <4>2 DEF Bare
    <3> QED BY <1>12, <3>3, <3>4, <3>5
  <2> QED BY <1>3, <2>1
<1>13. CASE TakeGate(p) \/ PollEmpty(p) \/ LockWindow(p)
  <2>1. m = l
    BY <1>13 DEF TakeGate, PollEmpty, LockWindow
  <2> QED BY <1>2, <2>1
<1>14. CASE LiveEdgeClosed(p) \/ LiveEdgeParts(p)
  <2>1. PICK x : loc' = [loc EXCEPT ![p].edge = x] \/ loc' = [loc EXCEPT ![p].open = x]
    BY <1>14 DEF LiveEdgeClosed, LiveEdgeParts
  <2>2. m.polled = l.polled /\ m.prepared = l.prepared /\ m.view = l.view
    BY <1>1, <2>1 DEF Fields
  <2> QED BY <1>4, <2>2
<1>15. ASSUME NEW n, NEW i, RequestPart(p, n, i) PROVE Hand(m, G)
  <2>1. PICK x, y : loc' = [loc EXCEPT ![p].ask = x, ![p].hinted = y]
    BY <1>15 DEF RequestPart
  <2>2. m.polled = l.polled /\ m.prepared = l.prepared /\ m.view = l.view
    BY <1>1, <2>1 DEF Fields
  <2> QED BY <1>4, <2>2
<1>16. CASE \/ PartReady(p) \/ PartMissing(p) \/ PartOutOfReach(p) \/ PartInReach(p)
            \/ PartNotHinted(p) \/ PartPending(p) \/ ResolveAgain(p)
  <2>1. m = l
    BY <1>16 DEF PartReady, PartMissing, PartOutOfReach, PartInReach, PartNotHinted, PartPending,
                 ResolveAgain
  <2> QED BY <1>2, <2>1
<1> QED BY <1>7, <1>8, <1>9, <1>10, <1>11, <1>12, <1>13, <1>14, <1>15, <1>16
        DEF Playlist, Drain, Part

-----------------------------------------------------------------------------
\* One step, seen from the trunk and from the window.

\* Requests only read the trunk.
LEMMA RequestFrame ==
    ASSUME NEW p \in Requests, Playlist(p) \/ Part(p)
    PROVE  UNCHANGED <<segs, parts, queued, open, inits>>
<1>1. CASE Drain(p)
  BY <1>1 DEF Drain, TakeGate, PollSegment, PollLagged, PollEmpty, Prepare, LockWindow,
              Absorb, StoreHead, trunkVars
<1>2. CASE \/ BeginPlaylist(p) \/ GateNotNeeded(p) \/ WindowView(p) \/ LiveEdgeClosed(p)
           \/ LiveEdgeParts(p) \/ Render(p)
  BY <1>2 DEF BeginPlaylist, GateNotNeeded, WindowView, LiveEdgeClosed, LiveEdgeParts,
              Render, trunkVars
<1>3. ASSUME NEW n, NEW i, RequestPart(p, n, i) PROVE UNCHANGED <<segs, parts, queued, open, inits>>
  BY <1>3 DEF RequestPart, trunkVars
<1>4. CASE \/ PartReady(p) \/ PartMissing(p) \/ PartOutOfReach(p) \/ PartInReach(p)
           \/ PartNotHinted(p) \/ PartPending(p) \/ ResolveAgain(p) \/ Finish(p)
  BY <1>4 DEF PartReady, PartMissing, PartOutOfReach, PartInReach, PartNotHinted,
              PartPending, ResolveAgain, Finish, trunkVars
<1> QED BY <1>1, <1>2, <1>3, <1>4 DEF Playlist, Part

\* Only Absorb changes the window.
LEMMA WindowFrame ==
    ASSUME NEW p \in Requests, Playlist(p) \/ Part(p)
    PROVE  Absorb(p) \/ window' = window
<1>1. CASE Drain(p)
  BY <1>1 DEF Drain, TakeGate, PollSegment, PollLagged, PollEmpty, Prepare, LockWindow,
              StoreHead, drainVars
<1>2. CASE \/ BeginPlaylist(p) \/ GateNotNeeded(p) \/ WindowView(p) \/ LiveEdgeClosed(p)
           \/ LiveEdgeParts(p) \/ Render(p)
  BY <1>2 DEF BeginPlaylist, GateNotNeeded, WindowView, LiveEdgeClosed, LiveEdgeParts,
              Render, drainVars
<1>3. ASSUME NEW n, NEW i, RequestPart(p, n, i) PROVE window' = window
  BY <1>3 DEF RequestPart, drainVars
<1>4. CASE \/ PartReady(p) \/ PartMissing(p) \/ PartOutOfReach(p) \/ PartInReach(p)
           \/ PartNotHinted(p) \/ PartPending(p) \/ ResolveAgain(p) \/ Finish(p)
  BY <1>4 DEF PartReady, PartMissing, PartOutOfReach, PartInReach, PartNotHinted,
              PartPending, ResolveAgain, Finish, drainVars
<1> QED BY <1>1, <1>2, <1>3, <1>4 DEF Playlist, Part

\* What enters the window comes out of a request's hand.
LEMMA WindowStep ==
    ASSUME OriginInv, NEW p \in Requests, Playlist(p) \/ Part(p),
           NEW G, Carries(segs, window, loc, G)
    PROVE  \A k \in 1..Len(window'.segments) : Key(window'.segments[k]) \in G
<1>1. \A k \in 1..Len(window.segments) : Key(window.segments[k]) \in G
  BY DEF Carries
<1>2. CASE window' = window
  BY <1>1, <1>2
<1>3. CASE Absorb(p)
  <2> DEFINE u == loc[p].prepared
             h == Head(u)
             x == h.item
             g == h.init_gen
  <2>1. /\ pc[p] \in Holding /\ u # <<>>
        /\ window' = IF x = Gap THEN note_gap(window) ELSE window_push(window, WindowCapacity, x, g)
    BY <1>3 DEF Absorb, Holding
  <2>2. u \in Seq(Items)
    BY <2>1 DEF OriginInv, DrainRight, InHand
  <2>3. \E j \in 1..Len(u) : h = u[j]
    <3> HIDE DEF u
    <3> QED BY <2>1, <2>2, TailElements DEF h
  <2>4. h \in Items
    <3> HIDE DEF u
    <3> QED BY <2>1, <2>2, TailElements DEF h
  <2>5. x \in Entries /\ g \in Nat
    <3> HIDE DEF h
    <3> QED BY <2>4 DEF Items
  <2>6. \A j \in 1..Len(u) : Key(u[j].item) \in G
    BY DEF Carries, Hand
  <2>7. Key(x) \in G
    <3> HIDE DEF h, u
    <3> QED BY <2>3, <2>6
  <2>8. WindowRight(window)
    BY DEF OriginInv
  <2> HIDE DEF x, g
  <2>9. CASE x = Gap
    <3>1. window'.segments = window.segments
      BY <2>1, <2>8, <2>9 DEF note_gap, WindowRight, Windows
    <3> QED BY <1>1, <3>1
  <2>10. CASE x # Gap
    <3> DEFINE w2 == window_push(window, WindowCapacity, x, g)
    <3>1. \A k \in 1..Len(w2.segments) :
             \/ Key(w2.segments[k]) = Key(x) /\ w2.segments[k].init_gen = g
             \/ \E j \in 1..Len(window.segments) : w2.segments[k] = window.segments[j]
      BY <2>5, <2>8, PushedElements
    <3>2. window' = w2
      BY <2>1, <2>10
    <3> HIDE DEF w2
    <3> DEFINE t == w2.segments
               s == window.segments
    <3>3. \A k \in 1..Len(t) : Key(t[k]) = Key(x) \/ \E j \in 1..Len(s) : t[k] = s[j]
      BY <3>1
    <3>4. \A j \in 1..Len(s) : Key(s[j]) \in G
      BY <1>1
    <3> HIDE DEF t, s
    <3>5. ASSUME NEW k \in 1..Len(t) PROVE Key(t[k]) \in G
      BY <2>7, <3>3, <3>4
    <3> QED BY <3>2, <3>5 DEF t
  <2> QED BY <2>9, <2>10
<1> QED BY <1>2, <1>3, WindowFrame

\* Segments are handed on as they were closed.
LEMMA CarriesStep ==
    ASSUME OriginInv, [Next]_vars, NEW G, Carries(segs, window, loc, G), Key(Gap) \in G,
           CloseSegment =>
              [n |-> segs.published + 1, under |-> inits.generation, count |-> open] \in G
    PROVE  Carries(segs', window', loc', G)
<1>1. CASE UNCHANGED <<segs, window, loc>>
  BY <1>1 DEF Carries
<1>2. CASE CloseSegment
  <2> DEFINE e == [n |-> last_closed + 1, discontinuous |-> last_closed + 1 \in Breaks,
                   under |-> inits.generation, count |-> open]
             s == segs.entries
             kept == IF Len(s) = SegmentCapacity THEN Tail(s) ELSE s
  <2>1. /\ segs' = RingPush(segs, SegmentCapacity, e) /\ UNCHANGED <<window, loc>>
    BY <1>2 DEF CloseSegment, drainVars
  <2>2. segs'.entries = Append(kept, e)
    BY <2>1 DEF RingPush
  <2>3. /\ s \in Seq(Entries) /\ Len(s) \in Nat
        /\ last_closed = segs.published /\ segs.published \in Nat
    BY SegsLemma DEF OriginInv
  <2>4. inits.generation \in Nat /\ open \in Nat
    BY DEF OriginInv, Shape, Stores
  <2>5. Key(e) = [n |-> segs.published + 1, under |-> inits.generation, count |-> open]
    BY <2>3 DEF Key
  <2>6. Key(e) \in G
    BY <1>2, <2>5
  <2>7. e \in Entries
    BY <2>3, <2>4 DEF Entries
  <2> HIDE DEF e
  <2>8. kept \in Seq(Entries) /\ \A k \in 1..Len(kept) : \E j \in 1..Len(s) : kept[k] = s[j]
    <3>1. CASE Len(s) = SegmentCapacity
      <4>1. s # <<>>
        BY <3>1, CapacitiesAssumption, EmptySeq
      <4>2. kept = Tail(s)
        BY <3>1
      <4> HIDE DEF kept, s
      <4> QED BY <2>3, <4>1, <4>2, TailElements
    <3>2. CASE Len(s) # SegmentCapacity
      <4>1. kept = s
        BY <3>2
      <4> HIDE DEF kept, s
      <4> QED BY <2>3, <4>1
    <3> QED BY <3>1, <3>2
  <2>9. \A j \in 1..Len(s) : Key(s[j]) \in G
    BY DEF Carries
  <2> HIDE DEF kept, s
  <2>10. \A k \in 1..Len(Append(kept, e)) :
            Append(kept, e)[k] = e \/ \E j \in 1..Len(kept) : Append(kept, e)[k] = kept[j]
    BY <2>7, <2>8, AppendElements
  <2>11. \A j \in 1..Len(kept) : Key(kept[j]) \in G
    BY <2>8, <2>9
  <2>12. \A k \in 1..Len(Append(kept, e)) : Key(Append(kept, e)[k]) \in G
    BY <2>6, <2>10, <2>11
  <2> QED BY <2>1, <2>2, <2>12 DEF Carries
<1>3. ASSUME NEW p \in Requests, Playlist(p) \/ Part(p) PROVE Carries(segs', window', loc', G)
  <2>1. segs' = segs /\ \A q \in Requests \ {p} : loc'[q] = loc[q]
    BY <1>3, OthersLemma
  <2>2. Hand(loc'[p], G)
    BY <1>3, HandStep
  <2>3. \A q \in Requests : Hand(loc[q], G)
    BY DEF Carries
  <2>4. \A q \in Requests : Hand(loc'[q], G)
    BY <2>1, <2>2, <2>3
  <2>5. \A k \in 1..Len(window'.segments) : Key(window'.segments[k]) \in G
    BY <1>3, WindowStep
  <2> QED BY <2>1, <2>4, <2>5 DEF Carries
<1> QED BY <1>1, <1>2, <1>3 DEF Next, Segmenter, Cut, PublishPart, set_init, vars, trunkVars, drainVars

-----------------------------------------------------------------------------
\* The trunk's parts stay in step with the segmenter.

\* Before the first part.
LEMMA PartsInitially == Init => PartsRight
<1> SUFFICES ASSUME Init PROVE PartsRight
  OBVIOUS
<1>1. /\ segs = EmptyRing /\ parts = EmptyPartLog /\ open = 0
  BY DEF Init
<1>2. PartCapacity \in Nat /\ MaxParts \in Nat
  BY CapacitiesAssumption, BoundsAssumption
<1>3. IndexRight(parts, PartRecords, PartCapacity)
  BY <1>1, <1>2, EmptyIndexRight
<1>4. parts.ring.entries = <<>> /\ segs.published = 0
  BY <1>1 DEF EmptyPartLog, EmptyRing
<1> QED BY <1>1, <1>2, <1>3, <1>4, UpToNone DEF PartsRight

\* A push as a shift of the resident parts.
LEMMA PushShifts ==
    ASSUME IndexRight(parts, PartRecords, PartCapacity), NEW x \in PartRecords
    PROVE  \E d : Shifted(parts.ring.entries, push(parts, PartCapacity, x).ring.entries, x, d)
<1> DEFINE ring == parts.ring
           new == RingPush(ring, PartCapacity, x)
           d == IF Len(ring.entries) = PartCapacity THEN 1 ELSE 0
<1>1. push(parts, PartCapacity, x).ring = new
  BY DEF push
<1>2. PartCapacity \in Nat \ {0}
  BY CapacitiesAssumption
<1>3. ring \in PartRings(PartRecords) /\ RingOK(ring, PartCapacity)
  BY DEF IndexRight
<1>4. Pushed(ring, new, PartCapacity, x, PartRecords, d)
  BY <1>2, <1>3, RingPushed
<1>5. d \in 0..1
  OBVIOUS
<1> HIDE DEF new, d
<1>6. ring.entries \in Seq(PartRecords)
  BY <1>3 DEF PartRings
<1>7. Shifted(ring.entries, new.entries, x, d)
  BY <1>4, <1>5, <1>6 DEF Pushed, Shifted, PartRings
<1> QED BY <1>1, <1>7

\* The part published next.
NextPart == [n |-> last_closed + 1, i |-> open, id |-> <<last_closed + 1, open>>]

\* Publishing it.
LEMMA PublishedPart ==
    ASSUME OriginInv, PartsRight, PublishPart
    PROVE  /\ NextPart \in PartRecords /\ NextPart.n = segs.published + 1 /\ NextPart.i = open
           /\ IndexRight(parts', PartRecords, PartCapacity) /\ open' = open + 1 /\ segs' = segs
           /\ open' \in 0..MaxParts /\ UNCHANGED <<inits, window, pc, loc>>
           /\ \E d : Shifted(parts.ring.entries, parts'.ring.entries, NextPart, d)
<1>1. /\ open < MaxParts /\ parts' = push(parts, PartCapacity, NextPart)
      /\ open' = open + 1 /\ segs' = segs /\ UNCHANGED <<inits, window, pc, loc>>
  BY DEF PublishPart, NextPart, drainVars
<1>2. last_closed = segs.published /\ segs.published \in Nat
  BY SegsLemma DEF OriginInv
<1>3. open \in Nat /\ MaxParts \in Nat
  BY BoundsAssumption DEF OriginInv, Shape
<1>4. NextPart \in PartRecords /\ NextPart.n = segs.published + 1 /\ NextPart.i = open
  BY <1>1, <1>2, <1>3 DEF NextPart, PartRecords
<1>5. PartCapacity \in Nat \ {0} /\ IndexRight(parts, PartRecords, PartCapacity)
  BY CapacitiesAssumption DEF PartsRight
<1>6. IndexRight(parts', PartRecords, PartCapacity)
  BY <1>1, <1>4, <1>5, PushIndexRight
<1>7. \E d : Shifted(parts.ring.entries, parts'.ring.entries, NextPart, d)
  BY <1>1, <1>4, <1>5, PushShifts
<1>8. open + 1 \in 0..MaxParts
  BY <1>1, <1>3
<1> QED BY <1>1, <1>4, <1>6, <1>7, <1>8

\* Every step keeps the log in step.
LEMMA PartsStep == OriginInv /\ PartsRight /\ [Next]_vars => PartsRight'
<1> SUFFICES ASSUME OriginInv, PartsRight, [Next]_vars PROVE PartsRight'
  OBVIOUS
<1> DEFINE R == parts.ring.entries
           m == segs.published
<1>1. /\ m \in Nat /\ open \in Nat /\ UpTo(R, m, open) /\ R \in Seq(PartRecords)
      /\ IndexRight(parts, PartRecords, PartCapacity)
  BY SegsLemma DEF OriginInv, Shape, PartsRight, IndexRight, PartRings
<1>2. CASE UNCHANGED <<segs, parts, open>>
  BY <1>2 DEF PartsRight
<1>3. CASE PublishPart
  <2>1. PICK d : Shifted(R, parts'.ring.entries, NextPart, d)
    BY <1>3, PublishedPart
  <2>2. /\ NextPart.n = m + 1 /\ NextPart.i = open /\ open' = open + 1 /\ segs' = segs
        /\ open' \in 0..MaxParts /\ IndexRight(parts', PartRecords, PartCapacity)
    BY <1>3, PublishedPart
  <2>3. UpTo(parts'.ring.entries, m, open + 1)
    <3> HIDE DEF R, m
    <3> QED BY <1>1, <2>1, <2>2, UpToPushed
  <2> QED BY <2>2, <2>3 DEF PartsRight
<1>4. CASE CloseSegment
  <2>1. open > 0 /\ parts' = parts /\ open' = 0 /\ segs'.published = m + 1
    BY <1>4 DEF CloseSegment, RingPush
  <2>2. UpTo(R, m + 1, 0)
    <3> HIDE DEF R, m
    <3> QED BY <1>1, <2>1, UpToClosed
  <2>3. 0 \in 0..MaxParts
    BY BoundsAssumption
  <2> QED BY <1>1, <2>1, <2>2, <2>3 DEF PartsRight
<1>5. ASSUME NEW p \in Requests, Playlist(p) \/ Part(p) PROVE PartsRight'
  BY <1>2, <1>5, RequestFrame
<1> QED BY <1>2, <1>3, <1>4, <1>5 DEF Next, Segmenter, Cut, set_init, vars, trunkVars

-----------------------------------------------------------------------------
\* A closed segment, wherever it is kept, is counted right.

\* The closed segments whose resident parts are their last ones.
Whole(R, m) ==
    {e \in [n : Nat, under : Nat, count : Nat] : e.n <= m /\ EndsWhole(R, e.n, e.count)}

CountInv == Carries(segs, window, loc, Whole(parts.ring.entries, segs.published))

\* Larger sets carry as well.
LEMMA CarriesMore ==
    ASSUME NEW S, NEW W, NEW L, NEW G, NEW H, Carries(S, W, L, G), G \subseteq H
    PROVE  Carries(S, W, L, H)
<1>1. ASSUME NEW p \in Requests PROVE Hand(L[p], H)
  <2>1. Hand(L[p], G)
    BY DEF Carries
  <2> QED BY <2>1 DEF Hand
<1> QED BY <1>1 DEF Carries

\* The mark of a gap has no parts.
LEMMA GapIsWhole ==
    ASSUME NEW R \in Seq(PartRecords), NEW m \in Nat
    PROVE  Key(Gap) \in Whole(R, m)
<1>1. Key(Gap) = [n |-> 0, under |-> 0, count |-> 0]
  BY DEF Key, Gap
<1>2. ASSUME NEW k \in 1..Len(R) PROVE R[k].n # 0
  <2>1. R[k] \in PartRecords
    BY ElementOfSeq
  <2> HIDE DEF PartRecords
  <2> QED BY <2>1 DEF PartRecords
<1>3. EndsWhole(R, 0, 0)
  BY <1>2 DEF EndsWhole
<1> QED BY <1>1, <1>3 DEF Whole

\* Once closed, a segment stays whole.
LEMMA WholeStep ==
    ASSUME OriginInv, PartsRight, [Next]_vars
    PROVE  /\ Whole(parts.ring.entries, segs.published) \subseteq
                 Whole(parts'.ring.entries, segs'.published)
           /\ CloseSegment =>
                 [n |-> segs.published + 1, under |-> inits.generation, count |-> open]
                    \in Whole(parts'.ring.entries, segs'.published)
<1> DEFINE R == parts.ring.entries
           m == segs.published
<1>1. m \in Nat /\ open \in Nat /\ inits.generation \in Nat
  BY SegsLemma DEF OriginInv, Shape, Stores
<1>2. ASSUME ~CloseSegment, ~PublishPart PROVE UNCHANGED <<segs, parts>>
  BY <1>2, RequestFrame DEF Next, Segmenter, Cut, set_init, vars, trunkVars
<1>3. CASE PublishPart
  <2>1. PICK d : Shifted(R, parts'.ring.entries, NextPart, d)
    BY <1>3, PublishedPart
  <2>2. NextPart.n = m + 1 /\ segs' = segs /\ open' = open + 1
    BY <1>3, PublishedPart
  <2> DEFINE R2 == parts'.ring.entries
  <2> HIDE DEF R, m, R2
  <2>3. ASSUME NEW e \in Whole(R, m) PROVE e \in Whole(R2, m)
    <3>1. e.n \in Nat /\ e.count \in Nat /\ e.n <= m /\ EndsWhole(R, e.n, e.count)
      BY DEF Whole
    <3>2. NextPart.n # e.n
      BY <1>1, <2>2, <3>1
    <3>3. EndsWhole(R2, e.n, e.count)
      BY <2>1, <3>1, <3>2, OldWhole DEF R2
    <3> QED BY <2>3, <3>3 DEF Whole
  <2>4. ~CloseSegment
    BY <1>1, <2>2 DEF CloseSegment
  <2> QED BY <2>2, <2>3, <2>4 DEF R, m, R2
<1>4. CASE CloseSegment
  <2>1. parts' = parts /\ segs'.published = m + 1
    BY <1>4 DEF CloseSegment, RingPush
  <2>2. EndsWhole(R, m + 1, open)
    BY DEF PartsRight, UpTo
  <2> HIDE DEF R, m
  <2>3. Whole(R, m) \subseteq Whole(R, m + 1)
    BY <1>1 DEF Whole
  <2>4. [n |-> m + 1, under |-> inits.generation, count |-> open] \in Whole(R, m + 1)
    BY <1>1, <2>2 DEF Whole
  <2> QED BY <2>1, <2>3, <2>4 DEF R, m
<1> QED BY <1>2, <1>3, <1>4

\* Every step keeps the counts.
LEMMA CountStep == OriginInv /\ PartsRight /\ CountInv /\ [Next]_vars => CountInv'
<1> SUFFICES ASSUME OriginInv, PartsRight, CountInv, [Next]_vars PROVE CountInv'
  OBVIOUS
<1>1. OriginInv' /\ PartsRight'
  BY OriginStep, PartsStep
<1>2. parts'.ring.entries \in Seq(PartRecords) /\ segs'.published \in Nat
  BY <1>1 DEF PartsRight, IndexRight, PartRings, OriginInv, SegsRight, SegmentRings
<1>3. PICK F : F = Whole(parts.ring.entries, segs.published)
  OBVIOUS
<1>4. PICK G : G = Whole(parts'.ring.entries, segs'.published)
  OBVIOUS
<1>5. F \subseteq G
  BY <1>3, <1>4, WholeStep
<1>6. Carries(segs, window, loc, G)
  BY <1>3, <1>5, CarriesMore DEF CountInv
<1>7. Key(Gap) \in G
  BY <1>2, <1>4, GapIsWhole
<1>8. CloseSegment =>
         [n |-> segs.published + 1, under |-> inits.generation, count |-> open] \in G
  BY <1>4, WholeStep
<1>9. Carries(segs', window', loc', G)
  BY <1>6, <1>7, <1>8, CarriesStep
<1> QED BY <1>4, <1>9 DEF CountInv

\* Before the first segment.
LEMMA CountInitially == Init => CountInv
<1> SUFFICES ASSUME Init PROVE CountInv
  OBVIOUS
<1>1. /\ segs.entries = <<>> /\ window.segments = <<>>
      /\ \A p \in Requests : loc[p] = NoLocals
  BY DEF Init, EmptyRing, EmptyWindow
<1>2. NoLocals.polled = <<>> /\ NoLocals.prepared = <<>> /\ NoLocals.view = <<>>
  BY DEF NoLocals
<1>3. 1..Len(<<>>) = {}
  BY EmptySeq
<1> HIDE DEF Whole
<1>4. \A G : Hand(NoLocals, G)
  BY <1>2, <1>3 DEF Hand
<1> QED BY <1>1, <1>3, <1>4 DEF CountInv, Carries

\* A playlist lists a closed segment with all its parts or with none.
LEMMA WholeParts ==
    ASSUME PartsRight, CountInv
    PROVE  ClosedPartsWhole
<1> SUFFICES ASSUME NEW p \in Requests, NEW k \in 1..Len(playlist(loc[p]).segments)
             PROVE  playlist(loc[p]).segments[k].parts
                       \in {{}, 0..(playlist(loc[p]).segments[k].count - 1)}
  BY DEF ClosedPartsWhole, Rendering
<1> DEFINE l == loc[p]
           v == l.view
           near == Len(v) - PartRetention
           listed == [i \in 1..Len(v) |->
                        [n |-> v[i].n, init_gen |-> v[i].init_gen, count |-> v[i].count,
                         parts |-> IF i > near THEN resident_part_specs(v[i].n) ELSE {}]]
           R == parts.ring.entries
<1>1. playlist(l).segments = listed
  BY DEF playlist
<1>2. Len(listed) = Len(v)
  OBVIOUS
<1>3. ASSUME NEW i \in 1..Len(v)
      PROVE  /\ listed[i].count = v[i].count
             /\ listed[i].parts = IF i > near THEN resident_part_specs(v[i].n) ELSE {}
  OBVIOUS
<1>4. \A i \in 1..Len(v) : Key(v[i]) \in Whole(R, segs.published)
  BY DEF CountInv, Carries, Hand
<1>5. ASSUME NEW i \in 1..Len(v) PROVE v[i].count \in Nat /\ EndsWhole(R, v[i].n, v[i].count)
  <2> HIDE DEF v, R
  <2>1. Key(v[i]) \in Whole(R, segs.published)
    BY <1>4
  <2>2. Key(v[i]).n = v[i].n /\ Key(v[i]).count = v[i].count
    BY DEF Key
  <2> HIDE DEF Key
  <2> QED BY <2>1, <2>2 DEF Whole
<1>6. IndexRight(parts, PartRecords, PartCapacity)
  BY DEF PartsRight
<1> HIDE DEF listed, near, l
<1>7. k \in 1..Len(v)
  BY <1>1, <1>2 DEF l
<1>8. v[k].count \in Nat /\ EndsWhole(R, v[k].n, v[k].count)
  BY <1>5, <1>7
<1>9. resident_part_specs(v[k].n) \in {{}, 0..(v[k].count - 1)}
  BY <1>6, <1>8, WholeOrNone
<1>10. listed[k].parts \in {{}, 0..(listed[k].count - 1)}
  <2> HIDE DEF v
  <2> QED BY <1>3, <1>7, <1>9
<1> QED BY <1>1, <1>10 DEF l

-----------------------------------------------------------------------------
\* What a request saw when it began, against what it finds later.

Asking == {"gate", "poll", "prepare", "fill", "view", "edge", "probe", "render"}

\* Where the resident parts reach f's segment, they reach the part before f.
Fresh(R, f) ==
    \A k \in 1..Len(R) : R[k].n = f.n =>
        \E j \in k..Len(R) : R[j].n = f.n /\ R[j].i + 1 >= f.i

\* f was the next part, or a later one is by now.
Seen(f, R, m, o) ==
    /\ f.n \in Nat \ {0} /\ f.i \in Nat /\ f.n <= m + 1 /\ (f.n = m + 1 => f.i <= o)
    /\ Fresh(R, f)

\* The resident parts all come after segment n.
Beyond(R, n) == Len(R) > 0 /\ \A k \in 1..Len(R) : R[k].n > n

\* The open segment as it was read: not behind f, or evicted altogether.
Probed(ps, e, f, R) ==
    f.n = e + 1 =>
        /\ ps # <<>> => one_past(ps) \in Nat /\ one_past(ps) >= f.i
        /\ ps = <<>> /\ f.i > 0 => Beyond(R, e + 1)

FreshRight(l, at, R, m, o) ==
    /\ at \in Asking => Seen(l.from, R, m, o)
    /\ at \in {"probe", "render"} => l.edge \in Nat /\ l.from.n <= l.edge + 1
    /\ at = "render" => Probed(l.open, l.edge, l.from, R)

FreshInv ==
    \A p \in Requests : FreshRight(loc[p], pc[p], parts.ring.entries, segs.published, open)

\* A part published leaves what was seen in place.
LEMMA FreshPushed ==
    ASSUME NEW R, NEW R2, NEW x, NEW d, Shifted(R, R2, x, d), NEW f, Fresh(R, f),
           x.n = f.n => x.i + 1 >= f.i
    PROVE  Fresh(R2, f)
<1>1. /\ Len(R) \in Nat /\ Len(R2) \in Nat /\ d \in 0..1 /\ R2[Len(R2)] = x
      /\ Len(R2) \in 1..Len(R2)
      /\ \A k \in 1..Len(R2) : k # Len(R2) => R2[k] = R[k + d] /\ k + d \in 1..Len(R)
      /\ \A k \in 1..Len(R2), j \in 1..Len(R) : j >= k + d =>
            /\ j - d \in k..Len(R2) /\ j - d # Len(R2) /\ R2[j - d] = R[j]
  BY ShiftedPositions
<1> SUFFICES ASSUME NEW k \in 1..Len(R2), R2[k].n = f.n
             PROVE  \E j \in k..Len(R2) : R2[j].n = f.n /\ R2[j].i + 1 >= f.i
  BY DEF Fresh
<1>2. CASE k = Len(R2)
  <2>1. k \in k..Len(R2)
    BY <1>1
  <2> QED BY <1>1, <1>2, <2>1
<1>3. CASE k # Len(R2)
  <2> DEFINE h == k + d
  <2>1. h \in 1..Len(R) /\ R2[k] = R[h]
    BY <1>1, <1>3
  <2>2. PICK j \in h..Len(R) : R[j].n = f.n /\ R[j].i + 1 >= f.i
    BY <2>1 DEF Fresh
  <2>3. j \in 1..Len(R) /\ j >= k + d
    BY <1>1, <2>1, <2>2
  <2>4. j - d \in k..Len(R2) /\ R2[j - d] = R[j]
    BY <1>1, <2>3
  <2> QED BY <2>2, <2>4
<1> QED BY <1>2, <1>3

\* A part published comes after what is beyond n.
LEMMA BeyondPushed ==
    ASSUME NEW R, NEW R2, NEW x, NEW d, Shifted(R, R2, x, d), NEW n \in Nat, Beyond(R, n),
           NEW m \in Nat, x.n = m + 1, \A k \in 1..Len(R) : R[k].n <= m + 1
    PROVE  Beyond(R2, n)
<1>1. /\ Len(R) \in Nat /\ Len(R2) \in Nat /\ R2[Len(R2)] = x
      /\ Len(R2) \in 1..Len(R2)
      /\ \A k \in 1..Len(R2) : k # Len(R2) => R2[k] = R[k + d] /\ k + d \in 1..Len(R)
  BY ShiftedPositions
<1>2. 1 \in 1..Len(R) /\ R[1].n > n /\ R[1].n <= m + 1
  BY <1>1 DEF Beyond
<1>3. R[1] \in PartRecords
  BY <1>2, ElementOfSeq DEF Shifted
<1>4. R[1].n \in Nat
  BY <1>3 DEF PartRecords
<1>5. x.n > n
  BY <1>2, <1>4
<1>6. ASSUME NEW k \in 1..Len(R2) PROVE R2[k].n > n
  BY <1>1, <1>5 DEF Beyond
<1>7. Len(R2) > 0
  BY <1>1
<1> QED BY <1>6, <1>7 DEF Beyond

\* The part the segmenter publishes next is fresh.
LEMMA NextIsSeen ==
    ASSUME NEW R \in Seq(PartRecords), NEW m \in Nat, NEW o \in Nat, UpTo(R, m, o)
    PROVE  Seen([n |-> m + 1, i |-> o], R, m, o)
<1>1. EndsWhole(R, m + 1, o) /\ Len(R) \in Nat
  BY LenProperties DEF UpTo
<1> DEFINE f == [n |-> m + 1, i |-> o]
<1>2. f.n = m + 1 /\ f.i = o
  OBVIOUS
<1>3. ASSUME NEW k \in 1..Len(R), R[k].n = m + 1
      PROVE  \E j \in k..Len(R) : R[j].n = m + 1 /\ R[j].i + 1 >= o
  <2>1. R[k] \in PartRecords
    BY ElementOfSeq
  <2>2. R[k].i \in Nat
    BY <2>1 DEF PartRecords
  <2>3. /\ R[k].i < o
        /\ \A i \in R[k].i..(o - 1) : \E j \in k..Len(R) : R[j].n = m + 1 /\ R[j].i = i
    BY <1>1, <1>3 DEF EndsWhole
  <2>4. o - 1 \in R[k].i..(o - 1) /\ (o - 1) + 1 >= o
    BY <2>2, <2>3
  <2>5. PICK j \in k..Len(R) : R[j].n = m + 1 /\ R[j].i = o - 1
    BY <2>3, <2>4
  <2> QED BY <2>4, <2>5
<1> HIDE DEF f
<1>4. Fresh(R, f)
  BY <1>2, <1>3 DEF Fresh
<1>5. /\ f.n \in Nat \ {0} /\ f.i \in Nat /\ f.n <= m + 1 /\ (f.n = m + 1 => f.i <= o)
  BY <1>2
<1> QED BY <1>4, <1>5 DEF Seen, f

\* What a lookup of the segment after e shows of f.
LEMMA ProbeRight ==
    ASSUME NEW R, NEW m \in Nat, NEW o \in Nat, UpTo(R, m, o), NEW f, Seen(f, R, m, o),
           NEW e \in Nat, NEW ps, Found(R, e + 1, ps)
    PROVE  Probed(ps, e, f, R)
<1> SUFFICES ASSUME f.n = e + 1
             PROVE  /\ ps # <<>> => one_past(ps) \in Nat /\ one_past(ps) >= f.i
                    /\ ps = <<>> /\ f.i > 0 => Beyond(R, e + 1)
  BY DEF Probed
<1> DEFINE n == e + 1
           h == one_past(ps)
<1>0. /\ R \in Seq(PartRecords) /\ Len(R) \in Nat /\ n \in Nat \ {0} /\ n = f.n
      /\ (ps = <<>>) <=> (\A j \in 1..Len(R) : R[j].n # n)
  BY DEF Found
<1>1. f.i \in Nat /\ n <= m + 1 /\ (n = m + 1 => f.i <= o) /\ Fresh(R, f)
  BY <1>0 DEF Seen
<1>2. h \in Nat /\ \A j \in 1..Len(R) : R[j].n = n => R[j].i + 1 <= h
  BY OnePast
<1> HIDE DEF n, h
<1>3. ASSUME NEW k \in 1..Len(R), R[k].n = n PROVE h >= f.i
  <2>1. PICK j \in k..Len(R) : R[j].n = n /\ R[j].i + 1 >= f.i
    BY <1>0, <1>1, <1>3 DEF Fresh
  <2>2. j \in 1..Len(R)
    BY <1>0, <2>1
  <2>3. R[j] \in PartRecords
    BY <1>0, <2>2, ElementOfSeq
  <2>4. R[j].i \in Nat
    BY <2>3 DEF PartRecords
  <2>5. R[j].i + 1 <= h
    BY <1>2, <2>1, <2>2
  <2> DEFINE y == R[j].i
  <2>6. y \in Nat /\ y + 1 <= h /\ y + 1 >= f.i
    BY <2>1, <2>4, <2>5
  <2> HIDE DEF y
  <2> QED BY <1>1, <1>2, <2>6
<1>4. ASSUME ps = <<>>, f.i > 0 PROVE Beyond(R, n)
  <2>1. \A j \in 1..Len(R) : R[j].n # n
    BY <1>0, <1>4
  <2> DEFINE top == IF o > 0 THEN m + 1 ELSE m
             b == Len(R)
  <2>2. m > 0 \/ o > 0
    BY <1>0, <1>1, <1>4
  <2>3. b > 0 /\ R[b].n = top
    BY <2>2 DEF UpTo
  <2>4. n <= top /\ top \in Nat
    BY <1>0, <1>1, <1>4
  <2> HIDE DEF top, b
  <2>5. ASSUME NEW k \in 1..Len(R), ~(R[k].n > n) PROVE FALSE
    <3>1. R[k] \in PartRecords
      BY <1>0, ElementOfSeq
    <3>2. R[k].n \in Nat
      BY <3>1 DEF PartRecords
    <3>3. R[k].n <= n
      BY <1>0, <2>5, <3>2
    <3>4. n <= R[Len(R)].n
      BY <2>3, <2>4 DEF b
    <3>5. Unbroken(R)
      BY DEF UpTo
    <3>6. PICK j \in k..Len(R) : R[j].n = n
      BY <1>0, <3>3, <3>4, <3>5 DEF Unbroken
    <3>7. j \in 1..Len(R)
      BY <1>0, <3>6
    <3> QED BY <2>1, <3>6, <3>7
  <2> QED BY <2>3, <2>5 DEF Beyond, b
<1> QED BY <1>0, <1>2, <1>3, <1>4 DEF n, h

\* The segmenter publishes or closes under requests on their way.
LEMMA FreshUnderPublish ==
    ASSUME OriginInv, PartsRight, PublishPart, NEW l, NEW at,
           FreshRight(l, at, parts.ring.entries, segs.published, open)
    PROVE  FreshRight(l, at, parts'.ring.entries, segs'.published, open')
<1> DEFINE R == parts.ring.entries
           R2 == parts'.ring.entries
           m == segs.published
           x == NextPart
           f == l.from
<1>1. /\ m \in Nat /\ open \in Nat /\ UpTo(R, m, open)
  BY SegsLemma DEF OriginInv, Shape, PartsRight
<1>2. PICK d : Shifted(R, R2, x, d)
  BY PublishedPart
<1>3. /\ x.n = m + 1 /\ x.i = open /\ open' = open + 1 /\ segs' = segs
  BY PublishedPart
<1>4. \A k \in 1..Len(R) : R[k].n <= m + 1
  BY <1>1 DEF UpTo
<1>5. FreshRight(l, at, R, m, open)
  OBVIOUS
<1> HIDE DEF R, R2, m, x, f
<1>6. ASSUME at \in Asking PROVE Seen(f, R2, m, open + 1)
  <2>1. Seen(f, R, m, open)
    BY <1>5, <1>6 DEF FreshRight, f
  <2>2. /\ f.n \in Nat \ {0} /\ f.i \in Nat /\ f.n <= m + 1 /\ (f.n = m + 1 => f.i <= open)
        /\ Fresh(R, f)
    BY <2>1 DEF Seen
  <2>3. x.n = f.n => x.i + 1 >= f.i
    BY <1>1, <1>3, <2>2
  <2>4. Fresh(R2, f)
    BY <1>2, <2>2, <2>3, FreshPushed
  <2>5. f.n = m + 1 => f.i <= open + 1
    BY <1>1, <2>2
  <2> QED BY <2>2, <2>4, <2>5 DEF Seen
<1>7. ASSUME at = "render" PROVE Probed(l.open, l.edge, f, R2)
  <2>1. Probed(l.open, l.edge, f, R) /\ l.edge + 1 \in Nat
    BY <1>5, <1>7 DEF FreshRight, f
  <2>2. Beyond(R, l.edge + 1) => Beyond(R2, l.edge + 1)
    BY <1>1, <1>2, <1>3, <1>4, <2>1, BeyondPushed
  <2> QED BY <2>1, <2>2 DEF Probed
<1>8. FreshRight(l, at, R2, m, open + 1)
  BY <1>5, <1>6, <1>7 DEF FreshRight, f
<1> QED BY <1>3, <1>8 DEF m, R2

\* A segment closed.
LEMMA FreshUnderClose ==
    ASSUME NEW R, NEW m \in Nat, NEW o \in Nat, NEW l, NEW at, FreshRight(l, at, R, m, o)
    PROVE  FreshRight(l, at, R, m + 1, 0)
<1>1. ASSUME at \in Asking PROVE Seen(l.from, R, m + 1, 0)
  BY <1>1 DEF FreshRight, Seen
<1> QED BY <1>1 DEF FreshRight

\* A request that is on its way has begun, and keeps what it saw.
LEMMA FromFrame ==
    ASSUME OriginInv, NEW p \in Requests, Playlist(p) \/ Part(p), pc'[p] \in Asking
    PROVE  \/ BeginPlaylist(p)
           \/ pc[p] \in Asking /\ loc'[p].from = loc[p].from
<1>1. /\ pc \in [Requests -> Places] /\ DOMAIN loc = Requests /\ DOMAIN loc[p] = Fields
  BY LocLemma DEF Local
<1> DEFINE Goal == pc[p] \in Asking /\ loc'[p].from = loc[p].from
<1>2. CASE TakeGate(p) \/ PollEmpty(p) \/ LockWindow(p)
  BY <1>2 DEF TakeGate, PollEmpty, LockWindow, Asking
<1>3. CASE GateNotNeeded(p) \/ StoreHead(p)
  <2>1. /\ pc[p] \in {"gate", "fill"}
        /\ loc' = [loc EXCEPT ![p] = [NoLocals EXCEPT !.from = loc[p].from]]
    BY <1>3 DEF GateNotNeeded, StoreHead
  <2>2. loc'[p].from = loc[p].from
    BY <1>1, <2>1 DEF NoLocals
  <2> QED BY <2>1, <2>2 DEF Asking
<1>4. CASE PollSegment(p) \/ PollLagged(p)
  <2>1. PICK x : loc' = [loc EXCEPT ![p].polled = x] /\ pc[p] = "poll"
    BY <1>4 DEF PollSegment, PollLagged
  <2> QED BY <1>1, <2>1 DEF Asking, Fields
<1>5. CASE Prepare(p)
  <2>1. PICK x, y : loc' = [loc EXCEPT ![p].polled = x, ![p].prepared = y] /\ pc[p] = "prepare"
    BY <1>5 DEF Prepare
  <2> QED BY <1>1, <2>1 DEF Asking, Fields
<1>6. CASE Absorb(p)
  <2>1. PICK x : loc' = [loc EXCEPT ![p].prepared = x] /\ pc[p] = "fill"
    BY <1>6 DEF Absorb
  <2> QED BY <1>1, <2>1 DEF Asking, Fields
<1>7. CASE WindowView(p)
  <2>1. PICK x : loc' = [loc EXCEPT ![p].view = x] /\ pc[p] = "view"
    BY <1>7 DEF WindowView
  <2> QED BY <1>1, <2>1 DEF Asking, Fields
<1>8. CASE LiveEdgeClosed(p)
  <2>1. PICK x : loc' = [loc EXCEPT ![p].edge = x] /\ pc[p] = "edge"
    BY <1>8 DEF LiveEdgeClosed
  <2> QED BY <1>1, <2>1 DEF Asking, Fields
<1>9. CASE LiveEdgeParts(p)
  <2>1. PICK x : loc' = [loc EXCEPT ![p].open = x] /\ pc[p] = "probe"
    BY <1>9 DEF LiveEdgeParts
  <2> QED BY <1>1, <2>1 DEF Asking, Fields
<1>10. ~Render(p) /\ \A n, i : ~RequestPart(p, n, i)
  BY <1>1 DEF Render, RequestPart, Goto, Asking
<1>11. /\ ~PartReady(p) /\ ~PartMissing(p) /\ ~PartOutOfReach(p) /\ ~PartInReach(p)
       /\ ~PartNotHinted(p) /\ ~PartPending(p) /\ ~ResolveAgain(p) /\ ~Finish(p)
  BY <1>1 DEF PartReady, PartMissing, PartOutOfReach, PartInReach, PartNotHinted,
              PartPending, ResolveAgain, Finish, Goto, Asking
<1> QED BY <1>2, <1>3, <1>4, <1>5, <1>6, <1>7, <1>8, <1>9, <1>10, <1>11
        DEF Playlist, Drain, Part

\* A step of a request keeps its own view fresh.
LEMMA FreshRequest ==
    ASSUME OriginInv, PartsRight, NEW p \in Requests, Playlist(p) \/ Part(p),
           FreshRight(loc[p], pc[p], parts.ring.entries, segs.published, open)
    PROVE  FreshRight(loc'[p], pc'[p], parts.ring.entries, segs.published, open)
<1> DEFINE R == parts.ring.entries
           m == segs.published
           l == loc[p]
           l2 == loc'[p]
           at == pc'[p]
<1> SUFFICES FreshRight(l2, at, R, m, open)
  OBVIOUS
<1>1. /\ m \in Nat /\ open \in Nat /\ UpTo(R, m, open) /\ R \in Seq(PartRecords)
      /\ last_closed = m /\ IndexRight(parts, PartRecords, PartCapacity)
  BY SegsLemma DEF OriginInv, Shape, PartsRight, IndexRight, PartRings
<1>2. /\ pc \in [Requests -> Places] /\ DOMAIN loc = Requests /\ DOMAIN l = Fields
  BY LocLemma DEF Local
<1>3. FreshRight(l, pc[p], R, m, open)
  OBVIOUS
<1>4. ASSUME at \in Asking PROVE Seen(l2.from, R, m, open)
  <2>1. CASE BeginPlaylist(p)
    <3>1. PICK h : l2 = [NoLocals EXCEPT !.head = h, !.from = [n |-> last_closed + 1, i |-> open]]
      BY <1>2, <2>1 DEF BeginPlaylist
    <3>2. l2.from = [n |-> m + 1, i |-> open]
      BY <1>1, <3>1 DEF NoLocals
    <3> HIDE DEF R, m, l2
    <3> QED BY <1>1, <3>2, NextIsSeen
  <2>2. CASE pc[p] \in Asking /\ l2.from = l.from
    BY <1>3, <2>2 DEF FreshRight
  <2> QED BY <1>4, <2>1, <2>2, FromFrame
<1>5. CASE at \notin {"probe", "render"}
  BY <1>4, <1>5 DEF FreshRight
<1>6. CASE LiveEdgeClosed(p)
  <2>1. pc[p] = "edge" /\ at = "probe" /\ l2 = [l EXCEPT !.edge = last_closed]
    BY <1>2, <1>6 DEF LiveEdgeClosed, Goto
  <2>2. l2.edge = m
    BY <1>1, <1>2, <2>1 DEF Fields
  <2>3. Seen(l2.from, R, m, open)
    BY <1>4, <2>1 DEF Asking
  <2> HIDE DEF l2, m, R, at
  <2> QED BY <1>1, <2>1, <2>2, <2>3 DEF FreshRight, Seen
<1>7. CASE LiveEdgeParts(p)
  <2> DEFINE ps == in_segment(parts, l.edge + 1)
  <2>1. pc[p] = "probe" /\ at = "render" /\ l2 = [l EXCEPT !.open = ps]
    BY <1>2, <1>7 DEF LiveEdgeParts, Goto
  <2> HIDE DEF ps
  <2>2. l2.open = ps /\ l2.edge = l.edge /\ l2.from = l.from
    BY <1>2, <2>1 DEF Fields
  <2>3. Seen(l2.from, R, m, open)
    BY <1>4, <2>1 DEF Asking
  <2>4. l.edge \in Nat /\ l.from.n <= l.edge + 1
    BY <1>3, <2>1 DEF FreshRight
  <2>5. Found(R, l.edge + 1, ps)
    BY <1>1, Lookup DEF ps
  <2> HIDE DEF l2, m, R, at, l
  <2>6. Probed(ps, l.edge, l2.from, R)
    BY <1>1, <2>3, <2>4, <2>5, ProbeRight
  <2> QED BY <2>1, <2>2, <2>3, <2>4, <2>6 DEF FreshRight
<1>8. CASE at \in {"probe", "render"} /\ WindowView(p)
  BY <1>2, <1>8 DEF WindowView, Goto
<1> QED BY <1>5, <1>6, <1>7, <1>8, CopiedLemma DEF Copied

\* FreshInv is inductive.
LEMMA FreshStep == OriginInv /\ PartsRight /\ FreshInv /\ [Next]_vars => FreshInv'
<1> SUFFICES ASSUME OriginInv, PartsRight, FreshInv, [Next]_vars PROVE FreshInv'
  OBVIOUS
<1> DEFINE R == parts.ring.entries
           m == segs.published
<1>1. m \in Nat /\ open \in Nat
  BY SegsLemma DEF OriginInv, Shape
<1>2. CASE UNCHANGED <<segs, parts, open, pc, loc>>
  BY <1>2 DEF FreshInv
<1>3. CASE PublishPart
  <2>1. UNCHANGED <<pc, loc>>
    BY <1>3, PublishedPart
  <2>2. \A p \in Requests :
           FreshRight(loc[p], pc[p], parts'.ring.entries, segs'.published, open')
    BY <1>3, FreshUnderPublish DEF FreshInv
  <2> QED BY <2>1, <2>2 DEF FreshInv
<1>4. CASE CloseSegment
  <2>1. open' = 0 /\ segs'.published = m + 1 /\ UNCHANGED <<parts, pc, loc>>
    BY <1>4 DEF CloseSegment, RingPush
  <2>2. \A p \in Requests : FreshRight(loc[p], pc[p], R, m + 1, 0)
    <3> HIDE DEF R, m
    <3> QED BY <1>1, FreshUnderClose DEF FreshInv, R, m
  <2> QED BY <2>1, <2>2 DEF FreshInv
<1>5. ASSUME NEW p \in Requests, Playlist(p) \/ Part(p) PROVE FreshInv'
  <2>1. UNCHANGED <<segs, parts, open>>
    BY <1>5, RequestFrame
  <2>2. \A q \in Requests \ {p} : pc'[q] = pc[q] /\ loc'[q] = loc[q]
    BY <1>5, OthersLemma
  <2>3. FreshRight(loc'[p], pc'[p], R, m, open)
    BY <1>5, FreshRequest DEF FreshInv
  <2>4. \A q \in Requests : FreshRight(loc'[q], pc'[q], R, m, open)
    BY <2>2, <2>3 DEF FreshInv
  <2> QED BY <2>1, <2>4 DEF FreshInv
<1> QED BY <1>2, <1>3, <1>4, <1>5 DEF Next, Segmenter, Cut, set_init, vars, trunkVars

\* The hint of a playlist is not behind what its request saw.
LEMMA HintFresh ==
    ASSUME PartsRight, CountInv, ViewInv, FreshInv
    PROVE  HintIsFresh
<1> SUFFICES ASSUME NEW p \in Requests, pc[p] = "render", playlist(loc[p]).hint # NoHint
             PROVE  NotBefore(playlist(loc[p]).hint, loc[p].from)
  BY ZenonT(40) DEF HintIsFresh, Rendering
<1> DEFINE l == loc[p]
           v == l.view
           near == Len(v) - PartRetention
           listed == [i \in 1..Len(v) |->
                        [n |-> v[i].n, init_gen |-> v[i].init_gen, count |-> v[i].count,
                         parts |-> IF i > near THEN resident_part_specs(v[i].n) ELSE {}]]
           seq == IF l.open = <<>> THEN l.edge ELSE l.edge + 1
           some == \E k \in 1..Len(listed) : listed[k].parts # {}
           hint == playlist(l).hint
           R == parts.ring.entries
           f == l.from
<1>1. hint = IF l.open # <<>> THEN [n |-> seq, i |-> one_past(l.open)]
             ELSE IF some THEN [n |-> seq + 1, i |-> 0] ELSE NoHint
  BY DEF playlist
<1>2. FreshRight(l, "render", R, segs.published, open)
  BY DEF FreshInv
<1>3. /\ l.edge \in Nat /\ f.n <= l.edge + 1 /\ f.n \in Nat /\ f.i \in Nat
      /\ Probed(l.open, l.edge, f, R)
  BY <1>2 DEF FreshRight, Seen, Asking
<1>4. ViewRight(l, "render", segs.published)
  BY DEF ViewInv
<1>5. \A i \in 1..Len(v) : v[i].n \in Nat /\ v[i].n <= l.edge
  BY <1>4 DEF ViewRight, Copied
<1>6. Len(listed) = Len(v)
  OBVIOUS
<1>7. ASSUME NEW i \in 1..Len(v)
      PROVE  listed[i].parts = IF i > near THEN resident_part_specs(v[i].n) ELSE {}
  OBVIOUS
<1>8. \A i \in 1..Len(v) : Key(v[i]) \in Whole(R, segs.published)
  BY DEF CountInv, Carries, Hand
<1>9. IndexRight(parts, PartRecords, PartCapacity) /\ R \in Seq(PartRecords)
  BY DEF PartsRight, IndexRight, PartRings
<1> SUFFICES ASSUME hint # NoHint PROVE NotBefore(hint, f)
  OBVIOUS
<1> HIDE DEF listed, near, hint, v
<1>10. CASE l.open # <<>>
  <2>1. hint.n = l.edge + 1 /\ hint.i = one_past(l.open)
    BY <1>1, <1>10
  <2>2. f.n = l.edge + 1 => hint.i >= f.i
    BY <1>3, <1>10, <2>1 DEF Probed
  <2> HIDE DEF l, f
  <2> QED BY <1>3, <2>1, <2>2 DEF NotBefore
<1>11. CASE l.open = <<>>
  <2>1. some
    BY <1>1, <1>11
  <2>2. hint.n = l.edge + 1 /\ hint.i = 0
    BY <1>1, <1>11, <2>1
  <2>3. PICK k \in 1..Len(v) : listed[k].parts # {}
    BY <1>6, <2>1
  <2>4. resident_part_specs(v[k].n) # {}
    BY <1>7, <2>3
  <2>5. v[k].count \in Nat /\ EndsWhole(R, v[k].n, v[k].count)
    <3> HIDE DEF R
    <3>1. Key(v[k]) \in Whole(R, segs.published)
      BY <1>8
    <3>2. Key(v[k]).n = v[k].n /\ Key(v[k]).count = v[k].count
      BY DEF Key
    <3> HIDE DEF Key
    <3> QED BY <3>1, <3>2 DEF Whole
  <2>6. PICK j \in 1..Len(R) : R[j].n = v[k].n
    BY <1>9, <2>4, <2>5, WholeOrNone
  <2>7. R[j].n \in Nat /\ R[j].n <= l.edge
    BY <1>5, <2>6
  <2>8. ~Beyond(R, l.edge + 1)
    BY <1>3, <2>7 DEF Beyond
  <2>9. f.n = l.edge + 1 => ~(f.i > 0)
    BY <1>3, <1>11, <2>8 DEF Probed
  <2> HIDE DEF l, f
  <2> QED BY <1>3, <2>2, <2>9 DEF NotBefore
<1> QED BY <1>10, <1>11

\* The parts, the counts and what every request saw, with OriginInv.
PageInv == OriginInv /\ PartsRight /\ CountInv /\ ViewInv /\ FreshInv

\* What a playlist is put together from is consistent in every reachable state.
THEOREM PageSafe == Spec => []PageInv
<1>1. Init => PageInv
  <2>1. Init => ViewInv
    BY DEF Init, ViewInv, ViewRight, Copied
  <2>2. Init => FreshInv
    BY DEF Init, FreshInv, FreshRight, Asking
  <2> QED BY <2>1, <2>2, OriginInit, PartsInitially, CountInitially DEF PageInv
<1>2. PageInv /\ [Next]_vars => PageInv'
  BY OriginStep, PartsStep, CountStep, ViewStep, FreshStep DEF PageInv
<1> QED BY <1>1, <1>2, PTL DEF Spec

\* A rendered playlist, read under four locks while the segmenter publishes and
\* evicts, is consistent: no segment is both closed and open, the hint is never
\* behind the parts that existed when the request began, and a closed segment
\* has all its parts or none.
THEOREM PlaylistHonestHolds == Spec => []PlaylistHonest
<1>1. PageInv => TypeOK
  <2> SUFFICES ASSUME PageInv PROVE TypeOK
    OBVIOUS
  <2>1. RingOK(segs, SegmentCapacity) /\ cursor \in 0..segs.published
    BY DEF PageInv, OriginInv, SegsRight
  <2>2. RingOK(parts.ring, PartCapacity) /\ open \in 0..MaxParts
    BY DEF PageInv, PartsRight, IndexRight
  <2>3. Len(window.segments) <= WindowCapacity
    BY DEF PageInv, OriginInv, WindowRight
  <2>4. gate \in Requests \cup {Nobody} /\ pc \in [Requests -> Places] /\ queued \in 0..MaxQueued
    BY DEF PageInv, OriginInv, Shape
  <2> QED BY <2>1, <2>2, <2>3, <2>4 DEF TypeOK, Places
<1>2. PageInv => HintIsFresh /\ ClosedPartsWhole
  BY HintFresh, WholeParts DEF PageInv
<1> QED BY <1>1, <1>2, PageSafe, NoSegmentTwiceHolds, PTL DEF PlaylistHonest

-----------------------------------------------------------------------------
\* A request for the part that comes next.

Resolving == {"part", "closed?", "hinted?", "pending"}

\* It was the next part when it was asked for, and may be out by now.
Hinted(ask, m, o) ==
    ask.n \in Nat /\ ask.i \in Nat /\ ask.n <= m + 1 /\ (ask.n = m + 1 => ask.i <= o)

\* It is out, or its segment has closed.
Over(ask, m, o) == ask.n <= m \/ (ask.n = m + 1 /\ ask.i < o)

HintedRight(l, at, m, o) ==
    l.hinted =>
        /\ at \in Resolving \cup {"NotFound"} => Hinted(l.ask, m, o)
        /\ at = "NotFound" => Over(l.ask, m, o)

HintedInv == \A p \in Requests : HintedRight(loc[p], pc[p], segs.published, open)

\* The part a request may wait for is the one the segmenter publishes next.
LEMMA NextHinted ==
    ASSUME PartsRight, NEW m \in Nat, m = segs.published, open \in Nat
    PROVE  next_hinted(m + 1) = open
<1> DEFINE R == parts.ring.entries
           n == m + 1
           ps == in_segment(parts, n)
           h == one_past(ps)
<1>1. next_hinted(m + 1) = h
  BY DEF next_hinted
<1>2. Found(R, n, ps)
  BY Lookup DEF PartsRight
<1>3. /\ h \in Nat
      /\ \A j \in 1..Len(R) : R[j].n = n => R[j].i + 1 <= h
      /\ h = 0 \/ \E j \in 1..Len(R) : R[j].n = n /\ h = R[j].i + 1
  <2> HIDE DEF ps, R, n
  <2> QED BY <1>2, OnePast
<1>4. /\ UpTo(R, m, open) /\ R \in Seq(PartRecords) /\ Len(R) \in Nat
  BY <1>2 DEF PartsRight, Found
<1> HIDE DEF h, ps, R
<1>5. h <= open
  <2>1. CASE h = 0
    BY <2>1
  <2>2. ASSUME NEW j \in 1..Len(R), R[j].n = n, h = R[j].i + 1 PROVE h <= open
    <3>1. R[j].i < open
      BY <1>4, <2>2 DEF UpTo, EndsWhole
    <3>2. R[j] \in PartRecords
      BY <1>4, ElementOfSeq
    <3>3. R[j].i \in Nat
      BY <3>2 DEF PartRecords
    <3> QED BY <2>2, <3>1, <3>3
  <2> QED BY <1>3, <2>1, <2>2
<1>6. open <= h
  <2>1. CASE open = 0
    BY <1>3, <2>1
  <2>2. CASE open > 0
    <3> DEFINE b == Len(R)
    <3>1. b > 0 /\ R[b].n = n
      BY <1>4, <2>2 DEF UpTo
    <3>2. b \in 1..Len(R)
      BY <1>4, <3>1
    <3>3. R[b] \in PartRecords
      BY <1>4, <3>2, ElementOfSeq
    <3>4. R[b].i \in Nat
      BY <3>3 DEF PartRecords
    <3>5. /\ R[b].i < open
          /\ \A i \in R[b].i..(open - 1) : \E j \in b..Len(R) : R[j].n = n /\ R[j].i = i
      BY <1>4, <3>1, <3>2 DEF UpTo, EndsWhole
    <3>6. open - 1 \in R[b].i..(open - 1)
      BY <3>4, <3>5
    <3>7. PICK j \in b..Len(R) : R[j].n = n /\ R[j].i = open - 1
      BY <3>5, <3>6
    <3>8. j \in 1..Len(R)
      BY <3>2, <3>7
    <3>9. (open - 1) + 1 <= h
      BY <1>3, <3>7, <3>8
    <3> QED BY <1>3, <3>9
  <2> QED BY <2>1, <2>2
<1> QED BY <1>1, <1>3, <1>5, <1>6

\* Where a request for a part comes from.
LEMMA PartFrame ==
    ASSUME OriginInv, NEW p \in Requests, Playlist(p) \/ Part(p),
           pc'[p] \in Resolving \cup {"NotFound"}
    PROVE  \/ \E n, i : RequestPart(p, n, i)
           \/ PartOutOfReach(p) \/ PartNotHinted(p)
           \/ pc[p] \in Resolving /\ pc'[p] # "NotFound" /\ loc' = loc
<1>1. pc \in [Requests -> Places]
  BY DEF OriginInv, Shape
<1>2. ~Drain(p)
  BY <1>1 DEF Drain, TakeGate, PollSegment, PollLagged, PollEmpty, Prepare, LockWindow,
              Absorb, StoreHead, Goto, Resolving
<1>3. /\ ~BeginPlaylist(p) /\ ~GateNotNeeded(p) /\ ~WindowView(p) /\ ~LiveEdgeClosed(p)
      /\ ~LiveEdgeParts(p) /\ ~Render(p)
  BY <1>1 DEF BeginPlaylist, GateNotNeeded, WindowView, LiveEdgeClosed, LiveEdgeParts, Render,
              Goto, Resolving
<1>4. ~PartReady(p) /\ ~Finish(p)
  BY <1>1 DEF PartReady, Finish, Goto, Resolving
<1>5. CASE PartMissing(p) \/ PartInReach(p) \/ PartPending(p) \/ ResolveAgain(p)
  BY <1>1, <1>5 DEF PartMissing, PartInReach, PartPending, ResolveAgain, Goto, Resolving
<1> QED BY <1>2, <1>3, <1>4, <1>5 DEF Playlist, Part

\* A step of a request for a part.
LEMMA HintedRequest ==
    ASSUME OriginInv, PartsRight, NEW p \in Requests, Playlist(p) \/ Part(p),
           HintedRight(loc[p], pc[p], segs.published, open)
    PROVE  HintedRight(loc'[p], pc'[p], segs.published, open)
<1> DEFINE m == segs.published
           l == loc[p]
           l2 == loc'[p]
           at == pc'[p]
<1> SUFFICES HintedRight(l2, at, m, open)
  OBVIOUS
<1>1. m \in Nat /\ open \in Nat /\ last_closed = m
  BY SegsLemma DEF OriginInv, Shape
<1>2. /\ pc \in [Requests -> Places] /\ DOMAIN loc = Requests /\ DOMAIN l = Fields
  BY LocLemma DEF Local
<1>3. HintedRight(l, pc[p], m, open)
  OBVIOUS
<1>4. CASE at \notin Resolving \cup {"NotFound"}
  BY <1>4 DEF HintedRight
<1>5. ASSUME NEW n, NEW i, RequestPart(p, n, i) PROVE HintedRight(l2, at, m, open)
  <2> DEFINE y == (n = last_closed + 1 /\ i = open)
             a == [n |-> n, i |-> i]
  <2>1. /\ at = "part" /\ loc' = [loc EXCEPT ![p].ask = a, ![p].hinted = y]
    BY <1>2, <1>5 DEF RequestPart, Goto
  <2> HIDE DEF a, y
  <2>2. l2.ask = a /\ l2.hinted = y
    BY <1>2, <2>1 DEF Fields
  <2>3. y => a.n = m + 1 /\ a.i = open
    BY <1>1 DEF a, y
  <2> HIDE DEF l2, at, m
  <2>4. l2.hinted => Hinted(l2.ask, m, open)
    BY <1>1, <2>2, <2>3 DEF Hinted
  <2> QED BY <2>1, <2>4 DEF HintedRight
<1>6. CASE PartOutOfReach(p)
  <2>1. /\ l2 = l /\ pc[p] \in Resolving
        /\ m >= l.ask.n \/ l.ask.n > m + 2
    BY <1>1, <1>6 DEF PartOutOfReach, FUTURE_PART_SEGMENT_BOUND, Resolving
  <2> HIDE DEF l2, at, m, l
  <2>2. ASSUME l.hinted PROVE Hinted(l.ask, m, open) /\ Over(l.ask, m, open)
    <3>1. Hinted(l.ask, m, open)
      BY <1>3, <2>1, <2>2 DEF HintedRight
    <3>2. Over(l.ask, m, open)
      BY <1>1, <2>1, <3>1 DEF Hinted, Over
    <3> QED BY <3>1, <3>2
  <2> QED BY <2>1, <2>2 DEF HintedRight
<1>7. CASE PartNotHinted(p)
  <2>1. l2 = l /\ pc[p] \in Resolving /\ l.ask.i # next_hinted(l.ask.n)
    BY <1>7 DEF PartNotHinted, Resolving
  <2>2. next_hinted(m + 1) = open
    BY <1>1, NextHinted
  <2> HIDE DEF l2, at, m, l
  <2>3. ASSUME l.hinted PROVE Hinted(l.ask, m, open) /\ Over(l.ask, m, open)
    <3>1. Hinted(l.ask, m, open)
      BY <1>3, <2>1, <2>3 DEF HintedRight
    <3>2. CASE l.ask.n = m + 1
      <4>1. l.ask.i # open /\ l.ask.i <= open /\ l.ask.i \in Nat
        BY <2>1, <2>2, <3>1, <3>2 DEF Hinted
      <4> QED BY <1>1, <3>1, <3>2, <4>1 DEF Over
    <3>3. CASE l.ask.n # m + 1
      BY <1>1, <3>1, <3>3 DEF Hinted, Over
    <3> QED BY <3>1, <3>2, <3>3
  <2> QED BY <2>1, <2>3 DEF HintedRight
<1>8. CASE pc[p] \in Resolving /\ at # "NotFound" /\ loc' = loc
  BY <1>3, <1>8 DEF HintedRight
<1> QED BY <1>4, <1>5, <1>6, <1>7, <1>8, PartFrame

\* A request for the part that comes next is refused only once that part is out
\* or its segment has closed without it, whatever is published in between.
THEOREM RefusedIsOverHolds == Spec => []RefusedIsOver
<1>1. Init => HintedInv
  BY DEF Init, HintedInv, HintedRight, Resolving
<1>2. PageInv /\ HintedInv /\ [Next]_vars => HintedInv'
  <2> SUFFICES ASSUME PageInv, HintedInv, [Next]_vars PROVE HintedInv'
    OBVIOUS
  <2> DEFINE m == segs.published
  <2>1. OriginInv /\ PartsRight /\ m \in Nat /\ open \in Nat
    BY SegsLemma DEF PageInv, OriginInv, Shape
  <2>2. CASE UNCHANGED <<segs, open, pc, loc>>
    BY <2>2 DEF HintedInv
  <2>3. ASSUME NEW l, NEW at, HintedRight(l, at, m, open)
        PROVE  HintedRight(l, at, m, open + 1) /\ (open > 0 => HintedRight(l, at, m + 1, 0))
    <3> HIDE DEF m
    <3> QED BY <2>1, <2>3 DEF HintedRight, Hinted, Over
  <2>4. CASE PublishPart
    <3>1. open' = open + 1 /\ UNCHANGED <<segs, pc, loc>>
      BY <2>1, <2>4, PublishedPart
    <3> QED BY <2>3, <3>1 DEF HintedInv
  <2>5. CASE CloseSegment
    <3>1. open > 0 /\ open' = 0 /\ segs'.published = m + 1 /\ UNCHANGED <<pc, loc>>
      BY <2>5 DEF CloseSegment, RingPush
    <3> QED BY <2>3, <3>1 DEF HintedInv
  <2>6. ASSUME NEW p \in Requests, Playlist(p) \/ Part(p) PROVE HintedInv'
    <3>1. UNCHANGED <<segs, open>>
      BY <2>6, RequestFrame
    <3>2. \A q \in Requests \ {p} : pc'[q] = pc[q] /\ loc'[q] = loc[q]
      BY <2>1, <2>6, OthersLemma
    <3>3. HintedRight(loc'[p], pc'[p], m, open)
      BY <2>1, <2>6, HintedRequest DEF HintedInv
    <3>4. \A q \in Requests : HintedRight(loc'[q], pc'[q], m, open)
      BY <3>2, <3>3 DEF HintedInv
    <3> QED BY <3>1, <3>4 DEF HintedInv
  <2> QED BY <2>2, <2>4, <2>5, <2>6 DEF Next, Segmenter, Cut, set_init, vars, trunkVars
<1>3. PageInv /\ HintedInv => RefusedIsOver
  <2>1. PageInv => last_closed = segs.published
    BY SegsLemma DEF PageInv, OriginInv
  <2> QED BY <2>1 DEF HintedInv, HintedRight, Over, RefusedIsOver
<1> QED BY <1>1, <1>2, <1>3, PageSafe, PTL DEF Spec

-----------------------------------------------------------------------------
\* A segment and the init that was current when the trunk accepted it.

\* The store remembers the last InitHistory generations, each with the segment
\* it starts at, and that is no later than the next one.
StartsRight(store, m) ==
    /\ store \in Stores
    /\ Len(store.starts) = IF store.generation > InitHistory THEN InitHistory ELSE store.generation
    /\ store.current = NoInit <=> store.generation = 0
    /\ \A k \in 1..Len(store.starts) :
          /\ store.starts[k].g = store.generation - Len(store.starts) + k
          /\ store.starts[k].first <= m + 1

\* The closed segments that lie where the remembered starts say.
Placed(store, m) ==
    {Key(Gap)} \cup
    {e \in [n : Nat, under : Nat, count : Nat] :
        /\ e.n \in 1..m /\ e.under \in 1..store.generation
        /\ \A k \in 1..Len(store.starts) :
              /\ store.starts[k].g = e.under => store.starts[k].first <= e.n
              /\ store.starts[k].g > e.under => store.starts[k].first > e.n}

\* What has been looked up for a request is right while generation g has not
\* made the store forget it.
Matched(l, g) ==
    \A k \in 1..Len(l.prepared) :
        LET item == l.prepared[k].item
        IN  item.n > 0 =>
                /\ item.under \in Nat
                /\ g < item.under + InitHistory => l.prepared[k].init_gen = item.under

CutInv ==
    /\ StartsRight(inits, segs.published) /\ (open > 0 => inits.generation > 0)
    /\ Carries(segs, window, loc, Placed(inits, segs.published))
    /\ \A p \in Requests : Matched(loc[p], inits.generation)
    /\ InitMatches

\* The generation looked up is the one the segment was accepted under, if it is
\* still remembered.
LEMMA PlacedLookup ==
    ASSUME NEW store, NEW m \in Nat, StartsRight(store, m), NEW e \in Placed(store, m), e.n > 0,
           store.generation < e.under + InitHistory
    PROVE  generation_for(store, e.n) = e.under
<1> DEFINE g == store.generation
           L == Len(store.starts)
           j == e.under - (g - L)
           at == {k \in 1..Len(store.starts) : store.starts[k].first <= e.n}
<1>1. /\ store.starts \in Seq([first : Nat, g : Nat]) /\ g \in Nat /\ L \in Nat
      /\ L = IF g > InitHistory THEN InitHistory ELSE g
      /\ \A k \in 1..L : store.starts[k].g = g - L + k
      /\ InitHistory \in Nat \ {0}
  BY CapacitiesAssumption, LenProperties DEF StartsRight, Stores
<1>2. e # Key(Gap)
  BY DEF Key, Gap
<1>3. /\ e.n \in 1..m /\ e.under \in 1..g
      /\ \A k \in 1..L : /\ store.starts[k].g = e.under => store.starts[k].first <= e.n
                         /\ store.starts[k].g > e.under => store.starts[k].first > e.n
  BY <1>2 DEF Placed
<1>4. ASSUME NEW k \in 1..L PROVE store.starts[k].first \in Nat
  <2>1. store.starts[k] \in [first : Nat, g : Nat]
    BY <1>1, ElementOfSeq
  <2> QED BY <2>1
<1>5. g < e.under + InitHistory
  OBVIOUS
<1> HIDE DEF g, L
<1>6. j \in 1..L /\ g - L + j = e.under
  BY <1>1, <1>3, <1>5
<1>7. store.starts[j].g = e.under /\ store.starts[j].first <= e.n
  BY <1>1, <1>3, <1>6
<1> HIDE DEF j
<1>8. j \in at /\ at \in SUBSET (0..L)
  <2>1. at \subseteq 1..L /\ 1..L \subseteq 0..L
    BY <1>1 DEF L
  <2> QED BY <1>6, <1>7, <2>1 DEF L
<1>9. ASSUME NEW k \in at PROVE k <= j
  <2>1. k \in 1..L /\ store.starts[k].first <= e.n
    BY DEF L
  <2>2. store.starts[k].g = g - L + k /\ store.starts[k].first \in Nat
    BY <1>1, <1>4, <2>1
  <2>3. ~(store.starts[k].g > e.under)
    BY <1>3, <2>1, <2>2
  <2>4. ~(g - L + k > e.under)
    BY <2>2, <2>3
  <2> QED BY <1>1, <1>6, <2>1, <2>4
<1>10. store.starts # <<>>
  BY <1>6, EmptySeq DEF L
<1>11. generation_for(store, e.n) =
        IF store.starts = <<>> THEN 1
        ELSE IF at = {} THEN store.starts[1].g ELSE store.starts[Max(at)].g
  BY DEF generation_for
<1> HIDE DEF at
<1>12. Max(at) \in at /\ \A y \in at : y <= Max(at)
  BY <1>1, <1>8, Greatest
<1>13. Max(at) = j
  <2> DEFINE x == Max(at)
  <2>1. x \in at /\ j <= x
    BY <1>8, <1>12
  <2> HIDE DEF x
  <2>2. x \in 0..L /\ x <= j
    BY <1>8, <1>9, <2>1
  <2>3. x = j
    BY <1>1, <1>6, <2>1, <2>2
  <2> QED BY <2>3 DEF x
<1> QED BY <1>7, <1>8, <1>10, <1>11, <1>13

\* An announced init starts after every closed segment: those stay in place.
LEMMA PlacedAfterSet ==
    ASSUME NEW store, NEW m \in Nat, StartsRight(store, m), NEW bytes \in 1..MaxInits,
           NEW new, new = InitSet(store, InitHistory, bytes, m + 1)
    PROVE  /\ StartsRight(new, m) /\ Placed(store, m) \subseteq Placed(new, m)
           /\ new.generation >= store.generation /\ new.generation > 0
<1> DEFINE S == [first : Nat, g : Nat]
           g == store.generation
           L == Len(store.starts)
           H == InitHistory
           first == IF store.current = NoInit THEN 0 ELSE m + 1
           x == [first |-> first, g |-> g + 1]
           list == Append(store.starts, x)
<1>0. H \in Nat \ {0} /\ bytes \in Nat \ {0}
  BY CapacitiesAssumption, BoundsAssumption
<1>1. /\ store.starts \in Seq(S) /\ g \in Nat /\ L \in Nat /\ L = IF g > H THEN H ELSE g
      /\ store.current = NoInit <=> g = 0
      /\ \A k \in 1..L : store.starts[k].g = g - L + k /\ store.starts[k].first <= m + 1
  BY LenProperties DEF StartsRight, Stores
<1>2. CASE store.current = bytes
  <2>1. new = store /\ g # 0
    BY <1>0, <1>1, <1>2 DEF InitSet, NoInit
  <2> QED BY <1>1, <2>1
<1>3. CASE store.current # bytes
  <2>1. x \in S /\ x.first = first /\ x.g = g + 1 /\ first \in 0..(m + 1)
    BY <1>1
  <2>2. /\ list \in Seq(S) /\ Len(list) = L + 1 /\ list[L + 1] = x
        /\ \A k \in 1..L : list[k] = store.starts[k]
    BY <1>1, <2>1, AppendProperties
  <2> DEFINE low == IF Len(list) > H THEN Len(list) - H + 1 ELSE 1
             t == SubSeq(list, low, Len(list))
             n == L + 1 - low + 1
  <2>3. new = [generation |-> g + 1, current |-> bytes, starts |-> t]
    BY <1>3 DEF InitSet, Newest
  <2> HIDE DEF list, x, S
  <2>4. /\ low \in 1..(L + 1) /\ n \in 1..(L + 1)
        /\ n = IF g + 1 > H THEN H ELSE g + 1
    <3> HIDE DEF g, L, H
    <3> QED BY <1>0, <1>1, <2>2
  <2>5. \A i \in 1..Len(list) : list[i] \in S
    BY <2>2, ElementOfSeq
  <2> HIDE DEF low
  <2>6. /\ t \in Seq(S) /\ Len(t) = n /\ \A i \in 1..n : t[i] = list[low + i - 1]
    <3>1. low \in 1..(L + 1) /\ Len(list) = L + 1 /\ L \in Nat
      BY <1>1, <2>2, <2>4
    <3> HIDE DEF L
    <3>2. low \in Int /\ Len(list) \in Int /\ \A i \in low..Len(list) : list[i] \in S
      BY <2>5, <3>1
    <3>3. /\ t \in Seq(S) /\ Len(t) = IF low <= Len(list) THEN Len(list) - low + 1 ELSE 0
          /\ \A i \in 1..(Len(list) - low + 1) : t[i] = list[low + i - 1]
      BY <3>2, SubSeqProperties
    <3> HIDE DEF t
    <3> QED BY <3>1, <3>3
  <2> HIDE DEF t, n, first
  <2>7. new.generation = g + 1 /\ new.current = bytes /\ new.starts = t
    BY <2>3
  <2>8. new \in Stores
    <3>1. t \in Seq([first : Nat, g : Nat])
      BY <2>6 DEF S
    <3> QED BY <1>0, <1>1, <2>3, <3>1 DEF Stores
  <2>9. ASSUME NEW k \in 1..n
        PROVE  /\ t[k].g = (g + 1) - n + k /\ t[k].first <= m + 1
               /\ \/ t[k].g = g + 1 /\ t[k].first = first
                  \/ \E i \in 1..L : t[k] = store.starts[i]
    <3> DEFINE i == low + k - 1
    <3>1. i \in 1..(L + 1) /\ (g + 1) - n + k = g - L + i
      <4>1. g \in Nat /\ L \in Nat /\ low \in 1..(L + 1) /\ n = L + 1 - low + 1
        BY <1>1, <2>4 DEF n
      <4> HIDE DEF g, L
      <4> QED BY <4>1
    <3>2. t[k] = list[i]
      BY <2>6
    <3> HIDE DEF i
    <3>3. CASE i = L + 1
      <4>1. t[k] = x
        BY <2>2, <3>2, <3>3
      <4>2. (g + 1) - n + k = g + 1
        BY <1>1, <3>1, <3>3
      <4> QED BY <2>1, <4>1, <4>2
    <3>4. CASE i # L + 1
      <4>1. i \in 1..L
        BY <1>1, <3>1, <3>4
      <4>2. t[k] = store.starts[i]
        BY <2>2, <3>2, <4>1
      <4> QED BY <1>1, <3>1, <4>1, <4>2
    <3> QED BY <3>3, <3>4
  <2>10. StartsRight(new, m)
    <3>1. bytes # NoInit /\ g + 1 # 0
      BY <1>0, <1>1 DEF NoInit
    <3> QED BY <2>4, <2>6, <2>7, <2>8, <2>9, <3>1 DEF StartsRight
  <2>11. ASSUME NEW e \in Placed(store, m), e # Key(Gap) PROVE e \in Placed(new, m)
    <3>1. /\ e \in [n : Nat, under : Nat, count : Nat] /\ e.n \in 1..m /\ e.under \in 1..g
          /\ \A i \in 1..L : /\ store.starts[i].g = e.under => store.starts[i].first <= e.n
                             /\ store.starts[i].g > e.under => store.starts[i].first > e.n
      BY <2>11 DEF Placed
    <3>2. e.under \in 1..(g + 1) /\ e.under # g + 1
      BY <1>1, <3>1
    <3>3. first > e.n
      BY <1>1, <3>1 DEF first
    <3>4. ASSUME NEW k \in 1..n
          PROVE  /\ t[k].g = e.under => t[k].first <= e.n
                 /\ t[k].g > e.under => t[k].first > e.n
      BY <2>9, <3>1, <3>2, <3>3
    <3> QED BY <2>6, <2>7, <3>1, <3>2, <3>4 DEF Placed
  <2>12. Key(Gap) \in Placed(new, m)
    BY DEF Placed
  <2>13. new.generation >= g /\ new.generation > 0
    BY <1>1, <2>7
  <2> QED BY <2>10, <2>11, <2>12, <2>13
<1> QED BY <1>2, <1>3

\* Only Prepare and Absorb change what has been looked up, or it is dropped.
LEMMA PreparedFrame ==
    ASSUME OriginInv, NEW p \in Requests, Playlist(p) \/ Part(p)
    PROVE  Prepare(p) \/ Absorb(p) \/ loc'[p].prepared \in {<<>>, loc[p].prepared}
<1>1. DOMAIN loc = Requests /\ DOMAIN loc[p] = Fields
  BY LocLemma DEF Local
<1>2. CASE PollSegment(p) \/ PollLagged(p)
  <2>1. PICK x : loc' = [loc EXCEPT ![p].polled = x]
    BY <1>2 DEF PollSegment, PollLagged
  <2> QED BY <1>1, <2>1 DEF Fields
<1>3. CASE TakeGate(p) \/ PollEmpty(p) \/ LockWindow(p)
  BY <1>3 DEF TakeGate, PollEmpty, LockWindow
<1>4. CASE GateNotNeeded(p) \/ StoreHead(p)
  <2>1. PICK x : loc' = [loc EXCEPT ![p] = [NoLocals EXCEPT !.from = x]]
    BY <1>4 DEF GateNotNeeded, StoreHead
  <2> QED BY <1>1, <2>1 DEF NoLocals
<1>5. CASE BeginPlaylist(p)
  <2>1. PICK x, y : loc' = [loc EXCEPT ![p] = [NoLocals EXCEPT !.head = x, !.from = y]]
    BY <1>5 DEF BeginPlaylist
  <2> QED BY <1>1, <2>1 DEF NoLocals
<1>6. CASE Render(p) \/ Finish(p)
  BY <1>1, <1>6 DEF Render, Finish, NoLocals
<1>7. CASE WindowView(p) \/ LiveEdgeClosed(p) \/ LiveEdgeParts(p)
  <2>1. PICK x : \/ loc' = [loc EXCEPT ![p].view = x] \/ loc' = [loc EXCEPT ![p].edge = x]
                 \/ loc' = [loc EXCEPT ![p].open = x]
    BY <1>7 DEF WindowView, LiveEdgeClosed, LiveEdgeParts
  <2> QED BY <1>1, <2>1 DEF Fields
<1>8. ASSUME NEW n, NEW i, RequestPart(p, n, i)
      PROVE  loc'[p].prepared \in {<<>>, loc[p].prepared}
  <2>1. PICK x, y : loc' = [loc EXCEPT ![p].ask = x, ![p].hinted = y]
    BY <1>8 DEF RequestPart
  <2> QED BY <1>1, <2>1 DEF Fields
<1>9. CASE \/ PartReady(p) \/ PartMissing(p) \/ PartOutOfReach(p) \/ PartInReach(p)
           \/ PartNotHinted(p) \/ PartPending(p) \/ ResolveAgain(p)
  BY <1>9 DEF PartReady, PartMissing, PartOutOfReach, PartInReach, PartNotHinted, PartPending,
              ResolveAgain
<1> QED BY <1>2, <1>3, <1>4, <1>5, <1>6, <1>7, <1>8, <1>9 DEF Playlist, Drain, Part

\* A request looks up the right generation for each segment.
LEMMA MatchedStep ==
    ASSUME OriginInv, CutInv, NEW p \in Requests, Playlist(p) \/ Part(p)
    PROVE  Matched(loc'[p], inits.generation)
<1> DEFINE l == loc[p]
           u == l.prepared
           t == loc'[p].prepared
           Right(i) == /\ i.item.under \in Nat
                       /\ inits.generation < i.item.under + InitHistory => i.init_gen = i.item.under
<1>1. /\ DOMAIN loc = Requests /\ DOMAIN l = Fields
      /\ pc[p] \in Holding => l.polled \in Seq(Entries) /\ u \in Seq(Items)
  BY LocLemma DEF Local, OriginInv, DrainRight, InHand
<1>2. \A k \in 1..Len(u) : u[k].item.n > 0 => Right(u[k])
  BY DEF CutInv, Matched
<1> SUFFICES \A k \in 1..Len(t) : t[k].item.n > 0 => Right(t[k])
  BY DEF Matched
<1> HIDE DEF Right
<1>3. CASE t \in {<<>>, u}
  <2>1. 1..Len(<<>>) = {}
    BY EmptySeq
  <2> HIDE DEF t, u
  <2> QED BY <1>2, <1>3, <2>1
<1>4. CASE Absorb(p)
  <2>1. pc[p] \in Holding /\ u # <<>> /\ loc' = [loc EXCEPT ![p].prepared = Tail(@)]
    BY <1>4 DEF Absorb, Holding
  <2>2. t = Tail(u) /\ u \in Seq(Items)
    BY <1>1, <2>1 DEF Fields
  <2> HIDE DEF t, u
  <2>3. \A k \in 1..Len(t) : \E j \in 1..Len(u) : t[k] = u[j]
    BY <2>1, <2>2, TailElements
  <2> QED BY <1>2, <2>3
<1>5. CASE Prepare(p)
  <2> DEFINE s == l.polled
             item == Head(s)
             gen == generation_for(inits, item.n)
             q == [item |-> item, init_gen |-> gen]
  <2>1. /\ pc[p] \in Holding /\ s # <<>>
        /\ loc' = [loc EXCEPT ![p].polled = Tail(@), ![p].prepared = Append(@, q)]
    BY <1>5 DEF Prepare, Holding
  <2>2. s \in Seq(Entries) /\ u \in Seq(Items)
    BY <1>1, <2>1
  <2>3. item \in Entries /\ \E j \in 1..Len(s) : item = s[j]
    BY <2>1, <2>2, TailElements
  <2>4. \A j \in 1..Len(s) : Key(s[j]) \in Placed(inits, segs.published)
    BY DEF CutInv, Carries, Hand
  <2> HIDE DEF item
  <2>5. Key(item) \in Placed(inits, segs.published) /\ item.n \in Nat
    BY <2>3, <2>4 DEF Entries
  <2>6. StartsRight(inits, segs.published) /\ segs.published \in Nat /\ inits \in Stores
    BY SegsLemma DEF CutInv, OriginInv, Shape
  <2>7. item.n > 0 /\ inits.generation < item.under + InitHistory => gen = item.under
    <3>1. Key(item).n = item.n /\ Key(item).under = item.under
      BY DEF Key
    <3> DEFINE e == Key(item)
    <3>2. e.n > 0 /\ inits.generation < e.under + InitHistory => generation_for(inits, e.n) = e.under
      <4> HIDE DEF e
      <4>1. e \in Placed(inits, segs.published)
        BY <2>5 DEF e
      <4> QED BY <2>6, <4>1, PlacedLookup
    <3> QED BY <3>1, <3>2
  <2>8. gen \in Nat
    BY <2>5, <2>6, GenerationLemma
  <2> HIDE DEF gen
  <2>9. q \in Items /\ q.item = item /\ q.init_gen = gen
    BY <2>3, <2>8 DEF Items
  <2> HIDE DEF q
  <2>10. t = Append(u, q)
    BY <1>1, <2>1 DEF Fields
  <2>11. q.item.n > 0 => Right(q)
    <3>1. item.under \in Nat
      BY <2>3 DEF Entries
    <3> QED BY <2>7, <2>9, <3>1 DEF Right
  <2> HIDE DEF t, u
  <2>12. \A k \in 1..Len(t) : t[k] = q \/ \E j \in 1..Len(u) : t[k] = u[j]
    BY <2>2, <2>9, <2>10, AppendElements
  <2> QED BY <1>2, <2>11, <2>12
<1> QED BY <1>3, <1>4, <1>5, PreparedFrame

\* What enters the window has been looked up.
LEMMA MatchedWindow ==
    ASSUME OriginInv, CutInv, NEW p \in Requests, Playlist(p) \/ Part(p), inits' = inits
    PROVE  InitMatches'
<1> DEFINE Known(s) == inits.generation < s.under + InitHistory => s.init_gen = s.under
<1>1. \A k \in 1..Len(window.segments) : Known(window.segments[k])
  BY DEF CutInv, InitMatches
<1> SUFFICES \A k \in 1..Len(window'.segments) : Known(window'.segments[k])
  BY DEF InitMatches
<1>2. CASE window' = window
  BY <1>1, <1>2
<1>3. CASE Absorb(p)
  <2> DEFINE u == loc[p].prepared
             h == Head(u)
             x == h.item
             g == h.init_gen
  <2>1. /\ pc[p] \in Holding /\ u # <<>>
        /\ window' = IF x = Gap THEN note_gap(window) ELSE window_push(window, WindowCapacity, x, g)
    BY <1>3 DEF Absorb, Holding
  <2>2. /\ u \in Seq(Items)
        /\ \A i \in 1..Len(u) : OnItsWay(u[i].item, EndOf(window), cursor)
    BY <2>1 DEF OriginInv, DrainRight, InHand
  <2>3. h \in Items /\ \E j \in 1..Len(u) : h = u[j]
    <3> HIDE DEF u
    <3> QED BY <2>1, <2>2, TailElements DEF h
  <2>4. x \in Entries /\ g \in Nat
    <3> HIDE DEF h
    <3> QED BY <2>3 DEF Items
  <2>5. \A j \in 1..Len(u) :
           u[j].item.n > 0 =>
              (inits.generation < u[j].item.under + InitHistory => u[j].init_gen = u[j].item.under)
    BY DEF CutInv, Matched
  <2>6. /\ OnItsWay(x, EndOf(window), cursor)
        /\ x.n > 0 => (inits.generation < x.under + InitHistory => g = x.under)
    <3> HIDE DEF u, h
    <3> QED BY <2>2, <2>3, <2>5
  <2>7. WindowRight(window) /\ EndOf(window) \in Nat
    BY EndLemma DEF OriginInv
  <2> HIDE DEF x, g
  <2>8. CASE x = Gap
    <3>1. window'.segments = window.segments
      BY <2>1, <2>7, <2>8 DEF note_gap, WindowRight, Windows
    <3> QED BY <1>1, <3>1
  <2>9. CASE x # Gap
    <3>1. x.n > 0
      BY <2>4, <2>6, <2>7, <2>9 DEF OnItsWay, Entries
    <3>2. inits.generation < x.under + InitHistory => g = x.under
      BY <2>6, <3>1
    <3> DEFINE w2 == window_push(window, WindowCapacity, x, g)
    <3>3. \A k \in 1..Len(w2.segments) :
             \/ Key(w2.segments[k]) = Key(x) /\ w2.segments[k].init_gen = g
             \/ \E j \in 1..Len(window.segments) : w2.segments[k] = window.segments[j]
      BY <2>4, <2>7, PushedElements
    <3>4. window' = w2
      BY <2>1, <2>9
    <3> HIDE DEF w2
    <3> DEFINE t == w2.segments
               s == window.segments
    <3>5. \A k \in 1..Len(t) : \/ Key(t[k]) = Key(x) /\ t[k].init_gen = g
                               \/ \E j \in 1..Len(s) : t[k] = s[j]
      BY <3>3
    <3>6. \A j \in 1..Len(s) : Known(s[j])
      BY <1>1
    <3> HIDE DEF t, s
    <3>7. ASSUME NEW y, Key(y) = Key(x) PROVE y.under = x.under
      <4>1. Key(y).under = y.under /\ Key(x).under = x.under
        BY DEF Key
      <4> QED BY <3>7, <4>1
    <3>8. ASSUME NEW k \in 1..Len(t) PROVE Known(t[k])
      <4>1. CASE Key(t[k]) = Key(x) /\ t[k].init_gen = g
        <5>1. t[k].under = x.under
          BY <3>7, <4>1
        <5> QED BY <3>2, <4>1, <5>1
      <4>2. CASE \E j \in 1..Len(s) : t[k] = s[j]
        BY <3>6, <4>2
      <4> QED BY <3>5, <4>1, <4>2
    <3> QED BY <3>4, <3>8 DEF t
  <2> QED BY <2>8, <2>9
<1> QED BY <1>2, <1>3, WindowFrame

\* A later generation forgets more, and takes nothing it remembers for another.
LEMMA LaterGeneration ==
    ASSUME OriginInv, CutInv, inits'.generation \in Nat, inits'.generation >= inits.generation,
           UNCHANGED <<window, loc>>
    PROVE  (\A p \in Requests : Matched(loc'[p], inits'.generation)) /\ InitMatches'
<1> DEFINE g == inits.generation
           n == inits'.generation
<1>1. g \in Nat /\ n \in Nat /\ n >= g /\ InitHistory \in Nat
  BY CapacitiesAssumption DEF OriginInv, Shape, Stores
<1>2. ASSUME NEW p \in Requests PROVE Matched(loc[p], n)
  <2>1. Matched(loc[p], g)
    BY DEF CutInv
  <2> HIDE DEF g, n
  <2> QED BY <1>1, <2>1 DEF Matched
<1>3. ASSUME NEW k \in 1..Len(window.segments), n < window.segments[k].under + InitHistory
      PROVE  window.segments[k].init_gen = window.segments[k].under
  <2>1. window.segments[k] \in Listed
    BY ElementOfSeq DEF OriginInv, WindowRight, Windows
  <2>2. window.segments[k].under \in Nat
    BY <2>1 DEF Listed
  <2>3. g < window.segments[k].under + InitHistory
    <3> HIDE DEF g, n
    <3> QED BY <1>1, <1>3, <2>2
  <2> QED BY <2>3 DEF CutInv, InitMatches
<1> QED BY <1>2, <1>3 DEF InitMatches

\* The segmenter keeps the init starts in step with the segments.
LEMMA StartsStep ==
    ASSUME OriginInv, CutInv, [Next]_vars
    PROVE  /\ StartsRight(inits', segs'.published) /\ (open' > 0 => inits'.generation > 0)
           /\ Placed(inits, segs.published) \subseteq Placed(inits', segs'.published)
           /\ CloseSegment =>
                 [n |-> segs.published + 1, under |-> inits.generation, count |-> open]
                    \in Placed(inits', segs'.published)
           /\ inits'.generation >= inits.generation
<1> DEFINE m == segs.published
           g == inits.generation
           L == Len(inits.starts)
<1>1. /\ m \in Nat /\ last_closed = m /\ open \in Nat /\ g \in Nat /\ inits \in Stores
      /\ inits.starts \in Seq([first : Nat, g : Nat]) /\ L \in Nat
  BY SegsLemma, LenProperties DEF OriginInv, Shape, Stores
<1>2. /\ StartsRight(inits, m) /\ (open > 0 => g > 0)
  BY DEF CutInv
<1>3. CASE UNCHANGED <<segs, inits, open>>
  <2>1. ~CloseSegment
    BY <1>1, <1>3 DEF CloseSegment
  <2> QED BY <1>1, <1>2, <1>3, <2>1
<1>4. CASE PublishPart
  <2>1. inits.current # NoInit /\ open' = open + 1 /\ UNCHANGED <<segs, inits>>
    BY <1>4 DEF PublishPart
  <2>2. g > 0
    BY <1>1, <1>2, <2>1 DEF StartsRight
  <2>3. ~CloseSegment
    BY <1>1, <2>1 DEF CloseSegment
  <2> QED BY <1>1, <1>2, <2>1, <2>2, <2>3
<1>5. CASE CloseSegment
  <2>1. open > 0 /\ open' = 0 /\ inits' = inits /\ segs'.published = m + 1
    BY <1>5 DEF CloseSegment, RingPush
  <2>2. /\ L = IF g > InitHistory THEN InitHistory ELSE g
        /\ \A k \in 1..L : inits.starts[k].g = g - L + k /\ inits.starts[k].first <= m + 1
    BY <1>2 DEF StartsRight
  <2>3. ASSUME NEW k \in 1..L PROVE inits.starts[k].first \in Nat
    <3>1. inits.starts[k] \in [first : Nat, g : Nat]
      BY <1>1, ElementOfSeq
    <3> QED BY <3>1
  <2> HIDE DEF m, g, L
  <2>4. \A k \in 1..L : inits.starts[k].first <= (m + 1) + 1
    BY <1>1, <2>2, <2>3
  <2>5. StartsRight(inits, m + 1)
    BY <1>2, <2>4 DEF StartsRight, L
  <2>6. Placed(inits, m) \subseteq Placed(inits, m + 1)
    <3>1. \A n \in 1..m : n \in 1..(m + 1)
      BY <1>1
    <3> QED BY <3>1 DEF Placed
  <2>7. [n |-> m + 1, under |-> g, count |-> open] \in Placed(inits, m + 1)
    <3> DEFINE e == [n |-> m + 1, under |-> g, count |-> open]
    <3>1. /\ e \in [n : Nat, under : Nat, count : Nat] /\ e.n = m + 1 /\ e.under = g
      BY <1>1
    <3> HIDE DEF e
    <3>2. e.n \in 1..(m + 1) /\ e.under \in 1..g
      BY <1>1, <1>2, <2>1, <3>1
    <3>3. ASSUME NEW k \in 1..L
          PROVE  inits.starts[k].first <= e.n /\ ~(inits.starts[k].g > e.under)
      <4>1. inits.starts[k].g = g - L + k /\ inits.starts[k].first <= m + 1
        BY <2>2, <3>3
      <4>2. ~(g - L + k > g)
        BY <1>1, <3>3
      <4> QED BY <3>1, <4>1, <4>2
    <3>4. e \in Placed(inits, m + 1)
      BY <3>1, <3>2, <3>3 DEF Placed, g, L
    <3> QED BY <3>4 DEF e
  <2> QED BY <1>1, <2>1, <2>5, <2>6, <2>7 DEF m, g
<1>6. ASSUME NEW bytes \in 1..MaxInits, set_init(bytes)
      PROVE  /\ StartsRight(inits', segs'.published) /\ (open' > 0 => inits'.generation > 0)
             /\ Placed(inits, segs.published) \subseteq Placed(inits', segs'.published)
             /\ inits'.generation >= g /\ ~CloseSegment
  <2>1. UNCHANGED <<segs, open>> /\ inits' = InitSet(inits, InitHistory, bytes, m + 1)
    BY <1>1, <1>6 DEF set_init
  <2>2. /\ StartsRight(inits', m) /\ Placed(inits, m) \subseteq Placed(inits', m)
        /\ inits'.generation >= g /\ inits'.generation > 0
    <3> DEFINE new == InitSet(inits, InitHistory, bytes, m + 1)
    <3>1. /\ StartsRight(new, m) /\ Placed(inits, m) \subseteq Placed(new, m)
          /\ new.generation >= g /\ new.generation > 0
      BY <1>1, <1>2, <2>1, PlacedAfterSet
    <3> HIDE DEF new
    <3> QED BY <2>1, <3>1 DEF new
  <2>3. ~CloseSegment
    BY <1>1, <2>1 DEF CloseSegment
  <2> QED BY <2>1, <2>2, <2>3
<1>7. CASE Cut
  BY <1>3, <1>7 DEF Cut
<1>8. ASSUME NEW p \in Requests, Playlist(p) \/ Part(p) PROVE UNCHANGED <<segs, inits, open>>
  BY <1>8, RequestFrame
<1> QED BY <1>3, <1>4, <1>5, <1>6, <1>7, <1>8 DEF Next, Segmenter, vars, trunkVars

\* Every segment is listed under the init that was current when the trunk
\* accepted it, however late it is drained and whatever was announced before
\* that, as long as fewer than InitHistory inits have been announced since.
THEOREM InitMatchesHolds == Spec => []InitMatches
<1>1. Init => CutInv
  <2> SUFFICES ASSUME Init PROVE CutInv
    OBVIOUS
  <2>1. /\ segs.entries = <<>> /\ segs.published = 0 /\ window.segments = <<>> /\ open = 0
        /\ \A p \in Requests : loc[p] = NoLocals
    BY DEF Init, EmptyRing, EmptyWindow
  <2>2. NoLocals.polled = <<>> /\ NoLocals.prepared = <<>> /\ NoLocals.view = <<>>
    BY DEF NoLocals
  <2>3. 1..Len(<<>>) = {} /\ Len(<<>>) = 0 /\ <<>> \in Seq([first : Nat, g : Nat])
    BY EmptySeq
  <2>4. /\ inits = [generation |-> 0, current |-> 0, starts |-> <<>>]
    BY DEF Init, EmptyInits, NoInit
  <2>5. StartsRight(inits, segs.published)
    <3>1. inits \in Stores /\ inits.generation = 0 /\ inits.current = 0 /\ inits.starts = <<>>
      BY <2>3, <2>4 DEF Stores
    <3>2. ~(0 > InitHistory) /\ 1..0 = {}
      BY CapacitiesAssumption
    <3> QED BY <2>1, <2>3, <3>1, <3>2 DEF StartsRight, NoInit
  <2>6. \A G : Hand(NoLocals, G)
    BY <2>2, <2>3 DEF Hand
  <2>7. \A g : Matched(NoLocals, g)
    BY <2>2, <2>3 DEF Matched
  <2>8. \A G : Carries(segs, window, loc, G)
    BY <2>1, <2>3, <2>6 DEF Carries
  <2>9. InitMatches
    BY <2>1, <2>3 DEF InitMatches
  <2> QED BY <2>1, <2>5, <2>7, <2>8, <2>9 DEF CutInv
<1>2. OriginInv /\ CutInv /\ [Next]_vars => CutInv'
  <2> SUFFICES ASSUME OriginInv, CutInv, [Next]_vars PROVE CutInv'
    OBVIOUS
  <2>1. PICK F : F = Placed(inits, segs.published)
    OBVIOUS
  <2>2. PICK G : G = Placed(inits', segs'.published)
    OBVIOUS
  <2>3. /\ StartsRight(inits', segs'.published) /\ (open' > 0 => inits'.generation > 0)
        /\ F \subseteq G
        /\ CloseSegment =>
              [n |-> segs.published + 1, under |-> inits.generation, count |-> open] \in G
        /\ inits'.generation \in Nat /\ inits'.generation >= inits.generation
    BY <2>1, <2>2, StartsStep DEF StartsRight, Stores
  <2>4. Carries(segs, window, loc, G)
    BY <2>1, <2>3, CarriesMore DEF CutInv
  <2>5. Key(Gap) \in G
    BY <2>2 DEF Placed
  <2>6. Carries(segs', window', loc', G)
    BY <2>3, <2>4, <2>5, CarriesStep
  <2>7. (\A p \in Requests : Matched(loc'[p], inits'.generation)) /\ InitMatches'
    <3>1. CASE UNCHANGED <<window, loc>>
      BY <2>3, <3>1, LaterGeneration
    <3>2. ASSUME NEW p \in Requests, Playlist(p) \/ Part(p)
          PROVE  (\A q \in Requests : Matched(loc'[q], inits'.generation)) /\ InitMatches'
      <4>1. inits' = inits
        BY <3>2, RequestFrame
      <4>2. Matched(loc'[p], inits.generation) /\ InitMatches'
        BY <3>2, <4>1, MatchedStep, MatchedWindow
      <4>3. \A q \in Requests \ {p} : loc'[q] = loc[q]
        BY <3>2, OthersLemma
      <4> QED BY <4>1, <4>2, <4>3 DEF CutInv
    <3> QED BY <3>1, <3>2
            DEF Next, Segmenter, Cut, PublishPart, CloseSegment, set_init, vars, drainVars
  <2> QED BY <2>2, <2>3, <2>6, <2>7 DEF CutInv
<1>3. CutInv => InitMatches
  BY DEF CutInv
<1> QED BY <1>1, <1>2, <1>3, OriginSafe, PTL DEF Spec
=============================================================================
