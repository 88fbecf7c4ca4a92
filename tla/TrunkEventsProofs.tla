------------------------- MODULE TrunkEventsProofs -------------------------
(***************************************************************************)
(* Proofs about TrunkEvents for every capacity, every set of segments,     *)
(* starts, deltas and wall-clock times, and every clock.                   *)
(***************************************************************************)
EXTENDS TrunkEvents, SequenceTheorems, WellFoundedInduction, TLAPS

\* Every anchor an entry can have, resolved or not.
EntryAnchors ==
    {Media(t) : t \in MediaTimes} \cup {Segment(nd[1], nd[2]) : nd \in Segments \X Deltas}
      \cup {Utc(u) : u \in UtcTimes}

Entries == [id : Nat, anchor : EntryAnchors]
EventRings == [entries : Seq(Entries), base : Nat, published : Nat]

\* What TypeOK leaves open of the state's shape.
Shape ==
    /\ events \in EventRings /\ events.published <= MaxEvents
    /\ \A r \in Readers : consumed[r] <= events.published
    /\ segment_starts \in Seq(Segments \X Starts)
    /\ asked \in Seq(EntryAnchors) /\ Len(asked) = events.published
    /\ noted \subseteq Segments \X Starts /\ anchored \subseteq TimeAnchors

\* What the log resolves with was really reported, and is still in force.
Reported ==
    /\ \A i \in 1..Len(segment_starts) : segment_starts[i] \in noted
    /\ time_anchor \subseteq anchored

\* Time b follows from anchor a, given the starts and the anchors reported.
Derived(a, b, starts, ancs) ==
    \/ a = b
    \/ a.kind = "Segment" /\ \E w \in starts : w[1] = a.n /\ b.t = SaturatingAdd(w[2], a.d)
    \/ a.kind = "Utc" /\ \E x \in ancs : MediaOf(x, a.u) = b.t

\* The entry at place i is where its id says; pending, it is as it was published
\* and cannot be resolved; resolved, its time follows from its own anchor.
EntryRight(i) ==
    LET e == events.entries[i]
    IN  /\ e.id = events.base + i /\ IsAnchor(e.anchor)
        /\ e.anchor.kind # "Media" => e.anchor = asked[e.id]
        /\ e.anchor.kind = "Segment" => StartsOf(segment_starts, e.anchor.n) = {}
        /\ e.anchor.kind = "Utc" => \A x \in time_anchor : epoch_ms_to_media(x, e.anchor.u) = {}
        /\ e.anchor.kind = "Media" => Derived(asked[e.id], e.anchor, noted, anchored)

EventsInv ==
    /\ Shape /\ Reported
    /\ RingOK(events, EventCapacity)
    /\ Len(segment_starts) <= EventCapacity
    /\ time_anchor \subseteq TimeAnchors
    /\ consumed \in [Readers -> -1..MaxEvents]
    /\ \A i \in 1..Len(events.entries) : EntryRight(i)

-----------------------------------------------------------------------------
\* Every anchor is of one of the three kinds.
LEMMA AnchorLemma ==
    ASSUME NEW a
    PROVE  a \in EntryAnchors <=>
              \/ \E t \in MediaTimes : a = Media(t)
              \/ \E n \in Segments, d \in Deltas : a = Segment(n, d)
              \/ \E u \in UtcTimes : a = Utc(u)
<1>1. a \in {Segment(nd[1], nd[2]) : nd \in Segments \X Deltas}
         <=> \E n \in Segments, d \in Deltas : a = Segment(n, d)
  <2>1. ASSUME NEW n \in Segments, NEW d \in Deltas
        PROVE  Segment(n, d) \in {Segment(nd[1], nd[2]) : nd \in Segments \X Deltas}
    <3>1. <<n, d>> \in Segments \X Deltas /\ <<n, d>>[1] = n /\ <<n, d>>[2] = d
      OBVIOUS
    <3> QED BY <3>1
  <2> QED BY <2>1
<1> QED BY <1>1 DEF EntryAnchors

\* The fields of an anchor tell its kind.
LEMMA KindLemma ==
    ASSUME NEW a \in EntryAnchors
    PROVE  /\ a.kind \in {"Media", "Segment", "Utc"}
           /\ a.kind = "Media" => a.t \in MediaTimes /\ a = Media(a.t)
           /\ a.kind = "Segment" => a.n \in Segments /\ a.d \in Deltas
           /\ a.kind = "Utc" => a.u \in UtcTimes
           /\ IsAnchor(a)
BY AnchorLemma DEF Media, Segment, Utc, IsAnchor

\* What may be published may also stand in the log.
LEMMA PublishableLemma == Anchors \subseteq EntryAnchors
BY AnchorLemma, ClockAssumption DEF Anchors, MediaTimes

\* saturating_add stays on the clock.
LEMMA SaturatingLemma ==
    ASSUME NEW t \in MediaTimes, NEW d \in Deltas
    PROVE  SaturatingAdd(t, d) \in MediaTimes
<1>1. t \in 0..MaxMedia /\ d \in Nat /\ MaxMedia \in Nat
  BY ClockAssumption DEF MediaTimes
<1> QED BY <1>1 DEF SaturatingAdd, MediaTimes

\* A nonempty set of places of a list has a last one.
LEMMA LatestLemma ==
    ASSUME NEW n \in Nat, NEW S \in SUBSET (1..n), S # {}
    PROVE  Latest(S) \in S /\ \A j \in S : j <= Latest(S)
<1> DEFINE above == {ss \in Nat \X Nat : ss[1] < ss[2]}
           T == {k \in 0..n : n - k \in S}
<1>1. IsWellFoundedOn(above, Nat)
  BY NatLessThanWellFounded DEF OpToRel
<1>2. T \subseteq Nat /\ T # {}
  <2>1. PICK i \in S : TRUE
    OBVIOUS
  <2>2. i \in 1..n /\ n - i \in 0..n /\ n - (n - i) = i
    OBVIOUS
  <2>3. n - i \in T
    BY <2>1, <2>2
  <2>4. T \subseteq Nat
    OBVIOUS
  <2> QED BY <2>3, <2>4
<1>3. PICK k \in T : \A m \in T : ~(<<m, k>> \in above)
  <2> HIDE DEF above, T
  <2> QED BY <1>1, <1>2, WFMin
<1>4. ASSUME NEW j \in S PROVE j <= n - k
  <2>1. j \in 1..n /\ n - j \in 0..n /\ n - (n - j) = j
    OBVIOUS
  <2>2. n - j \in T /\ n - j \in Nat /\ k \in Nat
    BY <2>1, <1>2
  <2>3. ~(<<n - j, k>> \in above)
    BY <1>3, <2>2
  <2>4. ~(<<n - j, k>>[1] < <<n - j, k>>[2])
    BY <2>2, <2>3
  <2> QED BY <2>1, <2>2, <2>4
<1>5. n - k \in S /\ \A j \in S : j <= n - k
  BY <1>4
<1> HIDE DEF T, above
<1> QED BY <1>5 DEF Latest

\* The ring q is the ring r after e was pushed: an entry of q is the new one, or
\* the one that was at the same absolute index of r.
Pushed(r, q, e) ==
    /\ q \in EventRings
    /\ RingOK(q, EventCapacity)
    /\ q.published = r.published + 1 /\ q.base \in {r.base, r.base + 1}
    /\ \A i \in 1..Len(q.entries) :
          \/ q.base + i = r.published + 1 /\ q.entries[i] = e
          \/ /\ q.base + i - r.base \in 1..Len(r.entries)
             /\ q.entries[i] = r.entries[q.base + i - r.base]

LEMMA RingPushLemma ==
    ASSUME NEW r \in EventRings, RingOK(r, EventCapacity), NEW e \in Entries,
           NEW q, q = RingPush(r, EventCapacity, e)
    PROVE  Pushed(r, q, e)
<1> DEFINE kept == IF Len(r.entries) = EventCapacity THEN Tail(r.entries) ELSE r.entries
           shift == IF Len(r.entries) = EventCapacity THEN 1 ELSE 0
<1>1. /\ r.entries \in Seq(Entries) /\ Len(r.entries) \in Nat /\ r.base \in Nat /\ r.published \in Nat
      /\ r.base + Len(r.entries) = r.published /\ Len(r.entries) <= EventCapacity
  BY LenProperties DEF RingOK, EventRings
<1>2. /\ kept \in Seq(Entries) /\ Len(kept) \in Nat /\ Len(kept) + shift = Len(r.entries)
      /\ shift \in {0, 1} /\ Len(kept) + 1 <= EventCapacity
      /\ \A i \in 1..Len(kept) : kept[i] = r.entries[i + shift]
  <2>1. CASE Len(r.entries) = EventCapacity
    <3>1. /\ Tail(r.entries) \in Seq(Entries) /\ Len(Tail(r.entries)) = Len(r.entries) - 1
          /\ \A i \in 1..(Len(r.entries) - 1) : Tail(r.entries)[i] = r.entries[i + 1]
      BY <1>1, <2>1, CapacityAssumption
    <3> QED BY <1>1, <2>1, <3>1
  <2>2. CASE Len(r.entries) # EventCapacity
    BY <1>1, <2>2, CapacityAssumption
  <2> QED BY <2>1, <2>2
<1>3. q = [entries |-> Append(kept, e), base |-> r.base + shift, published |-> r.published + 1]
  <2>1. CASE Len(r.entries) = EventCapacity
    BY <1>1, <2>1 DEF RingPush
  <2>2. CASE Len(r.entries) # EventCapacity
    <3>1. r.base + shift = r.base
      BY <1>1, <2>2
    <3> QED BY <2>2, <3>1 DEF RingPush
  <2> QED BY <2>1, <2>2
<1> HIDE DEF kept, shift
<1>4. /\ Append(kept, e) \in Seq(Entries) /\ Len(Append(kept, e)) = Len(kept) + 1
      /\ \A i \in 1..Len(kept) : Append(kept, e)[i] = kept[i]
      /\ Append(kept, e)[Len(kept) + 1] = e
  BY <1>2, AppendProperties
<1>5. q.entries = Append(kept, e) /\ q.base = r.base + shift /\ q.published = r.published + 1
  BY <1>3
<1>a. Len(q.entries) = Len(kept) + 1 /\ shift \in Nat
  BY <1>2, <1>4, <1>5
<1>6. q \in EventRings
  BY <1>1, <1>2, <1>3, <1>4 DEF EventRings
<1>7. RingOK(q, EventCapacity)
  <2>1. q.base + Len(q.entries) = q.published
    <3>1. r.base + shift + (Len(kept) + 1) = r.base + (Len(kept) + shift) + 1
      BY <1>1, <1>2, <1>a DEF EventRings
    <3> QED BY <1>1, <1>2, <1>5, <1>a, <3>1
  <2> QED BY <2>1, <1>2, <1>a DEF RingOK
<1>8. ASSUME NEW i \in 1..Len(q.entries)
      PROVE  \/ q.base + i = r.published + 1 /\ q.entries[i] = e
             \/ /\ q.base + i - r.base \in 1..Len(r.entries)
                /\ q.entries[i] = r.entries[q.base + i - r.base]
  <2>1. CASE i = Len(kept) + 1
    <3>1. q.base + i = r.published + 1
      <4>1. r.base + shift + (Len(kept) + 1) = r.base + (Len(kept) + shift) + 1
        BY <1>1, <1>2, <1>a DEF EventRings
      <4> QED BY <2>1, <4>1, <1>1, <1>2, <1>5
    <3> QED BY <2>1, <3>1, <1>4, <1>5
  <2>2. CASE i # Len(kept) + 1
    <3>1. i \in 1..Len(kept)
      BY <2>2, <1>2, <1>4, <1>5
    <3>2. q.base + i - r.base = i + shift /\ i + shift \in 1..Len(r.entries)
      <4>1. ASSUME NEW b \in Nat, NEW s \in Nat, NEW m \in Nat, NEW n \in Nat, NEW j \in 1..m,
                   m + s = n
            PROVE  (b + s) + j - b = j + s /\ j + s \in 1..n
        BY <4>1
      <4>2. r.base \in Nat /\ Len(kept) \in Nat /\ Len(r.entries) \in Nat
        BY <1>1, <1>2, LenProperties DEF EventRings
      <4>3. Len(kept) + shift = Len(r.entries)
        BY <1>2
      <4> QED BY <3>1, <4>1, <4>2, <4>3, <1>a, <1>5
    <3>3. q.entries[i] = r.entries[i + shift]
      BY <3>1, <1>2, <1>4, <1>5
    <3> QED BY <3>2, <3>3
  <2> QED BY <2>1, <2>2
<1>9. q.base \in {r.base, r.base + 1}
  <2>1. CASE shift = 0
    <3>1. r.base + 0 = r.base
      BY <1>1 DEF EventRings
    <3> QED BY <1>5, <2>1, <3>1
  <2>2. CASE shift = 1
    BY <1>5, <2>2
  <2> QED BY <1>2, <2>1, <2>2
<1> QED BY <1>5, <1>6, <1>7, <1>8, <1>9 DEF Pushed

-----------------------------------------------------------------------------
\* What each way of resolving does to one anchor.

\* A wall-clock time that an anchor maps onto the clock is a media time.
LEMMA UtcLemma ==
    ASSUME NEW x, NEW u, NEW t, t \in epoch_ms_to_media(x, u)
    PROVE  t \in MediaTimes /\ MediaOf(x, u) = t
BY DEF epoch_ms_to_media

\* EventLog::try_resolve gives a time that can be justified, or leaves the anchor.
LEMMA TryResolveLemma ==
    ASSUME Shape, Reported, NEW a \in EntryAnchors, NEW b, b = try_resolve(a)
    PROVE  /\ b \in EntryAnchors
           /\ b.kind # "Media" => b = a
           /\ b.kind = "Media" => Derived(a, b, noted, anchored)
           /\ b.kind = "Segment" => StartsOf(segment_starts, b.n) = {}
           /\ b.kind = "Utc" => \A x \in time_anchor : epoch_ms_to_media(x, b.u) = {}
<1>1. CASE a.kind = "Segment" /\ StartsOf(segment_starts, a.n) # {}
  <2> DEFINE i == Latest(StartsOf(segment_starts, a.n))
             w == segment_starts[i]
  <2>1. Len(segment_starts) \in Nat /\ segment_starts \in Seq(Segments \X Starts)
    BY LenProperties DEF Shape
  <2>2. i \in StartsOf(segment_starts, a.n)
    <3>1. StartsOf(segment_starts, a.n) \in SUBSET (1..Len(segment_starts))
      BY DEF StartsOf
    <3> QED BY <1>1, <2>1, <3>1, LatestLemma
  <2> HIDE DEF i
  <2>3. i \in 1..Len(segment_starts) /\ w[1] = a.n
    BY <2>2 DEF StartsOf
  <2>4. w \in noted /\ w \in Segments \X Starts
    BY <2>1, <2>3 DEF Reported, Shape
  <2>5. w[2] \in MediaTimes
    BY <2>4, ClockAssumption DEF MediaTimes
  <2>6. a.d \in Deltas
    BY <1>1, KindLemma
  <2>7. SaturatingAdd(w[2], a.d) \in MediaTimes
    BY <2>5, <2>6, SaturatingLemma
  <2>8. b = Media(SaturatingAdd(w[2], a.d))
    BY <1>1 DEF try_resolve, i
  <2> HIDE DEF w
  <2>9. b \in EntryAnchors /\ b.kind = "Media" /\ b.t = SaturatingAdd(w[2], a.d)
    BY <2>7, <2>8, AnchorLemma DEF Media
  <2> QED BY <1>1, <2>3, <2>4, <2>9 DEF Derived
<1>2. CASE a.kind = "Utc" /\ \E x \in time_anchor : epoch_ms_to_media(x, a.u) # {}
  <2> DEFINE P(t) == \E x \in time_anchor : t \in epoch_ms_to_media(x, a.u)
             m == CHOOSE t \in MediaTimes : P(t)
  <2>1. PICK x \in time_anchor, t \in MediaTimes : t \in epoch_ms_to_media(x, a.u)
    BY <1>2, UtcLemma
  <2>2. m \in MediaTimes /\ \E y \in time_anchor : m \in epoch_ms_to_media(y, a.u)
    BY <2>1
  <2>3. b = Media(m)
    BY <1>2 DEF try_resolve
  <2> HIDE DEF m
  <2>4. b \in EntryAnchors /\ b.kind = "Media" /\ b.t = m
    BY <2>2, <2>3, AnchorLemma DEF Media
  <2>5. PICK y \in time_anchor : m \in epoch_ms_to_media(y, a.u)
    BY <2>2
  <2>6. MediaOf(y, a.u) = m /\ y \in anchored
    BY <2>5, UtcLemma DEF Reported
  <2> QED BY <1>2, <2>4, <2>6 DEF Derived
<1>3. CASE /\ ~(a.kind = "Segment" /\ StartsOf(segment_starts, a.n) # {})
           /\ ~(a.kind = "Utc" /\ \E x \in time_anchor : epoch_ms_to_media(x, a.u) # {})
  <2>1. b = a
    BY <1>3 DEF try_resolve
  <2> QED BY <1>3, <2>1 DEF Derived
<1> QED BY <1>1, <1>2, <1>3

\* note_segment_start resolves the entries of that segment and no other.
LEMMA ResolveSegmentLemma ==
    ASSUME NEW a \in EntryAnchors, NEW n \in Segments, NEW start \in Starts,
           NEW b, b = ResolveSegment(a, n, start)
    PROVE  /\ b \in EntryAnchors
           /\ a.kind = "Media" => b = a
           /\ b.kind # "Media" => b = a
           /\ b.kind = "Segment" => b.n # n
           /\ b # a => /\ b.kind = "Media" /\ a.kind = "Segment" /\ a.n = n
                       /\ b.t = SaturatingAdd(start, a.d)
<1>1. CASE a.kind = "Segment" /\ a.n = n
  <2>1. start \in MediaTimes /\ a.d \in Deltas
    BY <1>1, KindLemma, ClockAssumption DEF MediaTimes
  <2>2. SaturatingAdd(start, a.d) \in MediaTimes
    BY <2>1, SaturatingLemma
  <2>3. b = Media(SaturatingAdd(start, a.d))
    BY <1>1 DEF ResolveSegment
  <2>4. b \in EntryAnchors /\ b.kind = "Media" /\ b.t = SaturatingAdd(start, a.d)
    BY <2>2, <2>3, AnchorLemma DEF Media
  <2> QED BY <1>1, <2>4
<1>2. CASE ~(a.kind = "Segment" /\ a.n = n)
  <2>1. b = a
    BY <1>2 DEF ResolveSegment
  <2> QED BY <1>2, <2>1
<1> QED BY <1>1, <1>2

\* set_time_anchor resolves the wall-clock entries its anchor maps and no other.
LEMMA ResolveUtcLemma ==
    ASSUME NEW a \in EntryAnchors, NEW x \in TimeAnchors, NEW b, b = ResolveUtc(a, x)
    PROVE  /\ b \in EntryAnchors
           /\ a.kind = "Media" => b = a
           /\ b.kind # "Media" => b = a
           /\ b.kind = "Utc" => epoch_ms_to_media(x, b.u) = {}
           /\ b # a => b.kind = "Media" /\ a.kind = "Utc" /\ MediaOf(x, a.u) = b.t
<1>1. CASE a.kind = "Utc" /\ epoch_ms_to_media(x, a.u) # {}
  <2> DEFINE m == CHOOSE t \in epoch_ms_to_media(x, a.u) : TRUE
  <2>1. m \in epoch_ms_to_media(x, a.u)
    BY <1>1
  <2>2. b = Media(m)
    BY <1>1 DEF ResolveUtc
  <2> HIDE DEF m
  <2>3. m \in MediaTimes /\ MediaOf(x, a.u) = m
    BY <2>1, UtcLemma
  <2>4. b \in EntryAnchors /\ b.kind = "Media" /\ b.t = m
    BY <2>2, <2>3, AnchorLemma DEF Media
  <2> QED BY <1>1, <2>3, <2>4
<1>2. CASE ~(a.kind = "Utc" /\ epoch_ms_to_media(x, a.u) # {})
  <2>1. b = a
    BY <1>2 DEF ResolveUtc
  <2> QED BY <1>2, <2>1
<1> QED BY <1>1, <1>2

\* Resolving in place moves, adds and removes no entry.
LEMMA InPlaceLemma ==
    ASSUME Shape, NEW new \in [1..Len(events.entries) -> EntryAnchors],
           events' = [events EXCEPT !.entries =
                        [i \in 1..Len(events.entries) |->
                            [events.entries[i] EXCEPT !.anchor = new[i]]]]
    PROVE  /\ events' \in EventRings
           /\ events'.base = events.base /\ events'.published = events.published
           /\ Len(events'.entries) = Len(events.entries) /\ Len(events.entries) \in Nat
           /\ \A i \in 1..Len(events.entries) :
                 /\ events.entries[i] \in Entries
                 /\ events'.entries[i].id = events.entries[i].id
                 /\ events'.entries[i].anchor = new[i]
<1> DEFINE n == Len(events.entries)
           list == [i \in 1..n |-> [events.entries[i] EXCEPT !.anchor = new[i]]]
<1>1. events \in EventRings /\ events.entries \in Seq(Entries) /\ n \in Nat
  BY LenProperties DEF Shape, EventRings
<1>2. ASSUME NEW i \in 1..n
      PROVE  /\ events.entries[i] \in Entries /\ list[i] \in Entries
             /\ list[i].id = events.entries[i].id /\ list[i].anchor = new[i]
  <2>1. events.entries[i] \in Entries
    BY <1>1, ElementOfSeq
  <2>2. list[i] = [events.entries[i] EXCEPT !.anchor = new[i]] /\ new[i] \in EntryAnchors
    OBVIOUS
  <2> QED BY <2>1, <2>2 DEF Entries
<1>3. list = [i \in 1..n |-> list[i]]
  OBVIOUS
<1>4. events' = [events EXCEPT !.entries = list]
  OBVIOUS
<1> HIDE DEF list
<1>5. list \in Seq(Entries) /\ Len(list) = n
  <2>1. DOMAIN list = 1..Len(events.entries) /\ \A i \in 1..Len(events.entries) : list[i] \in Entries
    BY <1>2, <1>3
  <2>2. list = [i \in 1..Len(events.entries) |-> list[i]]
    BY <1>3
  <2>3. ASSUME NEW E, NEW m \in Nat, NEW l, l = [i \in 1..m |-> l[i]], \A i \in 1..m : l[i] \in E
        PROVE  l \in Seq(E) /\ Len(l) = m
    <3>1. l \in Seq(E)
      BY <2>3, SMTT(60)
    <3>2. DOMAIN l = 1..m
      BY <2>3
    <3> QED BY <3>1, <3>2, LenProperties
  <2> QED BY <2>1, <2>2, <2>3, <1>1
<1>6. events' \in EventRings /\ events'.entries = list /\ events'.base = events.base
      /\ events'.published = events.published
  BY <1>1, <1>4, <1>5 DEF EventRings
<1> QED BY <1>1, <1>2, <1>5, <1>6

-----------------------------------------------------------------------------
\* The invariant.

LEMMA EventsInit == Init => EventsInv
<1> SUFFICES ASSUME Init PROVE EventsInv
  OBVIOUS
<1>1. events = [entries |-> <<>>, base |-> 0, published |-> 0] /\ Len(events.entries) = 0
  BY DEF Init, EmptyRing
<1>2. events \in EventRings
  BY <1>1 DEF EventRings
<1>3. segment_starts = <<>> /\ Len(segment_starts) = 0 /\ asked = <<>> /\ Len(asked) = 0
  BY DEF Init
<1>4. /\ consumed = [r \in Readers |-> -1] /\ time_anchor = {} /\ noted = {} /\ anchored = {}
  BY DEF Init
<1>5. Shape
  BY <1>1, <1>2, <1>3, <1>4, BoundAssumption DEF Shape
<1>6. /\ RingOK(events, EventCapacity) /\ Len(segment_starts) <= EventCapacity
      /\ time_anchor \subseteq TimeAnchors /\ consumed \in [Readers -> -1..MaxEvents]
  BY <1>1, <1>3, <1>4, CapacityAssumption, BoundAssumption DEF RingOK
<1>7. Reported /\ \A i \in 1..Len(events.entries) : EntryRight(i)
  BY <1>1, <1>3, <1>4 DEF Reported
<1> QED BY <1>5, <1>6, <1>7 DEF EventsInv

\* The invariant implies what is claimed of resolution.
LEMMA EventsImplies == EventsInv => ResolvedRight
<1> SUFFICES ASSUME EventsInv PROVE ResolvedRight
  OBVIOUS
<1>1. TypeOK
  BY DEF EventsInv, TypeOK, EntryRight
<1>2. PendingIsUnresolvable
  BY DEF EventsInv, PendingIsUnresolvable, EntryRight
<1>3. NoFabricatedTime
  BY DEF EventsInv, NoFabricatedTime, EntryRight, Derived
<1> QED BY <1>1, <1>2, <1>3 DEF ResolvedRight

\* An entry that is resident has been asked for.
LEMMA AskedLemma ==
    ASSUME EventsInv, NEW i \in 1..Len(events.entries)
    PROVE  /\ events.entries[i] \in Entries /\ events.entries[i].anchor \in EntryAnchors
           /\ events.entries[i].id \in 1..Len(asked)
           /\ events.base + Len(events.entries) = events.published
<1>1. /\ events \in EventRings /\ events.entries \in Seq(Entries)
      /\ Len(events.entries) \in Nat /\ events.base \in Nat
  BY LenProperties DEF EventsInv, Shape, EventRings
<1>2. events.entries[i] \in Entries /\ events.entries[i].anchor \in EntryAnchors
  <2>1. events.entries[i] \in Entries
    BY <1>1, ElementOfSeq
  <2> QED BY <2>1 DEF Entries
<1>3. /\ events.base + Len(events.entries) = events.published
      /\ events.entries[i].id = events.base + i /\ Len(asked) = events.published
  BY DEF EventsInv, RingOK, Shape, EntryRight
<1> QED BY <1>1, <1>2, <1>3

\* TrunkWriter::publish_event.
LEMMA PublishStep ==
    ASSUME EventsInv, NEW a \in Anchors, PublishEvent(a)
    PROVE  EventsInv'
<1> DEFINE b == try_resolve(a)
           new == [id |-> events.published + 1, anchor |-> b]
<1>1. /\ Shape /\ Reported /\ events \in EventRings /\ RingOK(events, EventCapacity)
      /\ events.published \in Nat /\ events.base \in Nat /\ Len(asked) = events.published
      /\ asked \in Seq(EntryAnchors)
  BY DEF EventsInv, Shape, EventRings
<1>2. a \in EntryAnchors
  BY PublishableLemma
<1>3. /\ b \in EntryAnchors
      /\ b.kind # "Media" => b = a
      /\ b.kind = "Media" => Derived(a, b, noted, anchored)
      /\ b.kind = "Segment" => StartsOf(segment_starts, b.n) = {}
      /\ b.kind = "Utc" => \A x \in time_anchor : epoch_ms_to_media(x, b.u) = {}
  BY <1>1, <1>2, TryResolveLemma
<1>4. /\ events' = RingPush(events, EventCapacity, new) /\ asked' = Append(asked, a)
      /\ events.published < MaxEvents
      /\ UNCHANGED <<segment_starts, time_anchor, consumed, noted, anchored>>
  BY DEF PublishEvent
<1> HIDE DEF b
<1>5. new \in Entries /\ new.id = events.published + 1 /\ new.anchor = b
  BY <1>1, <1>3 DEF Entries
<1> HIDE DEF new
<1>6. /\ events' \in EventRings /\ RingOK(events', EventCapacity)
      /\ events'.published = events.published + 1 /\ events'.base \in {events.base, events.base + 1}
      /\ \A i \in 1..Len(events'.entries) :
            \/ events'.base + i = events.published + 1 /\ events'.entries[i] = new
            \/ /\ events'.base + i - events.base \in 1..Len(events.entries)
               /\ events'.entries[i] = events.entries[events'.base + i - events.base]
  <2>1. Pushed(events, events', new)
    BY <1>1, <1>4, <1>5, RingPushLemma, Zenon
  <2> QED BY <2>1 DEF Pushed
<1>7. /\ asked' \in Seq(EntryAnchors) /\ Len(asked') = Len(asked) + 1
      /\ \A j \in 1..Len(asked) : asked'[j] = asked[j]
      /\ asked'[Len(asked) + 1] = a
  BY <1>1, <1>2, <1>4, AppendProperties
<1>8. ASSUME NEW i \in 1..Len(events'.entries) PROVE EntryRight(i)'
  <2>1. CASE events'.base + i = events.published + 1 /\ events'.entries[i] = new
    <3>1. asked'[new.id] = a
      BY <1>1, <1>5, <1>7
    <3>2. IsAnchor(b)
      BY <1>3, KindLemma
    <3> QED BY <2>1, <3>1, <3>2, <1>3, <1>4, <1>5 DEF EntryRight
  <2>2. CASE /\ events'.base + i - events.base \in 1..Len(events.entries)
             /\ events'.entries[i] = events.entries[events'.base + i - events.base]
    <3> DEFINE j == events'.base + i - events.base
    <3>1. j \in 1..Len(events.entries) /\ events'.entries[i] = events.entries[j]
      BY <2>2
    <3>2. events.base + j = events'.base + i
      BY <1>1, <1>6
    <3> HIDE DEF j
    <3>3. EntryRight(j) /\ events.entries[j].id \in 1..Len(asked)
      BY <3>1, AskedLemma DEF EventsInv
    <3>4. asked'[events.entries[j].id] = asked[events.entries[j].id]
      BY <1>7, <3>3
    <3> QED BY <3>1, <3>2, <3>3, <3>4, <1>4 DEF EntryRight
  <2> QED BY <1>6, <2>1, <2>2
<1>9. Shape'
  <2>1. /\ segment_starts \in Seq(Segments \X Starts) /\ noted \subseteq Segments \X Starts
        /\ anchored \subseteq TimeAnchors /\ \A r \in Readers : consumed[r] <= events.published
        /\ consumed \in [Readers -> -1..MaxEvents]
    BY DEF EventsInv, Shape
  <2>2. \A r \in Readers : consumed'[r] <= events'.published
    BY <1>1, <1>4, <1>6, <2>1, BoundAssumption
  <2>3. events'.published <= MaxEvents
    BY <1>1, <1>4, <1>6, BoundAssumption
  <2> QED BY <1>1, <1>4, <1>6, <1>7, <2>1, <2>2, <2>3 DEF Shape
<1> QED BY <1>4, <1>6, <1>8, <1>9 DEF EventsInv, Reported

\* What an in-place resolution leaves alone.
LEMMA ResolveShape ==
    ASSUME EventsInv, UNCHANGED <<consumed, asked>>,
           events' \in EventRings, events'.base = events.base,
           events'.published = events.published, Len(events'.entries) = Len(events.entries),
           segment_starts' \in Seq(Segments \X Starts), noted' \subseteq Segments \X Starts,
           anchored' \subseteq TimeAnchors
    PROVE  Shape' /\ RingOK(events', EventCapacity) /\ consumed' \in [Readers -> -1..MaxEvents]
<1>1. Shape' /\ consumed' \in [Readers -> -1..MaxEvents]
  BY DEF EventsInv, Shape
<1>2. RingOK(events', EventCapacity)
  BY DEF EventsInv, RingOK
<1> QED BY <1>1, <1>2

\* A resolved entry keeps its time, and a pending one is resolved from what it asks.
LEMMA DerivedGrows ==
    ASSUME NEW a, NEW b, NEW s1, NEW s2, s1 \subseteq s2, NEW x1, NEW x2, x1 \subseteq x2,
           Derived(a, b, s1, x1)
    PROVE  Derived(a, b, s2, x2)
BY DEF Derived

\* SegmentWriter::note_segment_start.
LEMMA NoteStep ==
    ASSUME EventsInv, NEW n \in Segments, NEW start \in Starts, NoteSegmentStart(n, start)
    PROVE  EventsInv'
<1> DEFINE new == [i \in 1..Len(events.entries) |-> ResolveSegment(events.entries[i].anchor, n, start)]
           kept == IF Len(segment_starts) = EventCapacity THEN Tail(segment_starts) ELSE segment_starts
<1>1. /\ Shape /\ Reported /\ segment_starts \in Seq(Segments \X Starts)
      /\ Len(segment_starts) \in Nat /\ Len(segment_starts) <= EventCapacity
  BY LenProperties DEF EventsInv, Shape
<1>2. /\ events' = [events EXCEPT !.entries =
                      [i \in 1..Len(events.entries) |->
                         [events.entries[i] EXCEPT !.anchor =
                             ResolveSegment(events.entries[i].anchor, n, start)]]]
      /\ segment_starts' = Append(kept, <<n, start>>)
      /\ noted' = noted \cup {<<n, start>>}
      /\ UNCHANGED <<time_anchor, consumed, asked, anchored>>
  BY DEF NoteSegmentStart, InPlace
<1>3. ASSUME NEW i \in 1..Len(events.entries)
      PROVE  /\ new[i] \in EntryAnchors
             /\ events.entries[i].anchor.kind = "Media" => new[i] = events.entries[i].anchor
             /\ new[i].kind # "Media" => new[i] = events.entries[i].anchor
             /\ new[i].kind = "Segment" => new[i].n # n
             /\ new[i] # events.entries[i].anchor =>
                   /\ new[i].kind = "Media" /\ events.entries[i].anchor.kind = "Segment"
                   /\ events.entries[i].anchor.n = n
                   /\ new[i].t = SaturatingAdd(start, events.entries[i].anchor.d)
  <2>1. events.entries[i].anchor \in EntryAnchors
    BY AskedLemma
  <2> QED BY <2>1, ResolveSegmentLemma
<1>4. new \in [1..Len(events.entries) -> EntryAnchors]
  BY <1>3
<1>5. events' = [events EXCEPT !.entries =
                   [i \in 1..Len(events.entries) |-> [events.entries[i] EXCEPT !.anchor = new[i]]]]
  BY <1>2
<1> HIDE DEF new
<1>6. /\ events' \in EventRings
      /\ events'.base = events.base /\ events'.published = events.published
      /\ Len(events'.entries) = Len(events.entries)
      /\ \A i \in 1..Len(events.entries) :
            /\ events'.entries[i].id = events.entries[i].id
            /\ events'.entries[i].anchor = new[i]
  BY <1>1, <1>4, <1>5, InPlaceLemma
<1>7. /\ kept \in Seq(Segments \X Starts) /\ Len(kept) \in Nat /\ Len(kept) + 1 <= EventCapacity
      /\ \A i \in 1..Len(kept) : \E j \in 1..Len(segment_starts) : kept[i] = segment_starts[j]
  <2>1. CASE Len(segment_starts) = EventCapacity
    <3>1. /\ Tail(segment_starts) \in Seq(Segments \X Starts)
          /\ Len(Tail(segment_starts)) = Len(segment_starts) - 1
          /\ \A i \in 1..(Len(segment_starts) - 1) :
                Tail(segment_starts)[i] = segment_starts[i + 1]
      BY <1>1, <2>1, CapacityAssumption
    <3> QED BY <1>1, <2>1, <3>1, CapacityAssumption
  <2>2. CASE Len(segment_starts) # EventCapacity
    BY <1>1, <2>2, CapacityAssumption
  <2> QED BY <2>1, <2>2
<1> HIDE DEF kept
<1>8. /\ segment_starts' \in Seq(Segments \X Starts) /\ Len(segment_starts') = Len(kept) + 1
      /\ \A i \in 1..Len(kept) : segment_starts'[i] = kept[i]
      /\ segment_starts'[Len(kept) + 1] = <<n, start>>
  <2>1. <<n, start>> \in Segments \X Starts
    OBVIOUS
  <2> QED BY <1>2, <1>7, <2>1, AppendProperties
<1>9. ASSUME NEW i \in 1..Len(segment_starts')
      PROVE  \/ segment_starts'[i] = <<n, start>>
             \/ \E j \in 1..Len(segment_starts) : segment_starts'[i] = segment_starts[j]
  BY <1>7, <1>8
<1>10. Reported'
  BY <1>1, <1>2, <1>9 DEF Reported
<1>11. ASSUME NEW m, m # n, StartsOf(segment_starts, m) = {}
       PROVE  StartsOf(segment_starts', m) = {}
  BY <1>9, <1>11 DEF StartsOf
<1>12. ASSUME NEW i \in 1..Len(events'.entries) PROVE EntryRight(i)'
  <2> DEFINE a == events.entries[i].anchor
             id == events.entries[i].id
  <2>1. /\ i \in 1..Len(events.entries) /\ events'.entries[i].id = id
        /\ events'.entries[i].anchor = new[i] /\ id = events'.base + i
    BY <1>6 DEF EventsInv, EntryRight
  <2>2. /\ a.kind # "Media" => a = asked[id]
        /\ a.kind = "Segment" => StartsOf(segment_starts, a.n) = {}
        /\ a.kind = "Utc" => \A x \in time_anchor : epoch_ms_to_media(x, a.u) = {}
        /\ a.kind = "Media" => Derived(asked[id], a, noted, anchored)
    BY <2>1 DEF EventsInv, EntryRight
  <2>3. IsAnchor(new[i])
    BY <1>3, <2>1, KindLemma
  <2> HIDE DEF a, id
  <2>4. new[i].kind = "Media" => Derived(asked'[id], new[i], noted', anchored')
    <3>1. CASE new[i] = a
      BY <1>2, <2>2, <3>1, DerivedGrows
    <3>2. CASE new[i] # a
      <4>1. a.kind = "Segment" /\ a.n = n /\ new[i].t = SaturatingAdd(start, a.d)
        BY <1>3, <2>1, <3>2 DEF a
      <4>2. asked'[id] = a /\ <<n, start>> \in noted'
        BY <1>2, <2>2, <4>1
      <4>3. <<n, start>>[1] = n /\ <<n, start>>[2] = start
        OBVIOUS
      <4> QED BY <4>1, <4>2, <4>3 DEF Derived
    <3> QED BY <3>1, <3>2
  <2>5. new[i].kind # "Media" => new[i] = asked'[id]
    BY <1>2, <1>3, <2>1, <2>2 DEF a
  <2>6. new[i].kind = "Segment" => StartsOf(segment_starts', new[i].n) = {}
    BY <1>3, <1>11, <2>1, <2>2 DEF a
  <2>7. new[i].kind = "Utc" => \A x \in time_anchor' : epoch_ms_to_media(x, new[i].u) = {}
    BY <1>2, <1>3, <2>1, <2>2 DEF a
  <2> QED BY <2>1, <2>3, <2>4, <2>5, <2>6, <2>7 DEF EntryRight
<1>13. Shape' /\ RingOK(events', EventCapacity) /\ consumed' \in [Readers -> -1..MaxEvents]
  <2>1. noted' \subseteq Segments \X Starts /\ anchored' \subseteq TimeAnchors
    BY <1>1, <1>2 DEF Shape
  <2> QED BY <1>2, <1>6, <1>8, <2>1, ResolveShape
<1> QED BY <1>2, <1>7, <1>8, <1>10, <1>12, <1>13 DEF EventsInv

\* SegmentWriter::set_time_anchor.
LEMMA AnchorStep ==
    ASSUME EventsInv, NEW x \in TimeAnchors, SetTimeAnchor(x)
    PROVE  EventsInv'
<1> DEFINE new == [i \in 1..Len(events.entries) |-> ResolveUtc(events.entries[i].anchor, x)]
<1>1. Shape /\ Reported
  BY DEF EventsInv
<1>2. /\ events' = [events EXCEPT !.entries =
                      [i \in 1..Len(events.entries) |->
                         [events.entries[i] EXCEPT !.anchor = ResolveUtc(events.entries[i].anchor, x)]]]
      /\ time_anchor' = {x} /\ anchored' = anchored \cup {x}
      /\ UNCHANGED <<segment_starts, consumed, asked, noted>>
  BY DEF SetTimeAnchor, InPlace
<1>3. ASSUME NEW i \in 1..Len(events.entries)
      PROVE  /\ new[i] \in EntryAnchors
             /\ events.entries[i].anchor.kind = "Media" => new[i] = events.entries[i].anchor
             /\ new[i].kind # "Media" => new[i] = events.entries[i].anchor
             /\ new[i].kind = "Utc" => epoch_ms_to_media(x, new[i].u) = {}
             /\ new[i] # events.entries[i].anchor =>
                   /\ new[i].kind = "Media" /\ events.entries[i].anchor.kind = "Utc"
                   /\ MediaOf(x, events.entries[i].anchor.u) = new[i].t
  <2> DEFINE a == events.entries[i].anchor
             b == new[i]
  <2>1. a \in EntryAnchors /\ b = ResolveUtc(a, x)
    BY AskedLemma
  <2> HIDE DEF a, b, new
  <2>2. /\ b \in EntryAnchors
        /\ a.kind = "Media" => b = a
        /\ b.kind # "Media" => b = a
        /\ b.kind = "Utc" => epoch_ms_to_media(x, b.u) = {}
        /\ b # a => b.kind = "Media" /\ a.kind = "Utc" /\ MediaOf(x, a.u) = b.t
    BY <2>1, ResolveUtcLemma
  <2> QED BY <2>2 DEF a, b
<1>4. new \in [1..Len(events.entries) -> EntryAnchors]
  BY <1>3
<1>5. events' = [events EXCEPT !.entries =
                   [i \in 1..Len(events.entries) |-> [events.entries[i] EXCEPT !.anchor = new[i]]]]
  BY <1>2
<1> HIDE DEF new
<1>6. /\ events' \in EventRings
      /\ events'.base = events.base /\ events'.published = events.published
      /\ Len(events'.entries) = Len(events.entries)
      /\ \A i \in 1..Len(events.entries) :
            /\ events'.entries[i].id = events.entries[i].id
            /\ events'.entries[i].anchor = new[i]
  BY <1>1, <1>4, <1>5, InPlaceLemma
<1>7. Reported'
  BY <1>1, <1>2 DEF Reported
<1>8. ASSUME NEW i \in 1..Len(events'.entries) PROVE EntryRight(i)'
  <2> DEFINE a == events.entries[i].anchor
             id == events.entries[i].id
  <2>1. /\ i \in 1..Len(events.entries) /\ events'.entries[i].id = id
        /\ events'.entries[i].anchor = new[i] /\ id = events'.base + i
    BY <1>6 DEF EventsInv, EntryRight
  <2>2. /\ a.kind # "Media" => a = asked[id]
        /\ a.kind = "Segment" => StartsOf(segment_starts, a.n) = {}
        /\ a.kind = "Media" => Derived(asked[id], a, noted, anchored)
    BY <2>1 DEF EventsInv, EntryRight
  <2>3. IsAnchor(new[i])
    BY <1>3, <2>1, KindLemma
  <2> HIDE DEF a, id
  <2>4. new[i].kind = "Media" => Derived(asked'[id], new[i], noted', anchored')
    <3>1. CASE new[i] = a
      BY <1>2, <2>2, <3>1, DerivedGrows
    <3>2. CASE new[i] # a
      <4>1. a.kind = "Utc" /\ MediaOf(x, a.u) = new[i].t
        BY <1>3, <2>1, <3>2 DEF a
      <4>2. asked'[id] = a /\ x \in anchored'
        BY <1>2, <2>2, <4>1
      <4> QED BY <4>1, <4>2 DEF Derived
    <3> QED BY <3>1, <3>2
  <2>5. new[i].kind # "Media" => new[i] = asked'[id]
    BY <1>2, <1>3, <2>1, <2>2 DEF a
  <2>6. new[i].kind = "Segment" => StartsOf(segment_starts', new[i].n) = {}
    BY <1>2, <1>3, <2>1, <2>2 DEF a
  <2>7. new[i].kind = "Utc" => \A y \in time_anchor' : epoch_ms_to_media(y, new[i].u) = {}
    BY <1>2, <1>3, <2>1
  <2> QED BY <2>1, <2>3, <2>4, <2>5, <2>6, <2>7 DEF EntryRight
<1>9. Shape' /\ RingOK(events', EventCapacity) /\ consumed' \in [Readers -> -1..MaxEvents]
  <2>1. /\ noted' \subseteq Segments \X Starts /\ anchored' \subseteq TimeAnchors
        /\ segment_starts' \in Seq(Segments \X Starts)
    BY <1>1, <1>2 DEF Shape
  <2> QED BY <1>2, <1>6, <2>1, ResolveShape
<1>10. Len(segment_starts') <= EventCapacity /\ time_anchor' \subseteq TimeAnchors
  BY <1>2 DEF EventsInv
<1> QED BY <1>7, <1>8, <1>9, <1>10 DEF EventsInv

\* A reader moves its own position only, and never past what was published.
LEMMA ReaderStep ==
    ASSUME EventsInv, NEW r \in Readers, SubscribeEvents(r) \/ PollEvent(r)
    PROVE  EventsInv'
<1>1. UNCHANGED <<events, segment_starts, time_anchor, asked, noted, anchored>>
  BY DEF SubscribeEvents, PollEvent
<1>2. /\ events \in EventRings /\ events.published <= MaxEvents
      /\ \A q \in Readers : consumed[q] <= events.published
      /\ consumed \in [Readers -> -1..MaxEvents] /\ MaxEvents \in Nat
      /\ events.base + Len(events.entries) = events.published
  BY BoundAssumption DEF EventsInv, Shape, RingOK
<1>3. /\ events.base \in Nat /\ events.published \in Nat /\ Len(events.entries) \in Nat
  BY <1>2, LenProperties DEF EventRings
<1>4. PICK m \in Int : m >= -1 /\ m <= events.published /\ consumed' = [consumed EXCEPT ![r] = m]
  <2>1. CASE SubscribeEvents(r)
    <3>1. events.published \in Int /\ events.published >= -1 /\ events.published <= events.published
      BY <1>3
    <3>2. consumed' = [consumed EXCEPT ![r] = events.published]
      BY <2>1 DEF SubscribeEvents
    <3> QED BY <3>1, <3>2, Zenon
  <2>2. CASE PollEvent(r) /\ consumed[r] < events.base /\ consumed' = [consumed EXCEPT ![r] = events.base]
    <3>1. events.base \in Int /\ events.base >= -1 /\ events.base <= events.published
      BY <1>2, <1>3
    <3> QED BY <2>2, <3>1, Zenon
  <2>3. CASE Resident(events, consumed[r]) /\ consumed' = [consumed EXCEPT ![r] = @ + 1]
    <3>1. consumed[r] \in Int /\ consumed[r] >= -1 /\ consumed[r] < events.published
      BY <1>2, <1>3, <2>3 DEF Resident
    <3>2. consumed' = [consumed EXCEPT ![r] = consumed[r] + 1]
      BY <1>2, <2>3
    <3> DEFINE m == consumed[r] + 1
    <3>3. m \in Int /\ m >= -1 /\ m <= events.published
      BY <1>3, <3>1
    <3> QED BY <3>2, <3>3
  <2> QED BY <2>1, <2>2, <2>3 DEF PollEvent
<1>5. /\ consumed' \in [Readers -> -1..MaxEvents]
      /\ \A q \in Readers : consumed'[q] <= events.published
  <2>1. m \in -1..MaxEvents
    BY <1>2, <1>3, <1>4
  <2> QED BY <1>2, <1>4, <2>1
<1>6. Shape'
  BY <1>1, <1>5 DEF EventsInv, Shape
<1>7. \A i \in 1..Len(events'.entries) : EntryRight(i)'
  BY <1>1 DEF EventsInv, EntryRight
<1> QED BY <1>1, <1>5, <1>6, <1>7 DEF EventsInv, Reported

LEMMA EventsStep == EventsInv /\ [Next]_vars => EventsInv'
<1> SUFFICES ASSUME EventsInv, [Next]_vars PROVE EventsInv'
  OBVIOUS
<1>1. CASE UNCHANGED vars
  BY <1>1 DEF vars, EventsInv, Shape, Reported, EntryRight
<1> QED BY <1>1, PublishStep, NoteStep, AnchorStep, ReaderStep DEF Next

\* Whatever the order of events, starts and anchors: what can be resolved is, and
\* only to a time derived from the event's own anchor (try_resolve,
\* note_segment_start, set_time_anchor).
THEOREM ResolvedRightHolds == Spec => []ResolvedRight
BY EventsInit, EventsStep, EventsImplies, PTL DEF Spec

\* A time once given stays, and an index keeps its event, however the log is
\* resolved in place and evicted.
THEOREM ResolvedForGoodHolds == Spec => ResolvedForGood
<1> DEFINE Kept == \A i \in 1..Len(events.entries) :
                     LET abs == events.base + i - 1
                     IN  Resident(events', abs) =>
                           /\ EntryAt(events', abs).id = events.entries[i].id
                           /\ events.entries[i].anchor.kind = "Media" =>
                                 EntryAt(events', abs).anchor = events.entries[i].anchor
<1>1. EventsInv /\ [Next]_vars => [Kept]_vars
  <2> SUFFICES ASSUME EventsInv, Next, NEW i \in 1..Len(events.entries),
                      Resident(events', events.base + i - 1)
               PROVE  LET e == EntryAt(events', events.base + i - 1)
                      IN  /\ e.id = events.entries[i].id
                          /\ events.entries[i].anchor.kind = "Media" =>
                                e.anchor = events.entries[i].anchor
    OBVIOUS
  <2>1. /\ Shape /\ events \in EventRings /\ RingOK(events, EventCapacity)
        /\ events.base \in Nat /\ Len(events.entries) \in Nat /\ events.published \in Nat
        /\ events.base + Len(events.entries) = events.published
    BY LenProperties DEF EventsInv, Shape, EventRings, RingOK
  <2>2. ASSUME NEW a \in Anchors, PublishEvent(a)
        PROVE  EntryAt(events', events.base + i - 1) = events.entries[i]
    <3> DEFINE new == [id |-> events.published + 1, anchor |-> try_resolve(a)]
               k == (events.base + i - 1) - events'.base + 1
    <3>1. events' = RingPush(events, EventCapacity, new)
      BY <2>2 DEF PublishEvent
    <3>2. new \in Entries
      <4>1. try_resolve(a) \in EntryAnchors
        BY PublishableLemma, TryResolveLemma DEF EventsInv
      <4> QED BY <2>1, <4>1 DEF Entries
    <3> HIDE DEF new
    <3>3. /\ events' \in EventRings /\ events'.base \in {events.base, events.base + 1}
          /\ \A j \in 1..Len(events'.entries) :
                \/ events'.base + j = events.published + 1 /\ events'.entries[j] = new
                \/ /\ events'.base + j - events.base \in 1..Len(events.entries)
                   /\ events'.entries[j] = events.entries[events'.base + j - events.base]
      <4>1. Pushed(events, events', new)
        BY <2>1, <3>1, <3>2, RingPushLemma, Zenon
      <4> QED BY <4>1 DEF Pushed
    <3>4. events'.base \in Nat /\ Len(events'.entries) \in Nat
      BY <3>3, LenProperties DEF EventRings
    <3>5. k \in 1..Len(events'.entries) /\ events'.base + k - events.base = i
          /\ events'.base + k # events.published + 1
      <4>1. /\ events'.base <= events.base + i - 1
            /\ events.base + i - 1 < events'.base + Len(events'.entries)
        BY DEF Resident
      <4>2. events'.base = events.base \/ events'.base = events.base + 1
        BY <3>3
      <4>3. i \in 1..Len(events.entries) /\ events.published = events.base + Len(events.entries)
        BY <2>1
      <4> DEFINE c == events.base
                 v == events'.base
                 l == Len(events.entries)
                 b == Len(events'.entries)
                 p == events.published
      <4>4. /\ c \in Nat /\ v \in Nat /\ l \in Nat /\ b \in Nat /\ p = c + l /\ i \in 1..l
            /\ v <= c + i - 1 /\ c + i - 1 < v + b /\ (v = c \/ v = c + 1)
            /\ k = (c + i - 1) - v + 1
        BY <2>1, <3>4, <4>1, <4>2, <4>3, Zenon
      <4> HIDE DEF c, v, l, b, p, k
      <4>5. k \in 1..b /\ v + k - c = i /\ v + k # p + 1
        BY <4>4
      <4> QED BY <4>5 DEF c, v, b, p
    <3>6. events'.entries[k] = events.entries[i]
      <4> HIDE DEF k
      <4> QED BY <3>3, <3>5
    <3>7. EntryAt(events', events.base + i - 1) = events'.entries[k]
      BY DEF EntryAt
    <3> QED BY <3>6, <3>7, Zenon
  <2>3. ASSUME NEW new \in [1..Len(events.entries) -> EntryAnchors],
               events.entries[i].anchor.kind = "Media" => new[i] = events.entries[i].anchor,
               events' = [events EXCEPT !.entries =
                            [j \in 1..Len(events.entries) |->
                                [events.entries[j] EXCEPT !.anchor = new[j]]]]
        PROVE  LET e == EntryAt(events', events.base + i - 1)
               IN  /\ e.id = events.entries[i].id
                   /\ events.entries[i].anchor.kind = "Media" => e.anchor = events.entries[i].anchor
    <3>1. /\ events'.base = events.base
          /\ events'.entries[i].id = events.entries[i].id /\ events'.entries[i].anchor = new[i]
      BY <2>1, <2>3, InPlaceLemma
    <3>2. (events.base + i - 1) - events.base + 1 = i
      BY <2>1
    <3>3. EntryAt(events', events.base + i - 1) = events'.entries[i]
      <4>1. EntryAt(events', events.base + i - 1)
              = events'.entries[(events.base + i - 1) - events'.base + 1]
        BY Zenon DEF EntryAt
      <4> QED BY <3>1, <3>2, <4>1, Zenon
    <3> QED BY <2>3, <3>1, <3>3
  <2>4. ASSUME NEW n \in Segments, NEW start \in Starts, NoteSegmentStart(n, start)
        PROVE  LET e == EntryAt(events', events.base + i - 1)
               IN  /\ e.id = events.entries[i].id
                   /\ events.entries[i].anchor.kind = "Media" => e.anchor = events.entries[i].anchor
    <3> DEFINE new == [j \in 1..Len(events.entries) |-> ResolveSegment(events.entries[j].anchor, n, start)]
    <3>1. ASSUME NEW j \in 1..Len(events.entries)
          PROVE  /\ new[j] \in EntryAnchors
                 /\ events.entries[j].anchor.kind = "Media" => new[j] = events.entries[j].anchor
      BY AskedLemma, ResolveSegmentLemma
    <3>2. new \in [1..Len(events.entries) -> EntryAnchors]
      BY <3>1
    <3>3. events' = [events EXCEPT !.entries =
                       [j \in 1..Len(events.entries) |-> [events.entries[j] EXCEPT !.anchor = new[j]]]]
      BY <2>4 DEF NoteSegmentStart, InPlace
    <3> HIDE DEF new
    <3> QED BY <2>3, <3>1, <3>2, <3>3
  <2>5. ASSUME NEW x \in TimeAnchors, SetTimeAnchor(x)
        PROVE  LET e == EntryAt(events', events.base + i - 1)
               IN  /\ e.id = events.entries[i].id
                   /\ events.entries[i].anchor.kind = "Media" => e.anchor = events.entries[i].anchor
    <3> DEFINE new == [j \in 1..Len(events.entries) |-> ResolveUtc(events.entries[j].anchor, x)]
    <3>1. ASSUME NEW j \in 1..Len(events.entries)
          PROVE  /\ new[j] \in EntryAnchors
                 /\ events.entries[j].anchor.kind = "Media" => new[j] = events.entries[j].anchor
      BY AskedLemma, ResolveUtcLemma
    <3>2. new \in [1..Len(events.entries) -> EntryAnchors]
      BY <3>1
    <3>3. events' = [events EXCEPT !.entries =
                       [j \in 1..Len(events.entries) |-> [events.entries[j] EXCEPT !.anchor = new[j]]]]
      BY <2>5 DEF SetTimeAnchor, InPlace
    <3> HIDE DEF new
    <3> QED BY <2>3, <3>1, <3>2, <3>3
  <2>6. ASSUME NEW r \in Readers, SubscribeEvents(r) \/ PollEvent(r)
        PROVE  EntryAt(events', events.base + i - 1) = events.entries[i]
    <3>1. events' = events
      BY <2>6 DEF SubscribeEvents, PollEvent
    <3>2. (events.base + i - 1) - events.base + 1 = i
      BY <2>1
    <3>3. EntryAt(events', events.base + i - 1)
            = events'.entries[(events.base + i - 1) - events'.base + 1]
      BY Zenon DEF EntryAt
    <3> QED BY <3>1, <3>2, <3>3, Zenon
  <2> QED BY <2>2, <2>4, <2>5, <2>6 DEF Next
<1> QED BY <1>1, EventsInit, EventsStep, PTL DEF Spec, ResolvedForGood

\* While starts go up no event is in two segments, reused numbers included: the
\* end of a segment is the start recorded next, whatever its number.
THEOREM OneSegmentPerEventHolds == Spec => []OneSegmentPerEvent
<1>1. EventsInv => OneSegmentPerEvent
  <2> SUFFICES ASSUME EventsInv,
                      \A i, j \in 1..Len(segment_starts) :
                          i < j => segment_starts[i][2] < segment_starts[j][2],
                      NEW m \in Segments, NEW n \in Segments, m # n,
                      NEW id \in events_in_segment(m), id \in events_in_segment(n)
               PROVE  FALSE
    BY DEF OneSegmentPerEvent
  <2>1. /\ Len(segment_starts) \in Nat /\ Len(events.entries) \in Nat /\ events.base \in Nat
        /\ segment_starts \in Seq(Segments \X Starts)
    BY LenProperties DEF EventsInv, Shape, EventRings
  <2>2. \A i \in 1..Len(segment_starts) : segment_starts[i][2] \in Nat
    <3>1. ASSUME NEW i \in 1..Len(segment_starts) PROVE segment_starts[i][2] \in Starts
      BY <2>1, ElementOfSeq
    <3>2. Starts \subseteq Nat
      BY ClockAssumption
    <3> QED BY <3>1, <3>2
  <2> DEFINE Place(s) == Latest(StartsOf(segment_starts, s))
             In(s, t) == segment_starts[Place(s)][2] <= t /\ t < EndOf(s)
  <2>3. ASSUME NEW s \in Segments, id \in events_in_segment(s)
        PROVE  /\ Place(s) \in 1..Len(segment_starts) /\ segment_starts[Place(s)][1] = s
               /\ \E j \in 1..Len(events.entries) :
                     /\ events.entries[j].id = id /\ events.entries[j].anchor.kind = "Media"
                     /\ In(s, events.entries[j].anchor.t)
    <3>1. StartsOf(segment_starts, s) # {}
      BY <2>3 DEF events_in_segment
    <3>2. Place(s) \in StartsOf(segment_starts, s)
      <4>1. StartsOf(segment_starts, s) \in SUBSET (1..Len(segment_starts))
        BY DEF StartsOf
      <4> QED BY <2>1, <3>1, <4>1, LatestLemma
    <3>3. id \in events_between(segment_starts[Place(s)][2], EndOf(s))
      BY <2>3, <3>1 DEF events_in_segment
    <3> QED BY <3>2, <3>3 DEF StartsOf, events_between
  <2>4. PICK j \in 1..Len(events.entries) :
           /\ events.entries[j].id = id /\ events.entries[j].anchor.kind = "Media"
           /\ In(m, events.entries[j].anchor.t)
    BY <2>3
  <2>5. PICK k \in 1..Len(events.entries) :
           /\ events.entries[k].id = id /\ In(n, events.entries[k].anchor.t)
    BY <2>3
  <2>6. j = k
    <3>1. events.base + j = events.base + k
      BY <2>4, <2>5 DEF EventsInv, EntryRight
    <3> QED BY <2>1, <3>1
  <2> DEFINE t == events.entries[j].anchor.t
  <2>7. t \in Nat /\ In(m, t) /\ In(n, t)
    <3>1. events.entries[j].anchor \in EntryAnchors
      BY AskedLemma
    <3>2. t \in MediaTimes
      BY <2>4, <3>1, KindLemma
    <3> QED BY <2>4, <2>5, <2>6, <3>2, ClockAssumption DEF MediaTimes
  <2> HIDE DEF t
  <2>8. ASSUME NEW p \in Segments, NEW q \in Segments, In(p, t), In(q, t),
               Place(p) \in 1..Len(segment_starts), Place(q) \in 1..Len(segment_starts),
               Place(p) < Place(q)
        PROVE  FALSE
    <3> DEFINE i == Place(p)
               l == Place(q)
    <3>1. i \in 1..Len(segment_starts) /\ l \in 1..Len(segment_starts) /\ i < l
      BY <2>8
    <3>2. EndOf(p) = IF i = Len(segment_starts) THEN MaxMedia + 1 ELSE segment_starts[i + 1][2]
      BY DEF EndOf
    <3>3. segment_starts[l][2] <= t /\ t < EndOf(p)
      BY <2>8
    <3> HIDE DEF i, l
    <3>4. i # Len(segment_starts) /\ i + 1 \in 1..Len(segment_starts) /\ i + 1 <= l
      BY <2>1, <3>1
    <3>5. segment_starts[i + 1][2] <= segment_starts[l][2]
      BY <2>1, <2>2, <3>1, <3>4
    <3>6. segment_starts[i + 1][2] \in Nat /\ segment_starts[l][2] \in Nat
      BY <2>2, <3>1, <3>4
    <3> QED BY <2>7, <3>2, <3>3, <3>4, <3>5, <3>6
  <2>9. Place(m) # Place(n)
    BY <2>3
  <2> HIDE DEF Place, In
  <2>10. Place(m) \in 1..Len(segment_starts) /\ Place(n) \in 1..Len(segment_starts)
    BY <2>3
  <2> QED BY <2>1, <2>7, <2>8, <2>9, <2>10
<1> QED BY <1>1, EventsInit, EventsStep, PTL DEF Spec
=============================================================================
