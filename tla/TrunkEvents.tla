---------------------------- MODULE TrunkEvents ----------------------------
(***************************************************************************)
(* The event log of a media-plane Trunk.  An event is anchored to a media  *)
(* time, to a segment that may not have started yet, or to a wall clock    *)
(* the trunk may not know yet.  The ingest side publishes events; the      *)
(* segmenter reports segment starts and the wall-clock anchor, each of     *)
(* which resolves pending entries in place.  The two run on their own      *)
(* threads, so reports and events arrive in any order; the ring of events  *)
(* and the table of starts both evict.                                     *)
(***************************************************************************)
EXTENDS Rings, FiniteSets

CONSTANTS
    EventCapacity,   \* TrunkConfig::event_capacity: bounds ring and table
    Readers,         \* EventCursor owners
    Segments,        \* segment numbers
    Starts,          \* media times segments start at
    Deltas,          \* presentation_time_delta values
    UtcTimes,        \* wall-clock times events name
    TimeAnchors,     \* anchors the segmenter may set: [pts_90k, utc_epoch_ms]
    TicksPerMs,      \* PTS_HZ / 1000
    MaxMedia,        \* the largest MediaTime (u64::MAX in the code)
    MaxEvents,       \* bound: events published
    MaxNotes         \* bound: segment starts reported

ASSUME CapacityAssumption == EventCapacity \in Nat \ {0}
ASSUME ClockAssumption ==
    /\ MaxMedia \in Nat /\ TicksPerMs \in Nat \ {0}
    /\ Starts \subseteq 0..MaxMedia /\ Deltas \subseteq Nat /\ UtcTimes \subseteq Int
    /\ \A a \in TimeAnchors : a.pts_90k \in 0..MaxMedia /\ a.utc_epoch_ms \in Int
ASSUME BoundAssumption == MaxEvents \in Nat /\ MaxNotes \in Nat

VARIABLES
    events,          \* EventLog ring of [id, anchor]
    segment_starts,  \* the bounded table of <<number, start>>, oldest first
    time_anchor,     \* {} or {the anchor in force}
    consumed,        \* reader -> EventCursor::consumed, -1 when there is none
    asked,           \* history: event id -> the anchor it was published with
    noted,           \* history: every <<number, start>> ever reported
    anchored         \* history: every anchor ever set

vars == <<events, segment_starts, time_anchor, consumed, asked, noted, anchored>>

Media(t) == [kind |-> "Media", t |-> t]
Segment(n, d) == [kind |-> "Segment", n |-> n, d |-> d]
Utc(u) == [kind |-> "Utc", u |-> u]

Anchors ==
    {Media(t) : t \in Starts} \cup {Segment(n, d) : n \in Segments, d \in Deltas}
      \cup {Utc(u) : u \in UtcTimes}

MediaTimes == 0..MaxMedia

Init ==
    /\ events = EmptyRing
    /\ segment_starts = <<>> /\ time_anchor = {}
    /\ consumed = [r \in Readers |-> -1]
    /\ asked = <<>> /\ noted = {} /\ anchored = {}

(***************************************************************************)
(* Resolution.                                                             *)
(***************************************************************************)

\* u64::saturating_add on the 90 kHz clock.
SaturatingAdd(t, d) == IF t + d > MaxMedia THEN MaxMedia ELSE t + d

\* epoch_ms_to_media without its range check.
MediaOf(a, u) == a.pts_90k + (u - a.utc_epoch_ms) * TicksPerMs

\* epoch_ms_to_media: the media time, or nothing when it is not a u64.
epoch_ms_to_media(a, u) == {MediaOf(a, u)} \cap MediaTimes

\* Indices of the table that hold segment n; the last is the current one.
StartsOf(starts, n) == {i \in 1..Len(starts) : starts[i][1] = n}

Latest(S) == CHOOSE i \in S : \A j \in S : j <= i

\* EventLog::try_resolve: the anchor unchanged if it cannot be justified yet.
try_resolve(a) ==
    CASE a.kind = "Segment" /\ StartsOf(segment_starts, a.n) # {} ->
           Media(SaturatingAdd(segment_starts[Latest(StartsOf(segment_starts, a.n))][2], a.d))
      [] a.kind = "Utc" /\ \E x \in time_anchor : epoch_ms_to_media(x, a.u) # {} ->
           Media(CHOOSE t \in MediaTimes : \E x \in time_anchor : t \in epoch_ms_to_media(x, a.u))
      [] OTHER -> a

\* Fault: entries that already have a time are dragged along.
ResolveResolved(a, n, start) ==
    IF a.kind = "Segment" /\ a.n = n THEN Media(SaturatingAdd(start, a.d))
    ELSE IF a.kind = "Media" THEN Media(start) ELSE a

\* note_segment_start's effect on one entry: only the segment it names.
ResolveSegment(a, n, start) ==
    IF a.kind = "Segment" /\ a.n = n THEN Media(SaturatingAdd(start, a.d)) ELSE a

\* set_time_anchor's effect on one entry.
ResolveUtc(a, x) ==
    IF a.kind = "Utc" /\ epoch_ms_to_media(x, a.u) # {}
    THEN Media(CHOOSE t \in epoch_ms_to_media(x, a.u) : TRUE) ELSE a

\* Every resident entry's anchor replaced in place.
InPlace(F(_)) ==
    [events EXCEPT !.entries =
        [i \in 1..Len(events.entries) |->
            [events.entries[i] EXCEPT !.anchor = F(events.entries[i].anchor)]]]

(***************************************************************************)
(* The two writers and the readers.                                        *)
(***************************************************************************)

\* Fault: the anchor is stored without trying to resolve it.
PublishUnresolved(a) ==
    /\ events.published < MaxEvents
    /\ events' = RingPush(events, EventCapacity, [id |-> events.published + 1, anchor |-> a])
    /\ asked' = Append(asked, a)
    /\ UNCHANGED <<segment_starts, time_anchor, consumed, noted, anchored>>

\* TrunkWriter::publish_event.
PublishEvent(a) ==
    /\ events.published < MaxEvents
    /\ events' = RingPush(events, EventCapacity,
                          [id |-> events.published + 1, anchor |-> try_resolve(a)])
    /\ asked' = Append(asked, a)
    /\ UNCHANGED <<segment_starts, time_anchor, consumed, noted, anchored>>

\* SegmentWriter::note_segment_start: the table evicts its oldest start.
NoteSegmentStart(n, start) ==
    /\ Cardinality(noted) < MaxNotes \/ <<n, start>> \in noted
    /\ segment_starts' =
         Append(IF Len(segment_starts) = EventCapacity THEN Tail(segment_starts) ELSE segment_starts,
                <<n, start>>)
    /\ events' = InPlace(LAMBDA a : ResolveSegment(a, n, start))
    /\ noted' = noted \cup {<<n, start>>}
    /\ UNCHANGED <<time_anchor, consumed, asked, anchored>>

\* SegmentWriter::set_time_anchor.
SetTimeAnchor(x) ==
    /\ time_anchor' = {x}
    /\ events' = InPlace(LAMBDA a : ResolveUtc(a, x))
    /\ anchored' = anchored \cup {x}
    /\ UNCHANGED <<segment_starts, consumed, asked, noted>>

\* Trunk::subscribe_events.
SubscribeEvents(r) ==
    /\ consumed[r] = -1
    /\ consumed' = [consumed EXCEPT ![r] = events.published]
    /\ UNCHANGED <<events, segment_starts, time_anchor, asked, noted, anchored>>

\* EventCursor::poll: Lagged, then the entry as it is anchored right now.
PollEvent(r) ==
    /\ consumed[r] # -1
    /\ \/ /\ consumed[r] < events.base
          /\ consumed' = [consumed EXCEPT ![r] = events.base]
       \/ /\ Resident(events, consumed[r])
          /\ consumed' = [consumed EXCEPT ![r] = @ + 1]
    /\ UNCHANGED <<events, segment_starts, time_anchor, asked, noted, anchored>>

Next ==
    \/ \E a \in Anchors : PublishEvent(a)
    \/ \E n \in Segments, start \in Starts : NoteSegmentStart(n, start)
    \/ \E x \in TimeAnchors : SetTimeAnchor(x)
    \/ \E r \in Readers : SubscribeEvents(r) \/ PollEvent(r)

Spec == Init /\ [][Next]_vars

(***************************************************************************)
(* Queries.                                                                *)
(***************************************************************************)

\* Fault: the end of a segment looked up as the start of the next number.
EndOfByNumber(n) ==
    LET S == StartsOf(segment_starts, n + 1)
    IN  IF S = {} THEN MaxMedia + 1 ELSE segment_starts[Latest(S)][2]

\* The start recorded right after segment n's current one; unbounded if none.
EndOf(n) ==
    LET i == Latest(StartsOf(segment_starts, n))
    IN  IF i = Len(segment_starts) THEN MaxMedia + 1 ELSE segment_starts[i + 1][2]

\* Trunk::events_between: ids of resolved events in the half-open range.
events_between(from, to) ==
    {events.entries[i].id : i \in {j \in 1..Len(events.entries) :
        LET a == events.entries[j].anchor IN a.kind = "Media" /\ from <= a.t /\ a.t < to}}

\* Trunk::events_in_segment.
events_in_segment(n) ==
    IF StartsOf(segment_starts, n) = {} THEN {}
    ELSE events_between(segment_starts[Latest(StartsOf(segment_starts, n))][2], EndOf(n))

(***************************************************************************)
(* Properties.                                                             *)
(***************************************************************************)

IsAnchor(a) ==
    \/ a.kind = "Media" /\ a.t \in MediaTimes
    \/ a.kind = "Segment" /\ a.n \in Segments /\ a.d \in Deltas
    \/ a.kind = "Utc" /\ a.u \in UtcTimes

\* The event ring and its entries are well formed, a resolved time is a u64,
\* and neither the ring nor the table of starts outgrows its capacity.
TypeOK ==
    /\ RingOK(events, EventCapacity)
    /\ \A i \in 1..Len(events.entries) :
          events.entries[i].id = events.base + i /\ IsAnchor(events.entries[i].anchor)
    /\ Len(segment_starts) <= EventCapacity
    /\ time_anchor \subseteq TimeAnchors
    /\ consumed \in [Readers -> -1..MaxEvents]

\* Nothing resolvable is left pending, in whatever order event, start and
\* anchor arrived: a pending entry's segment is not in the table, and no
\* anchor in force maps its wall-clock time.
PendingIsUnresolvable ==
    \A i \in 1..Len(events.entries) :
        LET a == events.entries[i].anchor
        IN  /\ a.kind = "Segment" => StartsOf(segment_starts, a.n) = {}
            /\ a.kind = "Utc" => \A x \in time_anchor : epoch_ms_to_media(x, a.u) = {}

\* B1, no fabricated time: a resolved event was published with that media
\* time, or sits at its delta after a reported start of the very segment it
\* named, or where an anchor really maps its wall-clock time.
NoFabricatedTime ==
    \A i \in 1..Len(events.entries) :
        LET e == events.entries[i]
            a == asked[e.id]
        IN  e.anchor.kind = "Media" =>
              \/ a = e.anchor
              \/ a.kind = "Segment" /\ \E w \in noted :
                    w[1] = a.n /\ e.anchor.t = SaturatingAdd(w[2], a.d)
              \/ a.kind = "Utc" /\ \E x \in anchored :
                    MediaOf(x, a.u) = e.anchor.t

\* A time once given stays: no later start or anchor moves a resolved event,
\* and resolving in place never exchanges one event for another.
ResolvedForGood ==
    [][\A i \in 1..Len(events.entries) :
         LET abs == events.base + i - 1
         IN  Resident(events', abs) =>
               /\ EntryAt(events', abs).id = events.entries[i].id
               /\ events.entries[i].anchor.kind = "Media" =>
                     EntryAt(events', abs).anchor = events.entries[i].anchor]_vars

\* While starts go up, no event is in two segments, even when a restarted
\* segmenter reuses numbers (events_in_segment's positional end).
OneSegmentPerEvent ==
    (\A i, j \in 1..Len(segment_starts) : i < j => segment_starts[i][2] < segment_starts[j][2])
      => \A m, n \in Segments : m # n => events_in_segment(m) \cap events_in_segment(n) = {}

\* Resolution as a whole: what can be resolved is, and only to a time that was
\* derived from the event's own anchor.
ResolvedRight == TypeOK /\ PendingIsUnresolvable /\ NoFabricatedTime
=============================================================================
