-------------------------- MODULE ProgramSegmenter --------------------------
(***************************************************************************)
(* One program's segmenter in multimux, on top of the trunk's segment log  *)
(* (TrunkSegments) and part log (PartLog).  Samples become parts and       *)
(* segments; because the segmenter runs on a shared worker thread it may   *)
(* not block, so it publishes through a queue: drain_publish_queue hands   *)
(* items to the SegmentWriter in order, stops at a segment a StallIngest   *)
(* pin refuses, and terminates that pin after PENDING_PUBLISH_MAX_WAIT or  *)
(* when too many segments have piled up.  Every access to the trunk is a   *)
(* critical section of its own, so recorders run in between.               *)
(*                                                                         *)
(* A change of the track set rebuilds the inner segmenter, which has to    *)
(* carry on numbering; the end of the stream flushes and drops it.         *)
(***************************************************************************)
EXTENDS TrunkSegments, PartLog

CONSTANTS
    Containers,     \* of "Fmp4" (parts and segments), "MpegTs" (segments only)
    PartCapacity,   \* TrunkConfig::part_capacity
    QueueCap,       \* PENDING_PUBLISH_QUEUE_CAP
    MaxParts,       \* bound: parts per segment
    MaxCut,         \* bound: segments cut
    Me              \* the task driving this segmenter, a Publisher

ASSUME ContainersAssumption == Containers \subseteq {"Fmp4", "MpegTs"}
ASSUME QueueAssumption == QueueCap \in Nat \ {0} /\ PartCapacity \in Nat \ {0}
ASSUME MeAssumption == Publishers = {Me}
ASSUME CutAssumption == MaxCut \in Nat /\ MaxParts \in Nat

VARIABLES
    container,      \* RouteHandle::container, fixed
    parts,          \* the trunk's PartLog
    seg,            \* inner segmenter: number, next part, what it has buffered
    ready,          \* its finished, not yet taken [parts, segments]
    pending,        \* the publish queue
    since,          \* pending_since: "none", "waiting", "late" (30 s passed)
    batch,          \* items of the current call still to be queued
    call,           \* the publishing call: "none", "change", "publish", "flush"
    at,             \* where it is
    cut,            \* history: segment numbers cut, in order
    dropped,        \* history: segments refused as non-monotonic
    lost            \* history: items in the queue of a dropped segmenter

trunkVars == <<vars, parts>>
segVars == <<container, seg, ready, cut>>
queueVars == <<pending, since, batch, call, at, dropped, lost>>
allVars == <<trunkVars, segVars, queueVars>>

Part(n, i) == [kind |-> "Part", n |-> n, i |-> i, id |-> 0]
Seg(n) == [kind |-> "Segment", n |-> n, i |-> 0, id |-> 0]
NoneReady == [parts |-> <<>>, segments |-> <<>>]

\* held: samples of the open segment; tail: some not in a part yet.
FreshSegmenter(n) == [n |-> n, part |-> 0, held |-> FALSE, tail |-> FALSE]

\* SegmentWriter::next_sequence_number.
next_sequence_number == IF entries = <<>> THEN 1 ELSE entries[Len(entries)] + 1

\* ProgramSegmenter::try_new: the writer is taken, numbering starts from it.
SegmenterInit ==
    /\ Init
    /\ container \in Containers
    /\ parts = EmptyPartLog
    /\ seg = FreshSegmenter(1) /\ ready = NoneReady
    /\ pending = <<>> /\ since = "none" /\ batch = <<>>
    /\ call = "none" /\ at = "new"
    /\ cut = <<>> /\ dropped = <<>> /\ lost = <<>>

Start ==
    /\ at = "new" /\ TakeWriter
    /\ seg' = FreshSegmenter(next_sequence_number)
    /\ at' = "idle"
    /\ UNCHANGED <<parts, container, ready, cut, pending, since, batch, call, dropped, lost>>

(***************************************************************************)
(* The inner segmenter (LlHlsSegmenter, StreamingTsHlsSegmenter).          *)
(***************************************************************************)

\* A sample that cuts nothing.
PushSample ==
    /\ at = "ingest" /\ Len(cut) < MaxCut
    /\ seg' = [seg EXCEPT !.held = TRUE, !.tail = TRUE]
    /\ UNCHANGED <<trunkVars, container, ready, cut, queueVars>>

\* emit_part: the sample that crosses the target may stay for the next part.
CutPart ==
    /\ at = "ingest" /\ container = "Fmp4" /\ seg.tail /\ seg.part < MaxParts
    /\ \E rest \in BOOLEAN : seg' = [seg EXCEPT !.part = @ + 1, !.tail = rest]
    /\ ready' = [ready EXCEPT !.parts = Append(@, Part(seg.n, seg.part))]
    /\ UNCHANGED <<trunkVars, container, cut, queueVars>>

\* finish_segment's final part: samples without anchor time make none.
FinalParts ==
    IF container = "Fmp4" /\ seg.tail
    THEN {<<>>, <<Part(seg.n, seg.part)>>} ELSE {<<>>}

\* What flushing the inner segmenter leaves in its ready lists.
Flushed(final) ==
    IF seg.held
    THEN [parts |-> ready.parts \o final, segments |-> Append(ready.segments, Seg(seg.n))]
    ELSE ready

\* finish_segment: a keyframe past the target closes the segment.
CutSegment ==
    /\ at = "ingest" /\ seg.held
    /\ \E final \in FinalParts : ready' = Flushed(final)
    /\ seg' = FreshSegmenter(seg.n + 1)
    /\ cut' = Append(cut, seg.n)
    /\ UNCHANGED <<trunkVars, container, queueVars>>

(***************************************************************************)
(* pump, flush and apply_track_change.                                     *)
(***************************************************************************)

\* Fault: every ready part before every ready segment.
PartsThenSegments(r) == r.parts \o r.segments

\* The parts publish_in_stream_order takes before the j-th segment and after
\* the one before it; behind the last segment, all the rest.
PartsBefore(r, j) ==
    LET due == [i \in 1..Len(r.parts) |->
                   /\ j <= Len(r.segments) => r.parts[i].n <= r.segments[j].n
                   /\ j > 1 => r.parts[i].n > r.segments[j - 1].n]
    IN  Pick(r.parts, Where(due, TRUE))

\* publish_in_stream_order: a segment's parts, its close, the next one's parts.
InStreamOrder(r) ==
    LET closed[j \in 0..Len(r.segments)] ==
            IF j = 0 THEN <<>>
            ELSE Append(closed[j - 1] \o PartsBefore(r, j), r.segments[j])
    IN  closed[Len(r.segments)] \o PartsBefore(r, Len(r.segments) + 1)

\* pump without a new track set, or with one whose rebuild failed: poll samples.
Pump ==
    /\ at = "idle"
    /\ at' = "ingest"
    /\ UNCHANGED <<trunkVars, segVars, pending, since, batch, call, dropped, lost>>

\* pump ends in publish_ready: retry the queue, then queue what is ready.
PublishReady ==
    /\ at = "ingest"
    /\ batch' = InStreamOrder(ready) /\ ready' = NoneReady
    /\ call' = "publish" /\ at' = "drain"
    /\ UNCHANGED <<trunkVars, container, seg, cut, pending, since, dropped, lost>>

\* The inner segmenter is flushed into the batch and goes on from number n.
FlushInto(n) ==
    /\ \E final \in FinalParts : batch' = InStreamOrder(Flushed(final))
    /\ ready' = NoneReady
    /\ cut' = IF seg.held THEN Append(cut, seg.n) ELSE cut
    /\ seg' = FreshSegmenter(n)
    /\ UNCHANGED container

\* LlHlsSegmenter::next_sequence_numbers after its flush.
NextOwn == IF seg.held THEN seg.n + 1 ELSE seg.n

\* The number a rebuilt segmenter resumes from: the old segmenter's own next
\* number for fMP4, the trunk's next number, read before the old segmenter's
\* tail is published, for MPEG-TS.
ResumeFrom == IF container = "MpegTs" THEN next_sequence_number ELSE NextOwn

\* pump with a new track set: apply_track_change flushes the old segmenter,
\* queues its output (no retry of the queue first) and installs a new one.
TrackChange ==
    /\ at = "idle"
    /\ FlushInto(ResumeFrom)
    /\ call' = "change" /\ at' = "queue"
    /\ UNCHANGED <<trunkVars, pending, since, dropped, lost>>

\* flush, after a last pump: the driver is terminal.
EndOfStream ==
    /\ at = "idle"
    /\ FlushInto(NextOwn)
    /\ call' = "flush" /\ at' = "drain"
    /\ UNCHANGED <<trunkVars, pending, since, dropped, lost>>

(***************************************************************************)
(* publish_without_blocking and drain_publish_queue.                       *)
(***************************************************************************)
\* The next item joins the queue behind what is stuck there.
QueueItem ==
    /\ at = "queue" /\ batch # <<>>
    /\ pending' = Append(pending, Head(batch))
    /\ batch' = Tail(batch)
    /\ at' = "drain"
    /\ UNCHANGED <<trunkVars, segVars, since, call, dropped, lost>>

\* The call returns: pump goes on to the samples after a change, and after
\* the flush the segmenter is dropped, queue and all.
Return ==
    /\ at = "queue" /\ batch = <<>>
    /\ call' = "none"
    /\ at' = CASE call = "change" -> "ingest"
               [] call = "publish" -> "idle"
               [] call = "flush" -> "ended"
    /\ lost' = IF call = "flush" THEN pending ELSE lost
    /\ pending' = IF call = "flush" THEN <<>> ELSE pending
    /\ since' = IF call = "flush" THEN "none" ELSE since
    /\ UNCHANGED <<trunkVars, segVars, batch, dropped>>

\* The queue is empty.
DrainDone ==
    /\ at = "drain" /\ pending = <<>>
    /\ since' = "none"
    /\ at' = "queue"
    /\ UNCHANGED <<trunkVars, segVars, pending, batch, call, dropped, lost>>

\* A part always goes through.
DrainPart ==
    /\ at = "drain" /\ pending # <<>> /\ Head(pending).kind = "Part"
    /\ parts' = push(parts, PartCapacity, Head(pending))
    /\ pending' = Tail(pending)
    /\ since' = "none"
    /\ UNCHANGED <<vars, segVars, batch, call, at, dropped, lost>>

HeadIsSegment == at = "drain" /\ pending # <<>> /\ Head(pending).kind = "Segment"

\* Accepted by try_publish_segment.
DrainSegment ==
    /\ HeadIsSegment
    /\ TryPublishSegment(Me, Head(pending).n)
    /\ pending' = Tail(pending)
    /\ since' = "none"
    /\ UNCHANGED <<parts, segVars, batch, call, at, dropped, lost>>

\* NonMonotonic: logged and dropped.
DrainRefused ==
    /\ HeadIsSegment /\ ~Monotonic(Head(pending).n)
    /\ dropped' = Append(dropped, Head(pending).n)
    /\ pending' = Tail(pending)
    /\ since' = "none"
    /\ UNCHANGED <<trunkVars, segVars, batch, call, at, lost>>

\* The numbers of the segments in a list of items, in order.
Numbers(s) ==
    LET places == Where([k \in 1..Len(s) |-> s[k].kind], "Segment")
    IN  [k \in 1..Len(places) |-> s[places[k]].n]

\* Fault: the queue is only bounded by the clock.
GiveUpOnClock == since = "late"

\* waited_too_long or queue_too_deep.
GiveUp == since = "late" \/ Len(Numbers(pending)) >= QueueCap

\* try_publish_segment's WouldStall.
WouldStall == HeadIsSegment /\ Monotonic(Head(pending).n) /\ Full /\ AtRiskUnder("StallIngest") # {}

\* Fault: the refused segment is not put back in front.
DrainStalledForgetting ==
    /\ WouldStall
    /\ since' = IF since = "none" THEN "waiting" ELSE since
    /\ at' = IF GiveUp THEN "expire" ELSE "queue"
    /\ pending' = Tail(pending)
    /\ UNCHANGED <<trunkVars, segVars, batch, call, dropped, lost>>

\* The segment stays in front; if it has waited too long the pin has to go.
DrainStalled ==
    /\ WouldStall
    /\ since' = IF since = "none" THEN "waiting" ELSE since
    /\ at' = IF GiveUp THEN "expire" ELSE "queue"
    /\ UNCHANGED <<trunkVars, segVars, pending, batch, call, dropped, lost>>

\* expire_stalled_pins under its own lock: if it ended a pin, try again; if
\* the pin moved on in the meantime, leave it for the next call.
Expire ==
    /\ at = "expire"
    /\ IF Full /\ AtRiskUnder("StallIngest") # {}
       THEN ExpireStalledPins(Me) /\ at' = "drain"
       ELSE UNCHANGED vars /\ at' = "queue"
    /\ UNCHANGED <<parts, segVars, pending, since, batch, call, dropped, lost>>

\* Fault: the clock of a stalled item never runs out.
ClockStopped == since = "waiting" /\ UNCHANGED allVars

\* PENDING_PUBLISH_MAX_WAIT has passed since the front item got stuck.
WaitElapses ==
    /\ since = "waiting"
    /\ since' = "late"
    /\ UNCHANGED <<trunkVars, segVars, pending, batch, call, at, dropped, lost>>

\* Recorders and other readers of the trunk, at any time.
Reader(c) ==
    /\ at # "new" /\ CursorStep(c)
    /\ UNCHANGED <<parts, segVars, queueVars>>

CallStep ==
    \/ QueueItem \/ Return \/ DrainDone \/ DrainPart \/ DrainSegment
    \/ DrainRefused \/ DrainStalled \/ Expire

SegmenterNext ==
    \/ Start \/ PushSample \/ CutPart \/ CutSegment
    \/ Pump \/ PublishReady \/ TrackChange \/ EndOfStream
    \/ CallStep \/ WaitElapses
    \/ \E c \in Cursors : Reader(c)

SegmenterSpec == SegmenterInit /\ [][SegmenterNext]_allVars

\* A call that has begun runs to its end, the source keeps delivering (pump is
\* called after every receive) or ends, and time passes.  Recorders may stop
\* for good.
SegmenterFairness ==
    /\ WF_allVars(CallStep) /\ WF_allVars(PublishReady)
    /\ WF_allVars(Pump \/ TrackChange \/ EndOfStream) /\ WF_allVars(WaitElapses)

FairSegmenterSpec == SegmenterSpec /\ SegmenterFairness

(***************************************************************************)
(* HlsOrigin::live_edge: what a playlist request takes for the open segment*)
(***************************************************************************)
last_closed_segment == IF entries = <<>> THEN 0 ELSE entries[Len(entries)]

live_edge ==
    LET open == in_segment(parts, last_closed_segment + 1)
    IN  IF open = <<>> THEN <<last_closed_segment, <<>>>>
        ELSE <<last_closed_segment + 1, open>>

(***************************************************************************)
(* Properties.                                                             *)
(***************************************************************************)
Places == {"new", "idle", "ingest", "drain", "queue", "expire", "ended"}

\* The shape of the queue, the segmenter and the trunk under it.
SegmenterTypeOK ==
    /\ TypeOK
    /\ Len(parts.ring.entries) <= PartCapacity
    /\ \A s \in {pending, batch} : \A k \in 1..Len(s) : s[k].kind \in {"Part", "Segment"}
    /\ since \in {"none", "waiting", "late"} /\ at \in Places
    /\ call = "none" <=> at \in {"new", "idle", "ingest", "ended"}
    /\ seg.n \in 1..(MaxCut + 1) /\ seg.part \in 0..MaxParts
    /\ since # "none" => pending # <<>>

\* No segment is lost, repeated or reordered between the cut and the trunk:
\* what was accepted, what is stuck in the queue, what waits in the current
\* batch and what is ready are, in this order, all segments ever cut, none was
\* refused, and all that the end of the stream can lose is the queue behind a
\* stalled pin.  (An MPEG-TS rebuild may reuse numbers and lose segments.)
StreamPreserved ==
    container = "Fmp4" =>
        /\ dropped = <<>>
        /\ cut = hist \o Numbers(IF at = "ended" THEN lost ELSE pending)
                   \o Numbers(batch) \o Numbers(ready.segments)

\* A later segment's parts never appear before an earlier segment still
\* stuck in the queue: the open segment that live_edge derives from the last
\* closed one is the segment of the newest part, with all its parts.
LiveEdgeExact ==
    LET ring == parts.ring.entries
        newest == IF ring = <<>> THEN 0 ELSE ring[Len(ring)].n
    IN  live_edge =
          IF newest > last_closed_segment
          THEN <<newest, PartsOf(ring, newest)>>
          ELSE <<last_closed_segment, <<>>>>

\* PENDING_PUBLISH_QUEUE_CAP bounds the segments held back, even when the
\* pin moves between the refusal and expire_stalled_pins.
QueueBounded ==
    /\ Len(Numbers(pending)) <= QueueCap + 1
    /\ at = "idle" => Len(Numbers(pending)) <= QueueCap

\* A dead recorder does not freeze the live output: what is queued reaches
\* the trunk even if no cursor is ever polled again.
BacklogDrains == pending # <<>> ~> pending = <<>>

\* The queue as a whole: bounded, and its stall clock runs only while something
\* is queued.
QueueSound == SegmenterTypeOK /\ QueueBounded
=============================================================================
