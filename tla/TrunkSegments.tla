--------------------------- MODULE TrunkSegments ---------------------------
(***************************************************************************)
(* The segment log of a media-plane Trunk: a bounded ring of finished      *)
(* segments, written through the one SegmentWriter of the trunk and read   *)
(* by segment cursors.  A lossy cursor (subscribe_segments) keeps its own  *)
(* position; a pinning cursor (pin_segments) keeps it in the log, where    *)
(* the writer consults it before evicting, under one of three policies.    *)
(*                                                                         *)
(* Every action is one critical section of the trunk's Mutex.  Two calls   *)
(* span several: publish_segment parks on the Condvar (releasing the lock) *)
(* while a StallIngest pin needs the entry it would evict, and a pinned    *)
(* poll or drop unlocks before it calls notify_all.                        *)
(***************************************************************************)
EXTENDS Integers, Sequences

CONSTANTS
    Capacity,       \* TrunkConfig::segment_capacity, a NonZeroUsize
    Publishers,     \* threads that call the SegmentWriter through &self
    Cursors,        \* SegmentCursor owners
    Policies,       \* the ArchiveOverrun policies pins are created with
    Calls,          \* the SegmentWriter calls this segmenter makes
    MaxSeq,         \* bound: sequence numbers offered are 1..MaxSeq
    MaxPublished    \* bound: segments ever accepted

AllPolicies == {"Gap", "StallIngest", "Terminate"}
AllCalls == {"publish_segment", "try_publish_segment", "expire_stalled_pins"}

ASSUME CapacityAssumption == Capacity \in Nat \ {0}
ASSUME PoliciesAssumption == Policies \subseteq AllPolicies
ASSUME CallsAssumption == Calls \subseteq AllCalls
ASSUME BoundAssumption == MaxSeq \in Nat /\ MaxPublished \in Nat

VARIABLES
    entries,        \* resident sequence numbers, oldest first
    base,           \* absolute index of the oldest resident entry
    published,      \* total segments ever pushed
    pins,           \* cursor -> [consumed, policy, terminated], pinned ones only
    cursor,         \* cursor -> [kind, consumed, done]; kind "off" = no cursor
    notifying,      \* cursors between their unlock and their notify_all
    writer_taken,   \* Trunk::segment_writer_taken
    pub,            \* publisher -> [at, seq, late]: where publish_segment is
    item,           \* cursor -> the last thing its poll returned, None aside
    hist            \* history: every sequence number accepted, in order

logVars == <<entries, base, published>>
readVars == <<cursor, notifying, item>>
vars == <<entries, base, published, pins, cursor, notifying, writer_taken,
          pub, item, hist>>

Kinds == {"off", "lossy", "pinned"}
SeqNums == 1..MaxSeq

PinState == [consumed : Nat, policy : AllPolicies, terminated : BOOLEAN]
CursorState == [kind : Kinds, consumed : Nat, done : BOOLEAN]
PubState == [at : {"idle", "parked", "woken"}, seq : Nat, late : BOOLEAN]

NoCursor == [kind |-> "off", consumed |-> 0, done |-> FALSE]
\* SegmentCursorItem: a segment with its number, a loss with its count, or
\* the end of a pinned cursor.
Item(kind, n) == [kind |-> kind, n |-> n]
ItemKinds == {"none", "Segment", "Lagged", "Gap", "Terminated"}
NoItem == Item("none", 0)

Idle == [at |-> "idle", seq |-> 0, late |-> FALSE]

\* Trunk::new: an empty log, no pin, the writer slot free.
Init ==
    /\ entries = <<>> /\ base = 0 /\ published = 0
    /\ pins = [c \in {} |-> 0]
    /\ cursor = [c \in Cursors |-> NoCursor]
    /\ notifying = {}
    /\ writer_taken = FALSE
    /\ pub = [p \in Publishers |-> Idle]
    /\ item = [c \in Cursors |-> NoItem]
    /\ hist = <<>>

(***************************************************************************)
(* Helpers.                                                                *)
(***************************************************************************)

Full == Len(entries) >= Capacity

\* Fault: the boundary off by one; the pin's next segment may be evicted.
AtRiskOffByOne(c) == ~pins[c].terminated /\ pins[c].consumed < base

\* A live pin that has not consumed the entry a push would evict.
AtRisk(c) == ~pins[c].terminated /\ pins[c].consumed <= base

AtRiskUnder(policy) == {c \in DOMAIN pins : AtRisk(c) /\ pins[c].policy = policy}

\* The pins whose terminated flag is set, the others as they were.
TerminatePins(S) ==
    [c \in DOMAIN pins |->
        IF c \in S THEN [pins[c] EXCEPT !.terminated = TRUE] ELSE pins[c]]

RemovePin(c) == [d \in DOMAIN pins \ {c} |-> pins[d]]

\* ring_offset: an absolute index as a place in entries (1-based here).
ring_offset(abs) == abs - base + 1

IsResident(abs) == abs >= base /\ ring_offset(abs) <= Len(entries)

\* SegmentLog::push: evict the oldest entry of a full ring, then append.
Push(seq) ==
    /\ entries' = IF Len(entries) = Capacity
                  THEN Append(Tail(entries), seq) ELSE Append(entries, seq)
    /\ base' = IF Len(entries) = Capacity THEN base + 1 ELSE base
    /\ published' = published + 1
    /\ hist' = Append(hist, seq)

\* Fault: a repeated sequence number is accepted.
MonotonicOrEqual(seq) == entries # <<>> => seq >= entries[Len(entries)]

\* The check both publish calls make on entry, against the newest resident.
Monotonic(seq) == entries # <<>> => seq > entries[Len(entries)]

(***************************************************************************)
(* The segment writer.                                                     *)
(***************************************************************************)

\* Trunk::segment_writer: at most one SegmentWriter at a time.
TakeWriter ==
    /\ ~writer_taken
    /\ writer_taken' = TRUE
    /\ UNCHANGED <<logVars, pins, readVars, pub, hist>>

\* Drop for SegmentWriter; no call can still be borrowing it.
DropWriter ==
    /\ writer_taken
    /\ \A p \in Publishers : pub[p].at = "idle"
    /\ writer_taken' = FALSE
    /\ UNCHANGED <<logVars, pins, readVars, pub, hist>>

\* publish_segment's loop, from a point where the lock is held: push at once,
\* push after evicting, give up on the blocking pins once the deadline has
\* passed, or park on the Condvar.  Terminate pins are marked on every pass.
PublishLoop(p, seq, late) ==
    LET blocking == AtRiskUnder("StallIngest")
        marked == AtRiskUnder("Terminate")
    IN  \/ /\ ~Full
           /\ Push(seq)
           /\ pub' = [pub EXCEPT ![p] = Idle]
           /\ UNCHANGED pins
        \/ /\ Full /\ (blocking = {} \/ late)
           /\ pins' = TerminatePins(marked \cup blocking)
           /\ Push(seq)
           /\ pub' = [pub EXCEPT ![p] = Idle]
        \/ /\ Full /\ blocking # {} /\ ~late
           /\ pins' = TerminatePins(marked)
           /\ pub' = [pub EXCEPT ![p] = [at |-> "parked", seq |-> seq, late |-> FALSE]]
           /\ UNCHANGED <<logVars, hist>>

\* A rejected call (NonMonotonicSequenceNumber) changes nothing.
PublishSegment(p, seq) ==
    /\ "publish_segment" \in Calls
    /\ writer_taken /\ pub[p].at = "idle" /\ published < MaxPublished
    /\ Monotonic(seq)
    /\ PublishLoop(p, seq, FALSE)
    /\ UNCHANGED <<readVars, writer_taken>>

\* The parked call reacquires the lock and goes round its loop again.
ResumePublish(p) ==
    /\ pub[p].at = "woken"
    /\ PublishLoop(p, pub[p].seq, pub[p].late)
    /\ UNCHANGED <<readVars, writer_taken>>

\* Fault: an unbounded wait; the deadline is only noticed after a notify.
DeadlineUnnoticed(p) ==
    /\ pub[p].at = "woken" /\ ~pub[p].late
    /\ pub' = [pub EXCEPT ![p].late = TRUE]
    /\ UNCHANGED <<logVars, pins, readVars, writer_taken, hist>>

\* STALL_INGEST_MAX_WAIT elapses: wait_until returns if it was still parked.
DeadlinePasses(p) ==
    /\ pub[p].at # "idle" /\ ~pub[p].late
    /\ pub' = [pub EXCEPT ![p].late = TRUE, ![p].at = "woken"]
    /\ UNCHANGED <<logVars, pins, readVars, writer_taken, hist>>

\* Fault: Terminate pins are marked before the StallIngest ones are looked at.
TryPublishEager(p, seq) ==
    /\ "try_publish_segment" \in Calls
    /\ writer_taken /\ pub[p].at = "idle" /\ published < MaxPublished
    /\ Monotonic(seq)
    /\ pins' = IF Full THEN TerminatePins(AtRiskUnder("Terminate")) ELSE pins
    /\ IF Full /\ AtRiskUnder("StallIngest") # {} THEN UNCHANGED <<logVars, hist>> ELSE Push(seq)
    /\ UNCHANGED <<readVars, writer_taken, pub>>

\* try_publish_segment: WouldStall changes nothing; otherwise Terminate pins
\* at risk are marked in a second pass, and only if the ring is full.
TryPublishSegment(p, seq) ==
    /\ "try_publish_segment" \in Calls
    /\ writer_taken /\ pub[p].at = "idle" /\ published < MaxPublished
    /\ Monotonic(seq)
    /\ Full => AtRiskUnder("StallIngest") = {}
    /\ pins' = IF Full THEN TerminatePins(AtRiskUnder("Terminate")) ELSE pins
    /\ Push(seq)
    /\ UNCHANGED <<readVars, writer_taken, pub>>

\* expire_stalled_pins: gives up on the blocking pins and wakes nobody.
ExpireStalledPins(p) ==
    /\ "expire_stalled_pins" \in Calls
    /\ writer_taken /\ pub[p].at = "idle"
    /\ Full /\ AtRiskUnder("StallIngest") # {}
    /\ pins' = TerminatePins(AtRiskUnder("StallIngest"))
    /\ UNCHANGED <<logVars, readVars, writer_taken, pub, hist>>

(***************************************************************************)
(* Segment cursors.                                                        *)
(***************************************************************************)

\* subscribe_segments: live-forward from the next segment published.
SubscribeSegments(c) ==
    /\ cursor[c].kind = "off" /\ c \notin notifying
    /\ cursor' = [cursor EXCEPT ![c] = [kind |-> "lossy", consumed |-> published, done |-> FALSE]]
    /\ UNCHANGED <<logVars, pins, notifying, writer_taken, pub, item, hist>>

\* pin_segments: the position lives in the log; the cursor's own stays 0.
PinSegments(c, policy) ==
    /\ cursor[c].kind = "off" /\ c \notin notifying
    /\ pins' = [d \in DOMAIN pins \cup {c} |->
                  IF d = c THEN [consumed |-> published, policy |-> policy, terminated |-> FALSE]
                  ELSE pins[d]]
    /\ cursor' = [cursor EXCEPT ![c] = [kind |-> "pinned", consumed |-> 0, done |-> FALSE]]
    /\ UNCHANGED <<logVars, notifying, writer_taken, pub, item, hist>>

\* Lagged: the lossy cursor learns how many segments it lost.
PollLagged(c) ==
    /\ cursor[c].kind = "lossy"
    /\ cursor[c].consumed < base
    /\ cursor' = [cursor EXCEPT ![c].consumed = base]
    /\ item' = [item EXCEPT ![c] = Item("Lagged", base - cursor[c].consumed)]
    /\ UNCHANGED <<logVars, pins, notifying, writer_taken, pub, hist>>

\* Segment, for a lossy cursor.
PollLossy(c) ==
    /\ cursor[c].kind = "lossy"
    /\ IsResident(cursor[c].consumed)
    /\ cursor' = [cursor EXCEPT ![c].consumed = @ + 1]
    /\ item' = [item EXCEPT ![c] = Item("Segment", entries[ring_offset(cursor[c].consumed)])]
    /\ UNCHANGED <<logVars, pins, notifying, writer_taken, pub, hist>>

\* A pinned cursor that can still be polled; one poll runs at a time (&mut).
Pollable(c) ==
    cursor[c].kind = "pinned" /\ ~cursor[c].done /\ c \notin notifying

\* Terminated: the pin goes away and the cursor is done for good.
PollTerminated(c) ==
    /\ Pollable(c) /\ pins[c].terminated
    /\ pins' = RemovePin(c)
    /\ cursor' = [cursor EXCEPT ![c].done = TRUE]
    /\ item' = [item EXCEPT ![c] = Item("Terminated", 0)]
    /\ UNCHANGED <<logVars, notifying, writer_taken, pub, hist>>

\* Fault: the pin jumps past the oldest resident segment, unreported.
PollGapTooFar(c) ==
    /\ Pollable(c) /\ ~pins[c].terminated
    /\ pins[c].consumed < base
    /\ pins' = [pins EXCEPT ![c].consumed = base + 1]
    /\ notifying' = notifying \cup {c}
    /\ item' = [item EXCEPT ![c] = Item("Gap", base - pins[c].consumed)]
    /\ UNCHANGED <<logVars, cursor, writer_taken, pub, hist>>

\* Gap: the loss is reported, the pin jumps to the oldest resident segment.
PollGap(c) ==
    /\ Pollable(c) /\ ~pins[c].terminated
    /\ pins[c].consumed < base
    /\ pins' = [pins EXCEPT ![c].consumed = base]
    /\ notifying' = notifying \cup {c}
    /\ item' = [item EXCEPT ![c] = Item("Gap", base - pins[c].consumed)]
    /\ UNCHANGED <<logVars, cursor, writer_taken, pub, hist>>

\* Segment, for a pinned cursor.
PollPinned(c) ==
    /\ Pollable(c) /\ ~pins[c].terminated
    /\ IsResident(pins[c].consumed)
    /\ pins' = [pins EXCEPT ![c].consumed = @ + 1]
    /\ notifying' = notifying \cup {c}
    /\ item' = [item EXCEPT ![c] = Item("Segment", entries[ring_offset(pins[c].consumed)])]
    /\ UNCHANGED <<logVars, cursor, writer_taken, pub, hist>>

\* Fault: a dropped pin is removed but nobody is told.
DropCursorSilently(c) ==
    /\ cursor[c].kind # "off" /\ c \notin notifying
    /\ cursor' = [cursor EXCEPT ![c] = NoCursor]
    /\ pins' = RemovePin(c)
    /\ item' = [item EXCEPT ![c] = NoItem]
    /\ UNCHANGED <<logVars, notifying, writer_taken, pub, hist>>

\* Drop for SegmentCursor: a pin still held is removed, then announced.
DropCursor(c) ==
    /\ cursor[c].kind # "off" /\ c \notin notifying
    /\ cursor' = [cursor EXCEPT ![c] = NoCursor]
    /\ pins' = RemovePin(c)
    /\ notifying' = IF c \in DOMAIN pins THEN notifying \cup {c} ELSE notifying
    /\ item' = [item EXCEPT ![c] = NoItem]
    /\ UNCHANGED <<logVars, writer_taken, pub, hist>>

\* segment_pin_released.notify_all, after the lock was released.
NotifyAll(c) ==
    /\ c \in notifying
    /\ notifying' = notifying \ {c}
    /\ pub' = [p \in Publishers |->
                 IF pub[p].at = "parked" THEN [pub[p] EXCEPT !.at = "woken"] ELSE pub[p]]
    /\ UNCHANGED <<logVars, pins, cursor, writer_taken, item, hist>>

WriterStep(p) ==
    \/ \E seq \in SeqNums : PublishSegment(p, seq) \/ TryPublishSegment(p, seq)
    \/ ResumePublish(p)
    \/ DeadlinePasses(p)
    \/ ExpireStalledPins(p)

PollStep(c) ==
    \/ PollLagged(c) \/ PollLossy(c)
    \/ PollTerminated(c) \/ PollGap(c) \/ PollPinned(c)

CursorStep(c) ==
    \/ SubscribeSegments(c)
    \/ \E policy \in Policies : PinSegments(c, policy)
    \/ PollStep(c)
    \/ DropCursor(c)
    \/ NotifyAll(c)

Next ==
    \/ TakeWriter \/ DropWriter
    \/ \E p \in Publishers : WriterStep(p)
    \/ \E c \in Cursors : CursorStep(c)

Spec == Init /\ [][Next]_vars

\* wait_until returns at its deadline at the latest and the thread it wakes
\* runs; a cursor past its unlock reaches its notify_all.
Fairness ==
    /\ \A p \in Publishers : WF_vars(DeadlinePasses(p)) /\ WF_vars(ResumePublish(p))
    /\ \A c \in Cursors : WF_vars(NotifyAll(c))

FairSpec == Spec /\ Fairness

(***************************************************************************)
(* Properties.                                                             *)
(***************************************************************************)

\* The shape of every variable of the segment log, its cursors and writer.
TypeOK ==
    /\ entries \in Seq(Nat) /\ base \in Nat /\ published \in Nat
    /\ hist \in Seq(Nat)
    /\ DOMAIN pins \subseteq Cursors /\ pins \in [DOMAIN pins -> PinState]
    /\ cursor \in [Cursors -> CursorState]
    /\ notifying \subseteq Cursors
    /\ writer_taken \in BOOLEAN
    /\ pub \in [Publishers -> PubState]
    /\ item \in [Cursors -> [kind : ItemKinds, n : Nat]]

\* The ring holds exactly the newest segments ever accepted, never more than
\* its capacity: an absolute index minus base finds the segment published at
\* that index, whatever was evicted before (SegmentLog::push, ring_offset).
RingIsSuffix ==
    /\ published = Len(hist)
    /\ base + Len(entries) = published
    /\ Len(entries) <= Capacity
    /\ \A i \in 1..Len(entries) : entries[i] = hist[base + i]

\* The DVR promise: a pin under StallIngest or Terminate that has not been
\* terminated still finds its next segment resident, so its cursor never
\* reports a Gap, however the publisher's waits interleave with the polls.
PinLossless ==
    \A c \in DOMAIN pins :
        pins[c].policy # "Gap" /\ ~pins[c].terminated =>
            pins[c].consumed >= base

\* No lost wake-up for a lone publishing thread: while it is parked, a
\* StallIngest pin really blocks it, or a cursor that has moved its pin is
\* still on its way to notify_all (unlock precedes notify in poll and drop).
NoLostWakeup ==
    \A p \in Publishers : pub[p].at = "parked" =>
        (Full /\ AtRiskUnder("StallIngest") # {}) \/ notifying # {}

\* NonMonotonicSequenceNumber's promise: the sequence numbers the trunk ever
\* accepted go strictly up, across every SegmentWriter it issued.
SequenceMonotonic ==
    \A i, j \in 1..Len(hist) : i < j => hist[i] < hist[j]

\* A Terminate pin is marked terminated only by a step that evicts a segment it
\* had not consumed: try_publish_segment never ends a recording for a segment
\* it then refuses with WouldStall.  (A publish_segment that parks for a
\* StallIngest pin has already marked the Terminate pins of that pass.)
TerminateOnlyOnEviction ==
    [][\A c \in DOMAIN pins \cap DOMAIN pins' :
         pins[c].policy = "Terminate" /\ ~pins[c].terminated /\ pins'[c].terminated
            => \/ base' > pins[c].consumed
               \/ \E p \in Publishers : pub'[p].at = "parked"]_vars

\* A stalled publish_segment returns: STALL_INGEST_MAX_WAIT bounds its wait
\* even if no cursor is ever polled again.
StallEnds ==
    \A p \in Publishers : pub[p].at # "idle" ~> pub[p].at = "idle"

(***************************************************************************)
(* What a reader is promised.  The ring, its eviction and the pins vanish: *)
(* a reader has a position in the log of everything ever accepted.  A lossy*)
(* or Gap reader may be told it lost an exact stretch; a StallIngest or    *)
(* Terminate reader only ever gets the next segment or the end.            *)
(***************************************************************************)
Mode(c) ==
    CASE cursor[c].kind = "off"   -> "off"
      [] cursor[c].kind = "lossy" -> "lossy"
      [] OTHER -> IF cursor[c].done THEN "ended"
                  ELSE IF pins[c].policy = "Gap" THEN "gap" ELSE "strict"

Position(c) ==
    IF Mode(c) \in {"gap", "strict"} THEN pins[c].consumed
    ELSE IF Mode(c) = "lossy" THEN cursor[c].consumed ELSE 0

reader == [c \in Cursors |-> [mode |-> Mode(c), pos |-> Position(c)]]

Feed == INSTANCE SegmentFeed WITH
    Readers <- Cursors, Numbers <- SeqNums, log <- hist

\* No silent loss, no duplicate, no reordering: every publish, poll and drop
\* of the ring is a step, or a stutter, of the unbounded log of SegmentFeed.
FeedSpec == Feed!Spec
=============================================================================
