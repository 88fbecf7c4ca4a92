---------------------------- MODULE TrunkSamples ----------------------------
(***************************************************************************)
(* The sample side of a media-plane Trunk: one ring per retention class,   *)
(* written by the one TrunkWriter that exists at a time, and sample cursors*)
(* that merge the two rings.  When a source reconnects, the TrunkWriter is *)
(* dropped and re-issued; a bounded handover log records where in each     *)
(* ring the new writer starts, so that a cursor can report the             *)
(* discontinuity in band, between the old writer's data and the new one's. *)
(*                                                                         *)
(* An entry stands for a sample: the generation of the writer that         *)
(* published it and its absolute index.  Actions are critical sections of  *)
(* the trunk's Mutex; Trunk::writer takes the slot before it locks.        *)
(***************************************************************************)
EXTENDS Rings

CONSTANTS
    TimedCapacity, SparseCapacity,   \* TrunkConfig, NonZeroUsize
    HandoverCapacity,                \* WRITER_HANDOVER_LOG_CAPACITY
    Cursors,                         \* SampleCursor owners
    Subscriptions,                   \* the subscribe calls they make
    MaxPublished,                    \* bound: samples per class
    MaxGeneration                    \* bound: writers issued after the first

ASSUME CapacityAssumption ==
    /\ TimedCapacity \in Nat \ {0} /\ SparseCapacity \in Nat \ {0}
    /\ HandoverCapacity \in Nat \ {0}
ASSUME SubscriptionsAssumption ==
    Subscriptions \subseteq {"subscribe", "subscribe_from_backlog"}
ASSUME BoundAssumption == MaxPublished \in Nat /\ MaxGeneration \in Nat

VARIABLES
    timed, sparse,   \* ClassLog rings of [gen, idx]
    handovers,       \* WriterHandoverLog ring of [timed_at, sparse_at]
    writer,          \* "free", "issuing" (slot taken, not yet recorded), "live"
    issued_once,     \* Trunk::writer_issued_once
    gen,             \* history: generation of the latest writer
    cursor,          \* cursor -> its positions, or NoCursor
    item,            \* cursor -> what its last poll returned
    seen,            \* history: cursor -> generation its reader believes in
    live             \* history: cursors that came from subscribe

vars == <<timed, sparse, handovers, writer, issued_once, gen, cursor, item, seen, live>>
logVars == <<timed, sparse, handovers>>
writerVars == <<writer, issued_once, gen>>

\* A reader that expects no particular writer; one that was told that it
\* missed handovers it can no longer place.
Unknown == -1
Vague == -2

NoCursor == [on |-> FALSE, timed |-> 0, sparse |-> 0, handovers |-> 0,
             timed_from |-> 0, sparse_from |-> 0]

Item(kind, n, idx) == [kind |-> kind, n |-> n, idx |-> idx]
NoItem == Item("none", 0, 0)

Init ==
    /\ timed = EmptyRing /\ sparse = EmptyRing /\ handovers = EmptyRing
    /\ writer = "free" /\ issued_once = FALSE /\ gen = -1
    /\ cursor = [c \in Cursors |-> NoCursor]
    /\ item = [c \in Cursors |-> NoItem]
    /\ seen = [c \in Cursors |-> Unknown]
    /\ live = {}

(***************************************************************************)
(* The writer.                                                             *)
(***************************************************************************)

\* Trunk::writer up to its lock: the slot is taken; a re-issue has a handover
\* to record first.
TakeWriter ==
    /\ writer = "free" /\ gen < MaxGeneration
    /\ writer' = IF issued_once THEN "issuing" ELSE "live"
    /\ issued_once' = TRUE
    /\ gen' = gen + 1
    /\ UNCHANGED <<logVars, cursor, item, seen, live>>

\* Trunk::writer, under the lock.
RecordHandover ==
    /\ writer = "issuing"
    /\ handovers' = RingPush(handovers, HandoverCapacity,
                             [timed_at |-> timed.published, sparse_at |-> sparse.published])
    /\ writer' = "live"
    /\ UNCHANGED <<timed, sparse, issued_once, gen, cursor, item, seen, live>>

\* Drop for TrunkWriter.
DropWriter ==
    /\ writer = "live"
    /\ writer' = "free"
    /\ UNCHANGED <<logVars, issued_once, gen, cursor, item, seen, live>>

\* TrunkWriter::publish, RetentionClass::Timed.
PublishTimed ==
    /\ writer = "live" /\ timed.published < MaxPublished
    /\ timed' = RingPush(timed, TimedCapacity, [gen |-> gen, idx |-> timed.published])
    /\ UNCHANGED <<sparse, handovers, writerVars, cursor, item, seen, live>>

\* TrunkWriter::publish, RetentionClass::Sparse.
PublishSparse ==
    /\ writer = "live" /\ sparse.published < MaxPublished
    /\ sparse' = RingPush(sparse, SparseCapacity, [gen |-> gen, idx |-> sparse.published])
    /\ UNCHANGED <<timed, handovers, writerVars, cursor, item, seen, live>>

(***************************************************************************)
(* Sample cursors.                                                         *)
(***************************************************************************)

NewCursor(t, s, h) ==
    [on |-> TRUE, timed |-> t, sparse |-> s, handovers |-> h,
     timed_from |-> t, sparse_from |-> s]

Join(c, new) ==
    /\ ~cursor[c].on
    /\ cursor' = [cursor EXCEPT ![c] = new]
    /\ item' = [item EXCEPT ![c] = NoItem]
    /\ seen' = [seen EXCEPT ![c] = Unknown]
    /\ UNCHANGED <<logVars, writerVars>>

\* Trunk::subscribe: from now.
Subscribe(c) ==
    /\ "subscribe" \in Subscriptions
    /\ Join(c, NewCursor(timed.published, sparse.published, handovers.published))
    /\ live' = live \cup {c}

\* Trunk::subscribe_from_backlog: from the oldest entry of each ring.
SubscribeFromBacklog(c) ==
    /\ "subscribe_from_backlog" \in Subscriptions
    /\ Join(c, NewCursor(timed.base, sparse.base, handovers.base))
    /\ live' = live \ {c}

\* A dropped SampleCursor leaves nothing behind in the trunk.
DropCursor(c) ==
    /\ cursor[c].on
    /\ cursor' = [cursor EXCEPT ![c] = NoCursor]
    /\ UNCHANGED <<logVars, writerVars, item, seen, live>>

\* The loss reports, in the order poll looks for them.
LagsTimed(c) == cursor[c].timed < timed.base
LagsSparse(c) == ~LagsTimed(c) /\ cursor[c].sparse < sparse.base
LagsHandovers(c) ==
    ~LagsTimed(c) /\ ~LagsSparse(c) /\ cursor[c].handovers < handovers.base
NoLoss(c) == ~LagsTimed(c) /\ ~LagsSparse(c) /\ ~LagsHandovers(c)

\* Both classes have been read up to the k-th handover.
Reached(c, k) ==
    LET h == EntryAt(handovers, k)
    IN  cursor[c].timed >= h.timed_at /\ cursor[c].sparse >= h.sparse_at

\* Fault: only one class has to have moved past the place it joined.
ReportableIfBoth(c, k) ==
    LET h == EntryAt(handovers, k)
    IN  h.timed_at > cursor[c].timed_from /\ h.sparse_at > cursor[c].sparse_from

\* The k-th handover lies beyond the place where the cursor joined.
Reportable(c, k) ==
    LET h == EntryAt(handovers, k)
    IN  h.timed_at > cursor[c].timed_from \/ h.sparse_at > cursor[c].sparse_from

\* Where poll's while loop stops: the first handover it has not reached or
\* has to report, after silently consuming the ones before.
Settled(c) ==
    CHOOSE k \in cursor[c].handovers..handovers.published :
        /\ k < handovers.published => ~Reached(c, k) \/ Reportable(c, k)
        /\ \A j \in cursor[c].handovers..(k - 1) : Reached(c, j) /\ ~Reportable(c, j)

Discontinues(c) ==
    LET k == Settled(c) IN k < handovers.published /\ Reached(c, k)

\* Fault: new-writer samples may overtake the pending Discontinuity.
SparseNeverBlocked(c) == FALSE

\* A handover still pending holds back the class that has reached it.
SparseBlocked(c) ==
    LET k == Settled(c)
    IN  k < handovers.published /\ cursor[c].sparse >= EntryAt(handovers, k).sparse_at

\* Fault: a pending handover holds back even the old writer's samples.
TimedHeldBack(c) == Settled(c) < handovers.published

TimedBlocked(c) ==
    LET k == Settled(c)
    IN  k < handovers.published /\ cursor[c].timed >= EntryAt(handovers, k).timed_at

SparseReady(c) ==
    /\ NoLoss(c) /\ ~Discontinues(c)
    /\ ~SparseBlocked(c) /\ Resident(sparse, cursor[c].sparse)

TimedReady(c) ==
    /\ NoLoss(c) /\ ~Discontinues(c) /\ ~SparseReady(c)
    /\ ~TimedBlocked(c) /\ Resident(timed, cursor[c].timed)

Returns(c, new, it, gen_seen) ==
    /\ cursor' = [cursor EXCEPT ![c] = new]
    /\ item' = [item EXCEPT ![c] = it]
    /\ seen' = [seen EXCEPT ![c] = gen_seen]
    /\ UNCHANGED <<logVars, writerVars, live>>

PollLagged(c) ==
    /\ cursor[c].on /\ LagsTimed(c)
    /\ Returns(c, [cursor[c] EXCEPT !.timed = timed.base],
               Item("Lagged", timed.base - cursor[c].timed, 0), seen[c])

PollDegraded(c) ==
    /\ cursor[c].on /\ LagsSparse(c)
    /\ Returns(c, [cursor[c] EXCEPT !.sparse = sparse.base],
               Item("Degraded", sparse.base - cursor[c].sparse, 0), seen[c])

PollHandoversLagged(c) ==
    /\ cursor[c].on /\ LagsHandovers(c)
    /\ Returns(c, [cursor[c] EXCEPT !.handovers = handovers.base],
               Item("HandoversLagged", handovers.base - cursor[c].handovers, 0), Vague)

PollDiscontinuity(c) ==
    /\ cursor[c].on /\ NoLoss(c) /\ Discontinues(c)
    /\ Returns(c, [cursor[c] EXCEPT !.handovers = Settled(c) + 1],
               Item("Discontinuity", Settled(c) + 1, 0), Unknown)

\* What the reader believes after a sample of generation g.
Believes(c, g) == IF seen[c] = Vague THEN Vague ELSE g

PollSparse(c) ==
    /\ cursor[c].on /\ SparseReady(c)
    /\ LET e == EntryAt(sparse, cursor[c].sparse)
       IN  Returns(c, [cursor[c] EXCEPT !.handovers = Settled(c), !.sparse = @ + 1],
                   Item("Sparse", e.gen, e.idx), Believes(c, e.gen))

PollTimed(c) ==
    /\ cursor[c].on /\ TimedReady(c)
    /\ LET e == EntryAt(timed, cursor[c].timed)
       IN  Returns(c, [cursor[c] EXCEPT !.handovers = Settled(c), !.timed = @ + 1],
                   Item("Timed", e.gen, e.idx), Believes(c, e.gen))

\* poll returns None, having perhaps consumed handovers it suppresses.
Empty(c) == NoLoss(c) /\ ~Discontinues(c) /\ ~SparseReady(c) /\ ~TimedReady(c)

PollNone(c) ==
    /\ cursor[c].on /\ Empty(c)
    /\ Returns(c, [cursor[c] EXCEPT !.handovers = Settled(c)], NoItem, seen[c])

PollStep(c) ==
    \/ PollLagged(c) \/ PollDegraded(c) \/ PollHandoversLagged(c)
    \/ PollDiscontinuity(c) \/ PollSparse(c) \/ PollTimed(c) \/ PollNone(c)

Next ==
    \/ TakeWriter \/ RecordHandover \/ DropWriter
    \/ PublishTimed \/ PublishSparse
    \/ \E c \in Cursors : Subscribe(c) \/ SubscribeFromBacklog(c) \/ DropCursor(c) \/ PollStep(c)

Spec == Init /\ [][Next]_vars

(***************************************************************************)
(* Properties.                                                             *)
(***************************************************************************)

ItemKinds == {"none", "Lagged", "Degraded", "HandoversLagged", "Discontinuity", "Sparse", "Timed"}

\* The shape of the rings, the writer slot and the cursors.
TypeOK ==
    /\ \A r \in {timed, sparse, handovers} : r.base \in Nat /\ r.published \in Nat
    /\ writer \in {"free", "issuing", "live"} /\ issued_once \in BOOLEAN
    /\ gen \in -1..MaxGeneration
    /\ cursor \in [Cursors -> [on : BOOLEAN, timed : Nat, sparse : Nat, handovers : Nat,
                               timed_from : Nat, sparse_from : Nat]]
    /\ item \in [Cursors -> [kind : ItemKinds, n : Nat, idx : Nat]]
    /\ seen \in [Cursors -> -2..MaxGeneration]

\* Whatever was evicted, the entry found at an absolute index is the sample
\* published at that index, and no ring outgrows its capacity: in-order
\* delivery without duplicates (ClassLog::push with poll's ring_offset).
RingsIndexed ==
    /\ RingOK(timed, TimedCapacity) /\ RingOK(sparse, SparseCapacity)
    /\ RingOK(handovers, HandoverCapacity)
    /\ \A r \in {timed, sparse} : \A i \in 1..Len(r.entries) :
          r.entries[i].idx = r.base + i - 1

IsData(it) == it.kind \in {"Sparse", "Timed"}

\* Neither class delivers a sample of a new writer before the cursor has
\* accounted for that writer's handover, whichever class ran ahead.
NoOvertake ==
    \A c \in Cursors : cursor[c].on /\ IsData(item[c]) => item[c].n <= cursor[c].handovers

\* poll returns None only when it has handed over everything there is: a
\* pending handover never blocks both classes at once.
NothingStuck ==
    \A c \in Cursors : cursor[c].on /\ Empty(c) =>
        /\ cursor[c].timed = timed.published /\ cursor[c].sparse = sparse.published
        /\ Settled(c) = handovers.published

\* A step of c that hands its reader a sample keeps to the writer it believes
\* in, unless a Discontinuity or a HandoversLagged came in between.
Continues(c) ==
    PollSparse(c) \/ PollTimed(c) => seen[c] \in {Unknown, Vague} \/ seen'[c] = seen[c]

\* A live reader never goes from one writer's samples to another's without
\* being told, even when the bounded handover log has dropped the marker.
LiveHandoverReported == [][\A c \in live : Continues(c)]_vars

\* The sample path as a whole: the rings find every sample at its index, and
\* both classes keep to the order of the writers.
StreamInOrder == TypeOK /\ RingsIndexed /\ NoOvertake
=============================================================================
