----------------------------- MODULE HlsOrigin -----------------------------
(***************************************************************************)
(* An HlsOrigin serving LL-HLS from a Trunk while the segmenter publishes. *)
(* Requests run on their own threads: every lock taken by drain,           *)
(* render_playlist and resolve_resource is an action of its own, and the   *)
(* segmenter may publish parts, close segments and change the init between *)
(* any two of them.  Waiting for progress is BlockingReload's subject: a   *)
(* pending request may be resolved again at any time.                      *)
(***************************************************************************)
EXTENDS HlsWindow, PartLog, Rings

CONSTANTS
    Requests,         \* requests under way, each for the playlist or for a part
    Breaks,           \* segments published as discontinuous
    SegmentCapacity,  \* TrunkConfig::segment_capacity
    PartCapacity,     \* TrunkConfig::part_capacity
    WindowCapacity,   \* Window::capacity, at least MIN_WINDOW_SEGMENTS in the code
    InitHistory,      \* INIT_HISTORY
    PartRetention,    \* closed segments within three Target Durations of the end
    MaxSegments,      \* bound: segments closed
    MaxParts,         \* bound: parts in a segment
    MaxInits,         \* bound: init generations
    MaxQueued         \* bound: segments cut and not yet published

ASSUME CapacitiesAssumption ==
    {SegmentCapacity, PartCapacity, WindowCapacity, InitHistory} \subseteq Nat \ {0}
ASSUME BoundsAssumption == {PartRetention, MaxSegments, MaxParts, MaxInits, MaxQueued} \subseteq Nat

FUTURE_PART_SEGMENT_BOUND == 2
UNDRAINED == -1
Nobody == "nobody"

ASSUME NobodyAssumption == Nobody \notin Requests

NoHint == [n |-> 0, i |-> 0]

VARIABLES
    segs,      \* the trunk's ring of closed segments
    parts,     \* the trunk's PartLog
    queued,    \* the segmenter: how many segments it has cut that the trunk has not
               \* accepted yet
    open,      \* parts published of the segment after the last closed one
    inits,     \* InitStore
    window,    \* Window
    cursor,    \* absolute position of the origin's SegmentCursor
    drained,   \* drained_through
    gate,      \* who holds drain_gate
    pc,        \* request -> where it is
    loc        \* request -> its locals

trunkVars == <<segs, parts, queued, open, inits>>
drainVars == <<window, cursor, drained, gate>>
vars == <<trunkVars, drainVars, pc, loc>>

\* SegmentCursorItem::Lagged among the segments the cursor returns.
Gap == [n |-> 0, discontinuous |-> FALSE, under |-> 0, count |-> 0]

NoLocals == [head |-> 0, polled |-> <<>>, prepared |-> <<>>, view |-> <<>>,
             edge |-> 0, open |-> <<>>, from |-> NoHint, ask |-> NoHint,
             hinted |-> FALSE]

Init ==
    /\ segs = EmptyRing /\ parts = EmptyPartLog /\ queued = 0 /\ open = 0
    /\ inits = EmptyInits /\ window = EmptyWindow
    /\ cursor = 0 /\ drained = UNDRAINED /\ gate = Nobody
    /\ pc = [r \in Requests |-> "idle"]
    /\ loc = [r \in Requests |-> NoLocals]

\* Trunk::last_closed_segment, 0 before the first.
last_closed == IF segs.entries = <<>> THEN 0 ELSE Last(segs.entries).n

(***************************************************************************)
(* The segmenter's thread: parts, then the segment they make up.  A stalled *)
(* pin keeps what was cut in the publish queue (ProgramSegmenter models the *)
(* queue itself); a changed track set is announced all the same.           *)
(***************************************************************************)
Cut ==
    /\ inits.current # NoInit
    /\ queued < MaxQueued /\ last_closed + queued < MaxSegments
    /\ queued' = queued + 1
    /\ UNCHANGED <<segs, parts, open, inits, drainVars, pc, loc>>

PublishPart ==
    /\ inits.current # NoInit
    /\ open < MaxParts /\ last_closed < MaxSegments
    /\ parts' = push(parts, PartCapacity,
                     [n |-> last_closed + 1, i |-> open, id |-> <<last_closed + 1, open>>])
    /\ open' = open + 1
    /\ UNCHANGED <<segs, queued, inits, drainVars, pc, loc>>

CloseSegment ==
    /\ open > 0 /\ queued > 0
    /\ segs' = RingPush(segs, SegmentCapacity,
                        [n |-> last_closed + 1, discontinuous |-> last_closed + 1 \in Breaks,
                         under |-> inits.generation, count |-> open])
    /\ open' = 0 /\ queued' = queued - 1
    /\ UNCHANGED <<parts, inits, drainVars, pc, loc>>

\* HlsOrigin::set_init.  The old segmenter was flushed, so that every part
\* published so far is of a segment that has been cut; whether the trunk has
\* accepted that segment is not looked at.
set_init(bytes) ==
    /\ open > 0 => queued > 0
    /\ inits.generation < MaxInits
    /\ inits' = InitSet(inits, InitHistory, bytes, last_closed + 1)
    /\ UNCHANGED <<segs, parts, queued, open, drainVars, pc, loc>>

(***************************************************************************)
(* drain: absorb what the cursor has into the window.                      *)
(***************************************************************************)
Head_ == IF segs.entries = <<>> THEN 0 ELSE last_closed + 1
Goto(p, where) == pc' = [pc EXCEPT ![p] = where]

\* A playlist request: the head is read before anything is polled.
BeginPlaylist(p) ==
    /\ pc[p] = "idle"
    /\ Goto(p, IF drained = Head_ THEN "view" ELSE "gate")
    /\ loc' = [loc EXCEPT ![p] = [NoLocals EXCEPT
                  !.head = IF drained = Head_ THEN 0 ELSE Head_,
                  !.from = [n |-> last_closed + 1, i |-> open]]]
    /\ UNCHANGED <<trunkVars, drainVars>>

\* Another request drained as far while this one waited for the gate.
GateNotNeeded(p) ==
    /\ pc[p] = "gate" /\ gate = Nobody /\ drained = loc[p].head
    /\ loc' = [loc EXCEPT ![p] = [NoLocals EXCEPT !.from = loc[p].from]]
    /\ Goto(p, "view")
    /\ UNCHANGED <<trunkVars, drainVars>>

\* drain_gate; the cursor is only polled under it.
TakeGate(p) ==
    /\ pc[p] = "gate" /\ gate = Nobody /\ drained # loc[p].head
    /\ gate' = p
    /\ Goto(p, "poll")
    /\ UNCHANGED <<trunkVars, window, cursor, drained, loc>>

\* SegmentCursor::poll, until it has nothing: each call locks the trunk anew.
PollSegment(p) ==
    /\ pc[p] = "poll" /\ Resident(segs, cursor)
    /\ loc' = [loc EXCEPT ![p].polled = Append(@, EntryAt(segs, cursor))]
    /\ cursor' = cursor + 1
    /\ UNCHANGED <<trunkVars, window, drained, gate, pc>>

\* The lossy cursor fell behind the ring: it goes on with the oldest resident.
PollLagged(p) ==
    /\ pc[p] = "poll" /\ cursor < segs.base
    /\ loc' = [loc EXCEPT ![p].polled = Append(@, Gap)]
    /\ cursor' = segs.base
    /\ UNCHANGED <<trunkVars, window, drained, gate, pc>>

PollEmpty(p) ==
    /\ pc[p] = "poll" /\ cursor = segs.published
    /\ Goto(p, "prepare")
    /\ UNCHANGED <<trunkVars, drainVars, loc>>

\* The init generation of each segment, looked up by number under the init lock.
Prepare(p) ==
    /\ pc[p] = "prepare" /\ loc[p].polled # <<>>
    /\ LET item == Head(loc[p].polled)
       IN  loc' = [loc EXCEPT ![p].polled = Tail(@),
                              ![p].prepared = Append(@,
                                  [item |-> item, init_gen |-> generation_for(inits, item.n)])]
    /\ UNCHANGED <<trunkVars, drainVars, pc>>

LockWindow(p) ==
    /\ pc[p] = "prepare" /\ loc[p].polled = <<>>
    /\ Goto(p, "fill")
    /\ UNCHANGED <<trunkVars, drainVars, loc>>

\* One prepared item goes into the window, whose lock is held throughout.
Absorb(p) ==
    /\ pc[p] = "fill" /\ loc[p].prepared # <<>>
    /\ LET next == Head(loc[p].prepared)
       IN  window' = IF next.item = Gap THEN note_gap(window)
                     ELSE window_push(window, WindowCapacity, next.item, next.init_gen)
    /\ loc' = [loc EXCEPT ![p].prepared = Tail(@)]
    /\ UNCHANGED <<trunkVars, cursor, drained, gate, pc>>

\* Fault: the head is read again after the window was filled.
StoreHeadReadAgain(p) ==
    /\ pc[p] = "fill" /\ loc[p].prepared = <<>>
    /\ drained' = Head_
    /\ gate' = Nobody
    /\ loc' = [loc EXCEPT ![p] = [NoLocals EXCEPT !.from = loc[p].from]]
    /\ Goto(p, "view")
    /\ UNCHANGED <<trunkVars, window, cursor>>

\* The head read at the start is stored; window and gate are unlocked.
StoreHead(p) ==
    /\ pc[p] = "fill" /\ loc[p].prepared = <<>>
    /\ drained' = loc[p].head
    /\ gate' = Nobody
    /\ loc' = [loc EXCEPT ![p] = [NoLocals EXCEPT !.from = loc[p].from]]
    /\ Goto(p, "view")
    /\ UNCHANGED <<trunkVars, window, cursor>>

Drain(p) ==
    \/ TakeGate(p) \/ PollSegment(p) \/ PollLagged(p) \/ PollEmpty(p)
    \/ Prepare(p) \/ LockWindow(p) \/ Absorb(p) \/ StoreHead(p)

(***************************************************************************)
(* render_playlist: a copy of the window, then live_edge's two reads of    *)
(* the trunk, then the parts of the closed segments near the end.          *)
(***************************************************************************)

WindowView(p) ==
    /\ pc[p] = "view" /\ \A q \in Requests : pc[q] # "fill"
    /\ loc' = [loc EXCEPT ![p].view = window.segments]
    /\ Goto(p, "edge")
    /\ UNCHANGED <<trunkVars, drainVars>>

\* Fault: the last closed segment is the one drain saw at its start.
LiveEdgeFromDrain(p) ==
    /\ pc[p] = "edge"
    /\ loc' = [loc EXCEPT ![p].edge = loc[p].from.n - 1]
    /\ Goto(p, "probe")
    /\ UNCHANGED <<trunkVars, drainVars>>

LiveEdgeClosed(p) ==
    /\ pc[p] = "edge"
    /\ loc' = [loc EXCEPT ![p].edge = last_closed]
    /\ Goto(p, "probe")
    /\ UNCHANGED <<trunkVars, drainVars>>

LiveEdgeParts(p) ==
    /\ pc[p] = "probe"
    /\ loc' = [loc EXCEPT ![p].open = in_segment(parts, loc[p].edge + 1)]
    /\ Goto(p, "render")
    /\ UNCHANGED <<trunkVars, drainVars>>

\* All the parts of a closed segment as a run from 0, or none of them.
resident_part_specs(n) ==
    LET is == {q.i : q \in ToSet(in_segment(parts, n))}
    IN  IF is = 0..(Cardinality(is) - 1) THEN is ELSE {}

\* One past the highest part index, 0 when there is none.
one_past(open_parts) == Max({0} \cup {open_parts[k].i + 1 : k \in 1..Len(open_parts)})

\* The media playlist a request renders from what it has read.
playlist(l) ==
    LET near == Len(l.view) - PartRetention
        listed == [k \in 1..Len(l.view) |->
                      [n |-> l.view[k].n, init_gen |-> l.view[k].init_gen,
                       count |-> l.view[k].count,
                       parts |-> IF k > near THEN resident_part_specs(l.view[k].n) ELSE {}]]
        open_seq == IF l.open = <<>> THEN l.edge ELSE l.edge + 1
        hint == IF l.open # <<>> THEN [n |-> open_seq, i |-> one_past(l.open)]
                ELSE IF \E k \in 1..Len(listed) : listed[k].parts # {}
                     THEN [n |-> open_seq + 1, i |-> 0] ELSE NoHint
    IN  [segments |-> listed, open_seq |-> open_seq, open |-> l.open, hint |-> hint]

\* playlist(loc[p]) is sent.
Render(p) ==
    /\ pc[p] = "render"
    /\ loc' = [loc EXCEPT ![p] = NoLocals]
    /\ Goto(p, "idle")
    /\ UNCHANGED <<trunkVars, drainVars>>

(***************************************************************************)
(* resolve_resource of a part name.                                        *)
(***************************************************************************)
RequestPart(p, n, i) ==
    /\ pc[p] = "idle"
    /\ loc' = [loc EXCEPT ![p].ask = [n |-> n, i |-> i],
                          ![p].hinted = (n = last_closed + 1 /\ i = open)]
    /\ Goto(p, "part")
    /\ UNCHANGED <<trunkVars, drainVars>>

PartReady(p) ==
    /\ pc[p] = "part" /\ part_bytes(parts, loc[p].ask.n, loc[p].ask.i) # {}
    /\ Goto(p, "Ready")
    /\ UNCHANGED <<trunkVars, drainVars, loc>>

PartMissing(p) ==
    /\ pc[p] = "part" /\ part_bytes(parts, loc[p].ask.n, loc[p].ask.i) = {}
    /\ Goto(p, "closed?")
    /\ UNCHANGED <<trunkVars, drainVars, loc>>

\* Its segment has closed, or lies too far ahead to have been hinted.
PartOutOfReach(p) ==
    /\ pc[p] = "closed?"
    /\ \/ last_closed >= loc[p].ask.n
       \/ loc[p].ask.n > last_closed + FUTURE_PART_SEGMENT_BOUND
    /\ Goto(p, "NotFound")
    /\ UNCHANGED <<trunkVars, drainVars, loc>>

PartInReach(p) ==
    /\ pc[p] = "closed?"
    /\ last_closed < loc[p].ask.n
    /\ loc[p].ask.n <= last_closed + FUTURE_PART_SEGMENT_BOUND
    /\ Goto(p, "hinted?")
    /\ UNCHANGED <<trunkVars, drainVars, loc>>

\* Fault: the part awaited is numbered by how many are resident.
next_hinted_count(n) == Len(in_segment(parts, n))

\* The only part of the segment a request may wait for.
next_hinted(n) == one_past(in_segment(parts, n))

PartNotHinted(p) ==
    /\ pc[p] = "hinted?"
    /\ loc[p].ask.i # next_hinted(loc[p].ask.n)
    /\ Goto(p, "NotFound")
    /\ UNCHANGED <<trunkVars, drainVars, loc>>

PartPending(p) ==
    /\ pc[p] = "hinted?"
    /\ loc[p].ask.i = next_hinted(loc[p].ask.n)
    /\ Goto(p, "pending")
    /\ UNCHANGED <<trunkVars, drainVars, loc>>

\* Progress, or a spurious wake-up: the request is resolved again.
ResolveAgain(p) ==
    /\ pc[p] = "pending"
    /\ Goto(p, "part")
    /\ UNCHANGED <<trunkVars, drainVars, loc>>

\* The AwaitPolicy deadline passes, or the reply has been sent.
Finish(p) ==
    /\ pc[p] \in {"pending", "Ready", "NotFound"}
    /\ loc' = [loc EXCEPT ![p] = NoLocals]
    /\ Goto(p, "idle")
    /\ UNCHANGED <<trunkVars, drainVars>>

Segmenter == Cut \/ PublishPart \/ CloseSegment \/ \E bytes \in 1..MaxInits : set_init(bytes)

Playlist(p) ==
    \/ BeginPlaylist(p) \/ GateNotNeeded(p) \/ Drain(p)
    \/ WindowView(p) \/ LiveEdgeClosed(p) \/ LiveEdgeParts(p) \/ Render(p)

Part(p) ==
    \/ \E i \in {0, open, open + 1} : RequestPart(p, last_closed + 1, i)
    \/ RequestPart(p, last_closed + FUTURE_PART_SEGMENT_BOUND + 1, 0)
    \/ PartReady(p) \/ PartMissing(p) \/ PartOutOfReach(p) \/ PartInReach(p)
    \/ PartNotHinted(p) \/ PartPending(p) \/ ResolveAgain(p) \/ Finish(p)

Next == Segmenter \/ \E p \in Requests : Playlist(p) \/ Part(p)

Spec == Init /\ [][Next]_vars

(***************************************************************************)
(* Properties.                                                             *)
(***************************************************************************)
TypeOK ==
    /\ RingOK(segs, SegmentCapacity) /\ RingOK(parts.ring, PartCapacity)
    /\ open \in 0..MaxParts /\ queued \in 0..MaxQueued
    /\ Len(window.segments) <= WindowCapacity
    /\ gate \in Requests \cup {Nobody}
    /\ cursor \in 0..segs.published
    /\ pc \in [Requests -> {"idle", "gate", "poll", "prepare", "fill", "view", "edge", "probe",
                            "render", "part", "closed?", "hinted?", "pending", "Ready", "NotFound"}]

\* When the drained mark equals the trunk's head, the window really ends with
\* the last closed segment: the shortcut in drain never hides a segment.
DrainComplete ==
    drained = Head_ /\ segs.entries # <<>> =>
        /\ window.segments # <<>>
        /\ Last(window.segments).n = last_closed

\* Every segment is listed under the init that was current when the trunk
\* accepted it, however late it is drained and whatever inits are announced
\* before that, as long as the bounded history still knows it.
InitMatches ==
    \A k \in 1..Len(window.segments) :
        LET s == window.segments[k]
        IN  inits.generation < s.under + InitHistory => s.init_gen = s.under

\* Every segment a playlist lists is found again by its number: the window
\* numbers its segments without a hole, whatever the cursor lost.
ListedIsServed ==
    \A k \in 1..Len(window.segments) :
        window_bytes_of(window, window.segments[k].n) = {window.segments[k]}

\* The requests about to send a playlist.
Rendering == {p \in Requests : pc[p] = "render"}

\* No playlist shows one segment both closed and open: the window is copied
\* before the live edge is read.
NoSegmentTwice ==
    \A p \in Rendering :
        LET page == playlist(loc[p])
        IN  page.open # <<>> =>
                \A k \in 1..Len(page.segments) : page.segments[k].n < page.open_seq

\* a is at or after b in the order parts are published in.
NotBefore(a, b) == a.n > b.n \/ (a.n = b.n /\ a.i >= b.i)

\* The preload hint never names a part that already existed when the request
\* began, whatever was published or evicted while it was rendered.
HintIsFresh ==
    \A p \in Rendering :
        LET hint == playlist(loc[p]).hint
        IN  hint # NoHint => NotBefore(hint, loc[p].from)

\* A closed segment is listed with every part it was published in, or none.
ClosedPartsWhole ==
    \A p \in Rendering :
        LET page == playlist(loc[p])
        IN  \A k \in 1..Len(page.segments) :
                page.segments[k].parts \in {{}, 0..(page.segments[k].count - 1)}

\* A request for the next part the segmenter would publish is answered Not
\* Found only once that part is out, or its segment closed without it.
RefusedIsOver ==
    \A p \in Requests :
        pc[p] = "NotFound" /\ loc[p].hinted =>
            \/ loc[p].ask.n <= last_closed
            \/ (loc[p].ask.n = last_closed + 1 /\ loc[p].ask.i < open)

\* The discontinuity number a playlist implies for its k-th segment.
DiscontinuityNumber(w, k) ==
    w.discontinuity_sequence + Marked(SubSeq(w.segments, 1, k))

\* A segment keeps its discontinuity number while it is listed, and one that
\* starts a new run has a larger number than every earlier segment.
DiscontinuityStable ==
    [][\A k \in 1..Len(window.segments), j \in 1..Len(window'.segments) :
          LET s == window.segments[k]
              t == window'.segments[j]
          IN  /\ s.n = t.n => DiscontinuityNumber(window, k) = DiscontinuityNumber(window', j)
              /\ s.n < t.n /\ t.discontinuous =>
                    DiscontinuityNumber(window, k) < DiscontinuityNumber(window', j)]_window

\* A playlist as a whole, put together from reads under four locks: no segment
\* both closed and open, no stale hint, no closed segment with half its parts.
PlaylistHonest == TypeOK /\ NoSegmentTwice /\ HintIsFresh /\ ClosedPartsWhole
=============================================================================
