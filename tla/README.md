# Verification of rust-broadcast's live media plane

TLA+ models of the part of rust-broadcast through which every live stream
passes, the TLC runs that check them on small instances, and TLAPS proofs of the
properties that matter most. Paths are relative to the repository root.

## 1. Inventory

The workspace has about 75 crates. Most of them are stateless codecs for wire
formats (MPEG-2 TS/PES/PS, DVB SI, T2-MI, SCTE 35/104, SMPTE, captions, CENC,
fMP4): parsers and serialisers, well served by fixture tests. The state, the
threads and the timing are in a much smaller place.

| Component | State | Operations | Talks to |
|---|---|---|---|
| **Trunk** (`media-plane/src/trunk.rs`): segment log | ring of finished segments, pins, one writer slot | `publish_segment`, `try_publish_segment`, `expire_stalled_pins`, `subscribe_segments`, `pin_segments`, `SegmentCursor::poll`, drops | segmenter (writes), DVR and egress (read), `Condvar` between them |
| Trunk: sample rings | timed ring, sparse ring, writer-handover log | `writer`, `publish`, `subscribe`, `subscribe_from_backlog`, `SampleCursor::poll` | ingest driver (writes), segmenter, push outputs (read) |
| Trunk: event log | ring of events, table of segment starts, wall-clock anchor | `publish_event`, `note_segment_start`, `set_time_anchor`, `events_between`, `events_in_segment`, `EventCursor::poll` | ingest and segmenter (write), playlist rendering (reads) |
| Trunk: part log | ring of LL-HLS parts, index by segment | `publish_part`, `parts_in_segment`, `part_bytes` | segmenter, HLS origin |
| Trunk: waiters | waiter counter, `progress` and `slot_freed` events | `listen`, `waiter_slot_freed`, drop of `ProgressListener` | HTTP handlers, push outputs |
| **Blocking requests** (`multimux/src/http.rs`, `push/mod.rs`) | one call's stack | `resolve_blocking`, the push loop's wait | Trunk waiters |
| **Program segmenter** (`multimux/src/source/segment.rs`, `transmux/src/ll_hls.rs`, `ts_hls.rs`) | inner segmenter, publish queue, stall clock | `pump`, `apply_track_change`, `flush`, `drain_publish_queue` | Trunk sample cursor (in), segment writer (out) |
| **HLS origin** (`hls-runtime/src/server/engine.rs`) | drained window of segments, init history, drain gate | `drain`, `render_playlist`, `live_edge`, part requests, `set_init` | Trunk (reads), HTTP handlers, segmenter (init) |
| **DVR recorder and catch-up** (`multimux/src/dvr.rs`, `catchup.rs`) | period files and their indexes, pinned cursor | `poll_and_persist`, roll, append, evict, seed from disk; scan and read | Trunk pins, disk, HTTP handlers |
| Retention driver (`media-plane/src/retention.rs`) | generic recorder over a pin | `drive`, `locate` | not used by the service |
| **Ingest driver, routes, supervisor** (`media-plane/src/ingress.rs`, `multimux/src/route.rs`, `source/mod.rs`, `source/driver.rs`, `origin/supervisor.rs`) | sessions, publisher slots, served programs, retry counters | feed, `publish_program`, `release_program`, retry, `follow_trunk` | everything above |
| **SRT runtime** (`srt-runtime/src/arq`, `tsbpd.rs`, `io.rs`) | send buffer, loss list, ack point, play-out buffer | `send_one`, `on_ack`, `on_nak`, `feed_data`, `skip_range`, `release` | UDP |
| Other transports (`rist-`, `rtsp-`, `rtmp-`, `webrtc-`, `tshttp-runtime`) | sessions, timers | sans-IO handlers | sockets |
| Clients (`hls-runtime`, `dash-runtime`, `buffering-runtime`) | fetch schedule, buffers | poll, feed | HTTP |
| CI runtime, playout, SSAI | session layers, schedules | handlers | hardware, HTTP |

What is hard in this code: a writer that must never block live output and
readers that were promised every segment; eviction under readers' feet; a source
that reconnects in the middle of a stream; a number checked under a lock that is
released before it is used; notifications that race registrations; two rings
merged in order; a queue that may not reorder, leak or stall; a playlist built
from four reads under four locks; a disk that fails or loses power between any
two operations; a network that loses, repeats and reorders. PROJECT.json lists
these as hazards, each at its line, with the properties that would catch them.

What makes each part correct:

* segment log: a pinned reader loses nothing, any other reader is told exactly
  what it lost; numbers go up; a stalled writer comes back;
* sample rings: in-order, no sample overtakes a discontinuity, nothing stuck;
* event log: resolve what can be resolved, invent nothing, never move a time;
* part log: the index is the ring; the newest bytes win;
* waiters: no leaked slot, no missed wake-up, every wait ends;
* segmenter: what is cut is what is published, in order, once, with a bounded
  backlog that drains;
* HLS origin: a playlist lists each segment once, with the init it needs, and only
  what can be fetched; discontinuity numbers never change; hints are honoured;
* DVR: a listed segment is served as recorded or refused, never as other bytes;
  nothing but retention removes it; the archive stays within its limits;
* routes: no live publisher is displaced, none that is gone blocks a new one,
  media sequence numbers only grow, outputs follow the served trunk;
* SRT: an ordered channel without duplicates, whose two cursors never drift
  apart, and that misses for a slow application only what came out while its channel
  was full.

## 2. Modules

| Module | Models | Uses |
|---|---|---|
| `SegmentFeed` | abstract: what a reader of the segment log is promised | |
| `TrunkSegments` | the segment log, its writer and cursors | `SegmentFeed` (refinement) |
| `Rings` | the bounded ring with absolute indices | |
| `TrunkSamples` | sample rings, handover log, sample cursors | `Rings` |
| `TrunkSamplesProofs` | its inductive invariant and theorems | `TrunkSamples` |
| `TrunkEvents` | the event log | `Rings` |
| `TrunkEventsProofs` | its inductive invariant and theorems | `TrunkEvents` |
| `Scans` | filtering a sequence by a value | |
| `PartLog`, `TrunkParts` | the part log and its index | `Rings`, `Scans` |
| `TrunkPartsProofs` | induction, enumerations, the index's invariant and theorem | `TrunkParts` |
| `WakeList` | `event_listener::Event` (external crate) | |
| `BlockingReload` | waiter slots, blocking HTTP requests, push outputs | `WakeList` |
| `BlockingReloadProofs` | the event's lemmas, inductive invariant and theorems | `BlockingReload` |
| `ProgramSegmenter` | the segmenter, composed with the trunk it writes to | `TrunkSegments`, `PartLog` |
| `ProgramSegmenterProofs` | the segment log's inductive invariant, safety theorems and refinement of `SegmentFeed`; then the segmenter's invariant and theorems | `ProgramSegmenter` (and through it `TrunkSegments`), `TrunkPartsProofs` |
| `HlsWindow` | the origin's window of drained segments and its init history | |
| `HlsOrigin` | concurrent playlist and part requests over the trunk's two logs, a segmenter that may be held up and announces inits | `HlsWindow`, `Rings`, `PartLog` |
| `HlsOriginProofs` | inductive invariants of the shared drain and of the pages made from it, and theorems | `HlsOrigin`, `TrunkPartsProofs` |
| `Archive` | the files of a DVR archive and how catch-up reads them | |
| `DvrRecorder` | the recorder, one file operation at a time, with faults and crashes | `Archive` |
| `DvrRecorderProofs` | lemmas on archive scans and byte accounts, inductive invariants and theorems | `DvrRecorder` |
| `RouteBinding` | sessions, publisher slots, the supervisor and the push outputs | |
| `RouteBindingProofs` | inductive invariants and theorems | `RouteBinding` |
| `SeqSpace` | circular sequence arithmetic | |
| `OrderedChannel` | abstract: what an SRT connection promises an application with a bounded channel | |
| `SrtArq` | SRT sender, network, receiver, TSBPD scheduler, driver and the channel to the application | `SeqSpace`, `OrderedChannel` (refinement) |

An `MC*` module declares the model values of its runs and the constraints
section 3 explains.

**Atomicity.** An action is one critical section of the trunk's mutex, or one
access to an atomic or an event. Calls that span several are split where the code
unlocks: `publish_segment` at its `Condvar` wait (`pub[p].at`), a pinned `poll` or
`drop` between its unlock and `notify_all` (`notifying`), `Trunk::writer` between
the slot's compare-exchange and the lock (`writer = "issuing"`), a waiter's drop
between counter, notification and listener (`pc`), `drain_publish_queue` between
any two calls on the segment writer (`at`).

**Data.** A segment is its number, a sample its writer's generation and index, a
part its (segment, index) and an identity for its bytes. Time is a flag per
deadline that may be set at any moment, so every order of a timeout and another
event is explored. History variables (`hist`, `sent`, `asked`, `noted`, `cut`,
`seen`, ...) exist for the properties only.

**The segmenter.** `at` walks through a call of `pump` or `flush`: `idle`,
`ingest` (samples are pushed into the inner segmenter), then `drain` and `queue`
alternating until the batch is in, with `expire` when a stall has to be ended.
`call` tells apply_track_change's queueing from publish_ready's and from the
flush. The start gate only decides which samples are pushed; captions and
audio/subtitle followers write to other trunks; none of them is modelled.
Recorders run at any time: a DVR cursor is polled by the drain of any driver of
its route, and `pin_segments` is public.

**The HLS origin.** A playlist request is a process: read the head, drain unless the
head is drained already, copy the window, read the last closed number, read the parts
after it, and render. The drain takes the gate, polls the shared cursor until it is
empty (every `poll` locks the trunk anew), looks up each item's init generation under
the init lock, fills the window item by item under its lock, and stores the head it
read at the start. Each lock of the code is a step here. A part request looks at the
part log, the closed number and the next hint, again under three locks, and a pending
one looks again after progress. The segmenter cuts and publishes between any two
steps: `queued` counts the segments `Cut` has put into the publish queue
(`ProgramSegmenter` models the queue itself), and `CloseSegment` is the trunk
accepting the first of them, at once or after a stalled pin has moved. `set_init` may
be called while segments cut against the old init are still queued, as
`apply_track_change` does; it takes the first segment the trunk has not closed as the
first of the new init. A history field of a segment, `under`, records the init
generation that was current when the trunk accepted it; the code does not keep that
and looks the generation up by number. `RefusedIsOver` looks at requests for the next
part the segmenter would publish when they arrive.

**The DVR recorder.** `data` and `idx` are the directory: a file is the sequence of
pieces written to it, `Torn` for a partial write. `durable` is how much of each file
a power loss keeps. `pc` is where the recorder is between two file operations; at
each of them one fault (a failed open, a short write, a failed sync, a failed index
write, a failed removal, a crash) may strike. `evict_oldest_period` removes the index
and then the data file (`EvictIndex`, `EvictData`); a removal that fails is only
logged, and the period is forgotten and taken off `total_bytes` all the same. `left_idx`
and `left_data` are history: the evicted periods whose index is still there, and the
data files this recorder could not remove. A catch-up request finds an
entry and reads it later.
A reconnect makes a new recorder over the same directory with a number offset; a
crash does so with only what was durable, and the number floor read back from disk.

**The route.** All sessions of a route run in the supervisor's task, so a turn of
its loop (`Received`, `Ends`, ...) is one step; push outputs are other tasks and take
`await_trunk_other_than` in steps: enable, look, wait. `logs` counts what each
session's segmenters published; `shown` is every media sequence number a player
could have seen.

**SRT.** Messages are sets that never shrink: a message never taken is lost, one
taken twice is a duplicate. `rcv` is the ARQ receiver and `sch` the TSBPD scheduler,
each with its own cursor; `IngressData`, `HandleDropReq` and `Wake` are the three
kinds of wake-up of the driver, each followed by its timers. The driver hands payloads
to the application with `try_send` on a channel of `DeliverCapacity`
(`DELIVER_CHANNEL_CAPACITY`) places: `waiting` is how many the application has not taken
(`Recv`), and `deliver` puts what the full channel refuses into `deliver_dropped`, in
the middle of a batch too. `staged`, the scheduler and the acknowledgement go on as if
it had been taken, as in the code. The refinement maps `delivered`, `waiting`, the
numbers of DROPREQs (`abandoned`) and `deliver_dropped` (`missed`) to `OrderedChannel`,
in which a payload is missed only while the channel is full.

Definitions whose comment starts with "Fault:" are not part of a specification:
each is the form a plausible bug would give to the definition below it, and shows
that the property named for it in PROJECT.json really depends on that code.

## 3. Runs

| Run | Shows | Bounds |
|---|---|---|
| `segments` | lossless pins, no lost wake-up, monotone numbers, refinement of `SegmentFeed`, Terminate pins marked only by a step that evicts or parks; every stall ends | 1 thread, 2 cursors, ring of 2, 4 segments, all policies, all calls |
| `samples` | rings indexed, no overtaking, nothing stuck, every writer change reported to a live cursor | rings of 2 and 1, 3 samples per class, 3 re-issues, handover log of 2 |
| `events` | resolution in any order of arrival, with saturation and eviction | 3 events, 3 notes of segment starts, tables of 2, a clock ending at 5 |
| `parts` | index equals scan, newest wins, no leak | ring of 3, 6 parts, 3 segments |
| `reload` | slots accounted for, no missed progress, a parked push output is justified, every wait ends | 1 request, 2 push outputs, 2 slots, 2 steps of progress |
| `segmenter` | stream preserved, exact live edge, bounded queue; the backlog behind a dead recorder drains | both containers, 4 segments of up to 2 parts, ring of 1, queue cap of 2, part ring of 3 |
| `origin` | the drain is complete, segments carry the init that was current when they were accepted, while the history knows it, what is listed is servable, no segment twice, fresh hints, whole part lists, no early refusal, stable discontinuity numbers | 2 requests, 3 segments of up to 2 parts, rings of 1, window of 2, 3 inits with a history of 2, 1 segment held up |
| `dvr` | right bytes or none, listed is there, ascending, no orphans but what could not be removed, bounded, entries lost only by eviction | 2 connections or processes, 2 segments each, 2 inits, 1 fault, 1 roll, 1 closed period kept, a limit of 3 pieces or none |
| `dvr_init` | violation: a period is self-contained | fMP4, 2 connections of 3 segments and 2 inits, 1 roll, no faults |
| `route` | slots, served trunk, numbers, give-up counters, rebinding; outputs follow | 3 sessions, 3 attempts, 2 programs, 2 published parts or segments, 1 output |
| `srt` | refinement of `OrderedChannel` under a slow application, ack follows delivery, repair possible, buffers in step and bounded | 4 packets across the wrap of a 16-number space, window of 2, a channel of 1 place, 4 units of time, one repair |
| `srt_dropreq` | violation: the ack point never stalls behind what delivery has passed | as `srt`, DROPREQs ahead of the ack point |

The bounds make the rare cases happen: rings overflow, a cursor falls behind and
catches up, the handover log drops a marker, the queue reaches its cap, the init
history forgets a generation that is still to be looked up, and the 64-bit clock
ends at 5 so that additions saturate. Longer histories repeat the
same relative positions. For the trunk's segment, sample, event and part logs, its
waiters, the segmenter, the routes, the origin and the DVR this does not have to be
believed: section 4 proves their safety properties for every bound. The `segments`
run, for one, has one publishing thread; `PinLosslessHolds` and
`SegmentsImplementFeed` have any number.

Where several small facts make one promise, a run checks their conjunction, whose
parts are defined by name above it: `StreamInOrder` (`NoOvertake`, `RingsIndexed`),
`ResolvedRight` (`PendingIsUnresolvable`, `NoFabricatedTime`), `PartIndexSound`
(`IndexIsExact`, `NewestPartWins`, `IndexIsBounded`), `SlotsSound` (`SlotsAccounted`,
`ParkedOnlyWhileInUse`), `QueueSound` (`QueueBounded`), `PlaylistHonest`
(`NoSegmentTwice`, `HintIsFresh`, `ClosedPartsWhole`), `CatchupSound` (`ServedRight`,
`ListedIsThere`), `RetentionSound` (`NoOrphanFiles`, `PeriodsBounded`, `BytesBounded`),
`PublisherSlots` (`SlotHeldByLive`, `PublisherIsServed`) and `BuffersInStep`
(`StagedIsScheduled`, `TrackingBounded`). The module's type invariant is part of
one of them. `TypeOK` and `RingIsSuffix` of the segment log are proved instead.

**Fairness.** `segments`: a timed `Condvar` wait returns at its deadline, a woken
thread runs, a cursor past its unlock reaches `notify_all`. Nobody has to poll.
`reload`: tasks that can run do run, deadlines and the 250 ms caps expire.
`segmenter`: a call that began runs on, the source keeps delivering or ends
(`pump` runs after every receive, an idle step does not call it), the 30 s pass.
Recorders may stop for ever. `parts`, `samples` and `events` check safety only.
`route`: a push output that can run runs. `origin`, `dvr` and `srt` check safety
only: nothing in `srt` can be promised of a network that may lose everything.

**Reductions.** Some runs explore part of the product of independent choices, by a
constraint of their MC module:

* `origin`: requests are interchangeable (`Alike`), and once a request has copied
  the window, or asks for a part, it only reads what the segmenter writes, so the
  others wait meanwhile (`ReadAlone`). The shared drain is explored in full. Inits
  are only compared with the current one, so two take turns (`InitsTakeTurns`). The
  third init, which makes the origin forget one, and a segment that waits in the
  publish queue are traded against a second request and a second part in a segment
  (`LastInitSimple`, `HeldUpSimple`). The proofs of the six properties need none of
  these.
* `dvr`: an entry found early stays listed until its period is evicted, so a reader
  is followed only across that eviction (`ReadAcrossEviction`); the overrun policies
  and the unlimited archive are explored with TS, whose recorder has no init
  (`PoliciesWithTs`).
* `srt`: a behaviour has one retransmission or one DROPREQ (`OneRepair`), and
  DROPREQs start at or before the ack point (`DropReqsAhead`); the other case is
  `srt_dropreq`. The last packet is traded against the last unit of time
  (`NotBothLast`). Nothing restricts how slow the application is.
* `route`: sessions are traded against refused attempts, the third session against
  the second program, and only the first program carries media, since programs are
  numbered independently.

Two runs expect a violation. Each states what a comment says and shows that the
code does otherwise:

* `dvr_init` (`SelfContained`): after a mid-stream codec change the recorder compares
  the init before it drains its cursor, so it opens a period headed by the new init
  and then appends the tail that was cut against the old one. `dvr.rs:55` promises
  self-contained periods.
* `srt_dropreq` (`NeverStalled`): the receiver forgets a DROPREQ for packets ahead of
  its ack point, the scheduler remembers it and later jumps over the range without
  reporting it. The ack point then waits for those packets for good and nobody asks
  for them. `receiver.rs:455` says `skip_range` exists to prevent that stall.

### Known limits of the code met while modelling

The passing properties are stated so that they hold; these are the cases just
outside of them.

* `publish_segment` takes `&self`, checks the number, parks with the lock released
  and pushes without a second look: two threads sharing a writer can get a smaller
  number accepted last. One thread cannot (`SequenceMonotonic`, proved).
* `publish_segment` marks Terminate pins in the pass that then parks; a pin drained
  during the wait is ended for nothing. `try_publish_segment` takes two passes and
  does not (`TerminateOnlyOnEviction` allows exactly the parking case).
* `notify(1)` is not additive: with two slots freed before the first woken caller
  runs, the second drop wakes nobody, and a push output stays parked beside a free
  slot until its 250 ms cap. It is never parked with no slot in use at all
  (`ParkedOnlyWhileInUse`).
* A from-backlog sample cursor does not report a writer change whose marker was
  evicted before it subscribed.
* An MPEG-TS rebuild (`segment.rs:1427`) reads its starting number before the old
  segmenter's tail is published; the new one's first segments are then refused and
  dropped. `StreamPreserved` is about fMP4, whose rebuild continues the numbering.
* The flush at end of stream drains once; what a pin still holds up is dropped with
  the segmenter (`StreamPreserved` accounts for it as `lost`).
* HLS origin: a segment that closes between `window_view` and `live_edge` is in
  neither half of that playlist; a hinted part published between the two reads of a
  part request gets one Not Found. `apply_track_change` queues the old segmenter's
  tail and calls `set_init` at once. While a StallIngest recorder is behind, that tail
  is still in the publish queue, and the trunk accepts it later under numbers the new
  init has already claimed: it is listed under the new init. `engine.rs:1977` says
  that the first segment not yet closed is the first one cut against the new bytes,
  and `engine.rs:714` that a segment's generation is the one it was cut against; the
  code does not ensure that, and `InitMatches` claims the init that was current when
  the trunk accepted the segment. A segment drained only after `INIT_HISTORY` newer
  inits gets the oldest generation still known.
* DVR, limits: `dvr.rs:150` says at most `retention_periods` period files are kept, and
  `dvr.rs:155` that the archive never stays above the limit between polls.
  `enforce_retention` counts closed periods only, so N closed files and the open one
  are there between polls. The byte limit, too, is looked at only after a segment was
  appended and indexed: the head of a period opened later comes on top until then, and
  a poll that ends in a failed write or index update has enforced nothing.
  `PeriodsBounded` and `BytesBounded` claim what the code keeps: they speak of that
  point, of files that could be removed, and of pieces written whole. Bytes of a torn
  write are counted only when the write offset has moved past them.
* DVR, failed removals: a data file that could not be removed is forgotten and counted
  by nobody until a later recorder finds it in the directory, so until then the
  archive can exceed its limits by such files. An index that could not be removed goes
  on being listed, and a read under it is answered Gone, unless its data file is left as
  well and a later recorder evicts the period again.
* DVR, others: a failed `read_dir` on the first poll is not retried (not modelled); a
  poll of an old recorder still on the blocking pool may overlap a new recorder's.
* SRT: a payload that comes out while the application's channel is full is dropped,
  TLPKTDROP negotiated or not, and acknowledged; the sender never learns of it.
  Dropping the receiving handle ends the connection and is not modelled. A packet
  that arrives after the DROPREQ that named it is staged and never released; staged
  datagrams are not bounded by the flow window; a lost last packet is not repaired
  until a later one reveals the gap.
* Routes: a session refused because another one publishes the program never tries
  again, even after that one has gone (its program stays in `published`); its init
  and track specs still reach the bound program.

## 4. Proofs

Each theorem holds for every value of the constants that satisfies the named
assumptions of the module that declares them. They ask for no more than the code's
types give: capacities of at least one, bounds that are numbers, kinds and policies
from the code's enums. The invariants below were checked by TLC before they were
proved.

**Segment log** (first part of `ProgramSegmenterProofs`; any capacity, set of threads and cursors,
choice of policies and calls).

* `SegmentsTyped`, `RingIsSuffixHolds`, `PinLosslessHolds`: from `SegmentsSafe`,
  which shows that `SafeInv` is inductive. `PinLossless` alone is not: to know
  that a push keeps a pin's next segment one has to know where the ring starts
  (`RingIsSuffix`), that a pinned cursor has a pin until it is done and a lossy
  one has none, and that no cursor is ahead of what was published. `SafeInv` is
  the conjunction of these. `PushLemma`, `TerminateLemma` and `LoopLemma` carry
  the argument for the writer: a push that evicts happens only when no live
  non-Gap pin is left unmarked at the oldest entry. One step per action follows.
* `LonePublisher`, `NoLostWakeupHolds`: with at most one publishing thread,
  `SequenceMonotonic` and `NoLostWakeup`. The invariant adds that the number of a
  parked call is greater than the newest entry; with two threads the claim is false
  (known limits).
* `TerminateOnlyOnEvictionHolds`: with any number of threads, only a step that
  evicts or parks marks a Terminate pin.
* `SegmentsImplementFeed`: `Spec => FeedSpec`. The mapping forgets ring, base,
  pins and threads: a reader's mode and position are read off its cursor and pin,
  the log is `hist`. An eviction is a stutter, a `Lagged` or `Gap` is `Lose` of the
  exact stretch, a marked pin is invisible until `poll` returns `Terminated`. The
  step that returns a segment needs `RingIsSuffix` (the entry at the offset is the
  one of the log); that a strict reader never loses needs `PinLossless`.

**Sample rings** (`TrunkSamplesProofs`; any ring and handover capacity, any number of
samples, writers and cursors).

* `StreamInOrderHolds`, `NothingStuckHolds`, `LiveHandoverReportedHolds`, from
  `SamplesInv`. That a poll never returns a sample ahead of its discontinuity
  depends on facts about what is still in the rings: every sample is of the writer
  the markers around its position name (`TimedPlaced`, `SparsePlaced`), markers
  point into the rings (`MarksInRange`), the writer issued last is the one counted
  (`WritersCounted`), and a cursor is never beyond a ring's end (`InRange`).
  `LiveRight` relates a live cursor's next marker to the last writer it reported.
  `SettledLemma` is the merge: when `poll` returns a sample of one ring, the least
  marker the cursor has not passed lies beyond both its positions. The least one
  exists by well-foundedness of the naturals, so no induction over the ring is used.

**Event log** (`TrunkEventsProofs`; any capacity, clock length, tick rate, starts,
deltas and wall-clock anchors).

* `ResolvedRightHolds`, `ResolvedForGoodHolds`, `OneSegmentPerEventHolds`, from
  `EventsInv`: every start the table holds was reported (`Reported`), and each
  entry of the ring either has the time derived from the anchor it was asked for
  by an observation that was made, or is pending and cannot be resolved by anything
  the log holds (`EntryRight`). The proof follows a sweep over the ring entry by
  entry, with the saturating arithmetic of the 64-bit clock kept.

**Part log** (`TrunkPartsProofs`; any capacity, any sequence of parts, numbers reused
and segments interleaved).

* `PartIndexSoundHolds`, from `PartIInv`: the ring holds the newest parts published,
  and `by_segment[n]` enumerates in ascending order exactly the absolute positions of
  segment n's resident parts, with no key for a segment that has none (`IndexRight`).
  An eviction takes the least position of its segment, which is the head of that
  list (`UnindexedRight`); a push adds one beyond all others (`IndexedRight`).
* That a lookup through the index is a scan of the ring needs what `Where`, a
  recursive function, computes for every sequence. The library's induction theorems
  take a predicate, which the provers cannot instantiate; `SetInduction` restates
  induction for a set and is proved from well-foundedness. With it `WhereEnumerates`
  holds, and a set of numbers has one enumeration (`EnumeratesOnce`), so two
  ways to compute the same set of positions give the same sequence.

**Program segmenter** (second part of `ProgramSegmenterProofs`; any capacities, queue cap, number of
recorders and policies, parts per segment, track changes; the segmenter is the only
publisher of its trunk, `MeAssumption`).

* `StreamPreservedHolds`, `LiveEdgeExactHolds`, `QueueSoundHolds`, from
  `SegmenterSafe`, which shows that `SegInv` is inductive over the segmenter's steps
  and every step of every recorder. Its parts:
  `TrunkInv` is the segment log's own `SafeInv`, kept because each call on the writer
  and each cursor step is a step of that log; `ControlInv` says what each point of a
  call may hold; `TypedInv` bounds every number by the count of segments cut.
* `StreamInv` is the stream: in fMP4 mode the numbers run on without a gap from the
  trunk through the backlog, the batch and what is ready to the open segment, parts
  between their segments (`Chain` of `Run`s). Each operation of the queue moves an
  item across one joint of the chain (`RunAppend`, `RunTail`, `RunConcat`), and
  `InStreamOrderRuns` shows, by induction over the ready segments, that merging
  parts and segments gives such a run. `StreamPreserved` only speaks of segments and
  is not inductive: a part published too early would not show in it.
* `EdgeInv`: the index is right, and the newest part is of the greatest segment any
  resident part is of, which is at most the one after the last closed. The live edge,
  found through the index, is then the segment of the newest part.
* `QueueInv`: between drains the queue is at its limit, and during one beyond it, only
  while the segment in front would be accepted now (`Unblocked`). This is what the refusal, the move of a pin between
  it and `expire_stalled_pins`, and the retry have to preserve; a recorder's step can
  only clear the way (`CursorClear`), and nobody else publishes.
* `TsInv`: MPEG-TS has no parts, so nothing but segments is ever queued.

**Waiters and blocking requests** (`BlockingReloadProofs`; any number of slots,
requests and push outputs).

* `SlotsSoundHolds`, `NoMissedProgressHolds`, from `ReloadInv`: the counter is the
  cardinality of the set of clients that hold a slot, each client's place in its
  event's queue follows from where it is in its code (`ClientRight`), and a request
  that registered and has not been notified has looked at the progress that is
  there now (`Rechecked`). `ListenLemma`, `NotifyLemma` and `LeaveLemma` say what
  each operation of `event_listener::Event` does to queue and notifications,
  including that a listener that leaves notified hands its notification on.
  `ParkedOnlyWhileInUse` needs both: the last holder of a slot to leave notifies,
  and the notification reaches a push output that is still parked.

**Routes** (`RouteBindingProofs`; any number of sessions, attempts, programs,
outputs, retry limits and any archive floor).

* `PublisherSlotsHold`, from `SlotsInv`: slots name trunks of sessions that run,
  and the slot's trunk is the one served.
* `NoTakeoverHolds`, from `HandoverInv`, which adds that a pull attempt has one
  session (`OnePuller`) and that a served trunk whose session runs holds the slot
  (`ServedHoldsSlot`): a bind can then replace only a session that is over.
* `NoMissedRebindHolds`, from `RebindInv`: what a push output saw is still there
  from its look on, or it has been notified.
* `GivesUpExactlyHolds`, from `CountsExact`: each counter is the exact length of
  the run of its error at the end of the verdicts (`RunLemma`).
* `NumbersOnlyGrowHolds`: a new trunk's offset is beyond every number a player may
  have seen (`ShownWithinReach`), across reconnects and for every archive floor.

**HLS origin** (`HlsOriginProofs`; any number of requests, segments and inits, any
capacity of the trunk's ring and of the window; from `CapacitiesAssumption`,
`BoundsAssumption` and `NobodyAssumption`, which says that the value for "no holder"
is not a request).

* `OriginSafe`: `OriginInv` is inductive. `DrainComplete` alone says nothing about a
  drain that is under way, so the invariant follows the segments from the trunk to
  the window: numbers are positions in the log (`SegsRight`), the window is one run
  of consecutive numbers (`WindowRight`), what the gate's holder has polled and
  prepared lies in order between the window's end and the cursor (`InHand`) and
  reaches up to the cursor (`EndsAtCursor`), and the stored mark and, after the last
  poll, the head to be stored are not beyond it (`MarkBehind`). The gate has a holder
  exactly when some request is between its polls and its store.
* `DrainCompleteHolds`: a mark that equals the head puts the cursor at the end of the
  log and leaves nothing in hand, so the window ends there.
* `ListedIsServedHolds`: from `WindowRight`, by `ServedLemma`.
* `DiscontinuityStableHolds`: a step of the window drops some segments from its front
  and appends one (`RolledLemma`), and counting marks before and after the cut
  agrees (`CountsShift`, by a bijection of positions; no induction). `NumbersLemma`
  compares two segments across such a step.
* `NoSegmentTwiceHolds`: `ViewInv` adds that a request's copy of the window holds only
  segments that were closed when it was made, hence at most the edge read later.
* `PlaylistHonestHolds`, from `PageSafe`: `PageInv` adds to the drain's invariant
  what the part log holds and what each request has read of it. `PartsRight`: the
  index is right (`IndexRight` of the part log) and the resident parts end with the
  one the segmenter published last, each segment's reaching its end without a hole
  (`UpTo`, `EndsWhole`); eviction takes from the front, so a segment has all its last
  parts or none. `CountInv`: every copy of a closed segment, in the ring, in a
  request's hand, in the window and in a request's view (`Carries`), has the count
  its parts were published with (`Whole`), so a part list that starts at 0 is whole.
  `FreshInv`: what a request saw when it began is still the past (`Seen`), and the
  open segment it read later is not behind that or gone altogether (`Probed`,
  `Beyond`), so its hint is fresh.
* `RefusedIsOverHolds`: `NextHinted` shows that the part a request may wait for is
  the segmenter's next one, and `HintedInv` follows that part from the lookup to the
  refusal: it stays next, or it is over.
* `InitMatchesHolds`, for any number of inits: the store keeps the starts of the newest
  generations in order (`StartsRight`), and every copy of a closed segment lies between
  the start of the generation it was accepted under and the next (`Placed`), as far as
  these are still remembered (`PlacedLookup`, `PlacedAfterSet`). What a request has looked
  up and not yet put into the window (`Matched`) is right unless the store has forgotten
  that generation since. The hypothesis is in the property, segment by segment: fewer than
  `InitHistory` inits have been announced after the one it was accepted under. Nothing
  is assumed of how long segments are queued when an init is announced.

**DVR recorder** (`DvrRecorderProofs`; any number of connections, segments, inits,
rolls, failures and crashes, any retention; from `LimitsAssumption` and
`BoundsAssumption`).

* `ArchiveInvariant`: `ArchiveInv` is inductive over every file operation, every way
  one may fail, a power loss between any two, and the requests that read meanwhile.
  What catch-up relies on is spread over the disk and the recorder's memory, so the
  parts have to be kept together. `ListedInv`: a listed period has its data file,
  unless its index was to be evicted and could not be; its segments are where the
  entries say, and in the synced part unless a sync failed (`Describes`); a power
  loss that cuts files back to `durable` keeps it. `OpenInv`: the open period's
  index in memory is right and the sidecar is the beginning of it, short by the
  newest entry exactly between the write and the index update, so appending in place
  and rewriting whole give the same file. `KnownInv`: a recorder that has seeded
  knows every data file but those it could not remove, in order, with its own period
  last. `ReaderInv`: a request's entry is still listed, or a later period exists, in
  which case its number is never used again. `OrderInv`: all listed numbers ascend
  and none is beyond `Reached`.
* `CatchupSoundHolds`, `ArchiveAscendingHolds`: `ScanLemma` says what `scan_archive`
  lists and in which order. It rests on `FlattenLemma` and `AscendingLists`, which
  show what a recursive flattening and a CHOOSE of an ascending list compute, by
  induction restated for a set (`NatSetInduction`). After a crash the numbering
  continues from `archive_seq_floor`; `FloorLemma` puts that beyond every entry.
* `EntriesOnlyEvictedHolds`: from `OpenInv` for the index updates and `VictimLemma` for
  eviction. The victim is the least period on record; that it is the least one listed as
  well, those with an index that could not be removed aside, needs `LeftInv`
  (`LeftInvariant`): a data file this recorder could not remove is listed only if its
  index could not be removed either.
* `RetentionSoundHolds`: `BytesInv` is the recorder's account. No file holds more whole
  pieces than it is charged for and `total_bytes` is at least the number of units
  charged (`Slots`). `SumLemma` (what `seed_from_disk` adds up), `SlotsAppend` (a period
  left) and `SlotsTail` (one evicted) keep it; `total_bytes` is bounded from below
  only, since a tear or a power loss can leave a file shorter than its charge.
  `WholeOnAccount` then bounds the disk by the account. A file whose removal failed
  leaves the account, so the bounds are those of `Removable`, and `NoOrphanFiles` says that
  nothing else is out of retention's reach.

**Only model-checked.**

* Liveness (`StallEnds`, `EveryWaitEnds`, `BacklogDrains`, `EgressFollows`): the
  prover has neither fairness nor ENABLED.
* `SrtArq`: its order is that of a circular space and is an order only while all
  numbers in flight lie within half of it. A proof first has to carry every number to
  its position in the stream, under a bound on how far the stream runs, and then
  follow the release loop and the fold over the dropped runs by induction. This has
  not been done.

## 5. Plan

Done: the trunk (segments, samples, events, parts, waiters), the segmenter, the HLS
origin, the DVR, route binding and SRT's ARQ; the safety properties of all of them
but SRT's proved.

Next, in this order:

1. Circular-order lemmas for `SeqSpace`, then `BuffersInStep` and `RepairPossible`.
2. Models of the RIST receiver and of the HLS and DASH clients' fetch schedules.

### Not modelled

* Wire-format codecs (MPEG-2, DVB, SCTE, SMPTE, captions, RTP payloads) and container
  byte layout: pure functions over bytes, with no state to explore. They are by far
  the largest part of the workspace's roughly 600,000 lines, which is why the mapped
  lines are a small share of the whole although the live path is covered.
* Inside modelled components: playlist text, date ranges, delta updates and
  multivariant playlists; the EPG sidecar and the catch-up memo; cancellation and
  back-off lengths; SRT's handshake, encryption, RTT, ACKACK, pacing, clock drift and
  timestamp wrap; captions and audio followers of the segmenter.
* `retention.rs`: a generic recorder no service uses.
* Other session protocols, clients, CI, playout and SSAI: candidates for later work.
* Command-line tools and configuration parsing: I/O and validation.

## 6. Running

    tlc -config TrunkSegments.cfg MCTrunkSegments
    tlapm TrunkPartsProofs.tla

The pairs of module and configuration are listed in PROJECT.json under `runs`.
