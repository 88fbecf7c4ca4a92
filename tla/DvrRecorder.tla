---------------------------- MODULE DvrRecorder ----------------------------
(***************************************************************************)
(* A route's DVR recorder: it drains a pinning cursor on the trunk of the  *)
(* connection it was made for, appends each segment to the open period     *)
(* file, then indexes it, then evicts old periods.  Every change of the    *)
(* disk is an action of its own: catch-up requests read between any two,   *)
(* the operation may fail, and the process may die there.  After a crash,  *)
(* or a reconnect of the source, a new recorder continues in the archive   *)
(* its predecessors left.                                                  *)
(***************************************************************************)
EXTENDS Archive

CONSTANTS
    Exts,              \* ".m4s" and ".ts"
    Policies,          \* ArchiveOverrunSerde: "Stall", "Gap", "Terminate"
    Faults,            \* what may fail: "open", "head", "write", "sync", "index",
                       \* "remove", "crash"
    retention_periods, \* DvrConfig; 0 is no limit
    RetentionBytes,    \* values of DvrConfig's retention_bytes, in pieces; 0 is no limit
    MaxLives,          \* bound: connections and processes
    MaxSegments,       \* bound: segments of one connection
    MaxInits,          \* bound: init segments of one connection
    MaxFaults,         \* bound: failures other than a crash
    MaxRolls           \* bound: rolls on a clock or an EIT transition

ASSUME LimitsAssumption == retention_periods \in Nat /\ RetentionBytes \subseteq Nat
ASSUME BoundsAssumption ==
    {MaxLives, MaxSegments, MaxInits, MaxFaults, MaxRolls} \subseteq Nat

VARIABLES
    ext, policy, retention_bytes,   \* the route's configuration
    data, idx,     \* the archive directory
    durable,       \* period -> pieces of its data file that survive a power loss
    life,          \* which connection this is
    offset,        \* seq_offset, also the live playlist's
    cuts,          \* the segments this trunk closed: the init each was cut against
    init,          \* HlsOrigin::init_bytes, 0 before the first
    cursor,        \* segments the pinning cursor has handed out
    rec,           \* DvrRecorder
    pc,            \* where the recorder is
    reader,        \* a catch-up request holding an index entry, or none
    faults,        \* history: failures other than a crash
    sync_failed,   \* history: a sync_data failed
    left_idx,      \* history: evicted periods whose index could not be removed
    left_data,     \* history: data files this recorder could not remove
    rolls          \* history: clock and EIT rolls so far

config == <<ext, policy, retention_bytes>>
disk == <<data, idx, durable>>
trunkVars == <<life, offset, cuts, init>>
leftVars == <<left_idx, left_data>>
vars == <<config, disk, trunkVars, cursor, rec, pc, reader, faults, sync_failed, leftVars, rolls>>

FreshRecorder ==
    [seeded |-> FALSE, period |-> 0, periods |-> <<>>, total_bytes |-> 0,
     open |-> FALSE, write_offset |-> 0, index |-> <<>>, index_file |-> FALSE,
     last_init |-> 0, last_appended |-> 0, terminated |-> FALSE]

NoReader == [num |-> -1, seq |-> 0, off |-> 0, life |-> 0]
At(where) == [at |-> where, ret |-> "idle", with |-> 0]

Init ==
    /\ ext \in Exts /\ policy \in Policies /\ retention_bytes \in RetentionBytes
    /\ data = NoFiles /\ idx = NoFiles /\ durable = NoFiles
    /\ life = 1 /\ offset = 0 /\ cuts = <<>> /\ init = 0 /\ cursor = 0
    /\ rec = FreshRecorder /\ pc = At("idle")
    /\ reader = NoReader /\ faults = 0 /\ sync_failed = FALSE /\ rolls = 0
    /\ left_idx = {} /\ left_data = {}

closed == Len(cuts)

\* A failure of that kind happens here.
Fails(fault) ==
    /\ fault \in Faults /\ faults < MaxFaults
    /\ faults' = faults + 1

(***************************************************************************)
(* The ingest task between two polls: it closes segments and may announce  *)
(* a changed track set, whose init the later segments are cut against.     *)
(***************************************************************************)
IngestUnchanged == UNCHANGED <<config, disk, life, offset, cursor, rec, pc,
                               reader, faults, sync_failed, leftVars, rolls>>

CloseSegment ==
    /\ pc.at = "idle" /\ closed < MaxSegments
    /\ ext = ".m4s" => init # 0
    /\ cuts' = Append(cuts, init)
    /\ UNCHANGED init /\ IngestUnchanged

SetInit ==
    /\ pc.at = "idle" /\ ext = ".m4s" /\ init < MaxInits
    /\ init' = init + 1
    /\ UNCHANGED cuts /\ IngestUnchanged

(***************************************************************************)
(* poll_and_persist.                                                       *)
(***************************************************************************)
RecorderUnchanged == UNCHANGED <<config, trunkVars, reader, sync_failed, leftVars, rolls>>
Stay == UNCHANGED faults

needs_poll == ~rec.open \/ (closed > 0 /\ rec.last_appended # closed)

SumBytes(periods) ==
    LET total[k \in 0..Len(periods)] ==
            IF k = 0 THEN 0 ELSE total[k - 1] + periods[k].file_bytes
    IN  total[Len(periods)]

\* Fault: only periods that were indexed are adopted.
Adopted_indexed(r) ==
    LET nums == Ascending(DOMAIN idx)
        periods == [k \in 1..Len(nums) |-> [num |-> nums[k], file_bytes |-> Len(data[nums[k]])]]
    IN  IF DOMAIN data \cup DOMAIN idx = {} THEN [r EXCEPT !.seeded = TRUE]
        ELSE [r EXCEPT !.seeded = TRUE, !.period = Max(DOMAIN data \cup DOMAIN idx) + 1,
                       !.periods = periods, !.total_bytes = SumBytes(periods)]

\* The recorder after it has learnt what is on disk.
Adopted(r) ==
    LET nums == Ascending(DOMAIN data)
        periods == [k \in 1..Len(nums) |-> [num |-> nums[k], file_bytes |-> Len(data[nums[k]])]]
    IN  IF DOMAIN data \cup DOMAIN idx = {} THEN [r EXCEPT !.seeded = TRUE]
        ELSE [r EXCEPT !.seeded = TRUE, !.period = Max(DOMAIN data \cup DOMAIN idx) + 1,
                       !.periods = periods, !.total_bytes = SumBytes(periods)]

\* seed_from_disk, at a recorder's first poll.
Seeded == IF rec.seeded THEN rec ELSE Adopted(rec)

\* The init is new or has changed.
InitChanged == ext = ".m4s" /\ init # 0 /\ rec.last_init # init

Roll(ret, with) == [at |-> "roll", ret |-> ret, with |-> with]

\* The start of a poll: roll to a period with the new init at its head, or
\* because the open one has lasted period_duration_secs, or drain.
PollUnchanged == UNCHANGED <<config, disk, trunkVars, cursor, reader, faults, sync_failed, leftVars>>

Poll ==
    /\ pc.at = "idle" /\ needs_poll
    /\ rec' = Seeded
    /\ pc' = IF InitChanged THEN Roll("drain", init) ELSE At("drain")
    /\ UNCHANGED rolls /\ PollUnchanged

PollAtPeriodEnd ==
    /\ pc.at = "idle" /\ needs_poll /\ rec.open /\ ~InitChanged /\ rolls < MaxRolls
    /\ rolls' = rolls + 1
    /\ rec' = Seeded
    /\ pc' = Roll("drain", rec.last_init)
    /\ PollUnchanged

\* handle_si_event between two polls: the present event has changed.
ProgrammeChange ==
    /\ pc.at = "idle" /\ rec.open /\ rolls < MaxRolls
    /\ rolls' = rolls + 1
    /\ pc' = Roll("idle", rec.last_init)
    /\ UNCHANGED rec /\ PollUnchanged

(***************************************************************************)
(* start_period: leave the current period, open the next file, write the   *)
(* init at its head.                                                       *)
(***************************************************************************)

\* The period just left goes on record if anything was written to it.
Left(r) ==
    IF r.index # <<>> \/ r.write_offset > 0
    THEN [r EXCEPT !.open = FALSE, !.period = @ + 1, !.total_bytes = @ + r.write_offset,
                   !.periods = Append(@, [num |-> r.period, file_bytes |-> r.write_offset])]
    ELSE [r EXCEPT !.open = FALSE]

OpenPeriod ==
    /\ pc.at = "roll"
    /\ LET r == Left(rec)
           exists == r.period \in DOMAIN data
       IN  \/ /\ data' = IF exists THEN data ELSE WithFile(data, r.period, <<>>)
              /\ durable' = IF exists THEN durable ELSE WithFile(durable, r.period, 0)
              /\ rec' = [r EXCEPT !.write_offset = IF exists THEN Len(data[r.period]) ELSE 0]
              /\ pc' = [pc EXCEPT !.at = "head"]
              /\ Stay
           \/ /\ Fails("open")
              /\ rec' = r /\ pc' = At("idle")
              /\ UNCHANGED <<data, durable>>
    /\ UNCHANGED <<idx, cursor>> /\ RecorderUnchanged

\* The period is open; its index starts empty.
Opened(r) == [r EXCEPT !.open = TRUE, !.index = <<>>, !.index_file = FALSE]

WritesHead == pc.with # 0 /\ ext = ".m4s" /\ rec.write_offset = 0

WriteHead ==
    /\ pc.at = "head"
    /\ \/ /\ WritesHead
          /\ data' = [data EXCEPT ![rec.period] = Append(@, InitPiece(pc.with))]
          /\ rec' = Opened([rec EXCEPT !.write_offset = 1, !.last_init = pc.with])
          /\ pc' = At(pc.ret) /\ Stay
       \/ /\ ~WritesHead
          /\ rec' = Opened(rec) /\ pc' = At(pc.ret) /\ Stay
          /\ UNCHANGED data
       \/ /\ WritesHead /\ Fails("head")
          /\ data' = [data EXCEPT ![rec.period] = Append(@, Torn)]
          /\ pc' = At("idle")
          /\ UNCHANGED rec
    /\ UNCHANGED <<idx, durable, cursor>> /\ RecorderUnchanged

(***************************************************************************)
(* Draining the pinning cursor: what the trunk's segment log promises.     *)
(***************************************************************************)
per_period_byte_budget ==
    Max({1, retention_bytes \div (retention_periods + 1)})

OverBudget ==
    /\ retention_bytes > 0 /\ rec.index # <<>>
    /\ rec.write_offset + 1 > per_period_byte_budget

\* append_segment up to the write: skip the segment, open the first period,
\* roll a full one, or go straight on.
TakeSegment ==
    /\ pc.at = "drain" /\ cursor < closed
    /\ cursor' = cursor + 1
    /\ pc' = CASE rec.terminated \/ (ext = ".m4s" /\ rec.last_init = 0) -> At("drain")
               [] OTHER -> IF ~rec.open THEN Roll("write", 0)
                           ELSE IF OverBudget THEN Roll("write", rec.last_init)
                           ELSE At("write")
    /\ Stay /\ UNCHANGED <<disk, rec>> /\ RecorderUnchanged

\* The ring evicted segments a Gap pin had not consumed; the newest is there.
TakeGap ==
    /\ pc.at = "drain" /\ policy = "Gap"
    /\ \E to \in (cursor + 1)..(closed - 1) : cursor' = to
    /\ Stay /\ UNCHANGED <<disk, rec, pc>> /\ RecorderUnchanged

\* handle_terminated: a Stall pin re-arms at the live edge, a Terminate pin
\* ends the recording.
TakeTerminated ==
    /\ pc.at = "drain" /\ policy \in {"Stall", "Terminate"} /\ cursor < closed
    /\ cursor' = closed
    /\ rec' = IF policy = "Stall" THEN rec
              ELSE [rec EXCEPT !.terminated = TRUE, !.open = FALSE]
    /\ Stay /\ UNCHANGED <<disk, pc>> /\ RecorderUnchanged

Drained ==
    /\ pc.at = "drain" /\ cursor = closed
    /\ pc' = At("idle")
    /\ Stay /\ UNCHANGED <<disk, cursor, rec>> /\ RecorderUnchanged

(***************************************************************************)
(* append_segment, the write and the index.                                *)
(***************************************************************************)
Segment == MediaPiece(life, offset + cursor, cuts[cursor])

\* Fault: the offset is the one the recorder remembers.
byte_offset_cached == rec.write_offset

\* The append lands at the file's real end.
byte_offset == Len(data[rec.period])

\* Written; what sync_data reports is only logged.
WriteSegment ==
    /\ pc.at = "write"
    /\ data' = [data EXCEPT ![rec.period] = Append(@, Segment)]
    /\ \/ /\ durable' = [durable EXCEPT ![rec.period] = Len(data'[rec.period])]
          /\ Stay /\ UNCHANGED sync_failed
       \/ /\ Fails("sync") /\ sync_failed' = TRUE
          /\ UNCHANGED durable
    /\ rec' = [rec EXCEPT !.write_offset = byte_offset + 1,
                          !.index = Append(@, [seq |-> offset + cursor, off |-> byte_offset,
                                               life |-> life]),
                          !.last_appended = cursor]
    /\ pc' = At("index")
    /\ UNCHANGED <<config, trunkVars, reader, leftVars, rolls, idx, cursor>>

\* A partial write is cut off again, if the truncation works; the segment is
\* lost and the poll ends.
WriteFails ==
    /\ pc.at = "write" /\ Fails("write")
    /\ data' \in {data, [data EXCEPT ![rec.period] = Append(@, Torn)]}
    /\ rec' = [rec EXCEPT !.write_offset = byte_offset]
    /\ pc' = At("idle")
    /\ UNCHANGED <<idx, durable, cursor>> /\ RecorderUnchanged

InPlace == Len(rec.index) > 1 /\ rec.index_file

\* append_index_entry: in place for every entry after the first, else whole.
IndexSegment ==
    /\ pc.at = "index"
    /\ idx' = WithFile(idx, rec.period,
                  [torn |-> FALSE,
                   entries |-> IF InPlace THEN Append(idx[rec.period].entries, Last(rec.index))
                               ELSE rec.index])
    /\ rec' = [rec EXCEPT !.index_file = TRUE]
    /\ pc' = At("retain") /\ Stay
    /\ UNCHANGED <<data, durable, cursor>> /\ RecorderUnchanged

\* The append in place tears the sidecar; the whole rewrite that follows works.
IndexRewritten ==
    /\ pc.at = "index" /\ InPlace /\ Fails("index")
    /\ idx' = [idx EXCEPT ![rec.period].torn = TRUE]
    /\ rec' = [rec EXCEPT !.index_file = FALSE]
    /\ UNCHANGED <<data, durable, cursor, pc>> /\ RecorderUnchanged

\* The rewrite fails: the entry waits in memory for the next one.
IndexFails ==
    /\ pc.at = "index" /\ ~InPlace /\ Fails("index")
    /\ pc' = At("idle")
    /\ UNCHANGED <<disk, cursor, rec>> /\ RecorderUnchanged

(***************************************************************************)
(* enforce_retention: the oldest period's index goes first, then its data. *)
(* A removal that fails is only logged: the period is forgotten all the    *)
(* same, and its data file stays, uncounted, until a later recorder finds  *)
(* it on disk; an index that stays without its data file is never removed. *)
(***************************************************************************)
OverBytes ==
    retention_bytes > 0 /\ rec.total_bytes + rec.write_offset > retention_bytes

OverCount == retention_periods > 0 /\ Len(rec.periods) > retention_periods
Evicts == rec.periods # <<>> /\ (OverBytes \/ OverCount)

EvictionUnchanged == UNCHANGED <<config, trunkVars, cursor, reader, sync_failed, rolls>>

EvictIndex ==
    LET num == Head(rec.periods).num
    IN  /\ pc.at = "retain" /\ Evicts
        /\ \/ idx' = WithoutFile(idx, num) /\ left_idx' = left_idx \ {num}
              /\ Stay
           \/ num \in DOMAIN idx /\ Fails("remove")
              /\ left_idx' = left_idx \cup {num} /\ UNCHANGED idx
        /\ pc' = At("evict")
        /\ UNCHANGED <<data, durable, rec, left_data>> /\ EvictionUnchanged

\* The oldest period is evicted, as far as the recorder knows.
Forgotten(r) == [r EXCEPT !.periods = Tail(@),
                          !.total_bytes = Max({0, @ - Head(r.periods).file_bytes})]

EvictData ==
    LET num == Head(rec.periods).num
    IN  /\ pc.at = "evict"
        /\ \/ data' = WithoutFile(data, num) /\ durable' = WithoutFile(durable, num)
              /\ Stay /\ UNCHANGED left_data
           \/ num \in DOMAIN data /\ Fails("remove")
              /\ left_data' = left_data \cup {num} /\ UNCHANGED <<data, durable>>
        /\ rec' = Forgotten(rec)
        /\ pc' = At("retain")
        /\ UNCHANGED <<idx, left_idx>> /\ EvictionUnchanged

Retained ==
    /\ pc.at = "retain" /\ ~Evicts
    /\ pc' = At("drain") /\ Stay
    /\ UNCHANGED <<disk, cursor, rec>> /\ RecorderUnchanged

(***************************************************************************)
(* The end of a connection or of the process.                              *)
(***************************************************************************)
NewConnection ==
    /\ life < MaxLives
    /\ life' = life + 1
    /\ cuts' = <<>> /\ init' = 0 /\ cursor' = 0
    /\ rec' = FreshRecorder /\ pc' = At("idle") /\ left_data' = {}
    /\ UNCHANGED <<config, sync_failed, left_idx, rolls>>

\* Fault: the new recorder numbers its segments from one again.
Reconnect_unnumbered ==
    /\ pc.at = "idle" /\ NewConnection
    /\ offset' = 0
    /\ Stay /\ UNCHANGED <<disk, reader>>

\* publish_program over a fresh trunk: the numbers continue past the open segment's.
Reconnect ==
    /\ pc.at = "idle" /\ NewConnection
    /\ offset' = offset + closed + 1
    /\ Stay /\ UNCHANGED <<disk, reader>>

\* The process dies, and with the power what was not synced may go; a sidecar
\* being appended to is torn.  The next process starts from the archive's floor.
Crash ==
    /\ "crash" \in Faults /\ NewConnection
    /\ \/ UNCHANGED data
       \/ data' = [num \in DOMAIN data |-> SubSeq(data[num], 1, durable[num])]
    /\ \/ UNCHANGED idx
       \/ pc.at = "index" /\ InPlace /\ idx' = [idx EXCEPT ![rec.period].torn = TRUE]
    /\ offset' = archive_seq_floor(idx')
    /\ reader' = NoReader
    /\ Stay /\ UNCHANGED durable

(***************************************************************************)
(* A catch-up request: an entry now, its bytes later.                      *)
(***************************************************************************)
FindArchivedSegment ==
    /\ reader = NoReader
    /\ \E e \in ToSet(scan_archive(idx)) : reader' = e
    /\ UNCHANGED <<config, disk, trunkVars, cursor, rec, pc, faults, sync_failed,
                   leftVars, rolls>>

ReadArchivedBytes ==
    /\ reader # NoReader /\ reader' = NoReader
    /\ UNCHANGED <<config, disk, trunkVars, cursor, rec, pc, faults, sync_failed,
                   leftVars, rolls>>

Next ==
    \/ CloseSegment \/ SetInit \/ Poll \/ PollAtPeriodEnd \/ ProgrammeChange
    \/ OpenPeriod \/ WriteHead \/ TakeSegment \/ TakeGap \/ TakeTerminated \/ Drained
    \/ WriteSegment \/ WriteFails \/ IndexSegment \/ IndexRewritten \/ IndexFails
    \/ EvictIndex \/ EvictData \/ Retained
    \/ Reconnect \/ Crash \/ FindArchivedSegment \/ ReadArchivedBytes

Spec == Init /\ [][Next]_vars

(***************************************************************************)
(* Properties.                                                             *)
(***************************************************************************)
TypeOK ==
    /\ DOMAIN durable = DOMAIN data
    /\ cursor \in 0..closed /\ init \in 0..MaxInits
    /\ rec.open => rec.period \in DOMAIN data
    /\ pc.at \in {"idle", "roll", "head", "drain", "write", "index", "retain", "evict"}

\* Whatever a catch-up request reads under an index entry, an entry it took
\* before an eviction included, is that segment's bytes, or it is refused.
ServedRight ==
    \A e \in ToSet(scan_archive(idx)) \cup ({reader} \ {NoReader}) :
        LET got == read_archived_bytes(data, e.num, e.off)
        IN  got \in {Gone, Short} \/ (got.life = e.life /\ got.seq = e.seq)

\* A period that is listed has its data file, unless its index could not be
\* removed, and no read of it is refused unless a failed sync was followed by a
\* power loss.
ListedIsThere ==
    \A e \in ToSet(scan_archive(idx)) :
        /\ e.num \in DOMAIN data \cup left_idx
        /\ ~sync_failed => read_archived_bytes(data, e.num, e.off) # Short

\* Concatenating the periods gives strictly ascending numbers, across rolls,
\* reconnects and crashes, so that a number names one archived segment.
ArchiveAscending ==
    LET all == scan_archive(idx)
    IN  \A k \in 1..(Len(all) - 1) : all[k].seq < all[k + 1].seq

\* Every data file on disk is one this recorder will evict in its turn, the one
\* it is writing, or one it could not remove: a file left behind by an earlier
\* recorder is found again.
NoOrphanFiles ==
    rec.seeded => DOMAIN data \subseteq {p.num : p \in ToSet(rec.periods)} \cup {rec.period}
                                        \cup left_data

\* The files retention can do something about.
Removable == DOMAIN data \ left_data

\* Where the pieces in them are that were written whole.
WholePieces ==
    {at \in UNION {{num} \X (1..Len(data[num])) : num \in Removable} : data[at[1]][at[2]] # Torn}
ArchivedBytes == Cardinality(WholePieces)

\* Once a segment has been appended and retention enforced, what is on disk,
\* files of earlier connections and of failed rolls included, is within the
\* configured limits: that many periods and the open one, which is never
\* evicted, and what could not be removed.
PeriodsBounded ==
    pc.at = "retain" /\ ~Evicts /\ retention_periods > 0 =>
        Cardinality(Removable) <= retention_periods + 1

BytesBounded ==
    pc.at = "retain" /\ ~Evicts /\ retention_bytes > 0 =>
        ArchivedBytes <= retention_bytes \/ Removable = {rec.period}

\* An archived segment stays listed until its whole period is evicted, the
\* oldest first: no crash, failed write or later run takes an entry away.  A
\* period whose index could not be removed has been evicted before.
EntriesOnlyEvicted ==
    [][\A num \in DOMAIN idx :
          IF num \in DOMAIN idx' THEN IsPrefix(parse_index(idx[num]), parse_index(idx'[num]))
          ELSE num \in left_idx \/ num = Min(DOMAIN idx \ left_idx)]_idx

\* Every segment of an fMP4 period was cut against the init at its head.
SelfContained ==
    ext = ".m4s" =>
        \A e \in ToSet(scan_archive(idx)) :
            LET got == read_archived_bytes(data, e.num, e.off)
            IN  got \in {Gone, Short} \/ data[e.num][1] = InitPiece(got.init)

\* Catch-up as a whole: what is listed is there, and what is read is right.
CatchupSound == TypeOK /\ ServedRight /\ ListedIsThere

\* Retention as a whole: it knows every file, and keeps them within the limits.
RetentionSound == NoOrphanFiles /\ PeriodsBounded /\ BytesBounded
=============================================================================
