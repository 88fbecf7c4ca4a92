----------------------------- MODULE TrunkParts -----------------------------
(***************************************************************************)
(* The live-part log on its own, under any sequence of publish_part calls: *)
(* a re-issued SegmentWriter may reuse numbers and interleave segments.    *)
(***************************************************************************)
EXTENDS PartLog

CONSTANTS
    LogCapacity,      \* TrunkConfig::part_capacity, a NonZeroUsize
    PartSegments,     \* segment numbers
    PartIndices,      \* part indices
    MaxLogged         \* bound: parts published

ASSUME LogCapacityAssumption == LogCapacity \in Nat \ {0}
ASSUME LogBoundAssumption == MaxLogged \in Nat

VARIABLES
    part_log,         \* the PartLog
    logged            \* history: every part published, in order

partVars == <<part_log, logged>>

PartsInit == part_log = EmptyPartLog /\ logged = <<>>

\* SegmentWriter::publish_part (the wake-up is BlockingReload's subject).
publish_part(n, i) ==
    /\ Len(logged) < MaxLogged
    /\ LET part == [n |-> n, i |-> i, id |-> Len(logged) + 1]
       IN  /\ part_log' = push(part_log, LogCapacity, part)
           /\ logged' = Append(logged, part)

\* MaxLogged parts have been published: the bound, not the code, stops here.
PartsAtBound == Len(logged) = MaxLogged /\ UNCHANGED partVars

PartsNext == PartsAtBound \/ \E n \in PartSegments, i \in PartIndices : publish_part(n, i)

PartsSpec == PartsInit /\ [][PartsNext]_partVars

\* The newest parts ever published, at most the capacity: what is resident.
NewestOf(list, capacity) ==
    SubSeq(list, IF Len(list) > capacity THEN Len(list) - capacity + 1 ELSE 1, Len(list))

ResidentParts == NewestOf(logged, LogCapacity)

\* The index finds exactly what a scan of the ring would find, whatever was
\* evicted and however segments interleave (parts_in_segment).
IndexIsExact ==
    \A n \in PartSegments : in_segment(part_log, n) = PartsOf(ResidentParts, n)

\* A request for a part gets the newest bytes published under its number and
\* index that are still resident, or nothing (part_bytes after number reuse).
NewestPartWins ==
    \A n \in PartSegments, i \in PartIndices :
        LET hits == {k \in 1..Len(ResidentParts) :
                        ResidentParts[k].n = n /\ ResidentParts[k].i = i}
        IN  part_bytes(part_log, n, i) =
              {ResidentParts[k].id : k \in {h \in hits : \A j \in hits : j <= h}}

\* The index holds one position per resident part and no key without any.
IndexIsBounded ==
    /\ DOMAIN part_log.by_segment = {ResidentParts[k].n : k \in 1..Len(ResidentParts)}
    /\ \A n \in DOMAIN part_log.by_segment :
          Len(part_log.by_segment[n]) = Len(PartsOf(ResidentParts, n))

\* The index as a whole: it is the ring seen by segment, the newest bytes win,
\* and it never outgrows the ring.
PartIndexSound == IndexIsExact /\ NewestPartWins /\ IndexIsBounded
=============================================================================
