------------------------------ MODULE PartLog ------------------------------
(***************************************************************************)
(* The live-part log of a Trunk: a bounded ring of parts and an index from *)
(* segment number to the absolute positions of that segment's resident     *)
(* parts, so that a lookup never scans the ring.  A part carries its       *)
(* segment number n and part index i, and id for its bytes.                *)
(***************************************************************************)
EXTENDS Scans, Rings

EmptyPartLog == [ring |-> EmptyRing, by_segment |-> [n \in {} |-> <<>>]]

\* The index without the oldest part: an emptied key goes away.
Unindexed(index, n) ==
    LET rest == Tail(index[n])
        keys == IF rest = <<>> THEN DOMAIN index \ {n} ELSE DOMAIN index
    IN  [k \in keys |-> IF k = n THEN rest ELSE index[k]]

\* Fault: the position is taken after the ring has counted the part.
IndexedLate(index, n, pos) ==
    [k \in DOMAIN index \cup {n} |->
        IF k # n THEN index[k]
        ELSE IF n \in DOMAIN index THEN Append(index[n], pos + 1) ELSE <<pos + 1>>]

\* The index with a new newest position of segment n.
Indexed(index, n, pos) ==
    [k \in DOMAIN index \cup {n} |->
        IF k # n THEN index[k]
        ELSE IF n \in DOMAIN index THEN Append(index[n], pos) ELSE <<pos>>]

\* PartLog::push.
push(log, capacity, part) ==
    LET full == Len(log.ring.entries) = capacity
        kept == IF full THEN Unindexed(log.by_segment, log.ring.entries[1].n)
                ELSE log.by_segment
    IN  [ring |-> RingPush(log.ring, capacity, part),
         by_segment |-> Indexed(kept, part.n, log.ring.published)]

Positions(log, n) == IF n \in DOMAIN log.by_segment THEN log.by_segment[n] ELSE <<>>

\* PartLog::in_segment: the resident parts at the indexed positions, in order.
in_segment(log, n) ==
    LET abs == Positions(log, n)
        resident == Where([k \in 1..Len(abs) |-> Resident(log.ring, abs[k])], TRUE)
    IN  [k \in 1..Len(resident) |-> EntryAt(log.ring, abs[resident[k]])]

\* The parts of segment n in a list of parts, in order.
PartsOf(list, n) == Pick(list, Where([k \in 1..Len(list) |-> list[k].n], n))

\* PartLog::part_bytes: the newest part of the pair, or nothing.
part_bytes(log, n, i) ==
    LET ps == in_segment(log, n)
        hits == {k \in 1..Len(ps) : ps[k].i = i}
    IN  IF hits = {} THEN {} ELSE {ps[CHOOSE k \in hits : \A j \in hits : j <= k].id}
=============================================================================
