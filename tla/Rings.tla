------------------------------- MODULE Rings -------------------------------
(***************************************************************************)
(* The bounded log every part of a Trunk is built from: a deque, the       *)
(* absolute index of its oldest entry and the count ever pushed.  A push   *)
(* onto a full ring evicts the oldest entry; it never blocks nor fails.    *)
(***************************************************************************)
EXTENDS Integers, Sequences

EmptyRing == [entries |-> <<>>, base |-> 0, published |-> 0]

RingPush(r, capacity, e) ==
    LET full == Len(r.entries) = capacity
    IN  [entries |-> Append(IF full THEN Tail(r.entries) ELSE r.entries, e),
         base |-> IF full THEN r.base + 1 ELSE r.base,
         published |-> r.published + 1]

\* ring_offset and entries.get: is the absolute index resident, and what it is.
Resident(r, abs) == r.base <= abs /\ abs < r.base + Len(r.entries)

EntryAt(r, abs) == r.entries[abs - r.base + 1]

\* Every index from base up to published is resident, and no more than capacity.
RingOK(r, capacity) ==
    r.base + Len(r.entries) = r.published /\ Len(r.entries) <= capacity
=============================================================================
