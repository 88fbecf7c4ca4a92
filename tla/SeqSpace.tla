------------------------------ MODULE SeqSpace ------------------------------
(***************************************************************************)
(* Circular sequence-number arithmetic: broadcast_common::seq::SeqSpace as *)
(* srt-runtime's arq::seq uses it.  Of the two directions between two      *)
(* numbers the shorter one decides which comes first.                      *)
(***************************************************************************)
EXTENDS Integers

CONSTANT Modulus    \* 2^bits

ASSUME ModulusAssumption == Modulus \in Nat /\ Modulus > 1 /\ Modulus % 2 = 0

Seqs == 0..(Modulus - 1)

seq_add(seq, n) == (seq + n) % Modulus
seq_next(seq) == seq_add(seq, 1)
seq_prev(seq) == seq_add(seq, Modulus - 1)

\* In (-Modulus/2, Modulus/2]; positive when a is ahead of b.
seq_diff(a, b) ==
    LET raw == (a - b) % Modulus
    IN  IF raw > Modulus \div 2 THEN raw - Modulus ELSE raw

seq_lt(a, b) == seq_diff(a, b) < 0
seq_gt(a, b) == seq_diff(a, b) > 0

\* The inclusive range walking forward from first; empty when last precedes it.
seq_in_closed_range(seq, first, last) ==
    seq_diff(seq, first) \in 0..seq_diff(last, first)

closed_range(first, last) == {seq_add(first, n) : n \in 0..seq_diff(last, first)}

\* coalesce: the maximal runs of consecutive numbers of a set.
runs(set) ==
    {<<f, l>> \in set \X set :
        /\ closed_range(f, l) # {} /\ closed_range(f, l) \subseteq set
        /\ seq_prev(f) \notin set /\ seq_next(l) \notin set}
=============================================================================
