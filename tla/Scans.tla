------------------------------- MODULE Scans -------------------------------
(***************************************************************************)
(* Filtering a sequence, as the code's iterator chains do.  SelectSeq takes*)
(* an operator, which keeps it out of a prover's reach; these take values. *)
(***************************************************************************)
EXTENDS Integers, Sequences

\* The positions of s that hold x, in ascending order.
Where(s, x) ==
    LET at[k \in 0..Len(s)] ==
            IF k = 0 THEN <<>>
            ELSE IF s[k] = x THEN Append(at[k - 1], k) ELSE at[k - 1]
    IN  at[Len(s)]

\* The elements of s at those positions.
Pick(s, positions) == [k \in 1..Len(positions) |-> s[positions[k]]]
=============================================================================
