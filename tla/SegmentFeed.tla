----------------------------- MODULE SegmentFeed -----------------------------
(***************************************************************************)
(* The promise of a trunk's segment log to its readers: an append-only log *)
(* that forgets nothing, and readers that walk it in order from where they *)
(* joined.  A reader is handed the segment at its position, or told that   *)
(* it lost the exact stretch it is moved past, or, if it was promised      *)
(* every segment, that its recording has ended.                            *)
(***************************************************************************)
EXTENDS Integers, Sequences

CONSTANTS Readers, Numbers

VARIABLES
    log,     \* every segment number accepted, in order
    reader,  \* reader -> [mode, pos]
    item     \* reader -> the last thing it was handed

vars == <<log, reader, item>>

JoinModes == {"lossy", "gap", "strict"}
Loss(mode) == IF mode = "lossy" THEN "Lagged" ELSE "Gap"

Init ==
    /\ log = <<>>
    /\ reader = [r \in Readers |-> [mode |-> "off", pos |-> 0]]
    /\ item = [r \in Readers |-> [kind |-> "none", n |-> 0]]

Accept(s) ==
    /\ log' = Append(log, s)
    /\ UNCHANGED <<reader, item>>

Join(r, mode) ==
    /\ reader[r].mode = "off"
    /\ reader' = [reader EXCEPT ![r] = [mode |-> mode, pos |-> Len(log)]]
    /\ UNCHANGED <<log, item>>

Deliver(r) ==
    /\ reader[r].mode \in JoinModes
    /\ reader[r].pos < Len(log)
    /\ reader' = [reader EXCEPT ![r].pos = @ + 1]
    /\ item' = [item EXCEPT ![r] = [kind |-> "Segment", n |-> log[reader[r].pos + 1]]]
    /\ UNCHANGED log

\* Only a reader that was not promised every segment may lose some.
Lose(r, to) ==
    /\ reader[r].mode \in {"lossy", "gap"}
    /\ reader[r].pos < to /\ to <= Len(log)
    /\ reader' = [reader EXCEPT ![r].pos = to]
    /\ item' = [item EXCEPT ![r] = [kind |-> Loss(reader[r].mode), n |-> to - reader[r].pos]]
    /\ UNCHANGED log

End(r) ==
    /\ reader[r].mode = "strict"
    /\ reader' = [reader EXCEPT ![r] = [mode |-> "ended", pos |-> 0]]
    /\ item' = [item EXCEPT ![r] = [kind |-> "Terminated", n |-> 0]]
    /\ UNCHANGED log

Leave(r) ==
    /\ reader[r].mode # "off"
    /\ reader' = [reader EXCEPT ![r] = [mode |-> "off", pos |-> 0]]
    /\ item' = [item EXCEPT ![r] = [kind |-> "none", n |-> 0]]
    /\ UNCHANGED log

ReaderStep(r) ==
    \/ \E mode \in JoinModes : Join(r, mode)
    \/ Deliver(r)
    \/ \E to \in 1..Len(log) : Lose(r, to)
    \/ End(r)
    \/ Leave(r)

Next ==
    \/ \E s \in Numbers : Accept(s)
    \/ \E r \in Readers : ReaderStep(r)

Spec == Init /\ [][Next]_vars
=============================================================================
