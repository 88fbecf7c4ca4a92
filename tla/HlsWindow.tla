----------------------------- MODULE HlsWindow -----------------------------
(***************************************************************************)
(* What an HlsOrigin keeps besides its Trunk: the init segments it has     *)
(* served, by generation (InitStore), and the closed segments its playlist *)
(* lists (Window).  A segment carries its number n, whether it was         *)
(* published as discontinuous, and two facts the code does not keep with   *)
(* it and has to work out: under, the init generation that was current     *)
(* when it was published, and count, how many parts it was published in.   *)
(***************************************************************************)
EXTENDS Integers, Sequences, SequencesExt

(***************************************************************************)
(* InitStore.                                                              *)
(***************************************************************************)
NoInit == 0
EmptyInits == [generation |-> 0, current |-> NoInit, starts |-> <<>>]

Newest(s, count) == SubSeq(s, IF Len(s) > count THEN Len(s) - count + 1 ELSE 1, Len(s))

\* Fault: a changed init covers the segment that has just closed, too.
InitSetEarly(store, keep, bytes, next_seq) ==
    LET g == store.generation + 1
        first == IF store.current = NoInit THEN 0 ELSE next_seq - 1
    IN  IF store.current = bytes THEN store
        ELSE [generation |-> g, current |-> bytes,
              starts |-> Newest(Append(store.starts, [first |-> first, g |-> g]), keep)]

\* InitStore::set: the very first init covers every segment ever seen.
InitSet(store, keep, bytes, next_seq) ==
    LET g == store.generation + 1
        first == IF store.current = NoInit THEN 0 ELSE next_seq
    IN  IF store.current = bytes THEN store
        ELSE [generation |-> g, current |-> bytes,
              starts |-> Newest(Append(store.starts, [first |-> first, g |-> g]), keep)]

\* InitStore::generation_for: the last start at or before seq, else the oldest.
generation_for(store, seq) ==
    LET at == {k \in 1..Len(store.starts) : store.starts[k].first <= seq}
    IN  IF store.starts = <<>> THEN 1
        ELSE IF at = {} THEN store.starts[1].g
        ELSE store.starts[Max(at)].g

(***************************************************************************)
(* Window.                                                                 *)
(***************************************************************************)
EmptyWindow == [segments |-> <<>>, discontinuity_sequence |-> 0, gap_pending |-> FALSE]

note_gap(w) == [w EXCEPT !.gap_pending = TRUE]

Marked(segments) == Cardinality({k \in 1..Len(segments) : segments[k].discontinuous})

\* Fault: the entries leave without being counted.
clear_forgetting(w) == [w EXCEPT !.segments = <<>>]

\* Every entry rolls off, and its discontinuity counts.
clear_rolling_off(w) ==
    [w EXCEPT !.discontinuity_sequence = @ + Marked(w.segments), !.segments = <<>>]

follows(w, entry) == w.segments = <<>> \/ Last(w.segments).n + 1 = entry.n

\* Fault: every entry is taken to follow.
starts_run_never(w, entry) == FALSE

\* The entry starts a new run: it does not follow the window's last entry.
starts_run(w, entry) == ~follows(w, entry) \/ w.gap_pending

\* Window::push of a segment the origin believes to belong to init_gen.
window_push(w, capacity, entry, init_gen) ==
    LET run == starts_run(w, entry)
        base == IF run THEN clear_rolling_off(w) ELSE w
        changed == base.segments # <<>> /\ Last(base.segments).init_gen # init_gen
        full == Len(base.segments) >= capacity
        kept == IF full THEN Tail(base.segments) ELSE base.segments
        rolled == IF full /\ Head(base.segments).discontinuous THEN 1 ELSE 0
    IN  [segments |-> Append(kept, [n |-> entry.n, init_gen |-> init_gen,
                                    under |-> entry.under, count |-> entry.count,
                                    discontinuous |-> entry.discontinuous \/ run \/ changed]),
         discontinuity_sequence |-> base.discontinuity_sequence + rolled,
         gap_pending |-> FALSE]

\* Window::bytes_of: by offset from the front, and the number looked at again.
window_bytes_of(w, n) ==
    LET k == n - w.segments[1].n + 1
    IN  IF w.segments # <<>> /\ k \in 1..Len(w.segments) /\ w.segments[k].n = n
        THEN {w.segments[k]} ELSE {}
=============================================================================
