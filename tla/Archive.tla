------------------------------ MODULE Archive ------------------------------
(***************************************************************************)
(* A DVR archive directory and what catch-up reads from it.  Period num is *)
(* a data file, data[num], a sequence of pieces (an init segment, a media  *)
(* segment, or the torn part of one, each one unit long), and an index     *)
(* sidecar, idx[num], whose entries name a segment's number and offset.    *)
(* The domains of the two functions are the files that exist.  A media     *)
(* piece carries the process or connection (life) that wrote it and the    *)
(* init it was cut against.                                                *)
(***************************************************************************)
EXTENDS Integers, Sequences, SequencesExt

Torn == [kind |-> "torn", life |-> 0, seq |-> 0, init |-> 0]
InitPiece(g) == [kind |-> "init", life |-> 0, seq |-> 0, init |-> g]
MediaPiece(life, seq, init) == [kind |-> "media", life |-> life, seq |-> seq, init |-> init]

\* The numbers of a set from the least to the greatest.
Ascending(nums) ==
    CHOOSE s \in [1..Cardinality(nums) -> nums] :
        \A i, j \in 1..Cardinality(nums) : i < j => s[i] < s[j]

NoFiles == [num \in {} |-> <<>>]

\* The directory with a file written, or removed.
WithFile(files, num, content) ==
    [n \in DOMAIN files \cup {num} |-> IF n = num THEN content ELSE files[n]]
WithoutFile(files, num) == [n \in DOMAIN files \ {num} |-> files[n]]

\* Fault: a sidecar that ends in the middle of an entry is an error.
parse_index_strict(sidecar) == IF sidecar.torn THEN <<>> ELSE sidecar.entries

\* catchup::parse_index: every complete entry, torn tail or not.
parse_index(sidecar) == sidecar.entries

\* catchup::list_period_nums.
list_period_nums(idx) == Ascending(DOMAIN idx)

\* catchup::scan_archive: the entries of every period in period order.
scan_archive(idx) ==
    FlattenSeq([k \in 1..Cardinality(DOMAIN idx) |->
        LET num == list_period_nums(idx)[k]
            entries == parse_index(idx[num])
        IN  [j \in 1..Len(entries) |->
                [num |-> num, seq |-> entries[j].seq, off |-> entries[j].off,
                 life |-> entries[j].life]]])

\* dvr::archive_seq_floor: the highest number archived.
archive_seq_floor(idx) == Max({0} \cup {e.seq : e \in ToSet(scan_archive(idx))})

\* catchup::read_archived_bytes: the file is gone, too short, or holds the piece.
Gone == [Torn EXCEPT !.kind = "gone"]
Short == [Torn EXCEPT !.kind = "short"]

read_archived_bytes(data, num, off) ==
    IF num \notin DOMAIN data THEN Gone
    ELSE IF off + 1 > Len(data[num]) THEN Short
    ELSE data[num][off + 1]
=============================================================================
