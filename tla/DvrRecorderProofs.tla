------------------------- MODULE DvrRecorderProofs -------------------------
(***************************************************************************)
(* Proofs about the DVR recorder and the archive it leaves, for every      *)
(* number of connections, segments, inits, rolls, faults and crashes and   *)
(* any retention.                                                          *)
(***************************************************************************)
EXTENDS DvrRecorder, SequenceTheorems, FiniteSetTheorems, WellFoundedInduction,
        NaturalsInduction, TLAPS

-----------------------------------------------------------------------------
\* The parts of the inductive invariant.

Pieces == [kind : {"torn", "init", "media"}, life : Nat, seq : Nat, init : Nat]
Entries == [seq : Nat, off : Nat, life : Nat]
Sidecars == [torn : BOOLEAN, entries : Seq(Entries)]
Periods == [num : Nat, file_bytes : Nat]
Places == {"idle", "roll", "head", "drain", "write", "index", "retain", "evict"}
Fields == {"seeded", "period", "periods", "total_bytes", "open", "write_offset", "index",
           "index_file", "last_init", "last_appended", "terminated"}

\* A directory of files, each of some content.
Directory(files, Content) ==
    /\ DOMAIN files \in SUBSET Nat /\ IsFiniteSet(DOMAIN files)
    /\ files \in [DOMAIN files -> Content]

RecorderTyped ==
    /\ rec = [f \in Fields |-> rec[f]]
    /\ rec.seeded \in BOOLEAN /\ rec.period \in Nat /\ rec.periods \in Seq(Periods)
    /\ rec.open \in BOOLEAN /\ rec.write_offset \in Nat /\ rec.index \in Seq(Entries)
    /\ rec.index_file \in BOOLEAN /\ rec.last_init \in Nat /\ rec.terminated \in BOOLEAN

Typed ==
    /\ Directory(data, Seq(Pieces)) /\ Directory(idx, Sidecars)
    /\ durable \in [DOMAIN data -> Nat]
    /\ life \in Nat /\ offset \in Nat /\ cuts \in Seq(Nat) /\ init \in 0..MaxInits
    /\ cursor \in 0..Len(cuts)
    /\ RecorderTyped
    /\ pc \in [at : Places, ret : {"idle", "drain", "write"}, with : Nat]
    /\ sync_failed \in BOOLEAN

\* The recorder has taken a segment from the cursor and not yet written it.
TakenUp == pc.at = "write" \/ (pc.at \in {"roll", "head"} /\ pc.ret = "write")

\* What each point of the recorder's code relies on.
ControlInv ==
    /\ pc.at # "idle" \/ rec.open => rec.seeded
    /\ rec.open => rec.period \in DOMAIN data
    /\ pc.at \in {"write", "index", "retain", "evict"} => rec.open
    /\ pc.at = "head" => ~rec.open /\ rec.period \in DOMAIN data /\ rec.period \notin DOMAIN idx
    /\ TakenUp => cursor > 0
    /\ pc.at = "evict" =>
          rec.periods # <<>> /\ Head(rec.periods).num \notin DOMAIN idx \ left_idx

\* What a recorder that has looked at the disk knows of it: its period is the
\* last, and the periods on record are the others, in order, but for those whose
\* data file it could not remove.
KnownInv ==
    IF ~rec.seeded THEN rec = FreshRecorder
    ELSE
        /\ \A num \in DOMAIN data \cup DOMAIN idx : num <= rec.period
        /\ \A k \in 1..Len(rec.periods) : rec.periods[k].num < rec.period
        /\ \A k, l \in 1..Len(rec.periods) : k < l => rec.periods[k].num < rec.periods[l].num
        /\ \A num \in DOMAIN data :
              \/ num = rec.period \/ num \in left_data
              \/ \E k \in 1..Len(rec.periods) : rec.periods[k].num = num
        /\ rec.index = <<>> => rec.period \notin DOMAIN idx

\* The segment is where the entry says, if the file reaches so far.
PieceAt(file, e) ==
    e.off + 1 <= Len(file) =>
        file[e.off + 1].kind = "media" /\ file[e.off + 1].life = e.life
        /\ file[e.off + 1].seq = e.seq

\* The sidecar's entries are right about its file, and were synced unless that
\* failed.
Describes(sidecar, file, synced) ==
    \A k \in 1..Len(sidecar.entries) :
        /\ PieceAt(file, sidecar.entries[k])
        /\ ~sync_failed => sidecar.entries[k].off < synced

\* Everything listed has its file, unless its index was to go first and did not.
ListedInv ==
    \A num \in DOMAIN idx :
        /\ num \in DOMAIN data \cup left_idx
        /\ num \in DOMAIN data => Describes(idx[num], data[num], durable[num])

DurableInv == \A num \in DOMAIN data : durable[num] <= Len(data[num])

\* The open period: its index in memory is right, and the sidecar holds the
\* beginning of it, all but the entry just written once it has been written.
OpenInv ==
    rec.open =>
        /\ \A k \in 1..Len(rec.index) :
              /\ rec.index[k].off + 1 <= Len(data[rec.period])
              /\ PieceAt(data[rec.period], rec.index[k])
              /\ ~sync_failed => rec.index[k].off < durable[rec.period]
        /\ pc.at = "index" => rec.index # <<>>
        /\ rec.period \in DOMAIN idx => IsPrefix(idx[rec.period].entries, rec.index)
        /\ rec.index_file =>
              /\ rec.period \in DOMAIN idx /\ idx[rec.period].entries # <<>>
              /\ Len(rec.index) =
                    Len(idx[rec.period].entries) + IF pc.at = "index" THEN 1 ELSE 0

\* A request's entry is still listed, or a later file exists: then its own is
\* right as long as it is there, and its number is not used again.
ReaderInv ==
    reader # NoReader =>
        /\ reader.num \in Nat /\ reader.off \in Nat
        /\ \/ /\ reader.num \in DOMAIN idx
              /\ \E k \in 1..Len(idx[reader.num].entries) :
                    idx[reader.num].entries[k] =
                        [seq |-> reader.seq, off |-> reader.off, life |-> reader.life]
           \/ /\ \E num \in DOMAIN data : num > reader.num
              /\ reader.num \in DOMAIN data => PieceAt(data[reader.num], reader)

\* The highest number that may have been archived.
Reached == offset + cursor - IF TakenUp THEN 1 ELSE 0

\* Numbers ascend in every period and from period to period.
AscendInv ==
    /\ \A num \in DOMAIN idx : \A k, l \in 1..Len(idx[num].entries) :
          k < l => idx[num].entries[k].seq < idx[num].entries[l].seq
    /\ \A a, b \in DOMAIN idx : a < b =>
          \A k \in 1..Len(idx[a].entries), l \in 1..Len(idx[b].entries) :
              idx[a].entries[k].seq < idx[b].entries[l].seq

\* The next segment's number is beyond all of them.
ReachInv ==
    \A num \in DOMAIN idx : \A k \in 1..Len(idx[num].entries) :
        idx[num].entries[k].seq <= Reached

\* The open period's index in memory ascends too, after the other periods.
OpenOrderInv ==
    rec.open =>
        /\ \A k \in 1..Len(rec.index) : rec.index[k].seq <= Reached
        /\ \A k, l \in 1..Len(rec.index) : k < l => rec.index[k].seq < rec.index[l].seq
        /\ \A a \in DOMAIN idx : a < rec.period =>
              \A k \in 1..Len(idx[a].entries), l \in 1..Len(rec.index) :
                  idx[a].entries[k].seq < rec.index[l].seq

OrderInv == AscendInv /\ ReachInv /\ OpenOrderInv

ArchiveInv ==
    /\ Typed /\ ControlInv /\ KnownInv /\ DurableInv /\ ListedInv /\ OpenInv /\ ReaderInv
    /\ OrderInv

\* The units the periods on record are charged for, each with its period.
Slots(periods) ==
    {at \in Nat \X Nat :
        \E k \in 1..Len(periods) :
            at[1] = periods[k].num /\ at[2] \in 1..periods[k].file_bytes}

\* What is whole in a file lies within its first n units.
Within(file, n) == \A k \in 1..Len(file) : file[k] # Torn => k <= n

\* The recorder's account of its files: none holds more than it is charged for,
\* and the total is at least the sum.
Account(r, files) ==
    /\ r.total_bytes \in Nat
    /\ IsFiniteSet(Slots(r.periods)) /\ Cardinality(Slots(r.periods)) <= r.total_bytes
    /\ r.period \in DOMAIN files => Within(files[r.period], r.write_offset)
    /\ \A k \in 1..Len(r.periods) : r.periods[k].num \in DOMAIN files =>
          Within(files[r.periods[k].num], r.periods[k].file_bytes)

BytesInv ==
    /\ pc.at = "head" => rec.write_offset = Len(data[rec.period])
    /\ rec.seeded => Account(rec, data)


-----------------------------------------------------------------------------
\* Directories.

\* A file written, removed or changed leaves a directory.
LEMMA DirectoryKept ==
    ASSUME NEW C, NEW files, Directory(files, C), NEW num
    PROVE  /\ num \in Nat => \A c \in C : Directory(WithFile(files, num, c), C)
           /\ Directory(WithoutFile(files, num), C)
           /\ \A c \in C : Directory([files EXCEPT ![num] = c], C)
<1>1. IsFiniteSet(DOMAIN files \cup {num}) /\ IsFiniteSet(DOMAIN files \ {num})
  BY FS_AddElement, FS_RemoveElement DEF Directory
<1>2. ASSUME num \in Nat, NEW c \in C PROVE Directory(WithFile(files, num, c), C)
  BY <1>1, <1>2 DEF Directory, WithFile
<1>3. Directory(WithoutFile(files, num), C)
  BY <1>1 DEF Directory, WithoutFile
<1>4. ASSUME NEW c \in C PROVE Directory([files EXCEPT ![num] = c], C)
  BY DEF Directory
<1> QED BY <1>2, <1>3, <1>4

-----------------------------------------------------------------------------
\* Induction over the naturals, for a set in place of a predicate.
LEMMA NatSetInduction ==
    ASSUME NEW S, 0 \in S, \A n \in Nat : n \in S => n + 1 \in S
    PROVE  \A n \in Nat : n \in S
<1> DEFINE Out == {n \in Nat : n \notin S}
           less == {ss \in Nat \X Nat : ss[1] < ss[2]}
<1> SUFFICES ASSUME Out # {} PROVE FALSE
  OBVIOUS
<1>1. PICK least \in Out : \A n \in Out : ~(<<n, least>> \in less)
  <2>1. IsWellFoundedOn(less, Nat) /\ Out \subseteq Nat
    BY NatLessThanWellFounded DEF OpToRel
  <2> HIDE DEF less, Out
  <2> QED BY <2>1, WFMin
<1>2. least \in Nat \ {0} /\ least - 1 \in Nat /\ (least - 1) + 1 = least
  OBVIOUS
<1>3. least - 1 \in Out /\ <<least - 1, least>> \in less
  BY <1>2
<1> QED BY <1>1, <1>3

\* s lists the numbers of S in ascending order.
Lists(s, S) ==
    /\ s \in [1..Cardinality(S) -> S]
    /\ \A i, j \in 1..Cardinality(S) : i < j => s[i] < s[j]
    /\ \A x \in S : \E i \in 1..Cardinality(S) : s[i] = x

\* A finite set of naturals lies below some natural.
LEMMA BoundedSet ==
    ASSUME NEW S \in SUBSET Nat, IsFiniteSet(S)
    PROVE  \E n \in Nat : \A x \in S : x < n
<1> DEFINE Capped(T) == \E n \in Nat : \A x \in T : x < n
           N == {c \in Nat : \A T \in SUBSET Nat :
                     IsFiniteSet(T) /\ Cardinality(T) = c => Capped(T)}
<1>1. 0 \in N
  <2> SUFFICES ASSUME NEW T \in SUBSET Nat, IsFiniteSet(T), Cardinality(T) = 0 PROVE Capped(T)
    OBVIOUS
  <2>1. T = {}
    BY FS_EmptySet
  <2> QED BY <2>1
<1>2. ASSUME NEW c \in Nat, c \in N PROVE c + 1 \in N
  <2> SUFFICES ASSUME NEW T \in SUBSET Nat, IsFiniteSet(T), Cardinality(T) = c + 1
               PROVE  Capped(T)
    OBVIOUS
  <2>1. T # {}
    BY FS_EmptySet
  <2>2. PICK x \in T : TRUE
    BY <2>1
  <2>3. IsFiniteSet(T \ {x}) /\ Cardinality(T \ {x}) = c
    <3>1. IsFiniteSet(T \ {x}) /\ Cardinality(T \ {x}) = Cardinality(T) - 1
      BY FS_RemoveElement, Zenon
    <3> QED BY <3>1
  <2>4. Capped(T \ {x})
    BY <1>2, <2>3
  <2>5. PICK n \in Nat : \A y \in T \ {x} : y < n
    BY <2>4
  <2> DEFINE m == IF x < n THEN n ELSE x + 1
  <2>6. m \in Nat /\ \A y \in T : y < m
    BY <2>5
  <2> HIDE DEF m
  <2> QED BY <2>6
<1>3. Cardinality(S) \in N
  <2>1. Cardinality(S) \in Nat
    BY FS_CardinalityType
  <2> HIDE DEF N
  <2> QED BY <1>1, <1>2, <2>1, NatSetInduction
<1> QED BY <1>3

\* Such a set can be listed.
LEMMA ListExists ==
    ASSUME NEW S \in SUBSET Nat, IsFiniteSet(S)
    PROVE  \E s : Lists(s, S)
<1> DEFINE N == {n \in Nat : \A T \in SUBSET Nat :
                    IsFiniteSet(T) /\ (\A x \in T : x < n) => \E s : Lists(s, T)}
<1>1. 0 \in N
  <2> SUFFICES ASSUME NEW T \in SUBSET Nat, IsFiniteSet(T), \A x \in T : x < 0
               PROVE  \E s : Lists(s, T)
    OBVIOUS
  <2>1. T = {}
    OBVIOUS
  <2>2. Cardinality(T) = 0
    BY <2>1, FS_EmptySet
  <2>3. Lists([i \in {} |-> 0], T)
    BY <2>1, <2>2 DEF Lists
  <2> QED BY <2>3
<1>2. ASSUME NEW n \in Nat, n \in N PROVE n + 1 \in N
  <2> SUFFICES ASSUME NEW T \in SUBSET Nat, IsFiniteSet(T), \A x \in T : x < n + 1
               PROVE  \E s : Lists(s, T)
    OBVIOUS
  <2>1. CASE n \notin T
    <3>1. \A x \in T : x < n
      BY <2>1
    <3> QED BY <1>2, <3>1
  <2>2. CASE n \in T
    <3> DEFINE U == T \ {n}
               c == Cardinality(U)
    <3>1. IsFiniteSet(U) /\ Cardinality(T) = c + 1 /\ c \in Nat
      <4>1. IsFiniteSet(U) /\ c = Cardinality(T) - 1
        BY <2>2, FS_RemoveElement, Zenon
      <4>2. c \in Nat /\ Cardinality(T) \in Nat
        BY <4>1, FS_CardinalityType
      <4> QED BY <4>1, <4>2
    <3>2. U \in SUBSET Nat /\ \A x \in U : x < n
      OBVIOUS
    <3>3. PICK s : Lists(s, U)
      BY <1>2, <3>1, <3>2
    <3> DEFINE t == [i \in 1..(c + 1) |-> IF i = c + 1 THEN n ELSE s[i]]
    <3> HIDE DEF c
    <3>4. s \in [1..c -> U] /\ (\A i, j \in 1..c : i < j => s[i] < s[j])
          /\ \A x \in U : \E i \in 1..c : s[i] = x
      BY <3>3 DEF Lists, c
    <3>5. t \in [1..(c + 1) -> T]
      BY <2>2, <3>1, <3>4
    <3>6. ASSUME NEW i \in 1..(c + 1), NEW j \in 1..(c + 1), i < j PROVE t[i] < t[j]
      <4>1. i \in 1..c /\ t[i] = s[i] /\ s[i] \in U
        BY <3>1, <3>4, <3>6
      <4>2. CASE j = c + 1
        BY <3>2, <4>1, <4>2
      <4>3. CASE j # c + 1
        <5>1. j \in 1..c /\ t[j] = s[j]
          BY <3>1, <4>3
        <5> QED BY <3>4, <3>6, <4>1, <5>1
      <4> QED BY <4>2, <4>3
    <3>7. ASSUME NEW x \in T PROVE \E i \in 1..(c + 1) : t[i] = x
      <4>1. CASE x = n
        <5>1. c + 1 \in 1..(c + 1) /\ t[c + 1] = n
          BY <3>1
        <5> QED BY <4>1, <5>1
      <4>2. CASE x # n
        <5>1. PICK i \in 1..c : s[i] = x
          BY <3>4, <4>2
        <5>2. i \in 1..(c + 1) /\ t[i] = x
          BY <3>1, <5>1
        <5> QED BY <5>2
      <4> QED BY <4>1, <4>2
    <3> HIDE DEF t
    <3>8. Lists(t, T)
      BY <3>1, <3>5, <3>6, <3>7 DEF Lists
    <3> QED BY <3>8
  <2> QED BY <2>1, <2>2
<1>3. \A n \in Nat : n \in N
  <2> HIDE DEF N
  <2> QED BY <1>1, <1>2, NatSetInduction
<1>4. PICK n \in Nat : \A x \in S : x < n
  BY BoundedSet
<1> QED BY <1>3, <1>4

\* An ascending function onto as many values as it has arguments is onto.
LEMMA AscendingLists ==
    ASSUME NEW S \in SUBSET Nat, IsFiniteSet(S)
    PROVE  /\ Lists(Ascending(S), S) /\ Cardinality(S) \in Nat
           /\ Ascending(S) \in Seq(S) /\ Len(Ascending(S)) = Cardinality(S)
<1> DEFINE c == Cardinality(S)
           s == Ascending(S)
<1>1. c \in Nat
  BY FS_CardinalityType
<1> HIDE DEF c
<1>2. /\ s \in [1..c -> S]
      /\ \A i, j \in 1..c : i < j => s[i] < s[j]
  <2>1. PICK t : Lists(t, S)
    BY ListExists
  <2>2. \E t2 \in [1..c -> S] : \A i, j \in 1..c : i < j => t2[i] < t2[j]
    BY <2>1 DEF Lists, c
  <2> QED BY <2>2, Zenon DEF Ascending, c
<1> HIDE DEF s
<1>3. \A x \in S : \E i \in 1..c : s[i] = x
  <2>1. IsFiniteSet(1..c) /\ Cardinality(1..c) = c
    <3>1. c = 0 \/ (1 <= c)
      BY <1>1
    <3> QED BY <1>1, <3>1, FS_Interval
  <2>2. s \in Injection(1..c, S)
    <3>1. ASSUME NEW i \in 1..c, NEW j \in 1..c, i # j PROVE s[i] # s[j]
      <4>1. s[i] \in Nat /\ s[j] \in Nat
        BY <1>2
      <4>2. i < j \/ j < i
        BY <1>1, <3>1
      <4> QED BY <1>2, <4>1, <4>2
    <3> QED BY <1>2, <3>1 DEF Injection, IsInjective
  <2>3. s \in Surjection(1..c, S)
    BY <2>1, <2>2, FS_Injection DEF c
  <2> QED BY <2>3 DEF Surjection
<1>4. s \in Seq(S) /\ Len(s) = c
  BY <1>1, <1>2, SeqDef
<1> QED BY <1>1, <1>2, <1>3, <1>4 DEF Lists, c, s

-----------------------------------------------------------------------------
\* Scanning the archive.

\* The recursion that defines FlattenSeq, up to n.
FlattenStep(ss, f, i) == IF i = 1 THEN ss[i] ELSE f[i - 1] \o ss[i]
FlattenSolves(ss, f, n) == f = [i \in 1..n |-> FlattenStep(ss, f, i)]

\* It has a solution.
LEMMA FlattenExists ==
    ASSUME NEW ss, NEW m \in Nat
    PROVE  \E f : FlattenSolves(ss, f, m)
<1> DEFINE N == {n \in Nat : \E f : FlattenSolves(ss, f, n)}
<1>1. 0 \in N
  <2> DEFINE f == [i \in 1..0 |-> 0]
  <2>1. FlattenSolves(ss, f, 0)
    <3>1. 1..0 = {}
      OBVIOUS
    <3> QED BY <3>1 DEF FlattenSolves
  <2> QED BY <2>1
<1>2. ASSUME NEW n \in Nat, n \in N PROVE n + 1 \in N
  <2>1. PICK f : f = [i \in 1..n |-> FlattenStep(ss, f, i)]
    BY <1>2 DEF FlattenSolves
  <2> DEFINE g == [i \in 1..(n + 1) |-> IF i = n + 1 THEN FlattenStep(ss, f, n + 1) ELSE f[i]]
  <2>2. ASSUME NEW i \in 1..(n + 1) PROVE g[i] = FlattenStep(ss, g, i)
    <3>1. FlattenStep(ss, g, i) = FlattenStep(ss, f, i)
      <4>1. CASE i = 1
        BY <4>1 DEF FlattenStep
      <4>2. CASE i # 1
        <5>1. i - 1 \in 1..(n + 1) /\ i - 1 # n + 1
          BY <4>2
        <5>2. g[i - 1] = f[i - 1]
          BY <5>1
        <5> HIDE DEF g
        <5> QED BY <4>2, <5>2 DEF FlattenStep
      <4> QED BY <4>1, <4>2
    <3>2. CASE i = n + 1
      BY <3>1, <3>2
    <3>3. CASE i # n + 1
      <4>1. i \in 1..n
        BY <3>3
      <4>2. f[i] = FlattenStep(ss, f, i)
        BY <2>1, <4>1
      <4> QED BY <3>1, <3>3, <4>2
    <3> QED BY <3>2, <3>3
  <2>3. FlattenSolves(ss, g, n + 1)
    <3>1. DOMAIN g = 1..(n + 1) /\ g = [i \in 1..(n + 1) |-> g[i]]
      OBVIOUS
    <3> HIDE DEF g
    <3> QED BY <2>2, <3>1 DEF FlattenSolves
  <2> HIDE DEF g
  <2> QED BY <2>3
<1>3. m \in N
  <2> HIDE DEF N
  <2> QED BY <1>1, <1>2, NatSetInduction
<1> QED BY <1>3

\* Element k of t is element j of the i-th sequence.
Stems(t, k, ss, i, j) == j \in 1..Len(ss[i]) /\ t[k] = ss[i][j]

\* t is the first n sequences of ss one after the other.
Flattened(t, ss, n) ==
    /\ \A k \in 1..Len(t) : \E i \in 1..n : \E j \in Nat : Stems(t, k, ss, i, j)
    /\ \A i \in 1..n : \A j \in 1..Len(ss[i]) : \E k \in 1..Len(t) : t[k] = ss[i][j]
    /\ \A k, l \in 1..Len(t) : k < l =>
          \E i1, i2 \in 1..n : \E j1, j2 \in Nat :
              /\ Stems(t, k, ss, i1, j1) /\ Stems(t, l, ss, i2, j2)
              /\ i1 < i2 \/ (i1 = i2 /\ j1 < j2)

LEMMA FlattenOne ==
    ASSUME NEW X, NEW ss \in Seq(Seq(X)), 1 <= Len(ss), Len(ss) \in Nat
    PROVE  Flattened(ss[1], ss, 1) /\ ss[1] \in Seq(X)
<1> DEFINE t == ss[1]
<1>1. 1 \in 1..Len(ss) /\ 1 \in 1..1
  OBVIOUS
<1>2. t \in Seq(X) /\ Len(t) \in Nat
  BY <1>1, ElementOfSeq, LenProperties
<1>3. \A k \in 1..Len(t) : Stems(t, k, ss, 1, k) /\ k \in Nat
  BY <1>2 DEF Stems
<1>4. \A i \in 1..1 : i = 1
  OBVIOUS
<1>5. ASSUME NEW k \in 1..Len(t), NEW l \in 1..Len(t), k < l
      PROVE  \E i1, i2 \in 1..1 : \E j1, j2 \in Nat :
                /\ Stems(t, k, ss, i1, j1) /\ Stems(t, l, ss, i2, j2)
                /\ i1 < i2 \/ (i1 = i2 /\ j1 < j2)
  BY <1>1, <1>3, <1>5
<1> HIDE DEF t
<1>6. \A i \in 1..1 : \A j \in 1..Len(ss[i]) : \E k \in 1..Len(t) : t[k] = ss[i][j]
  BY <1>4 DEF t
<1> QED BY <1>1, <1>2, <1>3, <1>5, <1>6 DEF Flattened, t

LEMMA FlattenMore ==
    ASSUME NEW X, NEW ss \in Seq(Seq(X)), NEW n \in Nat, n \in 1..(Len(ss) - 1),
           NEW t \in Seq(X), Flattened(t, ss, n)
    PROVE  Flattened(t \o ss[n + 1], ss, n + 1) /\ t \o ss[n + 1] \in Seq(X)
<1> DEFINE u == ss[n + 1]
           v == t \o u
           a == Len(t)
           b == Len(u)
<1>1. Len(ss) \in Nat /\ n + 1 \in 1..Len(ss)
  BY LenProperties
<1>2. u \in Seq(X) /\ a \in Nat /\ b \in Nat
  BY <1>1, ElementOfSeq, LenProperties
<1>3. /\ v \in Seq(X) /\ Len(v) = a + b
      /\ \A k \in 1..(a + b) : v[k] = IF k <= a THEN t[k] ELSE u[k - a]
  <2> HIDE DEF u
  <2> QED BY <1>2, ConcatProperties
<1> DEFINE Old(k) == k \in 1..a
<1>4. ASSUME NEW k \in 1..Len(v), k <= a
      PROVE  /\ k \in 1..a /\ v[k] = t[k]
             /\ \A i, j : Stems(t, k, ss, i, j) => Stems(v, k, ss, i, j)
  <2>1. k \in 1..a /\ v[k] = t[k]
    BY <1>2, <1>3, <1>4
  <2> HIDE DEF v
  <2> QED BY <2>1 DEF Stems
<1>5. ASSUME NEW k \in 1..Len(v), ~(k <= a)
      PROVE  k - a \in 1..b /\ k - a \in Nat /\ Stems(v, k, ss, n + 1, k - a)
  <2>1. k - a \in 1..b /\ v[k] = u[k - a] /\ k - a \in Nat
    BY <1>2, <1>3, <1>5
  <2> HIDE DEF v
  <2> QED BY <2>1 DEF Stems
<1>6. \A i \in 1..n : i \in 1..(n + 1) /\ i < n + 1
  OBVIOUS
<1>7. n + 1 \in 1..(n + 1)
  OBVIOUS
<1>8. ASSUME NEW k \in 1..Len(v) PROVE \E i \in 1..(n + 1) : \E j \in Nat : Stems(v, k, ss, i, j)
  <2>1. CASE k <= a
    <3>1. PICK i \in 1..n, j \in Nat : Stems(t, k, ss, i, j)
      BY <1>4, <2>1 DEF Flattened
    <3> HIDE DEF v, a
    <3> QED BY <1>4, <1>6, <2>1, <3>1
  <2>2. CASE ~(k <= a)
    <3> HIDE DEF v, a
    <3> QED BY <1>5, <1>7, <2>2
  <2> QED BY <2>1, <2>2
<1>9. ASSUME NEW i \in 1..(n + 1), NEW j \in 1..Len(ss[i]) PROVE \E k \in 1..Len(v) : v[k] = ss[i][j]
  <2>1. CASE i = n + 1
    <3>1. j \in 1..b
      BY <2>1
    <3>2. a + j \in 1..(a + b) /\ ~(a + j <= a) /\ (a + j) - a = j
      BY <1>2, <3>1
    <3>3. a + j \in 1..Len(v) /\ v[a + j] = u[j]
      BY <1>3, <3>2
    <3> HIDE DEF v, a
    <3> QED BY <2>1, <3>3
  <2>2. CASE i # n + 1
    <3>1. i \in 1..n
      BY <2>2
    <3>2. PICK k \in 1..a : t[k] = ss[i][j]
      BY <3>1 DEF Flattened
    <3>3. k \in 1..Len(v) /\ k <= a
      BY <1>2, <1>3, <3>2, SMTT(30)
    <3> HIDE DEF v, a
    <3> QED BY <1>4, <3>2, <3>3
  <2> QED BY <2>1, <2>2
<1>10. ASSUME NEW k \in 1..Len(v), NEW l \in 1..Len(v), k < l
       PROVE  \E i1, i2 \in 1..(n + 1) : \E j1, j2 \in Nat :
                /\ Stems(v, k, ss, i1, j1) /\ Stems(v, l, ss, i2, j2)
                /\ i1 < i2 \/ (i1 = i2 /\ j1 < j2)
  <2>1. CASE l <= a
    <3>1. k <= a
      BY <1>2, <1>3, <1>10, <2>1
    <3>2. PICK i1 \in 1..n, i2 \in 1..n, j1 \in Nat, j2 \in Nat :
             /\ Stems(t, k, ss, i1, j1) /\ Stems(t, l, ss, i2, j2)
             /\ i1 < i2 \/ (i1 = i2 /\ j1 < j2)
      BY <1>4, <1>10, <2>1, <3>1 DEF Flattened
    <3>3. Stems(v, k, ss, i1, j1) /\ Stems(v, l, ss, i2, j2)
      BY <1>4, <2>1, <3>1, <3>2
    <3> HIDE DEF v, a
    <3> QED BY <1>6, <3>2, <3>3
  <2>2. CASE k <= a /\ ~(l <= a)
    <3>1. PICK i1 \in 1..n, j1 \in Nat : Stems(t, k, ss, i1, j1)
      BY <1>4, <2>2 DEF Flattened
    <3>2. Stems(v, k, ss, i1, j1)
      BY <1>4, <2>2, <3>1
    <3>3. Stems(v, l, ss, n + 1, l - a) /\ l - a \in Nat
      BY <1>5, <2>2
    <3> HIDE DEF v, a
    <3> QED BY <1>6, <1>7, <3>2, <3>3
  <2>3. CASE ~(k <= a)
    <3>1. ~(l <= a) /\ k - a < l - a
      BY <1>2, <1>3, <1>10, <2>3
    <3>2. /\ Stems(v, k, ss, n + 1, k - a) /\ k - a \in Nat
          /\ Stems(v, l, ss, n + 1, l - a) /\ l - a \in Nat
      BY <1>5, <2>3, <3>1
    <3> HIDE DEF v, a
    <3> QED BY <1>7, <3>1, <3>2
  <2> QED BY <2>1, <2>2, <2>3
<1> HIDE DEF v
<1>11. Flattened(v, ss, n + 1)
  BY <1>8, <1>9, <1>10 DEF Flattened
<1> QED BY <1>3, <1>11 DEF v

\* FlattenSeq concatenates.
LEMMA FlattenLemma ==
    ASSUME NEW X, NEW ss \in Seq(Seq(X))
    PROVE  FlattenSeq(ss) \in Seq(X) /\ Flattened(FlattenSeq(ss), ss, Len(ss))
<1> DEFINE m == Len(ss)
<1>1. m \in Nat
  BY LenProperties
<1>2. CASE m = 0
  <2>1. FlattenSeq(ss) = ss /\ ss = <<>>
    BY <1>2, EmptySeq DEF FlattenSeq
  <2>2. <<>> \in Seq(X) /\ Len(<<>>) = 0 /\ 1..0 = {}
    BY EmptySeq
  <2> QED BY <1>2, <2>1, <2>2 DEF Flattened
<1>3. CASE m # 0
  <2> DEFINE f == CHOOSE g : FlattenSolves(ss, g, m)
  <2>1. FlattenSeq(ss) = f[m]
    BY <1>3 DEF FlattenSeq, FlattenSolves, FlattenStep
  <2>2. \A i \in 1..m : f[i] = FlattenStep(ss, f, i)
    <3>1. FlattenSolves(ss, f, m)
      BY <1>1, FlattenExists, Zenon
    <3> HIDE DEF f
    <3> QED BY <3>1 DEF FlattenSolves
  <2> HIDE DEF f
  <2> DEFINE N == {n \in Nat : n + 1 <= m =>
                      Flattened(f[n + 1], ss, n + 1) /\ f[n + 1] \in Seq(X)}
  <2>3. 0 \in N
    <3>1. f[1] = ss[1] /\ 1 <= m
      BY <1>1, <1>3, <2>2 DEF FlattenStep
    <3>2. Flattened(f[1], ss, 1) /\ f[1] \in Seq(X)
      BY <1>1, <3>1, FlattenOne
    <3> QED BY <3>2
  <2>4. ASSUME NEW n \in Nat, n \in N PROVE n + 1 \in N
    <3> SUFFICES ASSUME n + 2 <= m
                 PROVE  Flattened(f[n + 2], ss, n + 2) /\ f[n + 2] \in Seq(X)
      OBVIOUS
    <3> DEFINE p == n + 1
    <3>1. p \in Nat /\ p \in 1..(m - 1) /\ p + 1 \in 1..m /\ p + 1 # 1 /\ (p + 1) - 1 = p
          /\ p + 1 = n + 2
      BY <1>1
    <3>2. Flattened(f[p], ss, p) /\ f[p] \in Seq(X)
      BY <1>1, <2>4
    <3> HIDE DEF p, N
    <3>3. f[p + 1] = f[p] \o ss[p + 1]
      BY <2>2, <3>1 DEF FlattenStep
    <3>4. Flattened(f[p + 1], ss, p + 1) /\ f[p + 1] \in Seq(X)
      BY <3>1, <3>2, <3>3, FlattenMore
    <3> QED BY <3>1, <3>4
  <2>5. m - 1 \in N
    <3>1. m - 1 \in Nat
      BY <1>1, <1>3
    <3> HIDE DEF N
    <3> QED BY <2>3, <2>4, <3>1, NatSetInduction
  <2>6. Flattened(f[m], ss, m) /\ f[m] \in Seq(X)
    <3>1. (m - 1) + 1 = m /\ m <= m
      BY <1>1
    <3> QED BY <2>5, <3>1
  <2> QED BY <2>1, <2>6
<1> QED BY <1>2, <1>3

\* What the index of period num says at its entry j.
Located(num, e) == [num |-> num, seq |-> e.seq, off |-> e.off, life |-> e.life]
Archived == [num : Nat, seq : Nat, off : Nat, life : Nat]

\* Entry k of a scan is entry j of a period's index.
Found(all, k, files, num, j) ==
    /\ num \in DOMAIN files /\ j \in 1..Len(files[num].entries)
    /\ all[k] = Located(num, files[num].entries[j])

\* A scan finds every entry of every index, in the order of the periods.
LEMMA ScanLemma ==
    ASSUME NEW files, Directory(files, Sidecars)
    PROVE  LET all == scan_archive(files)
           IN  /\ all \in Seq(Archived)
               /\ \A k \in 1..Len(all) : \E num \in Nat, j \in Nat : Found(all, k, files, num, j)
               /\ \A num \in DOMAIN files : \A j \in 1..Len(files[num].entries) :
                     \E k \in 1..Len(all) : all[k] = Located(num, files[num].entries[j])
               /\ \A k, l \in 1..Len(all) : k < l =>
                     \E n1, n2, j1, j2 \in Nat :
                        /\ Found(all, k, files, n1, j1) /\ Found(all, l, files, n2, j2)
                        /\ n1 < n2 \/ (n1 = n2 /\ j1 < j2)
<1> DEFINE D == DOMAIN files
           c == Cardinality(D)
           nums == Ascending(D)
           Entry(k, j) == Located(nums[k], files[nums[k]].entries[j])
           ss == [k \in 1..c |-> [j \in 1..Len(files[nums[k]].entries) |-> Entry(k, j)]]
           all == FlattenSeq(ss)
<1>1. D \in SUBSET Nat /\ IsFiniteSet(D) /\ files \in [D -> Sidecars]
  BY DEF Directory
<1> HIDE DEF D
<1>2. Lists(nums, D) /\ c \in Nat
  BY <1>1, AscendingLists
<1> HIDE DEF nums, c
<1>3. /\ \A k \in 1..c : nums[k] \in D
      /\ \A i, j \in 1..c : i < j => nums[i] < nums[j]
      /\ \A x \in D : \E i \in 1..c : nums[i] = x
  BY <1>2 DEF Lists, c
<1>4. scan_archive(files) = all
  BY DEF scan_archive, list_period_nums, parse_index, Located, nums, c, D
<1>5. \A num \in D : /\ files[num].entries \in Seq(Entries) /\ Len(files[num].entries) \in Nat
                     /\ \A j \in 1..Len(files[num].entries) : files[num].entries[j] \in Entries
  <2> SUFFICES ASSUME NEW num \in D
               PROVE  /\ files[num].entries \in Seq(Entries) /\ Len(files[num].entries) \in Nat
                      /\ \A j \in 1..Len(files[num].entries) : files[num].entries[j] \in Entries
    OBVIOUS
  <2>1. files[num].entries \in Seq(Entries)
    BY <1>1 DEF Sidecars
  <2> QED BY <2>1, ElementOfSeq, LenProperties
<1>6. ASSUME NEW k \in 1..c
      PROVE  /\ ss[k] \in Seq(Archived) /\ Len(ss[k]) = Len(files[nums[k]].entries)
             /\ \A j \in 1..Len(files[nums[k]].entries) : ss[k][j] = Entry(k, j)
  <2> DEFINE n == Len(files[nums[k]].entries)
             q == [j \in 1..n |-> Entry(k, j)]
  <2>1. nums[k] \in D /\ nums[k] \in Nat /\ n \in Nat
    BY <1>1, <1>3, <1>5
  <2>2. \A j \in 1..n : Entry(k, j) \in Archived
    BY <1>5, <2>1 DEF Located, Archived, Entries
  <2>3. ss[k] = q
    OBVIOUS
  <2>4. q \in [1..n -> Archived] /\ \A j \in 1..n : q[j] = Entry(k, j)
    BY <2>2
  <2> HIDE DEF q, n, ss, Entry
  <2>5. q \in Seq(Archived) /\ Len(q) = n
    BY <2>1, <2>4, SeqDef
  <2> QED BY <2>3, <2>4, <2>5 DEF n
<1>7. ss \in Seq(Seq(Archived)) /\ Len(ss) = c
  <2>1. ss \in [1..c -> Seq(Archived)]
    <3>1. DOMAIN ss = 1..c /\ ss = [k \in 1..c |-> ss[k]]
      OBVIOUS
    <3> HIDE DEF ss
    <3> QED BY <1>6, <3>1
  <2> HIDE DEF ss
  <2> QED BY <1>2, <2>1, SeqDef
<1> HIDE DEF ss
<1>8. all \in Seq(Archived) /\ Flattened(all, ss, c)
  BY <1>7, FlattenLemma
<1> HIDE DEF all
<1>9. ASSUME NEW k \in 1..Len(all), NEW i \in 1..c, NEW j \in Nat, Stems(all, k, ss, i, j)
      PROVE  Found(all, k, files, nums[i], j) /\ nums[i] \in Nat
  <2>1. nums[i] \in D /\ nums[i] \in Nat
    BY <1>1, <1>3
  <2>2. j \in 1..Len(files[nums[i]].entries) /\ all[k] = Entry(i, j)
    BY <1>6, <1>9 DEF Stems
  <2> QED BY <2>1, <2>2 DEF Found, D
<1>10. ASSUME NEW k \in 1..Len(all) PROVE \E num \in Nat, j \in Nat : Found(all, k, files, num, j)
  <2>1. PICK i \in 1..c, j \in Nat : Stems(all, k, ss, i, j)
    BY <1>8 DEF Flattened
  <2> QED BY <1>9, <2>1
<1>11. ASSUME NEW num \in DOMAIN files, NEW j \in 1..Len(files[num].entries)
       PROVE  \E k \in 1..Len(all) : all[k] = Located(num, files[num].entries[j])
  <2>1. PICK i \in 1..c : nums[i] = num
    BY <1>3 DEF D
  <2>2. j \in 1..Len(ss[i]) /\ ss[i][j] = Located(num, files[num].entries[j])
    BY <1>6, <2>1
  <2> QED BY <1>8, <2>2 DEF Flattened
<1>12. ASSUME NEW k \in 1..Len(all), NEW l \in 1..Len(all), k < l
       PROVE  \E n1, n2, j1, j2 \in Nat :
                /\ Found(all, k, files, n1, j1) /\ Found(all, l, files, n2, j2)
                /\ n1 < n2 \/ (n1 = n2 /\ j1 < j2)
  <2>1. PICK i1 \in 1..c, i2 \in 1..c, j1 \in Nat, j2 \in Nat :
           /\ Stems(all, k, ss, i1, j1) /\ Stems(all, l, ss, i2, j2)
           /\ i1 < i2 \/ (i1 = i2 /\ j1 < j2)
    BY <1>8, <1>12 DEF Flattened
  <2>2. Found(all, k, files, nums[i1], j1) /\ Found(all, l, files, nums[i2], j2)
        /\ nums[i1] \in Nat /\ nums[i2] \in Nat
    BY <1>9, <2>1
  <2>3. nums[i1] < nums[i2] \/ (nums[i1] = nums[i2] /\ j1 < j2)
    BY <1>3, <2>1
  <2> QED BY <2>2, <2>3
<1> QED BY <1>4, <1>8, <1>10, <1>11, <1>12

\* The set of what is listed.
LEMMA ScanSet ==
    ASSUME NEW files, Directory(files, Sidecars)
    PROVE  /\ \A e \in ToSet(scan_archive(files)) :
                 /\ e \in Archived /\ e.num \in DOMAIN files
                 /\ \E j \in 1..Len(files[e.num].entries) :
                       /\ files[e.num].entries[j] = [seq |-> e.seq, off |-> e.off, life |-> e.life]
                       /\ e = Located(e.num, files[e.num].entries[j])
           /\ \A num \in DOMAIN files : \A j \in 1..Len(files[num].entries) :
                 Located(num, files[num].entries[j]) \in ToSet(scan_archive(files))
<1> DEFINE all == scan_archive(files)
<1>1. all \in Seq(Archived) /\ Len(all) \in Nat /\ DOMAIN all = 1..Len(all)
  <2>1. all \in Seq(Archived)
    BY ScanLemma, SMTT(30)
  <2> HIDE DEF all
  <2> QED BY <2>1, LenProperties
<1>2. ASSUME NEW e \in ToSet(all)
      PROVE  /\ e \in Archived /\ e.num \in DOMAIN files
             /\ \E j \in 1..Len(files[e.num].entries) :
                   /\ files[e.num].entries[j] = [seq |-> e.seq, off |-> e.off, life |-> e.life]
                   /\ e = Located(e.num, files[e.num].entries[j])
  <2>1. PICK k \in 1..Len(all) : e = all[k]
    BY <1>1, <1>2 DEF ToSet
  <2>2. PICK num \in Nat, j \in Nat : Found(all, k, files, num, j)
    BY ScanLemma
  <2>3. e \in Archived
    BY <1>1, <2>1, ElementOfSeq
  <2> HIDE DEF all
  <2>4. num \in DOMAIN files /\ j \in 1..Len(files[num].entries)
        /\ e = Located(num, files[num].entries[j])
    BY <2>1, <2>2 DEF Found
  <2>5. files[num].entries[j] \in Entries
    <3>1. files[num].entries \in Seq(Entries)
      BY <2>4 DEF Directory, Sidecars
    <3> QED BY <2>4, <3>1, ElementOfSeq
  <2>6. e.num = num
    BY <2>4 DEF Located
  <2>7. files[num].entries[j] = [seq |-> e.seq, off |-> e.off, life |-> e.life]
    BY <2>4, <2>5 DEF Located, Entries
  <2> QED BY <2>3, <2>4, <2>6, <2>7
<1>3. ASSUME NEW num \in DOMAIN files, NEW j \in 1..Len(files[num].entries)
      PROVE  Located(num, files[num].entries[j]) \in ToSet(all)
  <2>1. PICK k \in 1..Len(all) : all[k] = Located(num, files[num].entries[j])
    BY ScanLemma
  <2> QED BY <1>1, <2>1 DEF ToSet
<1> QED BY <1>2, <1>3

\* The greatest of a finite set of naturals.
LEMMA MaxOf ==
    ASSUME NEW S \in SUBSET Nat, IsFiniteSet(S), S # {}
    PROVE  Max(S) \in S /\ \A x \in S : x <= Max(S)
<1> DEFINE s == Ascending(S)
           c == Cardinality(S)
<1>1. Lists(s, S) /\ c \in Nat
  BY AscendingLists
<1> HIDE DEF s, c
<1>2. /\ \A k \in 1..c : s[k] \in S
      /\ \A i, j \in 1..c : i < j => s[i] < s[j]
      /\ \A x \in S : \E i \in 1..c : s[i] = x
  BY <1>1 DEF Lists, c
<1>3. c \in 1..c
  <2>1. PICK x \in S : TRUE
    OBVIOUS
  <2>2. PICK i \in 1..c : s[i] = x
    BY <1>2
  <2> QED BY <1>1
<1>4. ASSUME NEW x \in S PROVE s[c] >= x
  <2>1. PICK i \in 1..c : s[i] = x
    BY <1>2
  <2>2. i = c \/ i < c
    BY <1>1
  <2>3. s[c] \in Nat /\ x \in Nat
    BY <1>2, <1>3
  <2> QED BY <1>2, <1>3, <2>1, <2>2, <2>3
<1>5. \E y \in S : \A x \in S : y >= x
  BY <1>2, <1>3, <1>4
<1>6. Max(S) \in S /\ \A x \in S : Max(S) >= x
  BY <1>5, Zenon DEF Max
<1>7. \A x \in S : x \in Nat
  OBVIOUS
<1> HIDE DEF s
<1> QED BY <1>6, <1>7

\* The floor is a number, and no archived segment has a higher one.
LEMMA FloorLemma ==
    ASSUME NEW files, Directory(files, Sidecars)
    PROVE  /\ archive_seq_floor(files) \in Nat
           /\ \A num \in DOMAIN files : \A j \in 1..Len(files[num].entries) :
                 files[num].entries[j].seq <= archive_seq_floor(files)
<1> DEFINE all == scan_archive(files)
           n == Len(all)
           T == {e.seq : e \in ToSet(all)}
           S == {0} \cup T
<1>1. all \in Seq(Archived) /\ n \in Nat /\ DOMAIN all = 1..n
  BY ScanLemma, LenProperties
<1>2. \A k \in 1..n : all[k].seq \in Nat
  <2>1. \A k \in 1..n : all[k] \in Archived
    BY <1>1, ElementOfSeq
  <2> QED BY <2>1 DEF Archived
<1>3. T = {all[k].seq : k \in 1..n}
  BY <1>1 DEF ToSet
<1>4. T \in SUBSET Nat /\ IsFiniteSet(T)
  <2> DEFINE f == [k \in 1..n |-> all[k].seq]
  <2>1. f \in Surjection(1..n, T)
    BY <1>3 DEF Surjection
  <2>2. IsFiniteSet(1..n)
    BY <1>1, FS_Interval
  <2>3. IsFiniteSet(T)
    <3> HIDE DEF f, T, n
    <3> QED BY <2>1, <2>2, FS_Surjection
  <2> QED BY <1>2, <1>3, <2>3
<1> HIDE DEF T
<1>5. S \in SUBSET Nat /\ IsFiniteSet(S) /\ S # {}
  <2>1. IsFiniteSet(T \cup {0})
    BY <1>4, FS_AddElement
  <2>2. S = T \cup {0}
    OBVIOUS
  <2> QED BY <1>4, <2>1, <2>2
<1>6. archive_seq_floor(files) = Max(S)
  BY DEF archive_seq_floor, T
<1> HIDE DEF S
<1>7. Max(S) \in S /\ \A x \in S : x <= Max(S)
  BY <1>5, MaxOf
<1>8. ASSUME NEW num \in DOMAIN files, NEW j \in 1..Len(files[num].entries)
      PROVE  files[num].entries[j].seq \in S
  <2>1. PICK k \in 1..n : all[k] = Located(num, files[num].entries[j])
    BY ScanLemma
  <2>2. all[k].seq = files[num].entries[j].seq
    BY <2>1 DEF Located
  <2> QED BY <1>3, <2>1, <2>2 DEF S
<1> QED BY <1>5, <1>6, <1>7, <1>8

-----------------------------------------------------------------------------
\* The steps that change neither the disk nor what the recorder knows of it.

LEMMA FreshTyped ==
    /\ FreshRecorder = [f \in Fields |-> FreshRecorder[f]]
    /\ FreshRecorder.seeded = FALSE /\ FreshRecorder.open = FALSE
    /\ FreshRecorder.index_file = FALSE /\ FreshRecorder.terminated = FALSE
    /\ FreshRecorder.period = 0 /\ FreshRecorder.write_offset = 0 /\ FreshRecorder.last_init = 0
    /\ FreshRecorder.periods = <<>> /\ FreshRecorder.index = <<>>
BY DEF FreshRecorder, Fields

LEMMA EmptyDirectory == ASSUME NEW C PROVE Directory(NoFiles, C) /\ DOMAIN NoFiles = {}
BY FS_EmptySet DEF Directory, NoFiles

LEMMA Initial == Init => ArchiveInv
<1> SUFFICES ASSUME Init PROVE ArchiveInv
  OBVIOUS
<1>1. /\ data = NoFiles /\ idx = NoFiles /\ durable = NoFiles /\ DOMAIN NoFiles = {}
      /\ rec = FreshRecorder /\ pc = At("idle") /\ reader = NoReader /\ sync_failed = FALSE
      /\ life = 1 /\ offset = 0 /\ cuts = <<>> /\ init = 0 /\ cursor = 0
  BY EmptyDirectory DEF Init
<1>2. <<>> \in Seq(Nat) /\ <<>> \in Seq(Periods) /\ <<>> \in Seq(Entries) /\ Len(<<>>) = 0
  BY EmptySeq
<1>3. RecorderTyped
  <2>1. rec = [f \in Fields |-> rec[f]]
    BY <1>1, FreshTyped
  <2>2. rec.seeded = FALSE /\ rec.open = FALSE /\ rec.index_file = FALSE /\ rec.terminated = FALSE
    BY <1>1, FreshTyped
  <2>3. rec.period = 0 /\ rec.write_offset = 0 /\ rec.last_init = 0 /\ 0 \in Nat
    BY <1>1, FreshTyped
  <2>4. rec.periods = <<>> /\ rec.index = <<>>
    BY <1>1, FreshTyped
  <2> QED BY <1>2, <2>1, <2>2, <2>3, <2>4, Zenon DEF RecorderTyped
<1>4. MaxInits \in Nat
  BY BoundsAssumption
<1>5. Typed
  <2>1. Directory(data, Seq(Pieces)) /\ Directory(idx, Sidecars)
    BY <1>1, EmptyDirectory
  <2>2. pc \in [at : Places, ret : {"idle", "drain", "write"}, with : Nat]
    BY <1>1 DEF At, Places
  <2>3. durable \in [DOMAIN data -> Nat]
    BY <1>1 DEF NoFiles
  <2>4. cursor \in 0..Len(cuts) /\ init \in 0..MaxInits /\ offset \in Nat /\ life \in Nat
    BY <1>1, <1>2, <1>4
  <2> QED BY <1>1, <1>2, <1>3, <2>1, <2>2, <2>3, <2>4 DEF Typed
<1>6. pc.at = "idle"
  BY <1>1 DEF At
<1>7. ControlInv /\ KnownInv
  BY <1>1, <1>6, FreshTyped DEF ControlInv, KnownInv, TakenUp
<1>8. DurableInv /\ ListedInv /\ OpenInv /\ ReaderInv /\ OrderInv
  BY <1>1, FreshTyped DEF DurableInv, ListedInv, OpenInv, ReaderInv, OrderInv, AscendInv,
                          ReachInv, OpenOrderInv
<1> QED BY <1>5, <1>7, <1>8 DEF ArchiveInv

\* What the types say of the elements.
LEMMA TypedLemma ==
    ASSUME Typed
    PROVE  /\ \A num \in DOMAIN idx :
                 /\ num \in Nat /\ idx[num] \in Sidecars /\ idx[num].entries \in Seq(Entries)
                 /\ Len(idx[num].entries) \in Nat
                 /\ \A k \in 1..Len(idx[num].entries) :
                       /\ idx[num].entries[k] \in Entries
                       /\ idx[num].entries[k].seq \in Nat /\ idx[num].entries[k].off \in Nat
           /\ \A num \in DOMAIN data :
                 num \in Nat /\ data[num] \in Seq(Pieces) /\ Len(data[num]) \in Nat
                 /\ durable[num] \in Nat
           /\ Len(rec.index) \in Nat
           /\ \A k \in 1..Len(rec.index) :
                 /\ rec.index[k] \in Entries
                 /\ rec.index[k].seq \in Nat /\ rec.index[k].off \in Nat
           /\ Len(rec.periods) \in Nat
           /\ \A k \in 1..Len(rec.periods) : rec.periods[k].num \in Nat
           /\ Len(cuts) \in Nat /\ Reached \in Int /\ DOMAIN rec = Fields
<1>1. ASSUME NEW num \in DOMAIN idx
      PROVE  /\ num \in Nat /\ idx[num] \in Sidecars /\ idx[num].entries \in Seq(Entries)
             /\ Len(idx[num].entries) \in Nat
             /\ \A k \in 1..Len(idx[num].entries) :
                   /\ idx[num].entries[k] \in Entries
                   /\ idx[num].entries[k].seq \in Nat /\ idx[num].entries[k].off \in Nat
  <2>1. num \in Nat /\ idx[num] \in Sidecars
    BY DEF Typed, Directory
  <2>2. idx[num].entries \in Seq(Entries)
    BY <2>1 DEF Sidecars
  <2>3. \A k \in 1..Len(idx[num].entries) : idx[num].entries[k] \in Entries
    BY <2>2, ElementOfSeq
  <2>4. Len(idx[num].entries) \in Nat
    BY <2>2, LenProperties
  <2> QED BY <2>1, <2>2, <2>3, <2>4 DEF Entries
<1>2. ASSUME NEW num \in DOMAIN data
      PROVE  num \in Nat /\ data[num] \in Seq(Pieces) /\ Len(data[num]) \in Nat
             /\ durable[num] \in Nat
  <2>1. num \in Nat /\ data[num] \in Seq(Pieces) /\ durable[num] \in Nat
    BY DEF Typed, Directory
  <2> QED BY <2>1, LenProperties
<1>3. /\ Len(rec.index) \in Nat
      /\ \A k \in 1..Len(rec.index) :
            rec.index[k] \in Entries /\ rec.index[k].seq \in Nat /\ rec.index[k].off \in Nat
  <2>1. rec.index \in Seq(Entries)
    BY DEF Typed, RecorderTyped
  <2>2. \A k \in 1..Len(rec.index) : rec.index[k] \in Entries
    BY <2>1, ElementOfSeq
  <2> QED BY <2>1, <2>2, LenProperties DEF Entries
<1>4. Len(rec.periods) \in Nat /\ \A k \in 1..Len(rec.periods) : rec.periods[k].num \in Nat
  <2>1. rec.periods \in Seq(Periods)
    BY DEF Typed, RecorderTyped
  <2>2. \A k \in 1..Len(rec.periods) : rec.periods[k] \in Periods
    BY <2>1, ElementOfSeq
  <2> QED BY <2>1, <2>2, LenProperties DEF Periods
<1>5. Len(cuts) \in Nat /\ Reached \in Int
  <2>1. cuts \in Seq(Nat) /\ offset \in Nat /\ cursor \in 0..Len(cuts)
    BY DEF Typed
  <2>2. Len(cuts) \in Nat
    BY <2>1, LenProperties
  <2> QED BY <2>1, <2>2 DEF Reached
<1>6. DOMAIN rec = Fields
  BY DEF Typed, RecorderTyped
<1> QED BY <1>1, <1>2, <1>3, <1>4, <1>5, <1>6

\* Such a step leaves the invariant, if the recorder goes to a place that relies
\* on no more than the one it was at.
LEMMA QuietLemma ==
    ASSUME ArchiveInv, Typed', ControlInv',
           UNCHANGED <<disk, rec, sync_failed, left_idx, left_data, reader>>,
           pc'.at = "index" => pc.at = "index",
           rec.index_file => (pc.at = "index" <=> pc'.at = "index"),
           Reached <= Reached'
    PROVE  ArchiveInv'
<1>1. KnownInv' /\ DurableInv' /\ ListedInv' /\ ReaderInv'
  BY DEF ArchiveInv, KnownInv, DurableInv, ListedInv, Describes, ReaderInv, disk
<1>2. OpenInv'
  BY DEF ArchiveInv, OpenInv, disk
<1>3. OrderInv'
  <2>1. /\ \A num \in DOMAIN idx : \A k \in 1..Len(idx[num].entries) :
              idx[num].entries[k].seq \in Nat
        /\ \A k \in 1..Len(rec.index) : rec.index[k].seq \in Nat
        /\ Reached \in Int
    BY TypedLemma DEF ArchiveInv
  <2>2. Reached' \in Int
    <3>1. Len(cuts') \in Nat /\ cursor' \in 0..Len(cuts') /\ offset' \in Nat
      BY LenProperties DEF Typed
    <3> QED BY <3>1 DEF Reached
  <2>3. ASSUME NEW x \in Nat, x <= Reached PROVE x <= Reached'
    BY <2>1, <2>2, <2>3
  <2>4. OrderInv
    BY DEF ArchiveInv
  <2> HIDE DEF Reached
  <2>5. UNCHANGED <<idx, rec>>
    BY DEF disk
  <2>6. AscendInv'
    BY <2>4, <2>5 DEF OrderInv, AscendInv
  <2>7. ReachInv'
    BY <2>1, <2>3, <2>4, <2>5 DEF OrderInv, ReachInv
  <2>8. OpenOrderInv'
    BY <2>1, <2>3, <2>4, <2>5 DEF OrderInv, OpenOrderInv
  <2> QED BY <2>6, <2>7, <2>8 DEF OrderInv
<1> QED BY <1>1, <1>2, <1>3 DEF ArchiveInv

\* The ingest task's steps.
LEMMA IngestStep ==
    ASSUME ArchiveInv, CloseSegment \/ SetInit
    PROVE  ArchiveInv'
<1>1. Typed /\ ControlInv /\ pc.at = "idle" /\ IngestUnchanged
  BY DEF ArchiveInv, CloseSegment, SetInit
<1>2. cuts' \in Seq(Nat) /\ Len(cuts') \in Nat /\ Len(cuts) <= Len(cuts') /\ init' \in 0..MaxInits
  <2>1. cuts \in Seq(Nat) /\ init \in 0..MaxInits /\ Len(cuts) \in Nat /\ MaxInits \in Nat
    BY <1>1, LenProperties, BoundsAssumption DEF Typed
  <2>2. CASE CloseSegment
    <3>1. cuts' = Append(cuts, init) /\ init' = init /\ init \in Nat
      BY <2>1, <2>2 DEF CloseSegment
    <3> QED BY <2>1, <3>1, AppendProperties
  <2>3. CASE SetInit
    BY <2>1, <2>3 DEF SetInit
  <2> QED BY <2>2, <2>3
<1>3. Typed'
  <2>1. Len(cuts) \in Nat /\ cursor \in 0..Len(cuts) /\ cursor' = cursor
    BY <1>1, TypedLemma DEF Typed, IngestUnchanged
  <2>2. cursor' \in 0..Len(cuts')
    BY <1>2, <2>1
  <2> QED BY <1>1, <1>2, <2>2 DEF Typed, IngestUnchanged, disk, RecorderTyped
<1>4. ControlInv'
  BY <1>1 DEF ControlInv, TakenUp, IngestUnchanged, disk, leftVars
<1>5. Reached' = Reached /\ Reached \in Int
  BY <1>1, TypedLemma DEF Reached, TakenUp, IngestUnchanged
<1> QED BY <1>1, <1>3, <1>4, <1>5, QuietLemma DEF IngestUnchanged, leftVars

\* The steps of the recorder that only move its program counter and cursor.
LEMMA MovesStep ==
    ASSUME ArchiveInv,
           ProgrammeChange \/ TakeSegment \/ TakeGap \/ Drained \/ IndexFails \/ Retained
    PROVE  ArchiveInv'
<1>1. Typed /\ ControlInv /\ OpenInv
  BY DEF ArchiveInv
<1>2. UNCHANGED <<disk, rec, sync_failed, left_idx, left_data, reader, life, offset, cuts, init>>
  BY DEF ProgrammeChange, TakeSegment, TakeGap, Drained, IndexFails, Retained, PollUnchanged,
         RecorderUnchanged, trunkVars, leftVars
<1>3. /\ pc \in [at : Places, ret : {"idle", "drain", "write"}, with : Nat]
      /\ Len(cuts) \in Nat /\ cursor \in 0..Len(cuts) /\ offset \in Nat /\ rec.last_init \in Nat
  BY <1>1, TypedLemma DEF Typed, RecorderTyped
<1> DEFINE Goes == /\ pc' \in [at : Places, ret : {"idle", "drain", "write"}, with : Nat]
                   /\ cursor' \in cursor..Len(cuts) /\ ControlInv'
                   /\ pc'.at = "index" => pc.at = "index"
                   /\ rec.index_file => (pc.at = "index" <=> pc'.at = "index")
                   /\ Reached <= Reached'
<1>4. ASSUME ProgrammeChange PROVE Goes
  <2>1. /\ pc' = [at |-> "roll", ret |-> "idle", with |-> rec.last_init] /\ pc.at = "idle"
        /\ cursor' = cursor /\ rec.open
    BY <1>4 DEF ProgrammeChange, Roll, PollUnchanged
  <2> QED BY <1>1, <1>2, <1>3, <2>1 DEF Places, ControlInv, TakenUp, Reached, disk
<1>5. ASSUME TakeSegment PROVE Goes
  <2>1. pc.at = "drain" /\ cursor < Len(cuts) /\ cursor' = cursor + 1
    BY <1>5 DEF TakeSegment, closed
  <2>2. \/ pc' = [at |-> "drain", ret |-> "idle", with |-> 0]
        \/ pc' = [at |-> "roll", ret |-> "write", with |-> 0]
        \/ pc' = [at |-> "roll", ret |-> "write", with |-> rec.last_init]
        \/ pc' = [at |-> "write", ret |-> "idle", with |-> 0] /\ rec.open
    BY <1>5 DEF TakeSegment, At, Roll
  <2> QED BY <1>1, <1>2, <1>3, <2>1, <2>2 DEF Places, ControlInv, TakenUp, Reached, disk
<1>6. ASSUME TakeGap PROVE Goes
  <2>1. pc.at = "drain" /\ pc' = pc /\ \E to \in (cursor + 1)..(Len(cuts) - 1) : cursor' = to
    BY <1>6 DEF TakeGap, closed
  <2> QED BY <1>1, <1>2, <1>3, <2>1 DEF Places, ControlInv, TakenUp, Reached, disk
<1>7. ASSUME Drained PROVE Goes
  <2>1. pc.at = "drain" /\ pc' = [at |-> "idle", ret |-> "idle", with |-> 0] /\ cursor' = cursor
    BY <1>7 DEF Drained, At
  <2> QED BY <1>1, <1>2, <1>3, <2>1 DEF Places, ControlInv, TakenUp, Reached, disk
<1>8. ASSUME IndexFails PROVE Goes
  <2>1. /\ pc.at = "index" /\ pc' = [at |-> "idle", ret |-> "idle", with |-> 0]
        /\ cursor' = cursor /\ ~InPlace
    BY <1>8 DEF IndexFails, At
  <2>2. ~rec.index_file
    <3> SUFFICES ASSUME rec.index_file PROVE FALSE
      OBVIOUS
    <3>1. /\ rec.period \in DOMAIN idx /\ idx[rec.period].entries # <<>>
          /\ Len(rec.index) = Len(idx[rec.period].entries) + 1
      BY <1>1, <2>1 DEF OpenInv, ControlInv
    <3>2. idx[rec.period].entries \in Seq(Entries) /\ Len(idx[rec.period].entries) \in Nat
      BY <1>1, <3>1, TypedLemma
    <3>3. Len(idx[rec.period].entries) # 0
      BY <3>1, <3>2, EmptySeq
    <3> QED BY <2>1, <3>1, <3>2, <3>3 DEF InPlace
  <2> QED BY <1>1, <1>2, <1>3, <2>1, <2>2 DEF Places, ControlInv, TakenUp, Reached, disk
<1>9. ASSUME Retained PROVE Goes
  <2>1. pc.at = "retain" /\ pc' = [at |-> "drain", ret |-> "idle", with |-> 0] /\ cursor' = cursor
    BY <1>9 DEF Retained, At
  <2> QED BY <1>1, <1>2, <1>3, <2>1 DEF Places, ControlInv, TakenUp, Reached, disk
<1>10. Goes
  BY <1>4, <1>5, <1>6, <1>7, <1>8, <1>9
<1>11. Typed'
  <2>1. cursor' \in 0..Len(cuts)
    BY <1>3, <1>10
  <2> QED BY <1>1, <1>2, <1>10, <2>1 DEF Typed, disk, RecorderTyped
<1> QED BY <1>2, <1>10, <1>11, QuietLemma

-----------------------------------------------------------------------------
\* The start of a poll.

\* What a recorder learns from the disk.
LEMMA AdoptedLemma ==
    ASSUME Typed, rec = FreshRecorder
    PROVE  LET r == Adopted(rec)
           IN  /\ r = [f \in Fields |-> r[f]]
               /\ r.seeded = TRUE /\ r.open = FALSE /\ r.index_file = FALSE /\ r.terminated = FALSE
               /\ r.write_offset = 0 /\ r.last_init = 0 /\ r.index = <<>>
               /\ r.period \in Nat /\ r.periods \in Seq(Periods)
               /\ \A num \in DOMAIN data \cup DOMAIN idx : num < r.period
               /\ \A num \in DOMAIN data : \E k \in 1..Len(r.periods) : r.periods[k].num = num
               /\ \A k \in 1..Len(r.periods) : r.periods[k].num < r.period
               /\ \A k, l \in 1..Len(r.periods) : k < l => r.periods[k].num < r.periods[l].num
<1> DEFINE D == DOMAIN data
           B == DOMAIN data \cup DOMAIN idx
           nums == Ascending(D)
           c == Cardinality(D)
           periods == [k \in 1..Len(nums) |-> [num |-> nums[k], file_bytes |-> Len(data[nums[k]])]]
           top == Max(B)
           r == Adopted(rec)
<1>1. /\ D \in SUBSET Nat /\ IsFiniteSet(D)
      /\ B \in SUBSET Nat /\ IsFiniteSet(B)
  BY FS_Union DEF Typed, Directory
<1>2. D \subseteq B
  OBVIOUS
<1>3. Lists(nums, D) /\ c \in Nat /\ Len(nums) = c
  BY <1>1, AscendingLists
<1>4. r = IF B = {} THEN [FreshRecorder EXCEPT !.seeded = TRUE]
          ELSE [FreshRecorder EXCEPT !.seeded = TRUE, !.period = top + 1, !.periods = periods,
                                     !.total_bytes = SumBytes(periods)]
  BY DEF Adopted
<1> HIDE DEF r, top, nums, c, B
<1>5. /\ \A k \in 1..c : nums[k] \in D
      /\ \A i, j \in 1..c : i < j => nums[i] < nums[j]
      /\ \A x \in D : \E i \in 1..c : nums[i] = x
  BY <1>3 DEF Lists, c
<1>6. /\ periods \in Seq(Periods) /\ Len(periods) = c
      /\ \A k \in 1..c : periods[k].num = nums[k]
  <2>1. \A k \in 1..c : nums[k] \in Nat /\ Len(data[nums[k]]) \in Nat
    BY <1>1, <1>5, TypedLemma
  <2>2. periods \in [1..c -> Periods]
    BY <1>3, <2>1 DEF Periods
  <2>3. \A k \in 1..c : periods[k].num = nums[k]
    BY <1>3
  <2> HIDE DEF periods
  <2> QED BY <1>3, <2>2, <2>3, SeqDef
<1> HIDE DEF periods
<1>7. CASE B = {}
  <2>1. r = [FreshRecorder EXCEPT !.seeded = TRUE]
    BY <1>4, <1>7
  <2>2. DOMAIN FreshRecorder = Fields
    BY FreshTyped
  <2>3. /\ r.seeded = TRUE /\ \A f \in Fields : f # "seeded" => r[f] = FreshRecorder[f]
        /\ r = [f \in Fields |-> r[f]]
    BY <2>1, <2>2 DEF Fields
  <2>4. /\ r.open = FALSE /\ r.index_file = FALSE /\ r.terminated = FALSE
        /\ r.write_offset = 0 /\ r.last_init = 0 /\ r.index = <<>>
        /\ r.period = 0 /\ r.periods = <<>>
    BY <2>3, FreshTyped DEF Fields
  <2>5. <<>> \in Seq(Periods) /\ Len(<<>>) = 0 /\ 1..0 = {}
    BY EmptySeq
  <2> HIDE DEF D
  <2>6. \A num \in B : num \notin D /\ FALSE
    BY <1>7
  <2>7. /\ \A num \in B : num < r.period
        /\ \A num \in D : \E k \in 1..Len(r.periods) : r.periods[k].num = num
    BY <1>2, <2>6
  <2>8. Len(r.periods) = 0 /\ 1..Len(r.periods) = {}
    BY <2>4, <2>5
  <2>9. /\ \A k \in 1..Len(r.periods) : r.periods[k].num < r.period
        /\ \A k, l \in 1..Len(r.periods) : k < l => r.periods[k].num < r.periods[l].num
    BY <2>8
  <2>10. r.period \in Nat /\ r.periods \in Seq(Periods)
    BY <2>4, <2>5
  <2> QED BY <2>3, <2>4, <2>7, <2>9, <2>10 DEF r, D, B
<1>8. CASE B # {}
  <2>1. r = [FreshRecorder EXCEPT !.seeded = TRUE, !.period = top + 1, !.periods = periods,
                                  !.total_bytes = SumBytes(periods)]
    BY <1>4, <1>8
  <2>2. DOMAIN FreshRecorder = Fields
    BY FreshTyped
  <2>3. /\ r.seeded = TRUE /\ r.period = top + 1 /\ r.periods = periods
        /\ \A f \in Fields : f \notin {"seeded", "period", "periods", "total_bytes"} =>
              r[f] = FreshRecorder[f]
        /\ r = [f \in Fields |-> r[f]]
    BY <2>1, <2>2 DEF Fields
  <2>4. /\ r.open = FALSE /\ r.index_file = FALSE /\ r.terminated = FALSE
        /\ r.write_offset = 0 /\ r.last_init = 0 /\ r.index = <<>>
    BY <2>3, FreshTyped DEF Fields
  <2>5. top \in B /\ top \in Nat /\ \A x \in B : x \in Nat /\ x <= top
    BY <1>1, <1>8, MaxOf DEF top
  <2>6. \A x \in B : x < r.period
    BY <2>3, <2>5
  <2>7. \A num \in D : \E k \in 1..Len(r.periods) : r.periods[k].num = num
    BY <1>5, <1>6, <2>3
  <2>8. \A k \in 1..Len(r.periods) : r.periods[k].num < r.period
    BY <1>2, <1>5, <1>6, <2>3, <2>6
  <2>9. \A k, l \in 1..Len(r.periods) : k < l => r.periods[k].num < r.periods[l].num
    BY <1>5, <1>6, <2>3
  <2>10. r.period \in Nat /\ r.periods \in Seq(Periods)
    BY <1>6, <2>3, <2>5
  <2> QED BY <2>3, <2>4, <2>6, <2>7, <2>8, <2>9, <2>10 DEF r, B
<1> QED BY <1>7, <1>8

LEMMA PollStep ==
    ASSUME ArchiveInv, Poll \/ PollAtPeriodEnd
    PROVE  ArchiveInv'
<1>1. Typed /\ ControlInv /\ KnownInv /\ ListedInv
  BY DEF ArchiveInv
<1>2. /\ pc.at = "idle" /\ rec' = Seeded
      /\ UNCHANGED <<disk, sync_failed, left_idx, left_data, reader, life, offset, cuts, init, cursor>>
  BY DEF Poll, PollAtPeriodEnd, PollUnchanged, trunkVars, leftVars
<1>3. /\ pc \in [at : Places, ret : {"idle", "drain", "write"}, with : Nat]
      /\ rec.last_init \in Nat /\ init \in Nat
  BY <1>1, BoundsAssumption DEF Typed, RecorderTyped
<1>4. \E g \in Nat : \/ pc' = [at |-> "roll", ret |-> "drain", with |-> g]
                     \/ pc' = [at |-> "drain", ret |-> "idle", with |-> 0]
  BY <1>3 DEF Poll, PollAtPeriodEnd, Roll, At
<1>5. /\ pc' \in [at : Places, ret : {"idle", "drain", "write"}, with : Nat]
      /\ pc'.at \in {"roll", "drain"} /\ ~TakenUp /\ ~TakenUp'
  BY <1>2, <1>4 DEF Places, TakenUp
<1>6. Reached' = Reached /\ Reached \in Int
  BY <1>1, <1>2, <1>5, TypedLemma DEF Reached
<1>7. CASE rec.seeded
  <2>1. rec' = rec
    BY <1>2, <1>7 DEF Seeded
  <2>2. Typed'
    BY <1>1, <1>2, <1>5, <2>1 DEF Typed, disk, RecorderTyped
  <2>3. ControlInv'
    BY <1>1, <1>2, <1>5, <1>7, <2>1 DEF ControlInv, disk
  <2> QED BY <1>2, <1>5, <1>6, <2>1, <2>2, <2>3, QuietLemma
<1>8. CASE ~rec.seeded
  <2>1. rec = FreshRecorder /\ rec' = Adopted(rec)
    BY <1>1, <1>2, <1>8 DEF KnownInv, Seeded
  <2>2. UNCHANGED <<data, idx, durable>>
    BY <1>2 DEF disk
  <2>3. /\ rec' = [f \in Fields |-> rec'[f]]
        /\ rec'.seeded = TRUE /\ rec'.open = FALSE /\ rec'.index_file = FALSE
        /\ rec'.terminated = FALSE
        /\ rec'.write_offset = 0 /\ rec'.last_init = 0 /\ rec'.index = <<>>
        /\ rec'.period \in Nat /\ rec'.periods \in Seq(Periods)
    BY <1>1, <2>1, AdoptedLemma
  <2>4. /\ \A num \in DOMAIN data \cup DOMAIN idx : num < rec'.period
        /\ \A num \in DOMAIN data :
              \E k \in 1..Len(rec'.periods) : rec'.periods[k].num = num
        /\ \A k \in 1..Len(rec'.periods) : rec'.periods[k].num < rec'.period
        /\ \A k, l \in 1..Len(rec'.periods) : k < l => rec'.periods[k].num < rec'.periods[l].num
    BY <1>1, <2>1, AdoptedLemma
  <2>5. RecorderTyped'
    <3>1. <<>> \in Seq(Entries) /\ 0 \in Nat
      BY EmptySeq
    <3> QED BY <2>3, <3>1, Zenon DEF RecorderTyped
  <2>6. Typed'
    BY <1>1, <1>2, <1>5, <2>2, <2>5 DEF Typed
  <2>7. ControlInv'
    BY <1>5, <2>3 DEF ControlInv
  <2>8. KnownInv'
    <3>1. \A num \in DOMAIN data \cup DOMAIN idx : num \in Nat
      BY <1>1 DEF Typed, Directory
    <3>2. rec'.period \notin DOMAIN idx
      BY <2>3, <2>4, <3>1
    <3>3. \A num \in DOMAIN data \cup DOMAIN idx : num <= rec'.period
      BY <2>3, <2>4, <3>1
    <3> QED BY <2>2, <2>3, <2>4, <3>2, <3>3 DEF KnownInv
  <2>9. DurableInv' /\ ListedInv' /\ ReaderInv'
    BY <1>2, <2>2 DEF ArchiveInv, DurableInv, ListedInv, Describes, ReaderInv
  <2>10. OpenInv'
    BY <2>3 DEF OpenInv
  <2>11. OrderInv'
    BY <1>6, <2>2, <2>3 DEF ArchiveInv, OrderInv, AscendInv, ReachInv, OpenOrderInv
  <2> QED BY <2>6, <2>7, <2>8, <2>9, <2>10, <2>11 DEF ArchiveInv
<1> QED BY <1>7, <1>8

-----------------------------------------------------------------------------
\* start_period.

\* The order of what is archived does not depend on a recorder that leaves its
\* index as it is, or has none.
LEMMA OrderKept ==
    ASSUME OrderInv, Typed, Typed', idx' = idx, Reached <= Reached',
           rec'.open => (rec.open /\ rec'.index = rec.index /\ rec'.period = rec.period)
                        \/ rec'.index = <<>>
    PROVE  OrderInv'
<1>1. /\ \A num \in DOMAIN idx : \A k \in 1..Len(idx[num].entries) :
            idx[num].entries[k].seq \in Nat
      /\ \A k \in 1..Len(rec.index) : rec.index[k].seq \in Nat
      /\ Reached \in Int
  BY TypedLemma
<1>2. Reached' \in Int
  <2>1. Len(cuts') \in Nat /\ cursor' \in 0..Len(cuts') /\ offset' \in Nat
    BY LenProperties DEF Typed
  <2> QED BY <2>1 DEF Reached
<1>3. ASSUME NEW x \in Nat, x <= Reached PROVE x <= Reached'
  BY <1>1, <1>2, <1>3
<1> HIDE DEF Reached
<1>4. AscendInv'
  BY DEF OrderInv, AscendInv
<1>5. ReachInv'
  BY <1>1, <1>3 DEF OrderInv, ReachInv
<1>6. OpenOrderInv'
  <2>1. CASE rec'.open /\ rec'.index # <<>>
    <3>1. rec.open /\ rec'.index = rec.index /\ rec'.period = rec.period
      BY <2>1
    <3> QED BY <1>1, <1>3, <3>1 DEF OrderInv, OpenOrderInv
  <2>2. CASE rec'.open /\ rec'.index = <<>>
    <3>1. 1..Len(rec'.index) = {}
      BY <2>2, EmptySeq
    <3> QED BY <3>1 DEF OpenOrderInv
  <2>3. CASE ~rec'.open
    BY <2>3 DEF OpenOrderInv
  <2> QED BY <2>1, <2>2, <2>3
<1> QED BY <1>4, <1>5, <1>6 DEF OrderInv

\* A recorder that has left its period.
LEMMA LeftLemma ==
    ASSUME ArchiveInv, rec.seeded
    PROVE  LET r == Left(rec)
           IN  /\ r = [f \in Fields |-> r[f]]
               /\ \A f \in Fields \ {"open", "period", "periods", "total_bytes"} : r[f] = rec[f]
               /\ r.open = FALSE /\ r.period \in Nat /\ r.periods \in Seq(Periods)
               /\ r.period \notin DOMAIN idx /\ rec.period <= r.period
               /\ \A num \in DOMAIN data \cup DOMAIN idx : num <= r.period
               /\ \A num \in DOMAIN data :
                     \/ num = r.period \/ num \in left_data
                     \/ \E k \in 1..Len(r.periods) : r.periods[k].num = num
               /\ \A k \in 1..Len(r.periods) : r.periods[k].num < r.period
               /\ \A k, l \in 1..Len(r.periods) : k < l => r.periods[k].num < r.periods[l].num
<1> DEFINE r == Left(rec)
           s == rec.periods
           n == Len(s)
           x == [num |-> rec.period, file_bytes |-> rec.write_offset]
<1>1. Typed /\ KnownInv
  BY DEF ArchiveInv
<1>2. /\ DOMAIN rec = Fields /\ rec.period \in Nat
      /\ s \in Seq(Periods) /\ n \in Nat /\ x \in Periods
      /\ \A k \in 1..n : s[k].num \in Nat
      /\ \A num \in DOMAIN data \cup DOMAIN idx : num \in Nat
  BY <1>1, TypedLemma DEF Typed, RecorderTyped, Periods
<1>3. /\ \A num \in DOMAIN data \cup DOMAIN idx : num <= rec.period
      /\ \A k \in 1..n : s[k].num < rec.period
      /\ \A k, l \in 1..n : k < l => s[k].num < s[l].num
      /\ \A num \in DOMAIN data :
            num = rec.period \/ num \in left_data \/ \E k \in 1..n : s[k].num = num
      /\ rec.index = <<>> => rec.period \notin DOMAIN idx
  BY <1>1 DEF KnownInv
<1>4. CASE rec.index # <<>> \/ rec.write_offset > 0
  <2> DEFINE t == Append(s, x)
  <2>1. r = [rec EXCEPT !.open = FALSE, !.period = rec.period + 1,
                        !.total_bytes = rec.total_bytes + rec.write_offset, !.periods = t]
    BY <1>2, <1>4 DEF Left, Fields
  <2> HIDE DEF r
  <2>2. /\ r = [f \in Fields |-> r[f]] /\ r.open = FALSE /\ r.period = rec.period + 1
        /\ r.periods = t
        /\ \A f \in Fields \ {"open", "period", "periods", "total_bytes"} : r[f] = rec[f]
    BY <1>2, <2>1 DEF Fields
  <2>3. /\ t \in Seq(Periods) /\ Len(t) = n + 1 /\ t[n + 1] = x
        /\ \A k \in 1..n : t[k] = s[k]
    <3> HIDE DEF x
    <3> QED BY <1>2, AppendProperties
  <2> HIDE DEF t
  <2>4. t[n + 1].num = rec.period
    BY <2>3
  <2>5. ASSUME NEW num \in DOMAIN data, num \notin left_data
        PROVE  \E k \in 1..Len(t) : t[k].num = num
    <3>1. CASE num = rec.period
      <4>1. n + 1 \in 1..Len(t)
        BY <1>2, <2>3
      <4> QED BY <2>4, <3>1, <4>1
    <3>2. CASE num # rec.period
      <4>1. PICK k \in 1..n : s[k].num = num
        BY <1>3, <2>5, <3>2
      <4>2. k \in 1..Len(t) /\ t[k].num = num
        BY <1>2, <2>3, <4>1
      <4> QED BY <4>2
    <3> QED BY <3>1, <3>2
  <2>6. ASSUME NEW k \in 1..Len(t) PROVE t[k].num < r.period /\ t[k].num \in Nat /\ (k \in 1..n \/ k = n + 1)
    <3>1. k \in 1..n \/ k = n + 1
      BY <1>2, <2>3
    <3> QED BY <1>2, <1>3, <2>2, <2>3, <2>4, <3>1, SMTT(30)
  <2>7. ASSUME NEW k \in 1..Len(t), NEW l \in 1..Len(t), k < l PROVE t[k].num < t[l].num
    <3>1. k \in 1..n
      BY <1>2, <2>3, <2>7
    <3> QED BY <1>3, <2>3, <2>4, <2>6, <2>7, <3>1
  <2>8. r.period \notin DOMAIN idx /\ rec.period <= r.period
    BY <1>2, <1>3, <2>2
  <2>9. /\ \A num \in DOMAIN data \cup DOMAIN idx : num <= r.period
        /\ \A num \in DOMAIN data : num \in left_data \/ \E k \in 1..Len(r.periods) : r.periods[k].num = num
        /\ \A k \in 1..Len(r.periods) : r.periods[k].num < r.period
        /\ \A k, l \in 1..Len(r.periods) : k < l => r.periods[k].num < r.periods[l].num
    BY <1>2, <1>3, <2>2, <2>5, <2>6, <2>7
  <2>10. r.period \in Nat /\ r.periods \in Seq(Periods)
    BY <1>2, <2>2, <2>3
  <2> QED BY <2>2, <2>8, <2>9, <2>10 DEF r
<1>5. CASE ~(rec.index # <<>> \/ rec.write_offset > 0)
  <2>1. r = [rec EXCEPT !.open = FALSE]
    BY <1>5 DEF Left
  <2> HIDE DEF r
  <2>2. /\ r = [f \in Fields |-> r[f]] /\ r.open = FALSE /\ r.period = rec.period
        /\ r.periods = s
        /\ \A f \in Fields \ {"open", "period", "periods", "total_bytes"} : r[f] = rec[f]
    BY <1>2, <2>1 DEF Fields
  <2>3. r.period \notin DOMAIN idx /\ r.period \in Nat /\ rec.period <= r.period
        /\ r.periods \in Seq(Periods)
    BY <1>2, <1>3, <1>5, <2>2
  <2>4. /\ \A num \in DOMAIN data \cup DOMAIN idx : num <= r.period
        /\ \A num \in DOMAIN data :
              num = r.period \/ num \in left_data \/ \E k \in 1..Len(r.periods) : r.periods[k].num = num
        /\ \A k \in 1..Len(r.periods) : r.periods[k].num < r.period
        /\ \A k, l \in 1..Len(r.periods) : k < l => r.periods[k].num < r.periods[l].num
    BY <1>3, <2>2
  <2> QED BY <2>2, <2>3, <2>4 DEF r
<1> QED BY <1>4, <1>5

\* Of the fields Left leaves alone.
LEMMA LeftFields ==
    ASSUME ArchiveInv, rec.seeded
    PROVE  LET r == Left(rec)
           IN  /\ r.seeded = rec.seeded /\ r.write_offset = rec.write_offset
               /\ r.index = rec.index /\ r.index_file = rec.index_file
               /\ r.last_init = rec.last_init /\ r.terminated = rec.terminated
BY LeftLemma DEF Fields

LEMMA OpenPeriodStep ==
    ASSUME ArchiveInv, OpenPeriod
    PROVE  ArchiveInv'
<1> DEFINE r == Left(rec)
           p == r.period
           exists == p \in DOMAIN data
<1>1. Typed /\ ControlInv /\ KnownInv /\ ListedInv /\ OrderInv /\ DurableInv /\ ReaderInv
  BY DEF ArchiveInv
<1>2. /\ pc.at = "roll" /\ rec.seeded
      /\ UNCHANGED <<idx, sync_failed, left_idx, left_data, reader, life, offset, cuts, init, cursor>>
  BY <1>1 DEF OpenPeriod, RecorderUnchanged, trunkVars, leftVars, ControlInv
<1>3. /\ r.open = FALSE /\ p \in Nat /\ r.periods \in Seq(Periods)
      /\ p \notin DOMAIN idx
      /\ \A num \in DOMAIN data \cup DOMAIN idx : num <= p
      /\ \A num \in DOMAIN data :
            num = p \/ num \in left_data \/ \E k \in 1..Len(r.periods) : r.periods[k].num = num
      /\ \A k \in 1..Len(r.periods) : r.periods[k].num < p
      /\ \A k, l \in 1..Len(r.periods) : k < l => r.periods[k].num < r.periods[l].num
      /\ r.seeded = TRUE
  <2>1. rec.seeded = TRUE
    BY <1>1, <1>2 DEF Typed, RecorderTyped
  <2> QED BY <1>2, <2>1, LeftLemma, LeftFields
<1>4. /\ rec.seeded \in BOOLEAN /\ rec.index_file \in BOOLEAN /\ rec.terminated \in BOOLEAN
      /\ rec.write_offset \in Nat /\ rec.last_init \in Nat /\ rec.index \in Seq(Entries)
  BY <1>1 DEF Typed, RecorderTyped
<1>5. \/ /\ data' = IF exists THEN data ELSE WithFile(data, p, <<>>)
         /\ durable' = IF exists THEN durable ELSE WithFile(durable, p, 0)
         /\ rec' = [r EXCEPT !.write_offset = IF exists THEN Len(data[p]) ELSE 0]
         /\ pc' = [pc EXCEPT !.at = "head"]
      \/ /\ rec' = r /\ pc' = [at |-> "idle", ret |-> "idle", with |-> 0]
         /\ UNCHANGED <<data, durable>>
  BY DEF OpenPeriod, At
<1> HIDE DEF r
<1>6. /\ rec' = [f \in Fields |-> rec'[f]]
      /\ rec'.write_offset \in Nat
      /\ \A f \in Fields : f # "write_offset" => rec'[f] = r[f]
  <2>1. DOMAIN r = Fields /\ r = [f \in Fields |-> r[f]]
    BY <1>2, LeftLemma DEF r
  <2>2. exists => Len(data[p]) \in Nat
    BY <1>1, TypedLemma
  <2>3. r.write_offset \in Nat
    BY <1>2, <1>4, LeftFields DEF r
  <2> QED BY <1>5, <2>1, <2>2, <2>3 DEF Fields
<1>7. /\ rec'.open = FALSE /\ rec'.period = p /\ rec'.periods = r.periods /\ rec'.seeded = TRUE
      /\ rec'.index = rec.index /\ rec'.index_file = rec.index_file
      /\ rec'.last_init = rec.last_init /\ rec'.terminated = rec.terminated
  BY <1>2, <1>3, <1>6, LeftFields DEF Fields, r
<1>8. RecorderTyped'
  BY <1>3, <1>4, <1>6, <1>7, Zenon DEF RecorderTyped
<1>9. /\ Directory(data', Seq(Pieces)) /\ durable' \in [DOMAIN data' -> Nat]
      /\ DOMAIN data \subseteq DOMAIN data' /\ DOMAIN data' \subseteq DOMAIN data \cup {p}
      /\ \A num \in DOMAIN data : data'[num] = data[num] /\ durable'[num] = durable[num]
      /\ \A num \in DOMAIN data' \ DOMAIN data : data'[num] = <<>> /\ durable'[num] = 0
  <2>1. CASE exists \/ UNCHANGED <<data, durable>>
    <3>1. data' = data /\ durable' = durable
      BY <1>5, <2>1
    <3> QED BY <1>1, <3>1 DEF Typed
  <2>2. CASE ~exists /\ ~UNCHANGED <<data, durable>>
    <3>1. data' = WithFile(data, p, <<>>) /\ durable' = WithFile(durable, p, 0)
      BY <1>5, <2>2
    <3>2. <<>> \in Seq(Pieces) /\ Directory(data, Seq(Pieces)) /\ durable \in [DOMAIN data -> Nat]
      BY <1>1, EmptySeq DEF Typed
    <3>3. /\ Directory(data', Seq(Pieces)) /\ DOMAIN data' = DOMAIN data \cup {p}
          /\ data'[p] = <<>> /\ \A num \in DOMAIN data : num # p => data'[num] = data[num]
      <4>1. Directory(WithFile(data, p, <<>>), Seq(Pieces))
        BY <1>3, <3>2, DirectoryKept
      <4>2. /\ DOMAIN data' = DOMAIN data \cup {p} /\ data'[p] = <<>>
            /\ \A num \in DOMAIN data : num # p => data'[num] = data[num]
        BY <3>1 DEF WithFile
      <4> QED BY <3>1, <4>1, <4>2
    <3>4. /\ DOMAIN durable' = DOMAIN data \cup {p} /\ durable'[p] = 0
          /\ \A num \in DOMAIN data : num # p => durable'[num] = durable[num]
          /\ durable' \in [DOMAIN data \cup {p} -> Nat]
      BY <3>1, <3>2 DEF WithFile
    <3>5. \A num \in DOMAIN data' \ DOMAIN data : num = p
      BY <3>3
    <3>6. \A num \in DOMAIN data : num # p
      BY <2>2
    <3> QED BY <3>3, <3>4, <3>5, <3>6
  <2> QED BY <2>1, <2>2
<1>10. /\ pc' \in [at : Places, ret : {"idle", "drain", "write"}, with : Nat]
       /\ \/ pc'.at = "head" /\ p \in DOMAIN data' /\ (TakenUp' <=> TakenUp)
          \/ pc'.at = "idle" /\ ~TakenUp'
  <2>1. pc \in [at : Places, ret : {"idle", "drain", "write"}, with : Nat]
    BY <1>1 DEF Typed
  <2>2. CASE pc' = [pc EXCEPT !.at = "head"] /\ p \in DOMAIN data'
    BY <1>2, <2>1, <2>2 DEF Places, TakenUp
  <2>3. CASE pc' = [at |-> "idle", ret |-> "idle", with |-> 0]
    BY <2>3 DEF Places, TakenUp
  <2>4. pc' = [pc EXCEPT !.at = "head"] => p \in DOMAIN data'
    <3> SUFFICES ASSUME pc' = [pc EXCEPT !.at = "head"] PROVE p \in DOMAIN data'
      OBVIOUS
    <3>1. pc'.at = "head"
      BY <2>1
    <3>2. data' = IF exists THEN data ELSE WithFile(data, p, <<>>)
      BY <1>5, <3>1
    <3> QED BY <3>2 DEF WithFile
  <2> QED BY <1>5, <2>2, <2>3, <2>4
<1>11. Typed'
  BY <1>1, <1>2, <1>8, <1>9, <1>10 DEF Typed
<1>12. ControlInv'
  BY <1>1, <1>2, <1>3, <1>7, <1>10 DEF ControlInv
<1>13. KnownInv'
  <2>1. \A num \in DOMAIN data' \cup DOMAIN idx : num <= p
    BY <1>3, <1>9
  <2>2. \A num \in DOMAIN data' :
           num = p \/ num \in left_data \/ \E k \in 1..Len(r.periods) : r.periods[k].num = num
    BY <1>3, <1>9
  <2> QED BY <1>2, <1>3, <1>7, <2>1, <2>2 DEF KnownInv
<1>14. DurableInv'
  <2>1. Len(<<>>) = 0
    BY EmptySeq
  <2> QED BY <1>1, <1>9, <2>1 DEF DurableInv
<1>15. ListedInv'
  <2>1. \A num \in DOMAIN idx : num \in DOMAIN data' => num \in DOMAIN data
    BY <1>3, <1>9
  <2> QED BY <1>1, <1>2, <1>9, <2>1 DEF ListedInv, Describes
<1>16. OpenInv'
  BY <1>7 DEF OpenInv
<1>17. ReaderInv'
  <2> SUFFICES ASSUME reader # NoReader
               PROVE  ReaderInv'
    BY <1>2 DEF ReaderInv
  <2>1. CASE \E num \in DOMAIN data : num > reader.num
    <3>1. PICK num \in DOMAIN data : num > reader.num
      BY <2>1
    <3>2. reader.num \in Nat /\ num \in Nat /\ num <= p
      BY <1>1, <1>3, TypedLemma DEF ReaderInv
    <3>3. reader.num # p
      BY <1>3, <3>1, <3>2
    <3>4. reader.num \in DOMAIN data' => reader.num \in DOMAIN data
      BY <1>9, <3>3
    <3> QED BY <1>1, <1>2, <1>9, <3>1, <3>4 DEF ReaderInv
  <2>2. CASE ~\E num \in DOMAIN data : num > reader.num
    BY <1>1, <1>2, <2>2 DEF ReaderInv
  <2> QED BY <2>1, <2>2
<1>18. OrderInv'
  <2>1. Reached <= Reached'
    <3>1. offset \in Nat /\ cursor \in Nat
      BY <1>1, TypedLemma DEF Typed
    <3> QED BY <1>2, <1>10, <3>1 DEF Reached
  <2> QED BY <1>1, <1>2, <1>7, <1>11, <2>1, OrderKept
<1> QED BY <1>11, <1>12, <1>13, <1>14, <1>15, <1>16, <1>17, <1>18 DEF ArchiveInv

-----------------------------------------------------------------------------
\* Appending to the open file.

\* Prefixes, element by element.
LEMMA PrefixLemma ==
    ASSUME NEW X, NEW s \in Seq(X), NEW t \in Seq(X)
    PROVE  IsPrefix(s, t) <=> Len(s) <= Len(t) /\ \A k \in 1..Len(s) : s[k] = t[k]
<1> DEFINE n == Len(s)
<1>1. n \in Nat /\ Len(t) \in Nat
  BY LenProperties
<1>2. ASSUME n <= Len(t)
      PROVE  SubSeq(s, 1, n) = SubSeq(t, 1, n) <=> \A k \in 1..n : s[k] = t[k]
  <2>1. /\ SubSeq(s, 1, n) = [k \in 1..n |-> s[k]]
        /\ SubSeq(t, 1, n) = [k \in 1..n |-> t[k]]
    <3>1. /\ SubSeq(s, 1, n) = [k \in 1..(n - 1 + 1) |-> s[k + 1 - 1]]
          /\ SubSeq(t, 1, n) = [k \in 1..(n - 1 + 1) |-> t[k + 1 - 1]]
      BY <1>1
    <3>2. n - 1 + 1 = n /\ \A k \in 1..n : k + 1 - 1 = k
      BY <1>1
    <3> QED BY <3>1, <3>2
  <2> HIDE DEF n
  <2> QED BY <2>1
<1> QED BY <1>1, <1>2 DEF IsPrefix

\* A piece more at the end of the recorder's file.
LEMMA AppendedFile ==
    ASSUME Typed, NEW p \in DOMAIN data, NEW x \in Pieces,
           data' = [data EXCEPT ![p] = Append(data[p], x)]
    PROVE  /\ Directory(data', Seq(Pieces)) /\ DOMAIN data' = DOMAIN data
           /\ \A num \in DOMAIN data : num # p => data'[num] = data[num]
           /\ Len(data'[p]) = Len(data[p]) + 1 /\ data'[p][Len(data[p]) + 1] = x
           /\ \A e \in Entries : e.off + 1 <= Len(data[p]) /\ PieceAt(data[p], e) =>
                 PieceAt(data'[p], e)
<1> DEFINE s == data[p]
           t == Append(s, x)
<1>1. Directory(data, Seq(Pieces)) /\ s \in Seq(Pieces) /\ Len(s) \in Nat
  BY TypedLemma DEF Typed
<1>2. t \in Seq(Pieces) /\ Len(t) = Len(s) + 1 /\ t[Len(s) + 1] = x
      /\ \A k \in 1..Len(s) : t[k] = s[k]
  BY <1>1, AppendProperties
<1> HIDE DEF t
<1>3. data' = [data EXCEPT ![p] = t]
  BY DEF t
<1>4. Directory(data', Seq(Pieces))
  <2>1. Directory([data EXCEPT ![p] = t], Seq(Pieces))
    BY <1>1, <1>2, DirectoryKept, Zenon
  <2> QED BY <1>3, <2>1
<1>5. DOMAIN data' = DOMAIN data /\ data'[p] = t /\ \A num \in DOMAIN data : num # p => data'[num] = data[num]
  BY <1>1, <1>3 DEF Directory
<1>6. ASSUME NEW e \in Entries, e.off + 1 <= Len(s), PieceAt(s, e) PROVE PieceAt(t, e)
  <2>1. e.off \in Nat
    BY DEF Entries
  <2>2. e.off + 1 \in 1..Len(s)
    BY <1>1, <1>6, <2>1
  <2> QED BY <1>2, <1>6, <2>2 DEF PieceAt
<1> QED BY <1>2, <1>4, <1>5, <1>6

\* It disturbs neither what is listed nor what a request is about to read.
LEMMA AppendedArchive ==
    ASSUME ArchiveInv, NEW x \in Pieces, rec.seeded, rec.period \in DOMAIN data,
           rec.open \/ rec.period \notin DOMAIN idx,
           data' = [data EXCEPT ![rec.period] = Append(data[rec.period], x)],
           durable' = durable
              \/ durable' = [durable EXCEPT ![rec.period] = Len(data'[rec.period])],
           sync_failed => sync_failed', UNCHANGED <<idx, reader, left_idx>>
    PROVE  /\ Directory(data', Seq(Pieces)) /\ durable' \in [DOMAIN data' -> Nat]
           /\ DOMAIN data' = DOMAIN data
           /\ \A num \in DOMAIN data : durable[num] <= durable'[num]
           /\ DurableInv' /\ ListedInv' /\ ReaderInv'
           /\ rec.open => \A k \in 1..Len(rec.index) :
                 /\ rec.index[k].off + 1 <= Len(data'[rec.period])
                 /\ PieceAt(data'[rec.period], rec.index[k])
                 /\ ~sync_failed' => rec.index[k].off < durable'[rec.period]
<1> DEFINE p == rec.period
<1>1. Typed /\ KnownInv /\ ListedInv /\ DurableInv /\ OpenInv /\ ReaderInv
  BY DEF ArchiveInv
<1>2. /\ Directory(data', Seq(Pieces)) /\ DOMAIN data' = DOMAIN data
      /\ \A num \in DOMAIN data : num # p => data'[num] = data[num]
      /\ Len(data'[p]) = Len(data[p]) + 1
      /\ \A e \in Entries : e.off + 1 <= Len(data[p]) /\ PieceAt(data[p], e) =>
            PieceAt(data'[p], e)
  BY <1>1, AppendedFile
<1>3. \A num \in DOMAIN data : num \in Nat /\ Len(data[num]) \in Nat /\ durable[num] \in Nat
  BY <1>1, TypedLemma
<1>4. \A num \in DOMAIN data :
         /\ durable'[num] \in Nat /\ durable[num] <= durable'[num]
         /\ durable'[num] <= Len(data'[num])
  <2> SUFFICES ASSUME NEW num \in DOMAIN data
               PROVE  /\ durable'[num] \in Nat /\ durable[num] <= durable'[num]
                      /\ durable'[num] <= Len(data'[num])
    OBVIOUS
  <2>1. durable \in [DOMAIN data -> Nat] /\ durable[num] <= Len(data[num])
    BY <1>1 DEF Typed, DurableInv
  <2>2. Len(data'[num]) \in Nat /\ Len(data[num]) <= Len(data'[num])
    BY <1>2, <1>3
  <2>3. durable'[num] = durable[num] \/ durable'[num] = Len(data'[num])
    <3>1. CASE durable' = durable
      BY <3>1
    <3>2. CASE durable' = [durable EXCEPT ![p] = Len(data'[p])]
      BY <2>1, <3>2
    <3> QED BY <3>1, <3>2
  <2> QED BY <1>3, <2>1, <2>2, <2>3
<1>5. durable' \in [DOMAIN data' -> Nat]
  <2>1. durable \in [DOMAIN data -> Nat]
    BY <1>1 DEF Typed
  <2>2. Len(data'[p]) \in Nat
    BY <1>2, <1>3
  <2> QED BY <1>2, <2>1, <2>2
<1>6. DurableInv'
  BY <1>2, <1>4 DEF DurableInv
<1>7. ASSUME NEW num \in DOMAIN idx, num \in DOMAIN data, NEW k \in 1..Len(idx[num].entries)
      PROVE  PieceAt(data'[num], idx[num].entries[k])
  <2>1. PieceAt(data[num], idx[num].entries[k])
    BY <1>1, <1>7 DEF ListedInv, Describes
  <2>2. CASE num # p
    BY <1>2, <2>1, <2>2
  <2>3. CASE num = p
    <3> DEFINE e == idx[num].entries[k]
    <3>1. rec.open /\ IsPrefix(idx[p].entries, rec.index)
      BY <1>1, <2>3 DEF OpenInv
    <3>2. idx[p].entries \in Seq(Entries) /\ rec.index \in Seq(Entries) /\ e \in Entries
      BY <1>1, <2>3, TypedLemma DEF Typed, RecorderTyped
    <3>3. Len(idx[p].entries) <= Len(rec.index) /\ e = rec.index[k]
      BY <2>3, <3>1, <3>2, PrefixLemma
    <3>4. k \in 1..Len(rec.index)
      <4>1. Len(idx[p].entries) \in Nat /\ Len(rec.index) \in Nat
        BY <3>2, LenProperties
      <4> QED BY <2>3, <3>3, <4>1
    <3>5. e.off + 1 <= Len(data[p])
      BY <1>1, <3>1, <3>3, <3>4 DEF OpenInv
    <3> HIDE DEF e
    <3>6. PieceAt(data[p], e)
      BY <2>1, <2>3 DEF e
    <3>7. PieceAt(data'[p], e)
      BY <1>2, <3>2, <3>5, <3>6
    <3> QED BY <2>3, <3>7 DEF e
  <2> QED BY <2>2, <2>3
<1>8. ListedInv'
  <2>1. ASSUME NEW num \in DOMAIN idx, num \in DOMAIN data,
               NEW k \in 1..Len(idx[num].entries), ~sync_failed'
        PROVE  idx[num].entries[k].off < durable'[num]
    <3>1. idx[num].entries[k].off < durable[num]
      BY <1>1, <2>1 DEF ListedInv, Describes
    <3>2. idx[num].entries[k].off \in Nat
      BY <1>1, TypedLemma
    <3> QED BY <1>3, <1>4, <2>1, <3>1, <3>2
  <2>2. ASSUME NEW num \in DOMAIN idx, num \in DOMAIN data
        PROVE  Describes(idx[num], data[num], durable[num])'
    BY <1>7, <2>1, <2>2 DEF Describes
  <2>3. \A num \in DOMAIN idx : num \in DOMAIN data \cup left_idx
    BY <1>1 DEF ListedInv
  <2> QED BY <1>2, <2>2, <2>3 DEF ListedInv
<1>9. ReaderInv'
  <2> SUFFICES ASSUME reader # NoReader PROVE ReaderInv'
    BY DEF ReaderInv
  <2>1. CASE \E num \in DOMAIN data : num > reader.num
    <3>1. PICK num \in DOMAIN data : num > reader.num
      BY <2>1
    <3>2. reader.num \in Nat /\ num \in Nat /\ num <= p
      BY <1>1, <1>3 DEF ReaderInv, KnownInv
    <3>3. reader.num # p
      BY <3>1, <3>2
    <3>4. reader.num \in DOMAIN data' => data'[reader.num] = data[reader.num]
      BY <1>2, <3>3
    <3> QED BY <1>1, <1>2, <3>1, <3>4 DEF ReaderInv
  <2>2. CASE ~\E num \in DOMAIN data : num > reader.num
    BY <1>1, <2>2 DEF ReaderInv
  <2> QED BY <2>1, <2>2
<1>10. ASSUME rec.open, NEW k \in 1..Len(rec.index)
       PROVE  /\ rec.index[k].off + 1 <= Len(data'[p])
              /\ PieceAt(data'[p], rec.index[k])
              /\ ~sync_failed' => rec.index[k].off < durable'[p]
  <2>1. /\ rec.index[k].off + 1 <= Len(data[p]) /\ PieceAt(data[p], rec.index[k])
        /\ ~sync_failed => rec.index[k].off < durable[p]
    BY <1>1, <1>10 DEF OpenInv
  <2>2. rec.index[k] \in Entries /\ rec.index[k].off \in Nat
    BY <1>1, TypedLemma
  <2>3. PieceAt(data'[p], rec.index[k])
    BY <1>2, <2>1, <2>2
  <2> QED BY <1>2, <1>3, <1>4, <2>1, <2>2, <2>3, SMTT(30)
<1> QED BY <1>2, <1>4, <1>5, <1>6, <1>8, <1>9, <1>10

LEMMA WriteHeadStep ==
    ASSUME ArchiveInv, WriteHead
    PROVE  ArchiveInv'
<1> DEFINE p == rec.period
<1>1. Typed /\ ControlInv /\ KnownInv /\ ListedInv /\ OrderInv /\ DurableInv /\ ReaderInv
  BY DEF ArchiveInv
<1>2. /\ pc.at = "head" /\ rec.seeded /\ p \in DOMAIN data /\ p \notin DOMAIN idx
      /\ rec.open = FALSE
      /\ UNCHANGED <<idx, durable, sync_failed, left_idx, left_data, reader, life, offset, cuts, init, cursor>>
  <2>1. rec.open \in BOOLEAN
    BY <1>1 DEF Typed, RecorderTyped
  <2> QED BY <1>1, <2>1 DEF WriteHead, RecorderUnchanged, trunkVars, leftVars, ControlInv
<1>3. /\ pc \in [at : Places, ret : {"idle", "drain", "write"}, with : Nat]
      /\ DOMAIN rec = Fields /\ rec.write_offset \in Nat /\ rec.last_init \in Nat
      /\ rec.period \in Nat
  BY <1>1, TypedLemma DEF Typed, RecorderTyped
<1>4. /\ Torn \in Pieces /\ InitPiece(pc.with) \in Pieces
  BY <1>3 DEF Torn, InitPiece, Pieces
<1>5. \/ /\ data' = [data EXCEPT ![p] = Append(data[p], InitPiece(pc.with))]
         /\ rec' = Opened([rec EXCEPT !.write_offset = 1, !.last_init = pc.with])
         /\ pc' = [at |-> pc.ret, ret |-> "idle", with |-> 0]
      \/ data' = data /\ rec' = Opened(rec) /\ pc' = [at |-> pc.ret, ret |-> "idle", with |-> 0]
      \/ /\ data' = [data EXCEPT ![p] = Append(data[p], Torn)] /\ rec' = rec
         /\ pc' = [at |-> "idle", ret |-> "idle", with |-> 0]
  BY <1>2 DEF WriteHead, At
<1>6. /\ Directory(data', Seq(Pieces)) /\ durable' \in [DOMAIN data' -> Nat]
      /\ DOMAIN data' = DOMAIN data
      /\ DurableInv' /\ ListedInv' /\ ReaderInv'
  <2>1. CASE data' = data
    <3>1. /\ durable' = durable /\ idx' = idx /\ reader' = reader /\ sync_failed' = sync_failed
          /\ left_idx' = left_idx
      BY <1>2
    <3>2. DurableInv' /\ ListedInv' /\ ReaderInv'
      BY <1>1, <2>1, <3>1 DEF DurableInv, ListedInv, Describes, ReaderInv
    <3> QED BY <1>1, <2>1, <3>1, <3>2 DEF Typed
  <2>2. ASSUME NEW x \in Pieces, data' = [data EXCEPT ![p] = Append(data[p], x)]
        PROVE  /\ Directory(data', Seq(Pieces)) /\ durable' \in [DOMAIN data' -> Nat]
               /\ DOMAIN data' = DOMAIN data
               /\ DurableInv' /\ ListedInv' /\ ReaderInv'
    <3>1. DOMAIN data' = DOMAIN data
      BY <1>1, <2>2 DEF Typed, Directory
    <3> QED BY <1>2, <2>2, <3>1, AppendedArchive
  <2> QED BY <1>4, <1>5, <2>1, <2>2
<1>7. offset \in Nat /\ cursor \in Nat
  BY <1>1, TypedLemma DEF Typed
<1>8. CASE rec' = rec /\ pc' = [at |-> "idle", ret |-> "idle", with |-> 0]
  <2>1. pc' \in [at : Places, ret : {"idle", "drain", "write"}, with : Nat] /\ pc'.at = "idle"
    BY <1>8 DEF Places
  <2>2. Typed'
    BY <1>1, <1>2, <1>6, <1>8, <2>1 DEF Typed, RecorderTyped
  <2>3. ControlInv' /\ ~TakenUp'
    BY <1>2, <1>8, <2>1 DEF ControlInv, TakenUp
  <2>4. KnownInv'
    BY <1>1, <1>2, <1>6, <1>8 DEF KnownInv
  <2>5. OpenInv'
    BY <1>2, <1>8 DEF OpenInv
  <2>6. Reached <= Reached'
    BY <1>2, <1>7, <2>3 DEF Reached
  <2>7. OrderInv'
    BY <1>1, <1>2, <1>8, <2>2, <2>6, OrderKept
  <2> QED BY <1>6, <2>2, <2>3, <2>4, <2>5, <2>7 DEF ArchiveInv
<1>9. CASE /\ rec' = Opened(rec) \/ rec' = Opened([rec EXCEPT !.write_offset = 1, !.last_init = pc.with])
           /\ pc' = [at |-> pc.ret, ret |-> "idle", with |-> 0]
  <2>1. /\ pc' \in [at : Places, ret : {"idle", "drain", "write"}, with : Nat]
        /\ pc'.at = pc.ret /\ pc'.at \in {"idle", "drain", "write"}
    BY <1>3, <1>9 DEF Places
  <2>2. TakenUp' <=> TakenUp
    BY <1>2, <2>1 DEF TakenUp
  <2>3. /\ rec' = [f \in Fields |-> rec'[f]]
        /\ rec'.open = TRUE /\ rec'.index = <<>> /\ rec'.index_file = FALSE
        /\ rec'.seeded = rec.seeded /\ rec'.period = rec.period /\ rec'.periods = rec.periods
        /\ rec'.terminated = rec.terminated
        /\ rec'.write_offset \in Nat /\ rec'.last_init \in Nat
    <3>1. CASE rec' = Opened(rec)
      BY <1>3, <3>1 DEF Opened, Fields
    <3>2. CASE rec' = Opened([rec EXCEPT !.write_offset = 1, !.last_init = pc.with])
      BY <1>3, <3>2 DEF Opened, Fields
    <3> QED BY <1>9, <3>1, <3>2
  <2>4. RecorderTyped'
    <3>1. <<>> \in Seq(Entries)
      BY EmptySeq
    <3>2. /\ rec.seeded \in BOOLEAN /\ rec.terminated \in BOOLEAN /\ rec.periods \in Seq(Periods)
          /\ rec.period \in Nat
      BY <1>1 DEF Typed, RecorderTyped
    <3> QED BY <2>3, <3>1, <3>2, Zenon DEF RecorderTyped
  <2>5. Typed'
    BY <1>1, <1>2, <1>6, <2>1, <2>4 DEF Typed
  <2>6. ControlInv'
    <3>1. TakenUp => cursor > 0
      BY <1>1 DEF ControlInv
    <3> QED BY <1>2, <1>6, <2>1, <2>2, <2>3, <3>1 DEF ControlInv
  <2>7. KnownInv'
    BY <1>1, <1>2, <1>6, <2>3 DEF KnownInv
  <2>8. OpenInv'
    <3>1. 1..Len(rec'.index) = {}
      BY <2>3, EmptySeq
    <3> QED BY <1>2, <2>1, <2>3, <3>1 DEF OpenInv
  <2>9. Reached <= Reached'
    BY <1>2, <1>7, <2>2 DEF Reached
  <2>10. OrderInv'
    BY <1>1, <1>2, <2>3, <2>5, <2>9, OrderKept
  <2> QED BY <1>6, <2>5, <2>6, <2>7, <2>8, <2>10 DEF ArchiveInv
<1> QED BY <1>5, <1>8, <1>9

-----------------------------------------------------------------------------
\* Draining the cursor, and the write of a segment.

LEMMA TakeTerminatedStep ==
    ASSUME ArchiveInv, TakeTerminated
    PROVE  ArchiveInv'
<1>1. Typed /\ ControlInv /\ KnownInv /\ ListedInv /\ OrderInv /\ DurableInv /\ ReaderInv /\ OpenInv
  BY DEF ArchiveInv
<1>2. /\ pc.at = "drain" /\ pc' = pc /\ cursor' = Len(cuts) /\ cursor < Len(cuts)
      /\ UNCHANGED <<data, idx, durable, sync_failed, left_idx, left_data, reader, life, offset, cuts, init>>
      /\ rec' = rec \/ rec' = [rec EXCEPT !.terminated = TRUE, !.open = FALSE]
  BY DEF TakeTerminated, RecorderUnchanged, trunkVars, leftVars, disk, closed
<1>3. /\ pc' \in [at : Places, ret : {"idle", "drain", "write"}, with : Nat]
      /\ DOMAIN rec = Fields /\ Len(cuts) \in Nat /\ cursor \in 0..Len(cuts) /\ offset \in Nat
  BY <1>1, <1>2, TypedLemma DEF Typed
<1>4. ~TakenUp /\ ~TakenUp' /\ Reached <= Reached' /\ cursor' \in 0..Len(cuts')
  <2>1. ~TakenUp /\ ~TakenUp'
    BY <1>2 DEF TakenUp
  <2> QED BY <1>2, <1>3, <2>1 DEF Reached
<1>5. CASE rec' = rec
  <2>1. Typed'
    BY <1>1, <1>2, <1>3, <1>4, <1>5 DEF Typed, RecorderTyped
  <2>2. ControlInv'
    BY <1>1, <1>2, <1>4, <1>5 DEF ControlInv
  <2> QED BY <1>2, <1>4, <1>5, <2>1, <2>2, QuietLemma DEF disk
<1>6. CASE rec' = [rec EXCEPT !.terminated = TRUE, !.open = FALSE]
  <2>1. /\ rec' = [f \in Fields |-> rec'[f]] /\ rec'.open = FALSE /\ rec'.terminated = TRUE
        /\ rec'.seeded = rec.seeded /\ rec'.period = rec.period /\ rec'.periods = rec.periods
        /\ rec'.index = rec.index /\ rec'.index_file = rec.index_file
        /\ rec'.write_offset = rec.write_offset /\ rec'.last_init = rec.last_init
    BY <1>3, <1>6 DEF Fields
  <2>2. RecorderTyped'
    <3>1. /\ rec.seeded \in BOOLEAN /\ rec.period \in Nat /\ rec.periods \in Seq(Periods)
          /\ rec.write_offset \in Nat /\ rec.index \in Seq(Entries)
          /\ rec.index_file \in BOOLEAN /\ rec.last_init \in Nat
      BY <1>1 DEF Typed, RecorderTyped
    <3> QED BY <2>1, <3>1, Zenon DEF RecorderTyped
  <2>3. Typed'
    BY <1>1, <1>2, <1>3, <1>4, <2>2 DEF Typed
  <2>4. ControlInv' /\ rec.seeded
    BY <1>1, <1>2, <1>4, <2>1 DEF ControlInv
  <2>5. KnownInv'
    BY <1>1, <1>2, <2>1, <2>4 DEF KnownInv
  <2>6. OpenInv'
    BY <2>1 DEF OpenInv
  <2>7. DurableInv' /\ ListedInv' /\ ReaderInv'
    BY <1>1, <1>2 DEF DurableInv, ListedInv, Describes, ReaderInv
  <2>8. OrderInv'
    BY <1>1, <1>2, <1>4, <2>1, <2>3, OrderKept
  <2> QED BY <2>3, <2>4, <2>5, <2>6, <2>7, <2>8 DEF ArchiveInv
<1> QED BY <1>2, <1>5, <1>6

LEMMA WriteFailsStep ==
    ASSUME ArchiveInv, WriteFails
    PROVE  ArchiveInv'
<1> DEFINE p == rec.period
<1>1. Typed /\ ControlInv /\ KnownInv /\ ListedInv /\ OrderInv /\ DurableInv /\ ReaderInv /\ OpenInv
  BY DEF ArchiveInv
<1>2. /\ pc.at = "write" /\ pc' = [at |-> "idle", ret |-> "idle", with |-> 0]
      /\ data' = data \/ data' = [data EXCEPT ![p] = Append(data[p], Torn)]
      /\ rec' = [rec EXCEPT !.write_offset = Len(data[p])]
      /\ UNCHANGED <<idx, durable, sync_failed, left_idx, left_data, reader, life, offset, cuts, init, cursor>>
  BY DEF WriteFails, RecorderUnchanged, trunkVars, leftVars, At, byte_offset
<1>3. rec.open /\ rec.seeded /\ p \in DOMAIN data
  BY <1>1, <1>2 DEF ControlInv
<1>4. /\ pc' \in [at : Places, ret : {"idle", "drain", "write"}, with : Nat] /\ pc'.at = "idle"
      /\ DOMAIN rec = Fields /\ Len(cuts) \in Nat /\ cursor \in 0..Len(cuts) /\ offset \in Nat
      /\ Len(data[p]) \in Nat /\ Torn \in Pieces
  <2>1. Torn \in Pieces /\ pc' \in [at : Places, ret : {"idle", "drain", "write"}, with : Nat]
        /\ pc'.at = "idle"
    BY <1>2 DEF Torn, Pieces, Places
  <2> QED BY <1>1, <1>3, <2>1, TypedLemma DEF Typed
<1>5. /\ Directory(data', Seq(Pieces)) /\ durable' \in [DOMAIN data' -> Nat]
      /\ DOMAIN data' = DOMAIN data
      /\ DurableInv' /\ ListedInv' /\ ReaderInv'
      /\ \A k \in 1..Len(rec.index) :
            /\ rec.index[k].off + 1 <= Len(data'[p])
            /\ PieceAt(data'[p], rec.index[k])
            /\ ~sync_failed' => rec.index[k].off < durable'[p]
  <2>1. CASE data' = data
    <3>1. /\ durable' = durable /\ idx' = idx /\ reader' = reader /\ sync_failed' = sync_failed
          /\ left_idx' = left_idx
      BY <1>2
    <3>2. DurableInv' /\ ListedInv' /\ ReaderInv'
      BY <1>1, <2>1, <3>1 DEF DurableInv, ListedInv, Describes, ReaderInv
    <3>3. \A k \in 1..Len(rec.index) :
            /\ rec.index[k].off + 1 <= Len(data'[p])
            /\ PieceAt(data'[p], rec.index[k])
            /\ ~sync_failed' => rec.index[k].off < durable'[p]
      BY <1>1, <1>3, <2>1, <3>1 DEF OpenInv
    <3> QED BY <1>1, <2>1, <3>1, <3>2, <3>3 DEF Typed
  <2>2. CASE data' = [data EXCEPT ![p] = Append(data[p], Torn)]
    BY <1>2, <1>3, <1>4, <2>2, AppendedArchive
  <2> QED BY <1>2, <2>1, <2>2
<1>6. /\ rec' = [f \in Fields |-> rec'[f]] /\ rec'.open = rec.open
      /\ rec'.terminated = rec.terminated
      /\ rec'.seeded = rec.seeded /\ rec'.period = rec.period /\ rec'.periods = rec.periods
      /\ rec'.index = rec.index /\ rec'.index_file = rec.index_file
      /\ rec'.write_offset = Len(data[p]) /\ rec'.last_init = rec.last_init
  BY <1>2, <1>4 DEF Fields
<1>7. RecorderTyped'
  <2>1. /\ rec.seeded \in BOOLEAN /\ rec.period \in Nat /\ rec.periods \in Seq(Periods)
        /\ rec.open \in BOOLEAN /\ rec.index \in Seq(Entries) /\ rec.terminated \in BOOLEAN
        /\ rec.index_file \in BOOLEAN /\ rec.last_init \in Nat
    BY <1>1 DEF Typed, RecorderTyped
  <2>2. rec'.write_offset \in Nat
    BY <1>4, <1>6
  <2> QED BY <1>6, <2>1, <2>2, Zenon DEF RecorderTyped
<1>8. Typed'
  BY <1>1, <1>2, <1>4, <1>5, <1>7 DEF Typed
<1>9. ControlInv' /\ ~TakenUp'
  BY <1>3, <1>4, <1>5, <1>6 DEF ControlInv, TakenUp
<1>10. KnownInv'
  BY <1>1, <1>2, <1>3, <1>5, <1>6 DEF KnownInv
<1>11. OpenInv'
  BY <1>1, <1>2, <1>3, <1>4, <1>5, <1>6 DEF OpenInv
<1>12. Reached <= Reached'
  BY <1>2, <1>4, <1>9 DEF Reached
<1>13. OrderInv'
  BY <1>1, <1>2, <1>3, <1>6, <1>8, <1>12, OrderKept
<1> QED BY <1>5, <1>8, <1>9, <1>10, <1>11, <1>13 DEF ArchiveInv

LEMMA WriteSegmentStep ==
    ASSUME ArchiveInv, WriteSegment
    PROVE  ArchiveInv'
<1> DEFINE p == rec.period
           e == [seq |-> offset + cursor, off |-> Len(data[p]), life |-> life]
           s == rec.index
           t == Append(s, e)
           n == Len(s)
<1>1. Typed /\ ControlInv /\ KnownInv /\ ListedInv /\ OrderInv /\ DurableInv /\ ReaderInv /\ OpenInv
  BY DEF ArchiveInv
<1>2. /\ pc.at = "write" /\ pc' = [at |-> "index", ret |-> "idle", with |-> 0]
      /\ data' = [data EXCEPT ![p] = Append(data[p], Segment)]
      /\ \/ durable' = [durable EXCEPT ![p] = Len(data'[p])] /\ sync_failed' = sync_failed
         \/ durable' = durable /\ sync_failed' = TRUE
      /\ rec' = [rec EXCEPT !.write_offset = Len(data[p]) + 1, !.index = Append(rec.index, e),
                            !.last_appended = cursor]
      /\ UNCHANGED <<idx, left_idx, left_data, reader, life, offset, cuts, init, cursor>>
  <2>1. DOMAIN rec = Fields
    BY <1>1, TypedLemma
  <2> QED BY <2>1 DEF WriteSegment, trunkVars, leftVars, At, byte_offset, Fields
<1>3. rec.open /\ rec.seeded /\ p \in DOMAIN data /\ TakenUp /\ cursor > 0
  BY <1>1, <1>2 DEF ControlInv, TakenUp
<1>4. /\ pc' \in [at : Places, ret : {"idle", "drain", "write"}, with : Nat] /\ pc'.at = "index"
  BY <1>2 DEF Places
<1>5. /\ DOMAIN rec = Fields /\ Len(cuts) \in Nat /\ cursor \in 1..Len(cuts) /\ offset \in Nat
      /\ Len(data[p]) \in Nat /\ life \in Nat /\ cuts[cursor] \in Nat
      /\ s \in Seq(Entries) /\ n \in Nat /\ \A k \in 1..n : s[k] \in Entries /\ s[k].seq \in Nat
  <2>1. /\ DOMAIN rec = Fields /\ Len(cuts) \in Nat /\ cursor \in 0..Len(cuts) /\ offset \in Nat
        /\ Len(data[p]) \in Nat /\ life \in Nat /\ cuts \in Seq(Nat)
        /\ s \in Seq(Entries) /\ n \in Nat /\ \A k \in 1..n : s[k] \in Entries /\ s[k].seq \in Nat
    BY <1>1, <1>3, TypedLemma DEF Typed, RecorderTyped
  <2>2. cursor \in 1..Len(cuts)
    BY <1>3, <2>1
  <2>3. cuts[cursor] \in Nat
    BY <2>1, <2>2, ElementOfSeq
  <2> QED BY <2>1, <2>2, <2>3
<1>6. Segment \in Pieces /\ e \in Entries
  BY <1>5 DEF Segment, MediaPiece, Pieces, Entries
<1>7. /\ Directory(data', Seq(Pieces)) /\ durable' \in [DOMAIN data' -> Nat]
      /\ DOMAIN data' = DOMAIN data
      /\ DurableInv' /\ ListedInv' /\ ReaderInv'
      /\ \A k \in 1..n :
            /\ s[k].off + 1 <= Len(data'[p])
            /\ PieceAt(data'[p], s[k])
            /\ ~sync_failed' => s[k].off < durable'[p]
  <2> DEFINE x == Segment
  <2>1. x \in Pieces /\ data' = [data EXCEPT ![rec.period] = Append(data[rec.period], x)]
    BY <1>2, <1>6
  <2> HIDE DEF x
  <2>2. /\ durable' = durable \/ durable' = [durable EXCEPT ![rec.period] = Len(data'[rec.period])]
        /\ (sync_failed => sync_failed') /\ UNCHANGED <<idx, reader, left_idx>>
    BY <1>2
  <2>3. rec.seeded /\ rec.period \in DOMAIN data /\ rec.open
    BY <1>3
  <2> HIDE DEF p, s, n
  <2>4. /\ Directory(data', Seq(Pieces)) /\ durable' \in [DOMAIN data' -> Nat]
        /\ DOMAIN data' = DOMAIN data
        /\ DurableInv' /\ ListedInv' /\ ReaderInv'
        /\ \A k \in 1..Len(rec.index) :
              /\ rec.index[k].off + 1 <= Len(data'[rec.period])
              /\ PieceAt(data'[rec.period], rec.index[k])
              /\ ~sync_failed' => rec.index[k].off < durable'[rec.period]
    BY <2>1, <2>2, <2>3, AppendedArchive
  <2> QED BY <2>4 DEF p, s, n
<1>8. Len(data'[p]) = Len(data[p]) + 1 /\ data'[p][Len(data[p]) + 1] = Segment
  BY <1>1, <1>2, <1>3, <1>6, AppendedFile
<1>9. /\ e.off + 1 <= Len(data'[p]) /\ PieceAt(data'[p], e)
      /\ ~sync_failed' => e.off < durable'[p]
  <2>1. e.off = Len(data[p]) /\ e.seq = offset + cursor /\ e.life = life
    OBVIOUS
  <2>2. Segment.kind = "media" /\ Segment.life = life /\ Segment.seq = offset + cursor
    BY DEF Segment, MediaPiece
  <2> HIDE DEF e
  <2>3. PieceAt(data'[p], e)
    BY <1>8, <2>1, <2>2 DEF PieceAt
  <2>4. ASSUME ~sync_failed' PROVE e.off < durable'[p]
    <3>1. durable' = [durable EXCEPT ![p] = Len(data'[p])]
      BY <1>2, <2>4
    <3>2. durable'[p] = Len(data'[p])
      BY <1>1, <1>3, <3>1 DEF Typed
    <3> QED BY <1>5, <1>8, <2>1, <3>2
  <2> QED BY <1>5, <1>8, <2>1, <2>3, <2>4
<1>10. e.seq = offset + cursor
  OBVIOUS
<1> HIDE DEF e
<1>11. /\ t \in Seq(Entries) /\ Len(t) = n + 1 /\ t[n + 1] = e /\ t # <<>>
       /\ \A k \in 1..n : t[k] = s[k]
  <2>1. /\ t \in Seq(Entries) /\ Len(t) = n + 1 /\ t[n + 1] = e
        /\ \A k \in 1..n : t[k] = s[k]
    BY <1>5, <1>6, AppendProperties
  <2>2. t # <<>>
    <3> HIDE DEF t
    <3>1. Len(<<>>) = 0
      BY EmptySeq
    <3> QED BY <1>5, <2>1, <3>1
  <2> QED BY <2>1, <2>2
<1>12. /\ rec' = [f \in Fields |-> rec'[f]] /\ rec'.open = rec.open
       /\ rec'.terminated = rec.terminated
       /\ rec'.seeded = rec.seeded /\ rec'.period = rec.period /\ rec'.periods = rec.periods
       /\ rec'.index = t /\ rec'.index_file = rec.index_file
       /\ rec'.write_offset = Len(data[p]) + 1 /\ rec'.last_init = rec.last_init
  BY <1>2, <1>5 DEF Fields
<1> HIDE DEF t
<1>13. RecorderTyped'
  <2>1. /\ rec.seeded \in BOOLEAN /\ rec.period \in Nat /\ rec.periods \in Seq(Periods)
        /\ rec.open \in BOOLEAN /\ rec.terminated \in BOOLEAN
        /\ rec.index_file \in BOOLEAN /\ rec.last_init \in Nat
    BY <1>1 DEF Typed, RecorderTyped
  <2>2. rec'.write_offset \in Nat
    BY <1>5, <1>12
  <2> QED BY <1>11, <1>12, <2>1, <2>2, Zenon DEF RecorderTyped
<1>14. Typed'
  <2>1. sync_failed' \in BOOLEAN /\ cursor' \in 0..Len(cuts')
    BY <1>1, <1>2 DEF Typed
  <2> QED BY <1>1, <1>2, <1>4, <1>7, <1>13, <2>1 DEF Typed
<1>15. ControlInv' /\ ~TakenUp'
  BY <1>3, <1>4, <1>7, <1>12, SMTT(30) DEF ControlInv, TakenUp
<1>16. KnownInv'
  BY <1>1, <1>2, <1>3, <1>7, <1>11, <1>12, SMTT(30) DEF KnownInv
<1>17. ASSUME NEW k \in 1..Len(t) PROVE k \in 1..n \/ k = n + 1
  BY <1>5, <1>11
<1>18. OpenInv'
  <2>1. ASSUME NEW k \in 1..Len(t)
        PROVE  /\ t[k].off + 1 <= Len(data'[p]) /\ PieceAt(data'[p], t[k])
               /\ ~sync_failed' => t[k].off < durable'[p]
    BY <1>7, <1>9, <1>11, <1>17
  <2>2. ASSUME p \in DOMAIN idx PROVE IsPrefix(idx[p].entries, t)
    <3>1. idx[p].entries \in Seq(Entries) /\ Len(idx[p].entries) \in Nat
      BY <1>1, <2>2, TypedLemma
    <3>2. IsPrefix(idx[p].entries, s)
      BY <1>1, <1>3, <2>2 DEF OpenInv
    <3>3. Len(idx[p].entries) <= n /\ \A k \in 1..Len(idx[p].entries) : idx[p].entries[k] = s[k]
      BY <1>5, <3>1, <3>2, PrefixLemma
    <3>4. n \in Nat /\ Len(t) = n + 1 /\ \A k \in 1..n : t[k] = s[k]
      BY <1>5, <1>11
    <3>5. Len(idx[p].entries) <= Len(t)
      BY <3>1, <3>3, <3>4
    <3>6. \A k \in 1..Len(idx[p].entries) : k \in 1..n
      BY <3>1, <3>3, <3>4
    <3>7. \A k \in 1..Len(idx[p].entries) : idx[p].entries[k] = t[k]
      BY <3>3, <3>4, <3>6
    <3> QED BY <1>11, <3>1, <3>5, <3>7, PrefixLemma
  <2>3. ASSUME rec.index_file
        PROVE  /\ p \in DOMAIN idx /\ idx[p].entries # <<>>
               /\ Len(t) = Len(idx[p].entries) + 1
    <3>1. p \in DOMAIN idx /\ idx[p].entries # <<>> /\ n = Len(idx[p].entries)
      <4>1. p \in DOMAIN idx /\ idx[p].entries # <<>> /\ n = Len(idx[p].entries) + 0
        BY <1>1, <1>2, <1>3, <2>3 DEF OpenInv
      <4>2. Len(idx[p].entries) \in Nat
        BY <1>1, <4>1, TypedLemma
      <4> QED BY <4>1, <4>2
    <3> QED BY <1>11, <3>1
  <2> QED BY <1>2, <1>4, <1>11, <1>12, <2>1, <2>2, <2>3 DEF OpenInv
<1>19. Reached' = Reached + 1 /\ Reached' = e.seq /\ Reached \in Int
  BY <1>2, <1>3, <1>5, <1>10, <1>15, SMTT(30) DEF Reached
<1>20. OrderInv'
  <2>1. /\ \A num \in DOMAIN idx : \A k \in 1..Len(idx[num].entries) :
              idx[num].entries[k].seq \in Nat
    BY <1>1, TypedLemma
  <2> HIDE DEF Reached
  <2>2. AscendInv'
    BY <1>1, <1>2 DEF OrderInv, AscendInv
  <2>3. ReachInv'
    BY <1>1, <1>2, <1>19, <2>1 DEF OrderInv, ReachInv
  <2>4. /\ \A k \in 1..n : s[k].seq <= Reached
        /\ \A k, l \in 1..n : k < l => s[k].seq < s[l].seq
        /\ \A a \in DOMAIN idx : a < p =>
              \A k \in 1..Len(idx[a].entries), l \in 1..n : idx[a].entries[k].seq < s[l].seq
    BY <1>1, <1>3 DEF OrderInv, OpenOrderInv
  <2>5. ASSUME NEW k \in 1..Len(t) PROVE t[k].seq <= Reached'
    BY <1>5, <1>11, <1>17, <1>19, <2>4, SMTT(30)
  <2>6. ASSUME NEW k \in 1..Len(t), NEW l \in 1..Len(t), k < l PROVE t[k].seq < t[l].seq
    <3>1. k \in 1..n
      BY <1>5, <1>11, <2>6
    <3>2. CASE l \in 1..n
      BY <1>11, <2>4, <2>6, <3>1, <3>2
    <3>3. CASE l = n + 1
      <4>1. t[k].seq = s[k].seq /\ t[l].seq = Reached + 1
        BY <1>11, <1>19, <3>1, <3>3
      <4>2. s[k].seq <= Reached /\ s[k].seq \in Nat /\ Reached \in Int
        BY <1>5, <1>19, <2>4, <3>1
      <4> QED BY <4>1, <4>2
    <3> QED BY <1>17, <3>2, <3>3
  <2>7. ASSUME NEW a \in DOMAIN idx, a < p,
               NEW k \in 1..Len(idx[a].entries), NEW l \in 1..Len(t)
        PROVE  idx[a].entries[k].seq < t[l].seq
    <3>1. CASE l \in 1..n
      BY <1>11, <2>4, <2>7, <3>1
    <3>2. CASE l = n + 1
      <4>1. idx[a].entries[k].seq <= Reached /\ idx[a].entries[k].seq \in Nat
        BY <1>1, <2>1 DEF OrderInv, ReachInv
      <4> QED BY <1>11, <1>19, <3>2, <4>1
    <3> QED BY <1>17, <3>1, <3>2
  <2>8. OpenOrderInv'
    BY <1>2, <1>12, <2>5, <2>6, <2>7 DEF OpenOrderInv
  <2> QED BY <2>2, <2>3, <2>8 DEF OrderInv
<1> QED BY <1>7, <1>14, <1>15, <1>16, <1>18, <1>20 DEF ArchiveInv

-----------------------------------------------------------------------------
\* The index of the open period.

\* In place or whole, what is written is the index in memory.
LEMMA IndexWritten ==
    ASSUME ArchiveInv, pc.at = "index"
    PROVE  (IF InPlace THEN Append(idx[rec.period].entries, Last(rec.index)) ELSE rec.index)
               = rec.index
<1> DEFINE p == rec.period
           s == idx[p].entries
           t == rec.index
<1>1. Typed /\ OpenInv /\ rec.open
  BY DEF ArchiveInv, ControlInv
<1> SUFFICES ASSUME InPlace PROVE Append(s, Last(t)) = t
  OBVIOUS
<1>2. /\ p \in DOMAIN idx /\ IsPrefix(s, t) /\ Len(t) = Len(s) + 1
  BY <1>1 DEF OpenInv, InPlace
<1>3. s \in Seq(Entries) /\ t \in Seq(Entries) /\ Len(s) \in Nat /\ Len(t) \in Nat
  BY <1>1, <1>2, TypedLemma DEF Typed, RecorderTyped
<1>4. \A k \in 1..Len(s) : s[k] = t[k]
  BY <1>2, <1>3, PrefixLemma
<1> HIDE DEF s, t
<1> DEFINE x == t[Len(t)]
           u == Append(s, x)
<1>5. Last(t) = x
  BY DEF Last
<1>6. x \in Entries
  <2>1. Len(t) \in 1..Len(t)
    BY <1>2, <1>3
  <2> QED BY <1>3, <2>1, ElementOfSeq
<1> HIDE DEF x
<1>7. u \in Seq(Entries) /\ Len(u) = Len(s) + 1 /\ u[Len(s) + 1] = x
      /\ \A k \in 1..Len(s) : u[k] = s[k]
  BY <1>3, <1>6, AppendProperties
<1> HIDE DEF u
<1>8. \A k \in 1..Len(t) : u[k] = t[k]
  <2> SUFFICES ASSUME NEW k \in 1..Len(t) PROVE u[k] = t[k]
    OBVIOUS
  <2>1. k \in 1..Len(s) \/ k = Len(s) + 1
    BY <1>2, <1>3
  <2> QED BY <1>2, <1>4, <1>7, <2>1 DEF x
<1>9. u = t
  BY <1>2, <1>3, <1>7, <1>8, SeqEqual
<1> QED BY <1>5, <1>9 DEF u

LEMMA IndexSegmentStep ==
    ASSUME ArchiveInv, IndexSegment
    PROVE  ArchiveInv'
<1> DEFINE p == rec.period
           t == rec.index
           n == Len(t)
<1>1. Typed /\ ControlInv /\ KnownInv /\ ListedInv /\ OrderInv /\ DurableInv /\ ReaderInv /\ OpenInv
  BY DEF ArchiveInv
<1>2. /\ pc.at = "index" /\ pc' = [at |-> "retain", ret |-> "idle", with |-> 0]
      /\ idx' = WithFile(idx, p, [torn |-> FALSE, entries |-> t])
      /\ rec' = [rec EXCEPT !.index_file = TRUE]
      /\ UNCHANGED <<data, durable, sync_failed, left_idx, left_data, reader, life, offset, cuts, init, cursor>>
  <2>1. pc.at = "index"
    BY DEF IndexSegment
  <2> QED BY <2>1, IndexWritten DEF IndexSegment, RecorderUnchanged, trunkVars, leftVars, At
<1>3. rec.open /\ rec.seeded /\ p \in DOMAIN data /\ t # <<>> /\ ~TakenUp
  BY <1>1, <1>2 DEF ControlInv, OpenInv, TakenUp
<1>4. /\ pc' \in [at : Places, ret : {"idle", "drain", "write"}, with : Nat] /\ pc'.at = "retain"
      /\ ~TakenUp'
  BY <1>2 DEF Places, TakenUp
<1>5. /\ DOMAIN rec = Fields /\ p \in Nat /\ t \in Seq(Entries) /\ n \in Nat
      /\ \A num \in DOMAIN data : num \in Nat
  BY <1>1, TypedLemma DEF Typed, RecorderTyped
<1> DEFINE side == [torn |-> FALSE, entries |-> t]
<1>6. side \in Sidecars /\ side.entries = t
  BY <1>5 DEF Sidecars
<1>7. idx' = WithFile(idx, p, side)
  BY <1>2
<1> HIDE DEF side
<1>8. /\ Directory(idx', Sidecars) /\ DOMAIN idx' = DOMAIN idx \cup {p}
      /\ idx'[p].entries = t
      /\ \A num \in DOMAIN idx : num # p => idx'[num] = idx[num]
  <2>1. Directory(WithFile(idx, p, side), Sidecars)
    BY <1>1, <1>5, <1>6, DirectoryKept DEF Typed
  <2>2. /\ DOMAIN idx' = DOMAIN idx \cup {p} /\ idx'[p] = side
        /\ \A num \in DOMAIN idx : num # p => idx'[num] = idx[num]
    BY <1>7 DEF WithFile
  <2> QED BY <1>6, <1>7, <2>1, <2>2
<1>9. /\ rec' = [f \in Fields |-> rec'[f]] /\ rec'.open = rec.open
      /\ rec'.terminated = rec.terminated
      /\ rec'.seeded = rec.seeded /\ rec'.period = rec.period /\ rec'.periods = rec.periods
      /\ rec'.index = rec.index /\ rec'.index_file = TRUE
      /\ rec'.write_offset = rec.write_offset /\ rec'.last_init = rec.last_init
  BY <1>2, <1>5 DEF Fields
<1>10. RecorderTyped'
  <2>1. /\ rec.seeded \in BOOLEAN /\ rec.period \in Nat /\ rec.periods \in Seq(Periods)
        /\ rec.open \in BOOLEAN /\ rec.index \in Seq(Entries) /\ rec.terminated \in BOOLEAN
        /\ rec.write_offset \in Nat /\ rec.last_init \in Nat
    BY <1>1 DEF Typed, RecorderTyped
  <2> QED BY <1>9, <2>1, Zenon DEF RecorderTyped
<1>11. Typed'
  BY <1>1, <1>2, <1>4, <1>8, <1>10 DEF Typed
<1>12. ControlInv'
  BY <1>2, <1>3, <1>4, <1>9 DEF ControlInv
<1>13. KnownInv'
  BY <1>1, <1>2, <1>3, <1>5, <1>8, <1>9 DEF KnownInv
<1>14. DurableInv'
  BY <1>1, <1>2 DEF DurableInv
<1>15. ListedInv'
  <2> SUFFICES ASSUME NEW num \in DOMAIN idx'
               PROVE  /\ num \in DOMAIN data \cup left_idx
                      /\ num \in DOMAIN data =>
                            \A k \in 1..Len(idx'[num].entries) :
                                /\ PieceAt(data[num], idx'[num].entries[k])
                                /\ ~sync_failed => idx'[num].entries[k].off < durable[num]
    BY <1>2 DEF ListedInv, Describes
  <2>1. CASE num = p
    BY <1>1, <1>3, <1>8, <2>1 DEF OpenInv
  <2>2. CASE num # p
    BY <1>1, <1>8, <2>2 DEF ListedInv, Describes
  <2> QED BY <2>1, <2>2
<1>16. OpenInv'
  <2>1. IsPrefix(t, t)
    BY <1>5, PrefixLemma
  <2>2. n = n + 0
    BY <1>5
  <2> QED BY <1>1, <1>2, <1>3, <1>4, <1>8, <1>9, <2>1, <2>2 DEF OpenInv
<1>17. ASSUME NEW num \in DOMAIN idx, NEW k \in 1..Len(idx[num].entries)
       PROVE  k \in 1..Len(idx'[num].entries) /\ idx'[num].entries[k] = idx[num].entries[k]
  <2>1. CASE num # p
    BY <1>8, <2>1
  <2>2. CASE num = p
    <3>1. idx[p].entries \in Seq(Entries) /\ Len(idx[p].entries) \in Nat
      BY <1>1, <2>2, TypedLemma
    <3>2. IsPrefix(idx[p].entries, t)
      BY <1>1, <1>3, <2>2 DEF OpenInv
    <3>3. Len(idx[p].entries) <= n /\ idx[p].entries[k] = t[k]
      BY <1>5, <2>2, <3>1, <3>2, PrefixLemma
    <3>4. k \in 1..n
      BY <1>5, <2>2, <3>1, <3>3
    <3> QED BY <1>8, <2>2, <3>3, <3>4
  <2> QED BY <2>1, <2>2
<1>18. ReaderInv'
  BY <1>1, <1>2, <1>8, <1>17 DEF ReaderInv
<1>19. Reached' = Reached
  BY <1>2, <1>3, <1>4 DEF Reached
<1>20. OrderInv'
  <2>1. /\ \A k \in 1..n : t[k].seq <= Reached
        /\ \A k, l \in 1..n : k < l => t[k].seq < t[l].seq
        /\ \A a \in DOMAIN idx : a < p =>
              \A k \in 1..Len(idx[a].entries), l \in 1..n : idx[a].entries[k].seq < t[l].seq
    BY <1>1, <1>3 DEF OrderInv, OpenOrderInv
  <2> HIDE DEF Reached
  <2>2. \A num \in DOMAIN idx' : num <= p /\ num \in Nat
    BY <1>1, <1>3, <1>5, <1>8, TypedLemma DEF KnownInv
  <2>3. ReachInv'
    BY <1>1, <1>8, <1>19, <2>1 DEF OrderInv, ReachInv
  <2>4. ASSUME NEW num \in DOMAIN idx',
               NEW k \in 1..Len(idx'[num].entries), NEW l \in 1..Len(idx'[num].entries), k < l
        PROVE  idx'[num].entries[k].seq < idx'[num].entries[l].seq
    <3>1. CASE num = p
      BY <1>8, <2>1, <2>4, <3>1
    <3>2. CASE num # p
      BY <1>1, <1>8, <2>4, <3>2 DEF OrderInv, AscendInv
    <3> QED BY <3>1, <3>2
  <2>5. ASSUME NEW a \in DOMAIN idx', NEW b \in DOMAIN idx', a < b,
               NEW k \in 1..Len(idx'[a].entries), NEW l \in 1..Len(idx'[b].entries)
        PROVE  idx'[a].entries[k].seq < idx'[b].entries[l].seq
    <3>1. a # p
      BY <1>5, <2>2, <2>5
    <3>2. a \in DOMAIN idx /\ idx'[a] = idx[a]
      BY <1>8, <3>1
    <3>3. CASE b = p
      BY <1>8, <2>1, <2>5, <3>2, <3>3
    <3>4. CASE b # p
      BY <1>1, <1>8, <2>5, <3>2, <3>4 DEF OrderInv, AscendInv
    <3> QED BY <3>3, <3>4
  <2>6. AscendInv'
    BY <2>4, <2>5 DEF AscendInv
  <2>7. OpenOrderInv'
    <3>1. ASSUME NEW a \in DOMAIN idx', a < p PROVE a \in DOMAIN idx /\ idx'[a] = idx[a]
      BY <1>5, <1>8, <3>1
    <3> QED BY <1>9, <1>19, <2>1, <3>1 DEF OpenOrderInv
  <2> QED BY <2>3, <2>6, <2>7 DEF OrderInv
<1> QED BY <1>11, <1>12, <1>13, <1>14, <1>15, <1>16, <1>18, <1>20 DEF ArchiveInv

\* A torn sidecar still has its entries.
LEMMA TornLemma ==
    ASSUME Typed, NEW p \in DOMAIN idx, idx' = [idx EXCEPT ![p].torn = TRUE]
    PROVE  /\ Directory(idx', Sidecars) /\ DOMAIN idx' = DOMAIN idx
           /\ \A num \in DOMAIN idx : idx'[num].entries = idx[num].entries
<1> DEFINE side == [idx[p] EXCEPT !.torn = TRUE]
<1>1. Directory(idx, Sidecars) /\ idx[p] \in Sidecars
  BY DEF Typed, Directory
<1>2. side \in Sidecars /\ side.entries = idx[p].entries
  BY <1>1 DEF Sidecars
<1>3. idx' = [idx EXCEPT ![p] = side]
  OBVIOUS
<1> HIDE DEF side
<1>4. Directory([idx EXCEPT ![p] = side], Sidecars)
  BY <1>1, <1>2, DirectoryKept, Zenon
<1>5. DOMAIN idx' = DOMAIN idx /\ idx'[p] = side /\ \A num \in DOMAIN idx : num # p => idx'[num] = idx[num]
  BY <1>3
<1> QED BY <1>2, <1>3, <1>4, <1>5

LEMMA IndexRewrittenStep ==
    ASSUME ArchiveInv, IndexRewritten
    PROVE  ArchiveInv'
<1> DEFINE p == rec.period
<1>1. Typed /\ ControlInv /\ KnownInv /\ ListedInv /\ OrderInv /\ DurableInv /\ ReaderInv /\ OpenInv
  BY DEF ArchiveInv
<1>2. /\ pc.at = "index" /\ rec.index_file
      /\ idx' = [idx EXCEPT ![p].torn = TRUE]
      /\ rec' = [rec EXCEPT !.index_file = FALSE]
      /\ UNCHANGED <<data, durable, sync_failed, left_idx, left_data, reader, life, offset, cuts, init, cursor, pc>>
  BY DEF IndexRewritten, InPlace, RecorderUnchanged, trunkVars, leftVars
<1>3. rec.open /\ rec.seeded /\ p \in DOMAIN data /\ p \in DOMAIN idx
  BY <1>1, <1>2 DEF ControlInv, OpenInv
<1>4. /\ Directory(idx', Sidecars) /\ DOMAIN idx' = DOMAIN idx
      /\ \A num \in DOMAIN idx : idx'[num].entries = idx[num].entries
  BY <1>1, <1>2, <1>3, TornLemma
<1>5. DOMAIN rec = Fields
  BY <1>1, TypedLemma
<1>6. /\ rec' = [f \in Fields |-> rec'[f]] /\ rec'.open = rec.open
      /\ rec'.terminated = rec.terminated
      /\ rec'.seeded = rec.seeded /\ rec'.period = rec.period /\ rec'.periods = rec.periods
      /\ rec'.index = rec.index /\ rec'.index_file = FALSE
      /\ rec'.write_offset = rec.write_offset /\ rec'.last_init = rec.last_init
  BY <1>2, <1>5 DEF Fields
<1>7. RecorderTyped'
  <2>1. /\ rec.seeded \in BOOLEAN /\ rec.period \in Nat /\ rec.periods \in Seq(Periods)
        /\ rec.open \in BOOLEAN /\ rec.index \in Seq(Entries) /\ rec.terminated \in BOOLEAN
        /\ rec.write_offset \in Nat /\ rec.last_init \in Nat
    BY <1>1 DEF Typed, RecorderTyped
  <2> QED BY <1>6, <2>1, Zenon DEF RecorderTyped
<1>8. Typed'
  BY <1>1, <1>2, <1>4, <1>7 DEF Typed
<1>9. ControlInv' /\ (TakenUp' <=> TakenUp)
  BY <1>1, <1>2, <1>4, <1>6 DEF ControlInv, TakenUp
<1>10. KnownInv'
  BY <1>1, <1>2, <1>3, <1>4, <1>6 DEF KnownInv
<1>11. DurableInv'
  BY <1>1, <1>2 DEF DurableInv
<1>12. ListedInv'
  BY <1>1, <1>2, <1>4 DEF ListedInv, Describes
<1>13. OpenInv'
  BY <1>1, <1>2, <1>3, <1>4, <1>6 DEF OpenInv
<1>14. ReaderInv'
  BY <1>1, <1>2, <1>4 DEF ReaderInv
<1>15. Reached' = Reached
  BY <1>2, <1>9 DEF Reached
<1>16. OrderInv'
  <2> HIDE DEF Reached
  <2> QED BY <1>1, <1>4, <1>6, <1>15, SMTT(30) DEF OrderInv, AscendInv, ReachInv, OpenOrderInv
<1> QED BY <1>8, <1>9, <1>10, <1>11, <1>12, <1>13, <1>14, <1>16 DEF ArchiveInv

-----------------------------------------------------------------------------
\* Retention.

LEMMA WithoutLemma ==
    ASSUME NEW C, NEW files, Directory(files, C), NEW num
    PROVE  /\ Directory(WithoutFile(files, num), C)
           /\ DOMAIN WithoutFile(files, num) = DOMAIN files \ {num}
           /\ \A n \in DOMAIN files \ {num} : WithoutFile(files, num)[n] = files[n]
<1>1. Directory(WithoutFile(files, num), C)
  BY DirectoryKept
<1>2. /\ DOMAIN WithoutFile(files, num) = DOMAIN files \ {num}
      /\ \A n \in DOMAIN files \ {num} : WithoutFile(files, num)[n] = files[n]
  BY DEF WithoutFile
<1> QED BY <1>1, <1>2

\* The period to go is not the open one.
LEMMA OldestLemma ==
    ASSUME Typed, KnownInv, rec.seeded, rec.periods # <<>>
    PROVE  /\ Head(rec.periods).num = rec.periods[1].num /\ 1 \in 1..Len(rec.periods)
           /\ Head(rec.periods).num \in Nat /\ Head(rec.periods).num < rec.period
<1>1. rec.periods \in Seq(Periods) /\ Len(rec.periods) \in Nat
      /\ \A k \in 1..Len(rec.periods) : rec.periods[k].num \in Nat
  BY TypedLemma DEF Typed, RecorderTyped
<1>2. Len(rec.periods) # 0
  BY <1>1, EmptySeq
<1>3. 1 \in 1..Len(rec.periods)
  BY <1>1, <1>2
<1>4. Head(rec.periods) = rec.periods[1]
  OBVIOUS
<1> QED BY <1>1, <1>3, <1>4 DEF KnownInv

LEMMA EvictIndexStep ==
    ASSUME ArchiveInv, EvictIndex
    PROVE  ArchiveInv'
<1> DEFINE p == rec.period
           h == Head(rec.periods).num
<1>1. Typed /\ ControlInv /\ KnownInv /\ ListedInv /\ OrderInv /\ DurableInv /\ ReaderInv /\ OpenInv
  BY DEF ArchiveInv
<1>2. /\ pc.at = "retain" /\ pc' = [at |-> "evict", ret |-> "idle", with |-> 0]
      /\ rec.periods # <<>>
      /\ \/ idx' = WithoutFile(idx, h) /\ left_idx' = left_idx \ {h}
         \/ idx' = idx /\ left_idx' = left_idx \cup {h}
      /\ UNCHANGED <<data, durable, rec, sync_failed, left_data, reader, life, offset, cuts, init, cursor>>
  BY DEF EvictIndex, Evicts, EvictionUnchanged, trunkVars, At
<1>3. rec.open /\ rec.seeded /\ p \in DOMAIN data /\ ~TakenUp
  BY <1>1, <1>2 DEF ControlInv, TakenUp
<1>4. h \in Nat /\ h < p /\ p \in Nat /\ h # p
  <2>1. h \in Nat /\ h < p /\ p \in Nat
    BY <1>1, <1>2, <1>3, OldestLemma DEF Typed, RecorderTyped
  <2> QED BY <2>1
<1> HIDE DEF h
<1>5. /\ pc' \in [at : Places, ret : {"idle", "drain", "write"}, with : Nat] /\ pc'.at = "evict"
      /\ ~TakenUp'
  BY <1>2 DEF Places, TakenUp
<1>6. /\ Directory(idx', Sidecars) /\ DOMAIN idx \ {h} \subseteq DOMAIN idx'
      /\ \A num \in DOMAIN idx' : num \in DOMAIN idx /\ idx'[num] = idx[num]
      /\ h \notin DOMAIN idx' \ left_idx'
      /\ \A num \in DOMAIN idx' : num \in left_idx => num \in left_idx'
  <2>1. Directory(idx, Sidecars)
    BY <1>1 DEF Typed
  <2>2. /\ Directory(WithoutFile(idx, h), Sidecars)
        /\ DOMAIN WithoutFile(idx, h) = DOMAIN idx \ {h}
        /\ \A num \in DOMAIN idx \ {h} : WithoutFile(idx, h)[num] = idx[num]
    BY <2>1, WithoutLemma
  <2>3. CASE idx' = WithoutFile(idx, h) /\ left_idx' = left_idx \ {h}
    <3>1. DOMAIN idx' = DOMAIN idx \ {h} /\ \A num \in DOMAIN idx \ {h} : idx'[num] = idx[num]
      BY <2>2, <2>3
    <3> QED BY <2>2, <2>3, <3>1
  <2>4. CASE idx' = idx /\ left_idx' = left_idx \cup {h}
    BY <2>1, <2>4
  <2> QED BY <1>2, <2>3, <2>4
<1>7. Typed'
  BY <1>1, <1>2, <1>5, <1>6 DEF Typed, RecorderTyped
<1>8. ControlInv'
  <2>1. Head(rec'.periods).num \notin DOMAIN idx' \ left_idx'
    BY <1>2, <1>6 DEF h
  <2> QED BY <1>2, <1>3, <1>5, <2>1 DEF ControlInv
<1>9. KnownInv'
  BY <1>1, <1>2, <1>3, <1>6 DEF KnownInv
<1>10. DurableInv' /\ ListedInv'
  BY <1>1, <1>2, <1>6 DEF DurableInv, ListedInv, Describes
<1>11. OpenInv'
  <2>1. p \in DOMAIN idx => p \in DOMAIN idx'
    BY <1>4, <1>6
  <2> QED BY <1>1, <1>2, <1>3, <1>5, <1>6, <2>1 DEF OpenInv
<1>12. ReaderInv'
  <2> SUFFICES ASSUME reader # NoReader PROVE ReaderInv'
    BY <1>2 DEF ReaderInv
  <2>1. CASE reader.num = h /\ reader.num \in DOMAIN idx
             /\ \E k \in 1..Len(idx[reader.num].entries) :
                   idx[reader.num].entries[k] =
                       [seq |-> reader.seq, off |-> reader.off, life |-> reader.life]
    <3>1. PICK k \in 1..Len(idx[h].entries) :
             idx[h].entries[k] = [seq |-> reader.seq, off |-> reader.off, life |-> reader.life]
      BY <2>1
    <3>2. h \in DOMAIN data => PieceAt(data[h], idx[h].entries[k])
      BY <1>1, <2>1, <3>1 DEF ListedInv, Describes
    <3>3. reader.num \in DOMAIN data => PieceAt(data[reader.num], reader)
      BY <2>1, <3>1, <3>2 DEF PieceAt
    <3>4. p > reader.num
      BY <1>4, <2>1
    <3> QED BY <1>1, <1>2, <1>3, <3>3, <3>4 DEF ReaderInv
  <2>2. CASE ~(reader.num = h /\ reader.num \in DOMAIN idx
               /\ \E k \in 1..Len(idx[reader.num].entries) :
                   idx[reader.num].entries[k] =
                       [seq |-> reader.seq, off |-> reader.off, life |-> reader.life])
    BY <1>1, <1>2, <1>6, <2>2 DEF ReaderInv
  <2> QED BY <2>1, <2>2
<1>13. Reached' = Reached
  BY <1>2, <1>3, <1>5 DEF Reached
<1>14. OrderInv'
  <2> HIDE DEF Reached
  <2>1. AscendInv'
    BY <1>1, <1>6 DEF OrderInv, AscendInv
  <2>2. ReachInv'
    BY <1>1, <1>6, <1>13 DEF OrderInv, ReachInv
  <2>3. OpenOrderInv'
    BY <1>1, <1>2, <1>6, <1>13 DEF OrderInv, OpenOrderInv
  <2> QED BY <2>1, <2>2, <2>3 DEF OrderInv
<1> QED BY <1>7, <1>8, <1>9, <1>10, <1>11, <1>12, <1>14 DEF ArchiveInv

LEMMA EvictDataStep ==
    ASSUME ArchiveInv, EvictData
    PROVE  ArchiveInv'
<1> DEFINE p == rec.period
           h == Head(rec.periods).num
           s == rec.periods
           n == Len(s)
           left == Max({0, rec.total_bytes - Head(rec.periods).file_bytes})
<1>1. Typed /\ ControlInv /\ KnownInv /\ ListedInv /\ OrderInv /\ DurableInv /\ ReaderInv /\ OpenInv
  BY DEF ArchiveInv
<1>2. DOMAIN rec = Fields
  BY <1>1, TypedLemma
<1>3. /\ pc.at = "evict" /\ pc' = [at |-> "retain", ret |-> "idle", with |-> 0]
      /\ \/ /\ data' = WithoutFile(data, h) /\ durable' = WithoutFile(durable, h)
            /\ left_data' = left_data
         \/ data' = data /\ durable' = durable /\ left_data' = left_data \cup {h}
      /\ rec' = [rec EXCEPT !.periods = Tail(s), !.total_bytes = left]
      /\ UNCHANGED <<idx, left_idx, sync_failed, reader, life, offset, cuts, init, cursor>>
  BY <1>2 DEF EvictData, Forgotten, EvictionUnchanged, trunkVars, At, Fields
<1>4. /\ rec.open /\ rec.seeded /\ p \in DOMAIN data /\ ~TakenUp /\ s # <<>>
      /\ h \notin DOMAIN idx \ left_idx
  BY <1>1, <1>3 DEF ControlInv, TakenUp
<1>5. h \in Nat /\ h < p /\ p \in Nat /\ h # p /\ h = s[1].num /\ 1 \in 1..n
  <2>1. h \in Nat /\ h < p /\ p \in Nat /\ h = s[1].num /\ 1 \in 1..n
    BY <1>1, <1>4, OldestLemma DEF Typed, RecorderTyped
  <2> QED BY <2>1
<1>6. s \in Seq(Periods) /\ n \in Nat /\ (\A k \in 1..n : s[k].num \in Nat)
      /\ (\A num \in DOMAIN data : num \in Nat)
  BY <1>1, TypedLemma DEF Typed, RecorderTyped
<1>7. Tail(s) \in Seq(Periods) /\ Len(Tail(s)) = n - 1 /\ \A k \in 1..(n - 1) : Tail(s)[k] = s[k + 1]
  BY <1>4, <1>6, HeadTailProperties
<1> HIDE DEF h, left
<1>8. /\ pc' \in [at : Places, ret : {"idle", "drain", "write"}, with : Nat] /\ pc'.at = "retain"
      /\ ~TakenUp'
  BY <1>3 DEF Places, TakenUp
<1>9. Directory(idx', Sidecars) /\ idx' = idx
  BY <1>1, <1>3 DEF Typed
<1>10. /\ Directory(data', Seq(Pieces)) /\ DOMAIN data \ {h} \subseteq DOMAIN data'
       /\ \A num \in DOMAIN data' : num \in DOMAIN data /\ data'[num] = data[num]
       /\ h \in DOMAIN data' => h \in left_data'
       /\ \A num \in left_data : num \in left_data'
  <2> DEFINE C == Seq(Pieces)
  <2>1. Directory(data, C)
    BY <1>1 DEF Typed
  <2> HIDE DEF C
  <2>2. /\ Directory(WithoutFile(data, h), C)
        /\ DOMAIN WithoutFile(data, h) = DOMAIN data \ {h}
        /\ \A num \in DOMAIN data \ {h} : WithoutFile(data, h)[num] = data[num]
    BY <2>1, WithoutLemma
  <2>3. CASE data' = WithoutFile(data, h) /\ left_data' = left_data
    <3>1. DOMAIN data' = DOMAIN data \ {h} /\ \A num \in DOMAIN data \ {h} : data'[num] = data[num]
      BY <2>2, <2>3
    <3> QED BY <2>2, <2>3, <3>1 DEF C
  <2>4. CASE data' = data /\ left_data' = left_data \cup {h}
    BY <2>1, <2>4 DEF C
  <2> QED BY <1>3, <2>3, <2>4
<1>11. durable' \in [DOMAIN data' -> Nat] /\ \A num \in DOMAIN data' : durable'[num] = durable[num]
  <2>1. durable \in [DOMAIN data -> Nat]
    BY <1>1 DEF Typed
  <2> QED BY <1>3, <1>10, <2>1 DEF WithoutFile
<1>12. /\ rec' = [f \in Fields |-> rec'[f]] /\ rec'.open = rec.open
       /\ rec'.terminated = rec.terminated
       /\ rec'.seeded = rec.seeded /\ rec'.period = rec.period /\ rec'.periods = Tail(s)
       /\ rec'.index = rec.index /\ rec'.index_file = rec.index_file
       /\ rec'.write_offset = rec.write_offset /\ rec'.last_init = rec.last_init
  BY <1>2, <1>3 DEF Fields
<1>13. RecorderTyped'
  <2>1. /\ rec.seeded \in BOOLEAN /\ rec.period \in Nat /\ rec.index_file \in BOOLEAN
        /\ rec.open \in BOOLEAN /\ rec.index \in Seq(Entries) /\ rec.terminated \in BOOLEAN
        /\ rec.write_offset \in Nat /\ rec.last_init \in Nat
    BY <1>1 DEF Typed, RecorderTyped
  <2> QED BY <1>7, <1>12, <2>1, Zenon DEF RecorderTyped
<1>14. Typed'
  BY <1>1, <1>3, <1>8, <1>9, <1>10, <1>11, <1>13 DEF Typed
<1>15. p \in DOMAIN data'
  BY <1>4, <1>5, <1>10
<1>16. ControlInv'
  BY <1>4, <1>8, <1>12, <1>15 DEF ControlInv
<1>17. KnownInv'
  <2> DEFINE t == Tail(s)
             m == n - 1
  <2>1. /\ \A num \in DOMAIN data : num <= p
        /\ \A k \in 1..n : s[k].num < p
        /\ \A k, l \in 1..n : k < l => s[k].num < s[l].num
        /\ \A num \in DOMAIN data :
              num = p \/ num \in left_data \/ \E k \in 1..n : s[k].num = num
        /\ \A num \in DOMAIN idx : num <= p
        /\ rec.index = <<>> => p \notin DOMAIN idx
    BY <1>1, <1>4 DEF KnownInv
  <2> HIDE DEF t
  <2>2. Len(t) = m /\ \A k \in 1..m : t[k] = s[k + 1] /\ k + 1 \in 1..n
    BY <1>6, <1>7 DEF t
  <2>3. ASSUME NEW num \in DOMAIN data', num # p, num \notin left_data'
        PROVE  \E k \in 1..m : t[k].num = num
    <3>1. PICK k \in 1..n : s[k].num = num
      BY <1>10, <2>1, <2>3
    <3>2. k # 1
      <4>1. num # h
        BY <1>10, <2>3
      <4> QED BY <1>5, <3>1, <4>1
    <3>3. k - 1 \in 1..m /\ t[k - 1] = s[k]
      <4>1. k - 1 \in 1..m /\ (k - 1) + 1 = k
        BY <1>6, <3>2
      <4> QED BY <2>2, <4>1
    <3> QED BY <3>1, <3>3
  <2>4. \A k \in 1..m : t[k].num < p
    BY <2>1, <2>2
  <2>5. \A k, l \in 1..m : k < l => t[k].num < t[l].num
    <3> SUFFICES ASSUME NEW k \in 1..m, NEW l \in 1..m, k < l PROVE t[k].num < t[l].num
      OBVIOUS
    <3>1. k + 1 < l + 1 /\ k + 1 \in 1..n /\ l + 1 \in 1..n
      BY <1>6, <2>2
    <3> QED BY <2>1, <2>2, <3>1
  <2>6. rec'.periods = t
    BY <1>12 DEF t
  <2>7. \A num \in DOMAIN data' :
           num <= p /\ (num = p \/ num \in left_data' \/ \E k \in 1..m : t[k].num = num)
    BY <1>10, <2>1, <2>3
  <2>8. Len(rec'.periods) = m /\ rec'.period = p /\ rec'.seeded /\ rec'.index = rec.index
    BY <1>4, <1>12, <2>2, <2>6
  <2> HIDE DEF m, p, s, n
  <2>9. /\ \A num \in DOMAIN data' \cup DOMAIN idx' : num <= rec'.period
        /\ \A k \in 1..Len(rec'.periods) : rec'.periods[k].num < rec'.period
        /\ \A k, l \in 1..Len(rec'.periods) : k < l => rec'.periods[k].num < rec'.periods[l].num
        /\ \A num \in DOMAIN data' :
              \/ num = rec'.period \/ num \in left_data'
              \/ \E k \in 1..Len(rec'.periods) : rec'.periods[k].num = num
    BY <1>9, <2>1, <2>4, <2>5, <2>6, <2>7, <2>8
  <2>10. rec'.index = <<>> => rec'.period \notin DOMAIN idx'
    BY <1>9, <2>1, <2>8
  <2> QED BY <2>8, <2>9, <2>10 DEF KnownInv
<1>18. DurableInv'
  BY <1>1, <1>10, <1>11 DEF DurableInv
<1>19. ListedInv'
  <2>1. \A num \in DOMAIN idx : num \in DOMAIN data' \cup left_idx
    BY <1>1, <1>4, <1>10 DEF ListedInv
  <2> QED BY <1>1, <1>3, <1>9, <1>10, <1>11, <2>1 DEF ListedInv, Describes
<1>20. OpenInv'
  BY <1>1, <1>3, <1>4, <1>8, <1>9, <1>10, <1>11, <1>12, <1>15 DEF OpenInv
<1>21. ReaderInv'
  <2> SUFFICES ASSUME reader # NoReader PROVE ReaderInv'
    BY <1>3 DEF ReaderInv
  <2>1. CASE \E num \in DOMAIN data : num > reader.num
    <3>1. PICK num \in DOMAIN data : num > reader.num
      BY <2>1
    <3>2. reader.num \in Nat /\ num \in Nat /\ num <= p
      BY <1>1, <1>4, <1>6 DEF ReaderInv, KnownInv
    <3>3. p > reader.num
      BY <1>5, <3>1, <3>2
    <3> QED BY <1>1, <1>3, <1>9, <1>10, <1>15, <3>3 DEF ReaderInv
  <2>2. CASE ~\E num \in DOMAIN data : num > reader.num
    BY <1>1, <1>3, <1>9, <2>2 DEF ReaderInv
  <2> QED BY <2>1, <2>2
<1>22. Reached' = Reached
  BY <1>3, <1>4, <1>8 DEF Reached
<1>23. OrderInv'
  <2> HIDE DEF Reached
  <2> QED BY <1>1, <1>9, <1>12, <1>22 DEF OrderInv, AscendInv, ReachInv, OpenOrderInv
<1> QED BY <1>14, <1>16, <1>17, <1>18, <1>19, <1>20, <1>21, <1>23 DEF ArchiveInv

-----------------------------------------------------------------------------
\* A new connection, and a request.

LEMMA NewConnectionLemma ==
    ASSUME ArchiveInv, NewConnection
    PROVE  /\ RecorderTyped' /\ ControlInv' /\ KnownInv' /\ OpenInv' /\ OpenOrderInv'
           /\ pc' \in [at : Places, ret : {"idle", "drain", "write"}, with : Nat]
           /\ life' \in Nat /\ cuts' \in Seq(Nat) /\ init' \in 0..MaxInits
           /\ cursor' \in 0..Len(cuts') /\ sync_failed' = sync_failed
           /\ left_idx' = left_idx
           /\ offset' \in Nat => Reached' = offset'
<1>1. /\ life' = life + 1 /\ cuts' = <<>> /\ init' = 0 /\ cursor' = 0 /\ rec' = FreshRecorder
      /\ pc' = [at |-> "idle", ret |-> "idle", with |-> 0] /\ sync_failed' = sync_failed
      /\ left_idx' = left_idx
  BY DEF NewConnection, At
<1>2. <<>> \in Seq(Nat) /\ <<>> \in Seq(Periods) /\ <<>> \in Seq(Entries) /\ Len(<<>>) = 0
  BY EmptySeq
<1>3. RecorderTyped'
  <2>1. rec' = [f \in Fields |-> rec'[f]]
    BY <1>1, FreshTyped
  <2>2. rec'.seeded = FALSE /\ rec'.open = FALSE /\ rec'.index_file = FALSE /\ rec'.terminated = FALSE
    BY <1>1, FreshTyped
  <2>3. rec'.period = 0 /\ rec'.write_offset = 0 /\ rec'.last_init = 0 /\ 0 \in Nat
    BY <1>1, FreshTyped
  <2>4. rec'.periods = <<>> /\ rec'.index = <<>>
    BY <1>1, FreshTyped
  <2> QED BY <1>2, <2>1, <2>2, <2>3, <2>4, Zenon DEF RecorderTyped
<1>4. /\ pc' \in [at : Places, ret : {"idle", "drain", "write"}, with : Nat]
      /\ pc'.at = "idle" /\ ~TakenUp'
  BY <1>1 DEF Places, TakenUp
<1>5. ControlInv' /\ KnownInv' /\ OpenInv' /\ OpenOrderInv'
  BY <1>1, <1>4, FreshTyped DEF ControlInv, KnownInv, OpenInv, OpenOrderInv
<1>6. offset' \in Nat => Reached' = offset'
  <2> SUFFICES ASSUME offset' \in Nat PROVE Reached' = offset'
    OBVIOUS
  <2>1. cursor' = 0 /\ ~TakenUp'
    BY <1>1, <1>4
  <2>2. Reached' = offset' + cursor' - IF TakenUp' THEN 1 ELSE 0
    BY DEF Reached
  <2>3. (IF TakenUp' THEN 1 ELSE 0) = 0
    BY <2>1
  <2>4. Reached' = offset' + 0 - 0
    BY <2>1, <2>2, <2>3
  <2>5. \A x \in Nat : x + 0 - 0 = x
    OBVIOUS
  <2> QED BY <2>4, <2>5, Zenon
<1>7. /\ life' \in Nat /\ cuts' \in Seq(Nat) /\ init' \in 0..MaxInits /\ cursor' \in 0..Len(cuts')
  <2>1. life \in Nat /\ MaxInits \in Nat
    BY BoundsAssumption DEF ArchiveInv, Typed
  <2> QED BY <1>1, <1>2, <2>1
<1> QED BY <1>1, <1>3, <1>4, <1>5, <1>6, <1>7

LEMMA ReconnectStep ==
    ASSUME ArchiveInv, Reconnect
    PROVE  ArchiveInv'
<1>1. Typed /\ ListedInv /\ OrderInv /\ DurableInv /\ ReaderInv
  BY DEF ArchiveInv
<1>2. /\ NewConnection /\ offset' = offset + Len(cuts) + 1
      /\ UNCHANGED <<data, idx, durable, reader>>
  BY DEF Reconnect, disk, closed
<1>3. /\ RecorderTyped' /\ ControlInv' /\ KnownInv' /\ OpenInv' /\ OpenOrderInv'
      /\ pc' \in [at : Places, ret : {"idle", "drain", "write"}, with : Nat]
      /\ life' \in Nat /\ cuts' \in Seq(Nat) /\ init' \in 0..MaxInits
      /\ cursor' \in 0..Len(cuts') /\ sync_failed' = sync_failed /\ left_idx' = left_idx
      /\ offset' \in Nat => Reached' = offset'
  BY <1>2, NewConnectionLemma
<1>4. offset \in Nat /\ Len(cuts) \in Nat /\ cursor \in 0..Len(cuts)
  BY <1>1, TypedLemma DEF Typed
<1>5. offset' \in Nat
  BY <1>2, <1>4
<1>6. Reached <= Reached' /\ Reached \in Int /\ Reached' \in Int
  <2>1. Reached' = offset + Len(cuts) + 1
    BY <1>2, <1>3, <1>5
  <2> QED BY <1>4, <2>1 DEF Reached
<1>7. Typed'
  BY <1>1, <1>2, <1>3, <1>5 DEF Typed
<1>8. DurableInv' /\ ListedInv' /\ ReaderInv'
  BY <1>1, <1>2, <1>3 DEF DurableInv, ListedInv, Describes, ReaderInv
<1>9. OrderInv'
  <2>1. \A num \in DOMAIN idx : \A k \in 1..Len(idx[num].entries) : idx[num].entries[k].seq \in Nat
    BY <1>1, TypedLemma
  <2> HIDE DEF Reached
  <2>2. AscendInv' /\ ReachInv'
    BY <1>1, <1>2, <1>6, <2>1, SMTT(30) DEF OrderInv, AscendInv, ReachInv
  <2> QED BY <1>3, <2>2 DEF OrderInv
<1> QED BY <1>3, <1>7, <1>8, <1>9 DEF ArchiveInv

LEMMA CrashStep ==
    ASSUME ArchiveInv, Crash
    PROVE  ArchiveInv'
<1>1. Typed /\ ControlInv /\ ListedInv /\ OrderInv /\ DurableInv /\ OpenInv
  BY DEF ArchiveInv
<1>2. /\ NewConnection /\ offset' = archive_seq_floor(idx')
      /\ \/ data' = data
         \/ data' = [num \in DOMAIN data |-> SubSeq(data[num], 1, durable[num])]
      /\ \/ idx' = idx
         \/ pc.at = "index" /\ InPlace /\ idx' = [idx EXCEPT ![rec.period].torn = TRUE]
      /\ durable' = durable /\ reader' = NoReader
  BY DEF Crash
<1>3. /\ RecorderTyped' /\ ControlInv' /\ KnownInv' /\ OpenInv' /\ OpenOrderInv'
      /\ pc' \in [at : Places, ret : {"idle", "drain", "write"}, with : Nat]
      /\ life' \in Nat /\ cuts' \in Seq(Nat) /\ init' \in 0..MaxInits
      /\ cursor' \in 0..Len(cuts') /\ sync_failed' = sync_failed /\ left_idx' = left_idx
      /\ offset' \in Nat => Reached' = offset'
  BY <1>2, NewConnectionLemma
<1>4. /\ Directory(idx', Sidecars) /\ DOMAIN idx' = DOMAIN idx
      /\ \A num \in DOMAIN idx : idx'[num].entries = idx[num].entries
  <2>1. CASE idx' = idx
    BY <1>1, <2>1 DEF Typed
  <2>2. CASE pc.at = "index" /\ InPlace /\ idx' = [idx EXCEPT ![rec.period].torn = TRUE]
    <3>1. rec.period \in DOMAIN idx
      BY <1>1, <2>2 DEF ControlInv, OpenInv, InPlace
    <3> QED BY <1>1, <2>2, <3>1, TornLemma
  <2> QED BY <1>2, <2>1, <2>2
<1>5. ASSUME NEW num \in DOMAIN data
      PROVE  /\ data'[num] \in Seq(Pieces) /\ durable[num] <= Len(data'[num])
             /\ Len(data'[num]) <= Len(data[num])
             /\ \A k \in 1..Len(data'[num]) : data'[num][k] = data[num][k]
  <2> DEFINE s == data[num]
             d == durable[num]
  <2>1. s \in Seq(Pieces) /\ Len(s) \in Nat /\ d \in Nat /\ d <= Len(s)
    BY <1>1, TypedLemma DEF DurableInv
  <2>2. CASE data'[num] = s
    BY <2>1, <2>2
  <2>3. CASE data'[num] = SubSeq(s, 1, d)
    <3> HIDE DEF s, d
    <3>1. 1 \in 1..(Len(s) + 1) /\ d \in 0..Len(s) /\ 1 <= d + 1 /\ d <= Len(s)
      BY <2>1
    <3>2. SubSeq(s, 1, d) \in Seq(Pieces) /\ Len(SubSeq(s, 1, d)) = d
          /\ \A k \in 1..d : SubSeq(s, 1, d)[k] = s[k]
      <4>1. \A k \in 1..d : s[k] \in Pieces
        <5>1. \A k \in 1..d : k \in 1..Len(s)
          BY <2>1
        <5> QED BY <2>1, <5>1, ElementOfSeq
      <4>2. SubSeq(s, 1, d) = [k \in 1..d |-> s[k]]
        <5>1. SubSeq(s, 1, d) = [k \in 1..(d - 1 + 1) |-> s[k + 1 - 1]]
          BY <2>1
        <5>2. d - 1 + 1 = d /\ \A k \in 1..d : k + 1 - 1 = k
          BY <2>1
        <5> QED BY <5>1, <5>2
      <4>3. [k \in 1..d |-> s[k]] \in [1..d -> Pieces]
        BY <4>1
      <4> QED BY <2>1, <4>2, <4>3, SeqDef
    <3> QED BY <2>1, <2>3, <3>2 DEF s, d
  <2> QED BY <1>2, <2>2, <2>3
<1>6. Directory(data', Seq(Pieces)) /\ DOMAIN data' = DOMAIN data
  <2>1. Directory(data, Seq(Pieces))
    BY <1>1 DEF Typed
  <2>2. DOMAIN data' = DOMAIN data
    BY <1>2
  <2>3. data' \in [DOMAIN data -> Seq(Pieces)]
    <3>1. CASE data' = data
      BY <2>1, <3>1 DEF Directory
    <3>2. CASE data' = [num \in DOMAIN data |-> SubSeq(data[num], 1, durable[num])]
      <4>1. data' = [num \in DOMAIN data |-> data'[num]]
        BY <3>2
      <4> QED BY <1>5, <4>1
    <3> QED BY <1>2, <3>1, <3>2
  <2> QED BY <2>1, <2>2, <2>3 DEF Directory
<1>7. DurableInv'
  BY <1>2, <1>5, <1>6 DEF DurableInv
<1>8. ListedInv'
  <2>1. ASSUME NEW num \in DOMAIN idx, num \in DOMAIN data, NEW k \in 1..Len(idx[num].entries)
        PROVE  PieceAt(data'[num], idx[num].entries[k])
    <3> DEFINE e == idx[num].entries[k]
    <3> SUFFICES ASSUME e.off + 1 <= Len(data'[num])
                 PROVE  /\ data'[num][e.off + 1].kind = "media"
                        /\ data'[num][e.off + 1].life = e.life
                        /\ data'[num][e.off + 1].seq = e.seq
      BY DEF PieceAt
    <3>1. PieceAt(data[num], e)
      BY <1>1, <2>1 DEF ListedInv, Describes
    <3>2. e.off \in Nat /\ Len(data[num]) \in Nat
      BY <1>1, <2>1, TypedLemma
    <3>3. Len(data'[num]) \in Nat /\ Len(data'[num]) <= Len(data[num])
      BY <1>5, <2>1, LenProperties
    <3>4. e.off + 1 \in 1..Len(data'[num]) /\ e.off + 1 <= Len(data[num])
      BY <3>2, <3>3
    <3>5. data'[num][e.off + 1] = data[num][e.off + 1]
      BY <1>5, <2>1, <3>4
    <3> QED BY <3>1, <3>4, <3>5 DEF PieceAt
  <2>2. \A num \in DOMAIN idx : num \in DOMAIN data \cup left_idx
    BY <1>1 DEF ListedInv
  <2>3. \A num \in DOMAIN idx : num \in DOMAIN data =>
           \A k \in 1..Len(idx[num].entries) :
               ~sync_failed => idx[num].entries[k].off < durable[num]
    BY <1>1 DEF ListedInv, Describes
  <2> QED BY <1>2, <1>3, <1>4, <1>6, <2>1, <2>2, <2>3 DEF ListedInv, Describes
<1>9. offset' \in Nat /\ \A num \in DOMAIN idx' : \A j \in 1..Len(idx'[num].entries) :
         idx'[num].entries[j].seq <= offset'
  BY <1>2, <1>4, FloorLemma
<1>10. Typed'
  <2>1. durable' \in [DOMAIN data' -> Nat] /\ sync_failed' \in BOOLEAN
    BY <1>1, <1>2, <1>3, <1>6 DEF Typed
  <2> QED BY <1>3, <1>4, <1>6, <1>9, <2>1 DEF Typed
<1>11. ReaderInv'
  BY <1>2 DEF ReaderInv
<1>12. OrderInv'
  <2>1. AscendInv'
    BY <1>1, <1>4 DEF OrderInv, AscendInv
  <2>2. ReachInv'
    BY <1>3, <1>9 DEF ReachInv
  <2> QED BY <1>3, <2>1, <2>2 DEF OrderInv
<1> QED BY <1>3, <1>7, <1>8, <1>10, <1>11, <1>12 DEF ArchiveInv

LEMMA RequestStep ==
    ASSUME ArchiveInv, FindArchivedSegment \/ ReadArchivedBytes
    PROVE  ArchiveInv'
<1>1. Typed /\ ControlInv /\ KnownInv /\ ListedInv /\ OrderInv /\ DurableInv /\ OpenInv
  BY DEF ArchiveInv
<1>2. UNCHANGED <<data, idx, durable, life, offset, cuts, init, cursor, rec, pc, sync_failed, left_idx,
                left_data>>
  BY DEF FindArchivedSegment, ReadArchivedBytes, disk, trunkVars, leftVars
<1>3. Typed' /\ ControlInv' /\ KnownInv' /\ DurableInv' /\ ListedInv' /\ OpenInv'
  <2>1. Typed' /\ ControlInv'
    BY <1>1, <1>2 DEF Typed, RecorderTyped, ControlInv, TakenUp
  <2>2. KnownInv' /\ DurableInv'
    BY <1>1, <1>2 DEF KnownInv, DurableInv
  <2>3. ListedInv' /\ OpenInv'
    BY <1>1, <1>2 DEF ListedInv, Describes, OpenInv
  <2> QED BY <2>1, <2>2, <2>3
<1>4. OrderInv'
  BY <1>1, <1>2 DEF OrderInv, AscendInv, ReachInv, OpenOrderInv, Reached, TakenUp
<1>5. ReaderInv'
  <2>1. CASE ReadArchivedBytes
    BY <2>1 DEF ReadArchivedBytes, ReaderInv
  <2>2. CASE FindArchivedSegment
    <3>1. PICK e \in ToSet(scan_archive(idx)) : reader' = e
      BY <2>2 DEF FindArchivedSegment
    <3>2. /\ e \in Archived /\ e.num \in DOMAIN idx
          /\ \E j \in 1..Len(idx[e.num].entries) :
                idx[e.num].entries[j] = [seq |-> e.seq, off |-> e.off, life |-> e.life]
      <4>1. Directory(idx, Sidecars)
        BY <1>1 DEF Typed
      <4> QED BY <4>1, ScanSet
    <3>3. e.num \in Nat /\ e.off \in Nat
      BY <3>2 DEF Archived
    <3> QED BY <1>2, <3>1, <3>2, <3>3 DEF ReaderInv
  <2> QED BY <2>1, <2>2
<1> QED BY <1>3, <1>4, <1>5 DEF ArchiveInv

-----------------------------------------------------------------------------
\* Every step, and what the archive promises.

LEMMA Step == ArchiveInv /\ [Next]_vars => ArchiveInv'
<1> SUFFICES ASSUME ArchiveInv, [Next]_vars PROVE ArchiveInv'
  OBVIOUS
<1>1. CASE UNCHANGED vars
  <2>1. UNCHANGED <<data, idx, durable, life, offset, cuts, init, cursor, rec, pc, reader, sync_failed,
                 left_idx, left_data>>
    BY <1>1 DEF vars, disk, trunkVars, leftVars
  <2>2. Typed' /\ ControlInv' /\ Reached' = Reached /\ Reached \in Int
    BY <2>1, TypedLemma DEF ArchiveInv, Typed, RecorderTyped, ControlInv, TakenUp, Reached
  <2>3. Reached <= Reached'
    BY <2>2
  <2> QED BY <2>1, <2>2, <2>3, QuietLemma DEF disk
<1>2. CASE CloseSegment \/ SetInit
  BY <1>2, IngestStep
<1>3. CASE ProgrammeChange \/ TakeSegment \/ TakeGap \/ Drained \/ IndexFails \/ Retained
  BY <1>3, MovesStep
<1>4. CASE Poll \/ PollAtPeriodEnd
  BY <1>4, PollStep
<1>5. CASE OpenPeriod
  BY <1>5, OpenPeriodStep
<1>6. CASE WriteHead
  BY <1>6, WriteHeadStep
<1>7. CASE TakeTerminated
  BY <1>7, TakeTerminatedStep
<1>8. CASE WriteSegment
  BY <1>8, WriteSegmentStep
<1>9. CASE WriteFails
  BY <1>9, WriteFailsStep
<1>10. CASE IndexSegment
  BY <1>10, IndexSegmentStep
<1>11. CASE IndexRewritten
  BY <1>11, IndexRewrittenStep
<1>12. CASE EvictIndex
  BY <1>12, EvictIndexStep
<1>13. CASE EvictData
  BY <1>13, EvictDataStep
<1>14. CASE Reconnect
  BY <1>14, ReconnectStep
<1>15. CASE Crash
  BY <1>15, CrashStep
<1>16. CASE FindArchivedSegment \/ ReadArchivedBytes
  BY <1>16, RequestStep
<1> QED BY <1>1, <1>2, <1>3, <1>4, <1>5, <1>6, <1>7, <1>8, <1>9, <1>10, <1>11, <1>12, <1>13,
           <1>14, <1>15, <1>16 DEF Next

\* Whatever the connections, crashes, failed writes and evictions, the archive
\* on disk, the recorder's memory of it and its numbering stay in step: the
\* inductive invariant behind the results below (recorder.rs, catchup.rs).
THEOREM ArchiveInvariant == Spec => []ArchiveInv
<1>1. Init => ArchiveInv
  BY Initial
<1>2. ArchiveInv /\ [Next]_vars => ArchiveInv'
  BY Step
<1> QED BY <1>1, <1>2, PTL DEF Spec

\* What a request finds at a place the invariant vouches for.
LEMMA ReadLemma ==
    ASSUME NEW e, NEW got, got = read_archived_bytes(data, e.num, e.off),
           e.num \in DOMAIN data => PieceAt(data[e.num], e),
           e.num \in DOMAIN data => Len(data[e.num]) \in Nat, e.off \in Nat
    PROVE  \/ got \in {Gone, Short}
           \/ got.life = e.life /\ got.seq = e.seq /\ got.kind = "media"
<1>1. CASE e.num \notin DOMAIN data
  BY <1>1 DEF read_archived_bytes
<1>2. CASE e.num \in DOMAIN data /\ e.off + 1 > Len(data[e.num])
  BY <1>2 DEF read_archived_bytes
<1>3. CASE e.num \in DOMAIN data /\ e.off + 1 <= Len(data[e.num])
  <2>1. got = data[e.num][e.off + 1]
    BY <1>3 DEF read_archived_bytes
  <2> QED BY <1>3, <2>1 DEF PieceAt
<1> QED BY <1>1, <1>2, <1>3

\* Everything that is listed is where the index says it is, if its file is there.
LEMMA ListedLemma ==
    ASSUME ArchiveInv, NEW e \in ToSet(scan_archive(idx))
    PROVE  /\ e.num \in DOMAIN data \cup left_idx /\ e.off \in Nat
           /\ e.num \in DOMAIN data =>
                 /\ Len(data[e.num]) \in Nat /\ PieceAt(data[e.num], e)
                 /\ ~sync_failed => e.off + 1 <= Len(data[e.num])
<1>1. Typed /\ ListedInv /\ DurableInv
  BY DEF ArchiveInv
<1>2. Directory(idx, Sidecars)
  BY <1>1 DEF Typed
<1>3. /\ e \in Archived /\ e.num \in DOMAIN idx
      /\ \E j \in 1..Len(idx[e.num].entries) :
            idx[e.num].entries[j] = [seq |-> e.seq, off |-> e.off, life |-> e.life]
  BY <1>2, ScanSet
<1>4. PICK j \in 1..Len(idx[e.num].entries) :
         idx[e.num].entries[j] = [seq |-> e.seq, off |-> e.off, life |-> e.life]
  BY <1>3
<1> DEFINE x == idx[e.num].entries[j]
<1>5. /\ e.num \in DOMAIN data \cup left_idx
      /\ e.num \in DOMAIN data =>
            PieceAt(data[e.num], x) /\ (~sync_failed => x.off < durable[e.num])
  BY <1>1, <1>3 DEF ListedInv, Describes
<1>6. x.off = e.off /\ x.life = e.life /\ x.seq = e.seq
  BY <1>4
<1> HIDE DEF x
<1>7. e.num \in DOMAIN data => PieceAt(data[e.num], e)
  BY <1>5, <1>6 DEF PieceAt
<1>8. e.off \in Nat
  BY <1>3 DEF Archived
<1>9. ASSUME e.num \in DOMAIN data
      PROVE  Len(data[e.num]) \in Nat /\ (~sync_failed => e.off + 1 <= Len(data[e.num]))
  <2>1. Len(data[e.num]) \in Nat /\ durable[e.num] \in Nat
    BY <1>1, <1>9, TypedLemma
  <2> QED BY <1>1, <1>5, <1>6, <1>8, <1>9, <2>1 DEF DurableInv
<1> QED BY <1>5, <1>7, <1>8, <1>9

\* Catch-up serves what its index says, for ever: a segment is listed only with
\* its file there and its bytes synced, or because its index could not be removed,
\* and a read under an entry, even one taken before the period was evicted or the
\* process died, returns that segment or is refused (find_archived_segment,
\* read_archived_bytes).
THEOREM CatchupSoundHolds == Spec => []CatchupSound
<1>1. ArchiveInv => CatchupSound
  <2> SUFFICES ASSUME ArchiveInv PROVE CatchupSound
    OBVIOUS
  <2>1. Typed /\ ControlInv /\ ListedInv /\ ReaderInv
    BY DEF ArchiveInv
  <2>2. TypeOK
    <3>1. pc.at \in Places
      BY <2>1 DEF Typed
    <3>2. DOMAIN durable = DOMAIN data /\ cursor \in 0..closed /\ init \in 0..MaxInits
      BY <2>1 DEF Typed, closed
    <3> QED BY <2>1, <3>1, <3>2 DEF TypeOK, ControlInv, Places
  <2>3. ASSUME NEW e \in ToSet(scan_archive(idx)) \cup ({reader} \ {NoReader}), NEW got,
               got = read_archived_bytes(data, e.num, e.off)
        PROVE  got \in {Gone, Short} \/ (got.life = e.life /\ got.seq = e.seq)
    <3>1. CASE e \in ToSet(scan_archive(idx))
      <4>1. /\ e.off \in Nat
            /\ e.num \in DOMAIN data => Len(data[e.num]) \in Nat /\ PieceAt(data[e.num], e)
        BY <3>1, ListedLemma
      <4> QED BY <2>3, <4>1, ReadLemma
    <3>2. CASE e = reader /\ reader # NoReader
      <4>1. reader.num \in Nat /\ reader.off \in Nat
        BY <2>1, <3>2 DEF ReaderInv
      <4>2. reader.num \in DOMAIN data => Len(data[reader.num]) \in Nat
        BY <2>1, TypedLemma
      <4>3. reader.num \in DOMAIN data => PieceAt(data[reader.num], reader)
        <5>1. CASE /\ reader.num \in DOMAIN idx
                   /\ \E k \in 1..Len(idx[reader.num].entries) :
                         idx[reader.num].entries[k] =
                             [seq |-> reader.seq, off |-> reader.off, life |-> reader.life]
          <6>1. PICK k \in 1..Len(idx[reader.num].entries) :
                   idx[reader.num].entries[k] =
                       [seq |-> reader.seq, off |-> reader.off, life |-> reader.life]
            BY <5>1
          <6> DEFINE x == idx[reader.num].entries[k]
          <6>2. reader.num \in DOMAIN data => PieceAt(data[reader.num], x)
            BY <2>1, <5>1 DEF ListedInv, Describes
          <6>3. x.off = reader.off /\ x.life = reader.life /\ x.seq = reader.seq
            BY <6>1
          <6> HIDE DEF x
          <6> QED BY <6>2, <6>3 DEF PieceAt
        <5>2. CASE reader.num \in DOMAIN data => PieceAt(data[reader.num], reader)
          BY <5>2
        <5> QED BY <2>1, <3>2, <5>1, <5>2 DEF ReaderInv
      <4>4. got = read_archived_bytes(data, reader.num, reader.off)
        BY <2>3, <3>2
      <4> QED BY <3>2, <4>1, <4>2, <4>3, <4>4, ReadLemma
    <3> QED BY <3>1, <3>2
  <2>4. ServedRight
    BY <2>3 DEF ServedRight
  <2>5. ASSUME NEW e \in ToSet(scan_archive(idx))
        PROVE  e.num \in DOMAIN data \cup left_idx
               /\ (~sync_failed => read_archived_bytes(data, e.num, e.off) # Short)
    <3>1. /\ e.num \in DOMAIN data \cup left_idx /\ e.off \in Nat
          /\ e.num \in DOMAIN data =>
                /\ Len(data[e.num]) \in Nat /\ PieceAt(data[e.num], e)
                /\ ~sync_failed => e.off + 1 <= Len(data[e.num])
      BY ListedLemma
    <3>2. ASSUME ~sync_failed, e.num \in DOMAIN data
          PROVE  read_archived_bytes(data, e.num, e.off) # Short
      <4>1. e.off + 1 <= Len(data[e.num])
        BY <3>1, <3>2
      <4>2. read_archived_bytes(data, e.num, e.off) = data[e.num][e.off + 1]
        BY <3>1, <3>2, <4>1 DEF read_archived_bytes
      <4>3. data[e.num][e.off + 1].kind = "media"
        BY <3>1, <3>2, <4>1 DEF PieceAt
      <4>4. Short.kind = "short"
        BY DEF Short, Torn
      <4> QED BY <4>2, <4>3, <4>4
    <3>3. ASSUME e.num \notin DOMAIN data PROVE read_archived_bytes(data, e.num, e.off) # Short
      BY <3>3 DEF read_archived_bytes, Gone, Short, Torn
    <3> QED BY <3>1, <3>2, <3>3
  <2>6. ListedIsThere
    BY <2>5 DEF ListedIsThere
  <2> QED BY <2>2, <2>4, <2>6 DEF CatchupSound
<1> QED BY <1>1, ArchiveInvariant, PTL

\* A number names one archived segment: over all periods, of every connection
\* and process, the numbers of scan_archive ascend (seq_offset,
\* archive_seq_floor).
THEOREM ArchiveAscendingHolds == Spec => []ArchiveAscending
<1>1. ArchiveInv => ArchiveAscending
  <2> SUFFICES ASSUME ArchiveInv PROVE ArchiveAscending
    OBVIOUS
  <2> DEFINE all == scan_archive(idx)
  <2>1. Directory(idx, Sidecars) /\ AscendInv
    BY DEF ArchiveInv, Typed, OrderInv
  <2>2. all \in Seq(Archived) /\ Len(all) \in Nat
    BY <2>1, ScanLemma, LenProperties
  <2>3. ASSUME NEW k \in 1..Len(all), NEW l \in 1..Len(all), k < l
        PROVE  all[k].seq < all[l].seq
    <3>1. PICK n1, n2, j1, j2 \in Nat :
             /\ Found(all, k, idx, n1, j1) /\ Found(all, l, idx, n2, j2)
             /\ n1 < n2 \/ (n1 = n2 /\ j1 < j2)
      BY <2>1, <2>3, ScanLemma
    <3> HIDE DEF all
    <3>2. /\ n1 \in DOMAIN idx /\ n2 \in DOMAIN idx
          /\ j1 \in 1..Len(idx[n1].entries) /\ j2 \in 1..Len(idx[n2].entries)
          /\ all[k].seq = idx[n1].entries[j1].seq /\ all[l].seq = idx[n2].entries[j2].seq
      BY <3>1 DEF Found, Located
    <3> QED BY <2>1, <3>1, <3>2 DEF AscendInv
  <2> HIDE DEF all
  <2>4. ASSUME NEW k \in 1..(Len(all) - 1) PROVE all[k].seq < all[k + 1].seq
    <3>1. k \in 1..Len(all) /\ k + 1 \in 1..Len(all) /\ k < k + 1
      BY <2>2
    <3> QED BY <2>3, <3>1
  <2> QED BY <2>4 DEF ArchiveAscending, all
<1> QED BY <1>1, ArchiveInvariant, PTL

\* The least of a set that has one.
LEMMA MinOf ==
    ASSUME NEW S \in SUBSET Nat, NEW x \in S, \A y \in S : x <= y
    PROVE  Min(S) = x
<1>1. Min(S) \in S /\ \A y \in S : Min(S) <= y
  BY Zenon DEF Min
<1>2. Min(S) <= x /\ x <= Min(S) /\ Min(S) \in Nat /\ x \in Nat
  BY <1>1
<1> QED BY <1>2

\* What this recorder could not remove is older than its period, and listed only
\* if its index could not be removed either.
LeftInv ==
    /\ ~rec.seeded => left_data = {}
    /\ \A num \in left_data :
          num \in Nat /\ num < rec.period /\ (num \in DOMAIN idx => num \in left_idx)

LEMMA LeftInvStep ==
    ASSUME ArchiveInv, LeftInv, [Next]_vars
    PROVE  LeftInv'
<1>1. Typed /\ ControlInv /\ KnownInv /\ DOMAIN rec = Fields /\ rec.period \in Nat
      /\ \A num \in DOMAIN data : num \in Nat
  BY TypedLemma DEF ArchiveInv, Typed, RecorderTyped
<1>2. CASE EvictIndex
  <2>1. /\ UNCHANGED <<rec, left_data>>
        /\ \A num \in DOMAIN idx' :
              num \in DOMAIN idx /\ (num \in left_idx => num \in left_idx')
    BY <1>2 DEF EvictIndex, WithoutFile
  <2> QED BY <2>1 DEF LeftInv
<1>3. CASE EvictData
  <2> DEFINE h == Head(rec.periods).num
  <2>1. /\ pc.at = "evict" /\ UNCHANGED <<idx, left_idx>> /\ rec' = Forgotten(rec)
        /\ left_data' \in {left_data, left_data \cup {h}}
    BY <1>3 DEF EvictData
  <2>2. rec.seeded /\ rec.periods # <<>> /\ h \notin DOMAIN idx \ left_idx
    BY <1>1, <2>1 DEF ControlInv
  <2>3. h \in Nat /\ h < rec.period
    BY <1>1, <2>2, OldestLemma
  <2>4. rec'.seeded = rec.seeded /\ rec'.period = rec.period
    BY <1>1, <2>1 DEF Forgotten, Fields
  <2> HIDE DEF h
  <2> QED BY <2>1, <2>2, <2>3, <2>4 DEF LeftInv
<1>4. CASE IndexSegment
  <2>1. /\ UNCHANGED <<left_idx, left_data>> /\ DOMAIN idx' = DOMAIN idx \cup {rec.period}
        /\ rec'.seeded = rec.seeded /\ rec'.period = rec.period
    BY <1>1, <1>4 DEF IndexSegment, WithFile, RecorderUnchanged, leftVars, Fields
  <2>2. ASSUME NEW num \in left_data
        PROVE  num \in Nat /\ num < rec.period /\ (num \in DOMAIN idx' => num \in left_idx)
    <3>1. num \in Nat /\ num < rec.period /\ (num \in DOMAIN idx => num \in left_idx)
      BY DEF LeftInv
    <3>2. num # rec.period
      BY <1>1, <3>1
    <3> QED BY <2>1, <3>1, <3>2
  <2> QED BY <2>1, <2>2 DEF LeftInv
<1>5. CASE Reconnect \/ Crash
  <2>1. left_data' = {}
    BY <1>5 DEF Reconnect, Crash, NewConnection
  <2> QED BY <2>1 DEF LeftInv
<1>6. CASE Poll \/ PollAtPeriodEnd
  <2>1. rec' = Seeded /\ UNCHANGED <<idx, left_idx, left_data>>
    BY <1>6 DEF Poll, PollAtPeriodEnd, PollUnchanged, disk, leftVars
  <2>2. CASE rec.seeded
    BY <2>1, <2>2 DEF LeftInv, Seeded
  <2>3. CASE ~rec.seeded
    BY <2>1, <2>3 DEF LeftInv
  <2> QED BY <2>2, <2>3
<1>7. CASE OpenPeriod
  <2>1. rec.seeded /\ UNCHANGED <<idx, left_idx, left_data>>
    BY <1>1, <1>7 DEF OpenPeriod, RecorderUnchanged, leftVars, ControlInv
  <2> DEFINE r == Left(rec)
  <2>2. /\ r = [f \in Fields |-> r[f]] /\ r.seeded = rec.seeded /\ r.period \in Nat
        /\ rec.period <= r.period
    BY <2>1, LeftLemma, LeftFields
  <2>3. rec' = r \/ \E x : rec' = [r EXCEPT !.write_offset = x]
    BY <1>7 DEF OpenPeriod
  <2> HIDE DEF r
  <2>4. rec'.seeded = rec.seeded /\ rec'.period = r.period
    BY <2>2, <2>3 DEF Fields
  <2>5. ASSUME NEW num \in left_data PROVE num < r.period
    <3>1. num \in Nat /\ num < rec.period
      BY DEF LeftInv
    <3> QED BY <1>1, <2>2, <3>1
  <2> QED BY <2>1, <2>4, <2>5 DEF LeftInv
<1>8. CASE \/ UNCHANGED vars
           \/ CloseSegment \/ SetInit \/ ProgrammeChange \/ TakeSegment \/ TakeGap \/ Drained
           \/ IndexFails \/ Retained \/ FindArchivedSegment \/ ReadArchivedBytes
  <2>1. UNCHANGED <<idx, rec, left_idx, left_data>>
    BY <1>8 DEF vars, disk, leftVars, CloseSegment, SetInit, IngestUnchanged, ProgrammeChange,
           PollUnchanged, TakeSegment, TakeGap, Drained, IndexFails, Retained,
           RecorderUnchanged, FindArchivedSegment, ReadArchivedBytes
  <2> QED BY <2>1 DEF LeftInv
<1>9. CASE WriteHead \/ TakeTerminated \/ WriteSegment \/ WriteFails \/ IndexRewritten
  <2>1. UNCHANGED <<left_idx, left_data>> /\ DOMAIN idx' = DOMAIN idx
    BY <1>9 DEF WriteHead, TakeTerminated, WriteSegment, WriteFails, IndexRewritten,
           RecorderUnchanged, leftVars, disk
  <2>2. rec'.seeded = rec.seeded /\ rec'.period = rec.period
    BY <1>1, <1>9 DEF WriteHead, TakeTerminated, WriteSegment, WriteFails, IndexRewritten,
           Opened, Fields
  <2> QED BY <2>1, <2>2 DEF LeftInv
<1> QED BY <1>2, <1>3, <1>4, <1>5, <1>6, <1>7, <1>8, <1>9 DEF Next

LEMMA LeftInvariant == Spec => []LeftInv
<1>1. Init => LeftInv
  BY DEF Init, LeftInv
<1>2. ArchiveInv /\ LeftInv /\ [Next]_vars => LeftInv'
  BY LeftInvStep
<1> QED BY <1>1, <1>2, ArchiveInvariant, PTL DEF Spec

\* The victim is the least of the listed periods not evicted before.
LEMMA VictimLemma ==
    ASSUME ArchiveInv, LeftInv, rec.seeded, rec.periods # <<>>,
           NEW num \in DOMAIN idx \ left_idx
    PROVE  Head(rec.periods).num <= num
<1> DEFINE s == rec.periods
           h == Head(s).num
<1>1. Typed /\ KnownInv /\ ListedInv
  BY DEF ArchiveInv
<1>2. h = s[1].num /\ 1 \in 1..Len(s) /\ h \in Nat /\ h < rec.period
  BY <1>1, OldestLemma
<1> HIDE DEF h
<1>3. num \in DOMAIN data /\ num \in Nat /\ num \notin left_data
  BY <1>1, TypedLemma DEF ListedInv, LeftInv
<1>4. CASE num = rec.period
  BY <1>2, <1>3, <1>4
<1>5. CASE num # rec.period
  <2>1. PICK k \in 1..Len(s) : s[k].num = num
    BY <1>1, <1>3, <1>5 DEF KnownInv
  <2>2. k = 1 \/ 1 < k
    OBVIOUS
  <2>3. 1 < k => s[1].num < s[k].num
    BY <1>1, <1>2, <2>1 DEF KnownInv
  <2> QED BY <1>2, <1>3, <2>1, <2>2, <2>3
<1> QED BY <1>4, <1>5 DEF h

\* An entry leaves the archive only with its whole period, the oldest there is
\* but for those whose index could not be removed in their turn: no crash, torn
\* sidecar, failed write, failed removal, reconnect or later run drops one
\* (append_index_entry, enforce_retention).
THEOREM EntriesOnlyEvictedHolds == Spec => EntriesOnlyEvicted
<1> DEFINE Kept(num) ==
               IF num \in DOMAIN idx'
               THEN IsPrefix(parse_index(idx[num]), parse_index(idx'[num]))
               ELSE num \in left_idx \/ num = Min(DOMAIN idx \ left_idx)
           A == \A num \in DOMAIN idx : Kept(num)
<1>1. ArchiveInv /\ LeftInv /\ [Next]_vars => [A]_idx
  <2> SUFFICES ASSUME ArchiveInv, LeftInv, [Next]_vars, idx' # idx PROVE A
    OBVIOUS
  <2>1. Typed /\ ControlInv /\ KnownInv /\ ListedInv /\ OpenInv
    BY DEF ArchiveInv
  <2>2. ASSUME NEW num \in DOMAIN idx, num \in DOMAIN idx', idx'[num].entries = idx[num].entries
        PROVE  Kept(num)
    <3>1. idx[num].entries \in Seq(Entries) /\ Len(idx[num].entries) \in Nat
      BY <2>1, TypedLemma
    <3>2. IsPrefix(idx[num].entries, idx[num].entries)
      BY <3>1, PrefixLemma
    <3> QED BY <2>2, <3>2 DEF parse_index
  <2>3. CASE IndexSegment
    <3> DEFINE p == rec.period
               side == [torn |-> FALSE, entries |-> rec.index]
    <3>1. pc.at = "index" /\ idx' = WithFile(idx, p, side)
      <4>1. pc.at = "index"
        BY <2>3 DEF IndexSegment
      <4> QED BY <2>3, <4>1, IndexWritten DEF IndexSegment
    <3>2. side.entries = rec.index
      OBVIOUS
    <3> HIDE DEF side
    <3>3. /\ DOMAIN idx' = DOMAIN idx \cup {p} /\ idx'[p] = side
          /\ \A num \in DOMAIN idx : num # p => idx'[num] = idx[num]
      BY <3>1 DEF WithFile
    <3>4. ASSUME p \in DOMAIN idx PROVE Kept(p)
      <4>1. IsPrefix(idx[p].entries, rec.index)
        BY <2>1, <3>1, <3>4 DEF OpenInv, ControlInv
      <4> QED BY <3>2, <3>3, <4>1 DEF parse_index
    <3> HIDE DEF Kept
    <3>5. ASSUME NEW num \in DOMAIN idx, num # p PROVE Kept(num)
      BY <2>2, <3>3, <3>5
    <3> QED BY <3>4, <3>5
  <2>4. CASE IndexRewritten \/ Crash
    <3>1. /\ DOMAIN idx' = DOMAIN idx
          /\ \A num \in DOMAIN idx : idx'[num].entries = idx[num].entries
      <4>1. pc.at = "index" /\ InPlace /\ idx' = [idx EXCEPT ![rec.period].torn = TRUE]
        BY <2>4 DEF IndexRewritten, Crash
      <4>2. rec.period \in DOMAIN idx
        BY <2>1, <4>1 DEF ControlInv, OpenInv, InPlace
      <4> QED BY <2>1, <4>1, <4>2, TornLemma
    <3> HIDE DEF Kept
    <3> QED BY <2>2, <3>1
  <2>5. CASE EvictIndex
    <3> DEFINE h == Head(rec.periods).num
    <3>1. idx' = WithoutFile(idx, h) /\ rec.open /\ rec.seeded /\ rec.periods # <<>>
      BY <2>1, <2>5 DEF EvictIndex, Evicts, ControlInv
    <3>2. \A num \in DOMAIN idx \ left_idx : h <= num
      BY <3>1, VictimLemma
    <3> HIDE DEF h
    <3>3. /\ DOMAIN idx' = DOMAIN idx \ {h}
          /\ \A num \in DOMAIN idx \ {h} : idx'[num] = idx[num]
      BY <3>1 DEF WithoutFile
    <3>4. ASSUME h \in DOMAIN idx, h \notin left_idx PROVE h = Min(DOMAIN idx \ left_idx)
      <4>1. DOMAIN idx \ left_idx \in SUBSET Nat /\ h \in DOMAIN idx \ left_idx
        BY <2>1, <3>4 DEF Typed, Directory
      <4> QED BY <3>2, <4>1, MinOf
    <3>5. ASSUME NEW num \in DOMAIN idx, num # h PROVE Kept(num)
      <4> HIDE DEF Kept
      <4> QED BY <2>2, <3>3, <3>5
    <3>6. ASSUME h \in DOMAIN idx PROVE Kept(h)
      BY <3>3, <3>4, <3>6
    <3> HIDE DEF Kept
    <3> QED BY <3>5, <3>6
  <2>6. IndexSegment \/ IndexRewritten \/ Crash \/ EvictIndex
    BY DEF Next, vars, disk, CloseSegment, SetInit, IngestUnchanged, Poll, PollAtPeriodEnd,
           ProgrammeChange, PollUnchanged, OpenPeriod, WriteHead, TakeSegment, TakeGap,
           TakeTerminated, Drained, WriteSegment, WriteFails, IndexFails, EvictData, Retained,
           Reconnect, FindArchivedSegment, ReadArchivedBytes
  <2> QED BY <2>3, <2>4, <2>5, <2>6
<1>2. Spec => [][A]_idx
  BY <1>1, LeftInvariant, ArchiveInvariant, PTL DEF Spec
<1> QED BY <1>2 DEF EntriesOnlyEvicted

\* Retention sees every file it could remove, those of earlier connections, of
\* crashed processes and of failed rolls included, and so keeps their number
\* bounded.
LEMMA FilesKnown == Spec => [](NoOrphanFiles /\ PeriodsBounded)
<1>1. ArchiveInv => NoOrphanFiles /\ PeriodsBounded
  <2> SUFFICES ASSUME ArchiveInv PROVE NoOrphanFiles /\ PeriodsBounded
    OBVIOUS
  <2> DEFINE s == rec.periods
             n == Len(s)
             T == {s[k].num : k \in 1..n}
  <2>1. Typed /\ KnownInv /\ ControlInv
    BY DEF ArchiveInv
  <2>2. s \in Seq(Periods) /\ n \in Nat
    BY <2>1, TypedLemma DEF Typed, RecorderTyped
  <2>3. ASSUME rec.seeded PROVE DOMAIN data \subseteq T \cup {rec.period} \cup left_data
    BY <2>1, <2>3 DEF KnownInv
  <2>4. T = {p.num : p \in ToSet(s)}
    <3>1. DOMAIN s = 1..n
      BY <2>2, LenProperties
    <3>2. ToSet(s) = {s[k] : k \in 1..n}
      BY <3>1 DEF ToSet
    <3> QED BY <3>2
  <2>5. NoOrphanFiles
    BY <2>3, <2>4 DEF NoOrphanFiles
  <2>6. PeriodsBounded
    <3> SUFFICES ASSUME pc.at = "retain", ~Evicts, retention_periods > 0
                 PROVE  Cardinality(Removable) <= retention_periods + 1
      BY DEF PeriodsBounded
    <3>1. retention_periods \in Nat
      BY LimitsAssumption
    <3>2. n <= retention_periods
      <4>1. CASE s = <<>>
        BY <3>1, <4>1, EmptySeq
      <4>2. CASE s # <<>>
        BY <2>2, <3>1, <4>2 DEF Evicts, OverCount
      <4> QED BY <4>1, <4>2
    <3>3. Removable \subseteq T \cup {rec.period}
      BY <2>1, <2>3 DEF ControlInv, Removable
    <3>4. IsFiniteSet(T) /\ Cardinality(T) <= n /\ Cardinality(T) \in Nat
      <4> DEFINE f == [k \in 1..n |-> s[k].num]
      <4>1. f \in Surjection(1..n, T)
        <5>1. f \in [1..n -> T] /\ \A k \in 1..n : f[k] = s[k].num
          OBVIOUS
        <5>2. \A num \in T : \E k \in 1..n : s[k].num = num
          OBVIOUS
        <5> HIDE DEF f, T, s, n
        <5> QED BY <5>1, <5>2 DEF Surjection
      <4>2. IsFiniteSet(1..n) /\ Cardinality(1..n) = n
        <5>1. n \in Nat
          BY <2>2
        <5> HIDE DEF n
        <5> QED BY <5>1, FS_Interval, SMTT(30)
      <4> HIDE DEF f, T
      <4>3. IsFiniteSet(T) /\ Cardinality(T) <= Cardinality(1..n)
        BY <4>1, <4>2, FS_Surjection
      <4> QED BY <4>2, <4>3, FS_CardinalityType
    <3> HIDE DEF T
    <3> DEFINE U == T \cup {rec.period}
    <3>5. IsFiniteSet(U) /\ Cardinality(U) <= n + 1 /\ Cardinality(U) \in Nat
      <4>1. IsFiniteSet(U) /\ (Cardinality(U) = Cardinality(T) \/ Cardinality(U) = Cardinality(T) + 1)
        BY <3>4, FS_AddElement
      <4> QED BY <2>2, <3>4, <4>1
    <3> HIDE DEF U
    <3>6. Removable \in SUBSET U
      BY <3>3 DEF U
    <3>7. Cardinality(Removable) <= Cardinality(U) /\ Cardinality(Removable) \in Nat
      BY <3>5, <3>6, FS_Subset, FS_CardinalityType
    <3> QED BY <2>2, <3>1, <3>2, <3>5, <3>7
  <2> QED BY <2>5, <2>6
<1> QED BY <1>1, ArchiveInvariant, PTL

-----------------------------------------------------------------------------
\* The account of bytes.

Column(num, n) == {at \in Nat \X Nat : at[1] = num /\ at[2] \in 1..n}

LEMMA ColumnLemma ==
    ASSUME NEW num \in Nat, NEW n \in Nat
    PROVE  IsFiniteSet(Column(num, n)) /\ Cardinality(Column(num, n)) = n
<1> DEFINE C == Column(num, n)
           f == [k \in 1..n |-> <<num, k>>]
<1>1. \A k \in 1..n : <<num, k>> \in C
  BY DEF Column
<1>2. \A at \in C : \E k \in 1..n : at = <<num, k>>
  BY DEF Column
<1> HIDE DEF C
<1>3. f \in [1..n -> C] /\ \A k \in 1..n : f[k] = <<num, k>>
  BY <1>1
<1> HIDE DEF f
<1>4. f \in Injection(1..n, C)
  BY <1>3 DEF Injection, IsInjective
<1>5. f \in Surjection(1..n, C)
  BY <1>2, <1>3 DEF Surjection
<1>6. f \in Bijection(1..n, C)
  BY <1>4, <1>5 DEF Bijection
<1>7. IsFiniteSet(1..n) /\ Cardinality(1..n) = n
  BY FS_Interval
<1>8. ExistsBijection(1..n, C)
  BY <1>6 DEF ExistsBijection
<1> QED BY <1>7, <1>8, FS_Bijection DEF C

\* Two finite sets together.
LEMMA UnionLemma ==
    ASSUME NEW A, IsFiniteSet(A), NEW B, IsFiniteSet(B)
    PROVE  /\ IsFiniteSet(A \cup B) /\ Cardinality(A \cup B) \in Nat
           /\ Cardinality(A) \in Nat /\ Cardinality(B) \in Nat
           /\ Cardinality(A \cup B) <= Cardinality(A) + Cardinality(B)
           /\ A \cap B = {} => Cardinality(A \cup B) = Cardinality(A) + Cardinality(B)
<1>1. /\ IsFiniteSet(A \cup B)
      /\ Cardinality(A \cup B) = Cardinality(A) + Cardinality(B) - Cardinality(A \cap B)
  BY FS_Union
<1>2. IsFiniteSet(A \cap B)
  BY FS_Subset
<1>3. /\ Cardinality(A) \in Nat /\ Cardinality(B) \in Nat /\ Cardinality(A \cap B) \in Nat
      /\ Cardinality(A \cup B) \in Nat
  BY <1>1, <1>2, FS_CardinalityType
<1>4. A \cap B = {} => Cardinality(A \cap B) = 0
  BY FS_EmptySet
<1> QED BY <1>1, <1>3, <1>4

\* No two of the periods have one number.
DistinctNums(periods) ==
    \A k, l \in 1..Len(periods) : k < l => periods[k].num < periods[l].num

LEMMA PeriodsTyped ==
    ASSUME NEW s \in Seq(Periods)
    PROVE  /\ Len(s) \in Nat
           /\ \A k \in 1..Len(s) : s[k].num \in Nat /\ s[k].file_bytes \in Nat
<1>1. \A k \in 1..Len(s) : s[k] \in Periods
  BY ElementOfSeq
<1> QED BY <1>1, LenProperties DEF Periods

LEMMA SlotsAppend ==
    ASSUME NEW s \in Seq(Periods), NEW x \in Periods, IsFiniteSet(Slots(s)),
           \A k \in 1..Len(s) : s[k].num < x.num
    PROVE  /\ IsFiniteSet(Slots(Append(s, x)))
           /\ Cardinality(Slots(Append(s, x))) = Cardinality(Slots(s)) + x.file_bytes
           /\ Cardinality(Slots(s)) \in Nat
<1> DEFINE t == Append(s, x)
           n == Len(s)
           C == Column(x.num, x.file_bytes)
<1>1. /\ n \in Nat /\ x.num \in Nat /\ x.file_bytes \in Nat
      /\ \A k \in 1..n : s[k].num \in Nat /\ s[k].file_bytes \in Nat
  BY PeriodsTyped DEF Periods
<1>2. Len(t) = n + 1 /\ t[n + 1] = x /\ \A k \in 1..n : t[k] = s[k]
  BY AppendProperties
<1> HIDE DEF t
<1>3. Slots(t) = Slots(s) \cup C
  <2>1. \A k \in 1..Len(t) : k \in 1..n \/ k = n + 1
    BY <1>1, <1>2
  <2>2. \A k \in 1..n : k \in 1..Len(t)
    BY <1>1, <1>2
  <2>3. n + 1 \in 1..Len(t)
    BY <1>1, <1>2
  <2>4. ASSUME NEW at \in Slots(t) PROVE at \in Slots(s) \cup C
    <3>1. PICK k \in 1..Len(t) : at[1] = t[k].num /\ at[2] \in 1..t[k].file_bytes
      BY DEF Slots
    <3>2. at \in Nat \X Nat
      BY DEF Slots
    <3>3. CASE k \in 1..n
      BY <1>2, <3>1, <3>2, <3>3 DEF Slots
    <3>4. CASE k = n + 1
      BY <1>2, <3>1, <3>2, <3>4 DEF Column
    <3> QED BY <2>1, <3>3, <3>4
  <2>5. ASSUME NEW at \in Slots(s) PROVE at \in Slots(t)
    <3>1. PICK k \in 1..n : at[1] = s[k].num /\ at[2] \in 1..s[k].file_bytes
      BY DEF Slots
    <3>2. at \in Nat \X Nat /\ k \in 1..Len(t) /\ t[k] = s[k]
      BY <1>2, <2>2 DEF Slots
    <3> QED BY <3>1, <3>2 DEF Slots
  <2>6. ASSUME NEW at \in C PROVE at \in Slots(t)
    BY <1>2, <2>3 DEF Slots, Column
  <2> QED BY <2>4, <2>5, <2>6
<1>4. Slots(s) \cap C = {}
  <2> SUFFICES ASSUME NEW at \in Slots(s), at \in C PROVE FALSE
    OBVIOUS
  <2>1. PICK k \in 1..n : at[1] = s[k].num
    BY DEF Slots
  <2>2. at[1] = x.num
    BY DEF Column
  <2>3. s[k].num < x.num
    OBVIOUS
  <2> QED BY <1>1, <2>1, <2>2, <2>3
<1>5. IsFiniteSet(C) /\ Cardinality(C) = x.file_bytes
  BY <1>1, ColumnLemma
<1> HIDE DEF C
<1>6. /\ IsFiniteSet(Slots(s) \cup C) /\ Cardinality(Slots(s)) \in Nat
      /\ Cardinality(Slots(s) \cup C) = Cardinality(Slots(s)) + Cardinality(C)
  BY <1>4, <1>5, UnionLemma
<1> QED BY <1>3, <1>5, <1>6 DEF t

LEMMA SlotsTail ==
    ASSUME NEW s \in Seq(Periods), s # <<>>, IsFiniteSet(Slots(s)), DistinctNums(s)
    PROVE  /\ IsFiniteSet(Slots(Tail(s)))
           /\ Cardinality(Slots(s)) = Cardinality(Slots(Tail(s))) + Head(s).file_bytes
           /\ Cardinality(Slots(Tail(s))) \in Nat /\ Head(s).file_bytes \in Nat
<1> DEFINE t == Tail(s)
           n == Len(s)
           x == s[1]
           C == Column(x.num, x.file_bytes)
<1>1. n \in Nat /\ \A k \in 1..n : s[k].num \in Nat /\ s[k].file_bytes \in Nat
  BY PeriodsTyped
<1>2. Len(t) = n - 1 /\ \A k \in 1..(n - 1) : t[k] = s[k + 1]
  BY HeadTailProperties
<1>3. Head(s) = x /\ 1 \in 1..n
  <2>1. n # 0
    BY <1>1, EmptySeq
  <2> QED BY <1>1, <2>1
<1>4. x.num \in Nat /\ x.file_bytes \in Nat
  BY <1>1, <1>3
<1> HIDE DEF t, x
<1>5. \A k \in 1..Len(t) : k + 1 \in 1..n /\ 1 < k + 1 /\ t[k] = s[k + 1]
  BY <1>1, <1>2
<1>6. \A k \in 1..n : k = 1 \/ (k - 1 \in 1..Len(t) /\ t[k - 1] = s[k])
  <2> SUFFICES ASSUME NEW k \in 1..n, k # 1 PROVE k - 1 \in 1..Len(t) /\ t[k - 1] = s[k]
    OBVIOUS
  <2>1. k - 1 \in 1..(n - 1) /\ (k - 1) + 1 = k
    BY <1>1
  <2> QED BY <1>2, <2>1
<1>7. Slots(s) = Slots(t) \cup C
  <2>1. ASSUME NEW at \in Slots(s) PROVE at \in Slots(t) \cup C
    <3>1. PICK k \in 1..n : at[1] = s[k].num /\ at[2] \in 1..s[k].file_bytes
      BY DEF Slots
    <3>2. at \in Nat \X Nat
      BY DEF Slots
    <3>3. CASE k = 1
      BY <3>1, <3>2, <3>3 DEF Column, x
    <3>4. CASE k # 1
      <4>1. k - 1 \in 1..Len(t) /\ t[k - 1] = s[k]
        BY <1>6, <3>4
      <4> QED BY <3>1, <3>2, <4>1 DEF Slots
    <3> QED BY <3>3, <3>4
  <2>2. ASSUME NEW at \in Slots(t) PROVE at \in Slots(s)
    <3>1. PICK k \in 1..Len(t) : at[1] = t[k].num /\ at[2] \in 1..t[k].file_bytes
      BY DEF Slots
    <3>2. at \in Nat \X Nat /\ k + 1 \in 1..n /\ t[k] = s[k + 1]
      BY <1>5 DEF Slots
    <3> QED BY <3>1, <3>2 DEF Slots
  <2>3. ASSUME NEW at \in C PROVE at \in Slots(s)
    BY <1>3 DEF Slots, Column, x
  <2> QED BY <2>1, <2>2, <2>3
<1>8. Slots(t) \cap C = {}
  <2> SUFFICES ASSUME NEW at \in Slots(t), at \in C PROVE FALSE
    OBVIOUS
  <2>1. PICK k \in 1..Len(t) : at[1] = t[k].num
    BY DEF Slots
  <2>2. at[1] = x.num
    BY DEF Column
  <2>3. k + 1 \in 1..n /\ 1 < k + 1 /\ t[k] = s[k + 1]
    BY <1>5
  <2>4. x.num < s[k + 1].num
    BY <1>3, <2>3 DEF DistinctNums, x
  <2>5. x.num = s[k + 1].num
    BY <2>1, <2>2, <2>3
  <2> QED BY <1>4, <2>4, <2>5
<1>9. IsFiniteSet(C) /\ Cardinality(C) = x.file_bytes
  BY <1>4, ColumnLemma
<1>10. IsFiniteSet(Slots(t))
  BY <1>7, FS_Subset
<1> HIDE DEF C
<1>11. /\ Cardinality(Slots(t)) \in Nat
       /\ Cardinality(Slots(t) \cup C) = Cardinality(Slots(t)) + Cardinality(C)
  BY <1>8, <1>9, <1>10, UnionLemma
<1> QED BY <1>3, <1>4, <1>7, <1>9, <1>10, <1>11 DEF t

\* The sum of a list, step by step.
SumStep(s, f, k) == IF k = 0 THEN 0 ELSE f[k - 1] + s[k].file_bytes
SumSolves(s, f, n) == f = [k \in 0..n |-> SumStep(s, f, k)]

LEMMA SumExists ==
    ASSUME NEW s, NEW m \in Nat
    PROVE  \E f : SumSolves(s, f, m)
<1> DEFINE N == {n \in Nat : \E f : SumSolves(s, f, n)}
<1>1. 0 \in N
  <2> DEFINE f == [k \in 0..0 |-> 0]
  <2>1. SumSolves(s, f, 0)
    BY DEF SumSolves, SumStep
  <2> HIDE DEF f
  <2> QED BY <2>1
<1>2. ASSUME NEW n \in Nat, n \in N PROVE n + 1 \in N
  <2>1. PICK f : f = [k \in 0..n |-> SumStep(s, f, k)]
    BY <1>2 DEF SumSolves
  <2> DEFINE g == [k \in 0..(n + 1) |-> IF k = n + 1 THEN SumStep(s, f, n + 1) ELSE f[k]]
  <2>2. ASSUME NEW k \in 0..(n + 1) PROVE g[k] = SumStep(s, g, k)
    <3>1. CASE k = 0
      <4>1. 0 \in 0..n /\ 0 # n + 1
        OBVIOUS
      <4>2. f[0] = 0
        BY <2>1, <4>1 DEF SumStep
      <4> QED BY <3>1, <4>1, <4>2 DEF SumStep
    <3>2. CASE k # 0
      <4>1. k - 1 \in 0..n /\ k - 1 \in 0..(n + 1) /\ k - 1 # n + 1
        BY <3>2
      <4>2. g[k - 1] = f[k - 1]
        BY <4>1
      <4>3. SumStep(s, g, k) = SumStep(s, f, k)
        BY <3>2, <4>2 DEF SumStep
      <4>4. CASE k = n + 1
        BY <4>3, <4>4
      <4>5. CASE k # n + 1
        <5>1. k \in 0..n
          BY <4>5
        <5>2. f[k] = SumStep(s, f, k)
          BY <2>1, <5>1
        <5> QED BY <4>3, <4>5, <5>2
      <4> QED BY <4>4, <4>5
    <3> QED BY <3>1, <3>2
  <2>3. SumSolves(s, g, n + 1)
    <3>1. DOMAIN g = 0..(n + 1) /\ g = [k \in 0..(n + 1) |-> g[k]]
      OBVIOUS
    <3> HIDE DEF g
    <3> QED BY <2>2, <3>1 DEF SumSolves
  <2> HIDE DEF g
  <2> QED BY <2>3
<1> HIDE DEF N
<1>3. m \in N
  BY <1>1, <1>2, NatSetInduction
<1> QED BY <1>3 DEF N

\* What seed_from_disk adds up covers every unit of the periods it found.
LEMMA SumLemma ==
    ASSUME NEW s \in Seq(Periods)
    PROVE  /\ SumBytes(s) \in Nat /\ IsFiniteSet(Slots(s))
           /\ Cardinality(Slots(s)) <= SumBytes(s)
<1> DEFINE f == CHOOSE g : SumSolves(s, g, Len(s))
           To(n) == {at \in Nat \X Nat : \E k \in 1..n :
                        at[1] = s[k].num /\ at[2] \in 1..s[k].file_bytes}
           N == {n \in Nat : n <= Len(s) =>
                    /\ f[n] \in Nat /\ IsFiniteSet(To(n)) /\ Cardinality(To(n)) <= f[n]}
<1>1. Len(s) \in Nat /\ \A k \in 1..Len(s) : s[k].num \in Nat /\ s[k].file_bytes \in Nat
  BY PeriodsTyped
<1>2. SumBytes(s) = f[Len(s)]
  BY DEF SumBytes, SumSolves, SumStep
<1>3. f = [k \in 0..Len(s) |-> SumStep(s, f, k)]
  <2>1. SumSolves(s, f, Len(s))
    BY <1>1, SumExists, Zenon
  <2> HIDE DEF f
  <2> QED BY <2>1 DEF SumSolves
<1> HIDE DEF f
<1>4. 0 \in N
  <2>1. f[0] = 0
    BY <1>1, <1>3 DEF SumStep
  <2>2. To(0) = {}
    OBVIOUS
  <2>3. IsFiniteSet(To(0)) /\ Cardinality(To(0)) = 0
    <3> HIDE DEF To
    <3> QED BY <2>2, FS_EmptySet
  <2> HIDE DEF To
  <2> QED BY <2>1, <2>3
<1>5. ASSUME NEW n \in Nat, n \in N PROVE n + 1 \in N
  <2> SUFFICES ASSUME n + 1 <= Len(s)
               PROVE  /\ f[n + 1] \in Nat /\ IsFiniteSet(To(n + 1))
                      /\ Cardinality(To(n + 1)) <= f[n + 1]
    <3> HIDE DEF To
    <3> QED OBVIOUS
  <2> DEFINE x == s[n + 1]
             C == Column(x.num, x.file_bytes)
  <2>1. f[n] \in Nat /\ IsFiniteSet(To(n)) /\ Cardinality(To(n)) <= f[n]
    BY <1>1, <1>5
  <2>2. n + 1 \in 1..Len(s) /\ x.num \in Nat /\ x.file_bytes \in Nat
    BY <1>1
  <2>3. f[n + 1] = f[n] + x.file_bytes
    <3>1. n + 1 \in 0..Len(s) /\ n + 1 # 0 /\ (n + 1) - 1 = n
      BY <1>1
    <3>2. f[n + 1] = SumStep(s, f, n + 1)
      BY <1>3, <3>1
    <3> QED BY <3>1, <3>2 DEF SumStep
  <2>4. To(n + 1) = To(n) \cup C
    <3>1. \A k \in 1..(n + 1) : k \in 1..n \/ k = n + 1
      OBVIOUS
    <3>2. ASSUME NEW at \in To(n + 1) PROVE at \in To(n) \cup C
      <4>1. PICK k \in 1..(n + 1) : at[1] = s[k].num /\ at[2] \in 1..s[k].file_bytes
        OBVIOUS
      <4>2. CASE k \in 1..n
        BY <4>1, <4>2
      <4>3. CASE k = n + 1
        BY <4>1, <4>3 DEF Column
      <4> QED BY <3>1, <4>2, <4>3
    <3>3. ASSUME NEW at \in To(n) PROVE at \in To(n + 1)
      <4>1. \A k \in 1..n : k \in 1..(n + 1)
        OBVIOUS
      <4> QED BY <4>1
    <3>4. ASSUME NEW at \in C PROVE at \in To(n + 1)
      <4>1. n + 1 \in 1..(n + 1)
        OBVIOUS
      <4> QED BY <4>1 DEF Column
    <3> HIDE DEF To, C
    <3> QED BY <3>2, <3>3, <3>4
  <2>5. IsFiniteSet(C) /\ Cardinality(C) = x.file_bytes
    BY <2>2, ColumnLemma
  <2> HIDE DEF To, C, x
  <2>6. /\ IsFiniteSet(To(n) \cup C) /\ Cardinality(To(n) \cup C) \in Nat
        /\ Cardinality(To(n)) \in Nat
        /\ Cardinality(To(n) \cup C) <= Cardinality(To(n)) + Cardinality(C)
    BY <2>1, <2>5, UnionLemma
  <2>7. f[n + 1] \in Nat
    BY <2>1, <2>2, <2>3
  <2>8. Cardinality(To(n) \cup C) <= f[n + 1]
    BY <2>1, <2>2, <2>3, <2>5, <2>6
  <2> QED BY <2>4, <2>6, <2>7, <2>8
<1>6. Slots(s) = To(Len(s))
  BY DEF Slots
<1> HIDE DEF N
<1>7. Len(s) \in N
  BY <1>1, <1>4, <1>5, NatSetInduction
<1> QED BY <1>1, <1>2, <1>6, <1>7 DEF N

\* What is whole in a file to which something is added.
LEMMA WithinLemma ==
    ASSUME NEW s \in Seq(Pieces), NEW x \in Pieces, NEW n \in Nat, Within(s, n)
    PROVE  /\ Within(s, Len(s)) /\ Within(Append(s, x), Len(s) + 1)
           /\ Within(Append(s, Torn), n)
<1>1. Len(s) \in Nat /\ Torn \in Pieces
  BY LenProperties DEF Torn, Pieces
<1>2. /\ Len(Append(s, x)) = Len(s) + 1
      /\ Len(Append(s, Torn)) = Len(s) + 1 /\ Append(s, Torn)[Len(s) + 1] = Torn
      /\ \A k \in 1..Len(s) : Append(s, Torn)[k] = s[k]
  BY <1>1, AppendProperties
<1>3. Within(s, Len(s)) /\ Within(Append(s, x), Len(s) + 1)
  BY <1>1, <1>2 DEF Within
<1>4. Within(Append(s, Torn), n)
  <2> SUFFICES ASSUME NEW k \in 1..(Len(s) + 1), Append(s, Torn)[k] # Torn PROVE k <= n
    BY <1>2 DEF Within
  <2>1. k \in 1..Len(s)
    BY <1>1, <1>2
  <2> QED BY <1>2, <2>1 DEF Within
<1> QED BY <1>3, <1>4

\* A step that touches neither a data file nor the account.
LEMMA AccountQuiet ==
    ASSUME BytesInv, data' = data, rec'.seeded = rec.seeded, rec'.period = rec.period,
           rec'.periods = rec.periods, rec'.total_bytes = rec.total_bytes,
           rec'.write_offset = rec.write_offset, pc'.at = "head" => pc.at = "head"
    PROVE  BytesInv'
<1>1. ASSUME rec.seeded PROVE Account(rec', data')
  BY <1>1 DEF BytesInv, Account
<1> QED BY <1>1 DEF BytesInv

LEMMA QuietBytes ==
    ASSUME ArchiveInv, BytesInv,
           \/ UNCHANGED vars \/ CloseSegment \/ SetInit \/ ProgrammeChange \/ TakeSegment \/ TakeGap
           \/ TakeTerminated \/ Drained \/ IndexSegment \/ IndexRewritten \/ IndexFails
           \/ EvictIndex \/ Retained \/ FindArchivedSegment \/ ReadArchivedBytes
    PROVE  BytesInv'
<1>1. DOMAIN rec = Fields
  BY TypedLemma DEF ArchiveInv
<1>2. data' = data
  BY DEF vars, disk, CloseSegment, SetInit, IngestUnchanged, ProgrammeChange, PollUnchanged,
         TakeSegment, TakeGap, TakeTerminated, Drained, IndexSegment, IndexRewritten, IndexFails,
         EvictIndex, Retained, FindArchivedSegment, ReadArchivedBytes, EvictionUnchanged
<1>3. /\ rec'.seeded = rec.seeded /\ rec'.period = rec.period /\ rec'.periods = rec.periods
      /\ rec'.total_bytes = rec.total_bytes /\ rec'.write_offset = rec.write_offset
  <2>1. \/ rec' = rec \/ rec' = [rec EXCEPT !.terminated = TRUE, !.open = FALSE]
        \/ rec' = [rec EXCEPT !.index_file = TRUE] \/ rec' = [rec EXCEPT !.index_file = FALSE]
    BY DEF vars, CloseSegment, SetInit, IngestUnchanged, ProgrammeChange,
           TakeSegment, TakeGap, TakeTerminated, Drained, IndexSegment, IndexRewritten, IndexFails,
           EvictIndex, Retained, FindArchivedSegment, ReadArchivedBytes
  <2> QED BY <1>1, <2>1 DEF Fields
<1>4. pc'.at = "head" => pc.at = "head"
  BY DEF vars, CloseSegment, SetInit, IngestUnchanged, ProgrammeChange, Roll, At,
         TakeSegment, TakeGap, TakeTerminated, Drained, IndexSegment, IndexRewritten, IndexFails,
         EvictIndex, Retained, FindArchivedSegment, ReadArchivedBytes
<1> QED BY <1>2, <1>3, <1>4, AccountQuiet

LEMMA NoSlots == IsFiniteSet(Slots(<<>>)) /\ Cardinality(Slots(<<>>)) = 0
<1>1. Slots(<<>>) = {}
  BY EmptySeq DEF Slots
<1> QED BY <1>1, FS_EmptySet

\* A recorder that has looked at the disk charges each file its length.
LEMMA AdoptedBytes ==
    ASSUME Typed, rec = FreshRecorder
    PROVE  Account(Adopted(rec), data)
<1> DEFINE D == DOMAIN data
           nums == Ascending(D)
           periods == [k \in 1..Len(nums) |-> [num |-> nums[k], file_bytes |-> Len(data[nums[k]])]]
           top == Max(D \cup DOMAIN idx)
           r == Adopted(rec)
<1>1. D \in SUBSET Nat /\ IsFiniteSet(D)
  BY DEF Typed, Directory
<1>3. /\ r.periods \in Seq(Periods) /\ r.period \in Nat
      /\ \A num \in DOMAIN data : num < r.period
  BY AdoptedLemma
<1>4. r = IF D \cup DOMAIN idx = {} THEN [FreshRecorder EXCEPT !.seeded = TRUE]
          ELSE [FreshRecorder EXCEPT !.seeded = TRUE, !.period = top + 1, !.periods = periods,
                                     !.total_bytes = SumBytes(periods)]
  BY DEF Adopted
<1> HIDE DEF r, top, nums
<1>5. r.period \notin DOMAIN data
  BY <1>1, <1>3
<1>6. CASE D \cup DOMAIN idx = {}
  <2>1. r.periods = <<>> /\ r.total_bytes = 0
    BY <1>4, <1>6 DEF FreshRecorder
  <2>2. 1..Len(r.periods) = {}
    BY <2>1, EmptySeq
  <2> QED BY <1>5, <2>1, <2>2, NoSlots DEF Account, r
<1>7. CASE D \cup DOMAIN idx # {}
  <2>1. r.periods = periods /\ r.total_bytes = SumBytes(periods)
    BY <1>4, <1>7 DEF FreshRecorder
  <2>2. ASSUME NEW k \in 1..Len(r.periods), r.periods[k].num \in DOMAIN data
        PROVE  Within(data[r.periods[k].num], r.periods[k].file_bytes)
    <3>1. Len(nums) \in Nat
      BY <1>1, AscendingLists DEF nums
    <3>2. Len(periods) = Len(nums)
      BY <3>1
    <3>3. k \in 1..Len(nums) /\ r.periods[k].num = nums[k]
          /\ r.periods[k].file_bytes = Len(data[nums[k]])
      BY <2>1, <3>1, <3>2
    <3>4. Len(data[nums[k]]) \in Nat
      BY <2>2, <3>3, TypedLemma
    <3> QED BY <3>3, <3>4 DEF Within
  <2>3. /\ SumBytes(r.periods) \in Nat /\ IsFiniteSet(Slots(r.periods))
        /\ Cardinality(Slots(r.periods)) <= SumBytes(r.periods)
    BY <1>3, SumLemma
  <2>4. r.total_bytes = SumBytes(r.periods)
    BY <2>1
  <2> HIDE DEF periods
  <2> QED BY <1>5, <2>2, <2>3, <2>4 DEF Account, r
<1> QED BY <1>6, <1>7

LEMMA PollBytes ==
    ASSUME ArchiveInv, BytesInv, Poll \/ PollAtPeriodEnd
    PROVE  BytesInv'
<1>1. rec' = Seeded /\ data' = data /\ pc'.at # "head"
  BY DEF Poll, PollAtPeriodEnd, PollUnchanged, disk, Roll, At
<1>2. CASE rec.seeded
  BY <1>1, <1>2, AccountQuiet DEF Seeded
<1>3. CASE ~rec.seeded
  <2>1. Typed /\ rec = FreshRecorder /\ rec' = Adopted(rec)
    BY <1>1, <1>3 DEF ArchiveInv, KnownInv, Seeded
  <2> QED BY <1>1, <2>1, AdoptedBytes DEF BytesInv
<1> QED BY <1>2, <1>3

\* The period left goes on the account with what was written to it.
LEMMA LeftBytes ==
    ASSUME ArchiveInv, BytesInv, rec.seeded
    PROVE  LET r == Left(rec)
           IN  /\ Account(r, data)
               /\ r.period \in DOMAIN data => r.period = rec.period
<1> DEFINE r == Left(rec)
           s == rec.periods
           n == Len(s)
           x == [num |-> rec.period, file_bytes |-> rec.write_offset]
<1>1. Typed /\ KnownInv /\ Account(rec, data)
  BY DEF ArchiveInv, BytesInv
<1>2. /\ DOMAIN rec = Fields /\ rec.period \in Nat /\ rec.write_offset \in Nat
      /\ s \in Seq(Periods) /\ n \in Nat /\ x \in Periods
      /\ \A num \in DOMAIN data : num \in Nat /\ num <= rec.period
      /\ \A k \in 1..n : s[k].num < rec.period
  BY <1>1, TypedLemma DEF Typed, RecorderTyped, Periods, KnownInv
<1>3. CASE rec.index # <<>> \/ rec.write_offset > 0
  <2> DEFINE t == Append(s, x)
  <2>1. r = [rec EXCEPT !.open = FALSE, !.period = rec.period + 1,
                        !.total_bytes = rec.total_bytes + rec.write_offset, !.periods = t]
    BY <1>2, <1>3 DEF Left, Fields
  <2>2. r.period = rec.period + 1 /\ r.periods = t
        /\ r.total_bytes = rec.total_bytes + rec.write_offset
    <3> HIDE DEF r, t
    <3> QED BY <1>2, <2>1 DEF Fields
  <2>3. x.num = rec.period /\ x.file_bytes = rec.write_offset
    OBVIOUS
  <2> HIDE DEF r, x
  <2>4. Len(t) = n + 1 /\ t[n + 1] = x /\ \A k \in 1..n : t[k] = s[k]
    BY <1>2, AppendProperties
  <2>5. /\ rec.total_bytes \in Nat /\ IsFiniteSet(Slots(s))
        /\ Cardinality(Slots(s)) <= rec.total_bytes
        /\ rec.period \in DOMAIN data => Within(data[rec.period], rec.write_offset)
        /\ \A k \in 1..n : s[k].num \in DOMAIN data => Within(data[s[k].num], s[k].file_bytes)
    BY <1>1 DEF Account
  <2>6. \A k \in 1..n : s[k].num < x.num
    BY <1>2, <2>3
  <2>7. /\ IsFiniteSet(Slots(t)) /\ Cardinality(Slots(s)) \in Nat
        /\ Cardinality(Slots(t)) = Cardinality(Slots(s)) + x.file_bytes
    BY <1>2, <2>5, <2>6, SlotsAppend
  <2> HIDE DEF t
  <2>8. r.total_bytes \in Nat /\ Cardinality(Slots(t)) <= r.total_bytes
    BY <1>2, <2>2, <2>3, <2>5, <2>7
  <2>9. r.period \notin DOMAIN data
    BY <1>2, <2>2
  <2>10. ASSUME NEW k \in 1..Len(t), t[k].num \in DOMAIN data
         PROVE  Within(data[t[k].num], t[k].file_bytes)
    <3>1. k \in 1..n \/ k = n + 1
      BY <1>2, <2>4
    <3> QED BY <2>3, <2>4, <2>5, <2>10, <3>1
  <2> QED BY <2>2, <2>7, <2>8, <2>9, <2>10 DEF Account, r
<1>4. CASE ~(rec.index # <<>> \/ rec.write_offset > 0)
  <2>1. r = [rec EXCEPT !.open = FALSE]
    BY <1>4 DEF Left
  <2> HIDE DEF r
  <2>2. r.period = rec.period /\ r.periods = s /\ r.total_bytes = rec.total_bytes
        /\ r.write_offset = rec.write_offset
    BY <1>2, <2>1 DEF Fields
  <2> QED BY <1>1, <2>2 DEF Account, r
<1> QED BY <1>3, <1>4

LEMMA OpenPeriodBytes ==
    ASSUME ArchiveInv, BytesInv, OpenPeriod
    PROVE  BytesInv'
<1> DEFINE r == Left(rec)
           p == r.period
           exists == p \in DOMAIN data
<1>1. Typed /\ pc.at = "roll" /\ rec.seeded
  BY DEF ArchiveInv, OpenPeriod, ControlInv
<1>2. /\ Account(r, data) /\ p \in Nat /\ r.periods \in Seq(Periods)
      /\ \A k \in 1..Len(r.periods) : r.periods[k].num < p
      /\ DOMAIN r = Fields
  BY <1>1, LeftBytes, LeftLemma
<1>3. \/ /\ data' = IF exists THEN data ELSE WithFile(data, p, <<>>)
         /\ rec' = [r EXCEPT !.write_offset = IF exists THEN Len(data[p]) ELSE 0]
         /\ pc'.at = "head"
      \/ rec' = r /\ pc'.at = "idle" /\ data' = data
  <2>1. DOMAIN pc = {"at", "ret", "with"}
    BY <1>1 DEF Typed
  <2> QED BY <2>1 DEF OpenPeriod, At
<1> HIDE DEF r
<1>4. CASE rec' = r /\ pc'.at = "idle" /\ data' = data
  BY <1>2, <1>4 DEF BytesInv
<1>5. CASE /\ data' = IF exists THEN data ELSE WithFile(data, p, <<>>)
           /\ rec' = [r EXCEPT !.write_offset = IF exists THEN Len(data[p]) ELSE 0]
           /\ pc'.at = "head"
  <2>1. /\ rec'.period = p /\ rec'.periods = r.periods /\ rec'.total_bytes = r.total_bytes
        /\ rec'.write_offset = IF exists THEN Len(data[p]) ELSE 0
    BY <1>2, <1>5 DEF Fields
  <2>2. /\ p \in DOMAIN data' /\ rec'.write_offset = Len(data'[p])
        /\ Len(data'[p]) \in Nat
        /\ \A num \in DOMAIN data' : num # p => num \in DOMAIN data /\ data'[num] = data[num]
    <3>1. CASE exists
      <4>1. data' = data /\ Len(data[p]) \in Nat
        BY <1>1, <1>5, <3>1, TypedLemma
      <4> QED BY <2>1, <3>1, <4>1
    <3>2. CASE ~exists
      <4>1. data' = WithFile(data, p, <<>>)
        BY <1>5, <3>2
      <4>2. /\ p \in DOMAIN data' /\ data'[p] = <<>>
            /\ \A num \in DOMAIN data' : num # p => num \in DOMAIN data /\ data'[num] = data[num]
        BY <4>1 DEF WithFile
      <4> QED BY <2>1, <3>2, <4>2, EmptySeq
    <3> QED BY <3>1, <3>2
  <2>3. Within(data'[p], rec'.write_offset)
    BY <2>2 DEF Within
  <2>4. ASSUME NEW k \in 1..Len(r.periods), r.periods[k].num \in DOMAIN data'
        PROVE  Within(data'[r.periods[k].num], r.periods[k].file_bytes)
    <3>1. r.periods[k].num # p
      <4>1. r.periods[k].num \in Nat
        BY <1>2, PeriodsTyped
      <4> QED BY <1>2, <4>1
    <3>2. r.periods[k].num \in DOMAIN data /\ data'[r.periods[k].num] = data[r.periods[k].num]
      BY <2>2, <2>4, <3>1
    <3> QED BY <1>2, <3>2 DEF Account
  <2>5. /\ r.total_bytes \in Nat /\ IsFiniteSet(Slots(r.periods))
        /\ Cardinality(Slots(r.periods)) <= r.total_bytes
    BY <1>2 DEF Account
  <2>6. Account(rec', data')
    BY <2>1, <2>3, <2>4, <2>5 DEF Account
  <2> QED BY <2>1, <2>2, <2>6 DEF BytesInv
<1> QED BY <1>3, <1>4, <1>5

\* A step that adds to the current file, and accounts for it.
LEMMA WrittenBytes ==
    ASSUME ArchiveInv, BytesInv, rec.seeded, rec.period \in DOMAIN data, pc'.at # "head",
           DOMAIN data' = DOMAIN data,
           \A num \in DOMAIN data : num # rec.period => data'[num] = data[num],
           rec'.period = rec.period, rec'.periods = rec.periods,
           rec'.total_bytes = rec.total_bytes,
           Within(data'[rec.period], rec'.write_offset)
    PROVE  BytesInv'
<1>1. Typed /\ KnownInv /\ Account(rec, data)
  BY DEF ArchiveInv, BytesInv
<1>2. \A k \in 1..Len(rec.periods) : rec.periods[k].num # rec.period
  <2>1. rec.period \in Nat /\ \A k \in 1..Len(rec.periods) : rec.periods[k].num \in Nat
    BY <1>1, TypedLemma DEF Typed, RecorderTyped
  <2> QED BY <1>1, <2>1 DEF KnownInv
<1>3. \A k \in 1..Len(rec.periods) : rec.periods[k].num \in DOMAIN data =>
         Within(data'[rec.periods[k].num], rec.periods[k].file_bytes)
  BY <1>1, <1>2 DEF Account
<1>4. /\ rec.total_bytes \in Nat /\ IsFiniteSet(Slots(rec.periods))
      /\ Cardinality(Slots(rec.periods)) <= rec.total_bytes
  BY <1>1 DEF Account
<1>5. Account(rec', data')
  BY <1>3, <1>4 DEF Account
<1> QED BY <1>5 DEF BytesInv

LEMMA WriteBytes ==
    ASSUME ArchiveInv, BytesInv, WriteHead \/ WriteSegment \/ WriteFails
    PROVE  BytesInv'
<1> DEFINE p == rec.period
           file == data[p]
<1>1. Typed /\ ControlInv /\ DOMAIN rec = Fields
  BY TypedLemma DEF ArchiveInv
<1>2. pc.at \in {"head", "write"} /\ rec.seeded /\ p \in DOMAIN data
  BY <1>1 DEF ControlInv, WriteHead, WriteSegment, WriteFails
<1>3. /\ file \in Seq(Pieces) /\ Len(file) \in Nat /\ rec.write_offset \in Nat
      /\ Within(file, rec.write_offset)
  BY <1>1, <1>2, TypedLemma DEF Typed, RecorderTyped, BytesInv, Account
<1>4. pc \in [at : Places, ret : {"idle", "drain", "write"}, with : Nat]
  BY <1>1 DEF Typed
<1>5. Torn \in Pieces /\ InitPiece(pc.with) \in Pieces
  BY <1>4 DEF Torn, InitPiece, Pieces
<1>6. /\ Within(file, Len(file)) /\ Within(Append(file, Torn), rec.write_offset)
      /\ \A x \in Pieces : Within(Append(file, x), Len(file) + 1)
      /\ Within(Append(file, Torn), Len(file))
  <2>1. Within(file, Len(file))
    BY <1>3, <1>5, WithinLemma
  <2> QED BY <1>3, <1>5, <2>1, WithinLemma
<1>7. ASSUME NEW x, data' = [data EXCEPT ![p] = Append(file, x)]
      PROVE  /\ DOMAIN data' = DOMAIN data /\ data'[p] = Append(file, x)
             /\ \A num \in DOMAIN data : num # p => data'[num] = data[num]
  BY <1>1, <1>2, <1>7 DEF Typed, Directory
<1>8. CASE WriteHead
  <2>1. pc.at = "head" /\ rec.write_offset = Len(file)
    BY <1>8 DEF WriteHead, BytesInv
  <2>2. pc'.at # "head"
    BY <1>4, <1>8 DEF WriteHead, At
  <2>3. CASE /\ WritesHead /\ data' = [data EXCEPT ![p] = Append(file, InitPiece(pc.with))]
             /\ rec' = Opened([rec EXCEPT !.write_offset = 1, !.last_init = pc.with])
    <3>1. /\ rec'.period = p /\ rec'.periods = rec.periods /\ rec'.total_bytes = rec.total_bytes
          /\ rec'.write_offset = 1
      BY <1>1, <2>3 DEF Opened, Fields
    <3>2. Within(data'[p], rec'.write_offset)
      <4>1. Len(file) + 1 = 1
        BY <2>1, <2>3 DEF WritesHead
      <4> QED BY <1>5, <1>6, <1>7, <2>3, <3>1, <4>1
    <3> QED BY <1>2, <1>7, <2>2, <2>3, <3>1, <3>2, WrittenBytes
  <2>4. CASE data' = data /\ rec' = Opened(rec)
    <3>1. /\ rec'.period = p /\ rec'.periods = rec.periods /\ rec'.total_bytes = rec.total_bytes
          /\ rec'.write_offset = rec.write_offset
      BY <1>1, <2>4 DEF Opened, Fields
    <3> QED BY <1>2, <1>3, <2>2, <2>4, <3>1, WrittenBytes
  <2>5. CASE data' = [data EXCEPT ![p] = Append(file, Torn)] /\ rec' = rec
    BY <1>2, <1>6, <1>7, <2>2, <2>5, WrittenBytes
  <2> QED BY <1>8, <2>3, <2>4, <2>5 DEF WriteHead
<1>9. CASE WriteSegment
  <2>1. /\ data' = [data EXCEPT ![p] = Append(file, Segment)] /\ pc'.at # "head"
        /\ pc.at = "write"
    BY <1>9 DEF WriteSegment, At
  <2>2. Segment \in Pieces
    <3>1. cursor \in 1..Len(cuts) /\ cuts \in Seq(Nat) /\ offset + cursor \in Nat /\ life \in Nat
      <4>1. cursor > 0
        BY <1>1, <2>1 DEF ControlInv, TakenUp
      <4> QED BY <1>1, <4>1, TypedLemma DEF Typed
    <3>2. cuts[cursor] \in Nat
      BY <3>1, ElementOfSeq
    <3> QED BY <3>1, <3>2 DEF Segment, MediaPiece, Pieces
  <2>3. /\ rec'.period = p /\ rec'.periods = rec.periods /\ rec'.total_bytes = rec.total_bytes
        /\ rec'.write_offset = Len(file) + 1
    BY <1>1, <1>9 DEF WriteSegment, byte_offset, Fields
  <2>4. Within(data'[p], rec'.write_offset)
    BY <1>6, <1>7, <2>1, <2>2, <2>3
  <2> QED BY <1>2, <1>7, <2>1, <2>3, <2>4, WrittenBytes
<1>10. CASE WriteFails
  <2>1. /\ data' = data \/ data' = [data EXCEPT ![p] = Append(file, Torn)]
        /\ pc'.at # "head"
    BY <1>10 DEF WriteFails, At
  <2>2. /\ rec'.period = p /\ rec'.periods = rec.periods /\ rec'.total_bytes = rec.total_bytes
        /\ rec'.write_offset = Len(file)
    BY <1>1, <1>10 DEF WriteFails, byte_offset, Fields
  <2>3. Within(data'[p], rec'.write_offset)
    BY <1>6, <1>7, <2>1, <2>2
  <2> QED BY <1>2, <1>7, <2>1, <2>2, <2>3, WrittenBytes
<1> QED BY <1>8, <1>9, <1>10

\* The oldest period goes, with what it was charged.
LEMMA EvictDataBytes ==
    ASSUME ArchiveInv, BytesInv, EvictData
    PROVE  BytesInv'
<1> DEFINE s == rec.periods
           t == Tail(s)
           h == Head(s).num
           b == Head(s).file_bytes
           left == Max({0, rec.total_bytes - b})
<1>1. Typed /\ ControlInv /\ KnownInv /\ DOMAIN rec = Fields
  BY TypedLemma DEF ArchiveInv
<1>2. /\ pc.at = "evict" /\ pc'.at = "retain"
      /\ data' = WithoutFile(data, h) \/ data' = data
      /\ rec' = [rec EXCEPT !.periods = t, !.total_bytes = left]
  BY <1>1 DEF EvictData, Forgotten, At, Fields
<1>3. rec.open /\ rec.seeded /\ s # <<>> /\ s \in Seq(Periods) /\ Len(s) \in Nat
  BY <1>1, <1>2, TypedLemma DEF ControlInv, Typed, RecorderTyped
<1>4. Account(rec, data) /\ DistinctNums(s)
  BY <1>1, <1>3 DEF BytesInv, KnownInv, DistinctNums
<1>5. /\ rec'.period = rec.period /\ rec'.write_offset = rec.write_offset
      /\ rec'.periods = t /\ rec'.total_bytes = left
  <2> HIDE DEF left, t
  <2> QED BY <1>1, <1>2 DEF Fields
<1>6. /\ IsFiniteSet(Slots(t)) /\ Cardinality(Slots(t)) \in Nat /\ b \in Nat
      /\ Cardinality(Slots(s)) = Cardinality(Slots(t)) + b
  BY <1>3, <1>4, SlotsTail DEF Account
<1>7. /\ rec.total_bytes \in Nat /\ Cardinality(Slots(s)) <= rec.total_bytes
      /\ rec.period \in DOMAIN data => Within(data[rec.period], rec.write_offset)
      /\ \A k \in 1..Len(s) : s[k].num \in DOMAIN data => Within(data[s[k].num], s[k].file_bytes)
  BY <1>4 DEF Account
<1> HIDE DEF b, h
<1>8. left \in Nat /\ Cardinality(Slots(t)) <= left
  <2> DEFINE d == rec.total_bytes - b
  <2>1. d \in Nat /\ Cardinality(Slots(t)) <= d
    BY <1>6, <1>7
  <2> HIDE DEF d
  <2>2. {0, d} \in SUBSET Nat /\ IsFiniteSet({0, d}) /\ {0, d} # {}
    <3>1. IsFiniteSet({0}) /\ {0, d} = {0} \cup {d}
      BY FS_Singleton
    <3> QED BY <2>1, <3>1, FS_AddElement
  <2>3. Max({0, d}) \in Nat /\ d <= Max({0, d})
    BY <2>2, MaxOf
  <2> QED BY <1>6, <2>1, <2>3 DEF d
<1>9. \A num \in DOMAIN data' : num \in DOMAIN data /\ data'[num] = data[num]
  BY <1>2 DEF WithoutFile
<1>10. Len(t) = Len(s) - 1 /\ \A k \in 1..(Len(s) - 1) : t[k] = s[k + 1]
  BY <1>3, HeadTailProperties
<1> HIDE DEF t, left
<1>11. ASSUME NEW k \in 1..Len(t), t[k].num \in DOMAIN data'
       PROVE  Within(data'[t[k].num], t[k].file_bytes)
  <2>1. k + 1 \in 1..Len(s) /\ t[k] = s[k + 1]
    BY <1>3, <1>10
  <2> QED BY <1>7, <1>9, <1>11, <2>1
<1>12. rec.period \in DOMAIN data' => Within(data'[rec.period], rec.write_offset)
  BY <1>7, <1>9
<1>13. Account(rec', data')
  BY <1>5, <1>6, <1>8, <1>11, <1>12 DEF Account
<1> QED BY <1>2, <1>13 DEF BytesInv

LEMMA BytesStep == ArchiveInv /\ BytesInv /\ [Next]_vars => BytesInv'
<1> SUFFICES ASSUME ArchiveInv, BytesInv, [Next]_vars PROVE BytesInv'
  OBVIOUS
<1>1. CASE \/ UNCHANGED vars \/ CloseSegment \/ SetInit \/ ProgrammeChange \/ TakeSegment \/ TakeGap
           \/ TakeTerminated \/ Drained \/ IndexSegment \/ IndexRewritten \/ IndexFails
           \/ EvictIndex \/ Retained \/ FindArchivedSegment \/ ReadArchivedBytes
  BY <1>1, QuietBytes
<1>2. CASE Poll \/ PollAtPeriodEnd
  BY <1>2, PollBytes
<1>3. CASE OpenPeriod
  BY <1>3, OpenPeriodBytes
<1>4. CASE WriteHead \/ WriteSegment \/ WriteFails
  BY <1>4, WriteBytes
<1>5. CASE EvictData
  BY <1>5, EvictDataBytes
<1>6. CASE Reconnect \/ Crash
  <2>1. rec' = FreshRecorder /\ pc' = At("idle")
    BY <1>6 DEF Reconnect, Crash, NewConnection
  <2>2. rec'.seeded = FALSE /\ pc'.at = "idle"
    BY <2>1 DEF FreshRecorder, At
  <2> QED BY <2>2 DEF BytesInv
<1> QED BY <1>1, <1>2, <1>3, <1>4, <1>5, <1>6 DEF Next

\* The pieces on disk that are whole are all on the recorder's account.
LEMMA WholeOnAccount ==
    ASSUME ArchiveInv, BytesInv, rec.seeded
    PROVE  /\ ArchivedBytes \in Nat /\ rec.total_bytes \in Nat
           /\ ArchivedBytes <= rec.total_bytes + rec.write_offset
<1> DEFINE s == rec.periods
           p == rec.period
           C == Column(p, rec.write_offset)
           U == Slots(s) \cup C
<1>1. Typed /\ KnownInv /\ Account(rec, data)
  BY DEF ArchiveInv, BytesInv
<1>2. /\ p \in Nat /\ rec.write_offset \in Nat
      /\ \A num \in DOMAIN data : num \in Nat /\ Len(data[num]) \in Nat
      /\ \A num \in Removable : num = p \/ \E k \in 1..Len(s) : s[k].num = num
      /\ Removable \subseteq DOMAIN data
  BY <1>1, TypedLemma DEF Typed, RecorderTyped, KnownInv, Removable
<1>3. /\ rec.total_bytes \in Nat /\ IsFiniteSet(Slots(s))
      /\ Cardinality(Slots(s)) <= rec.total_bytes
      /\ p \in DOMAIN data => Within(data[p], rec.write_offset)
      /\ \A k \in 1..Len(s) : s[k].num \in DOMAIN data => Within(data[s[k].num], s[k].file_bytes)
  BY <1>1 DEF Account
<1>4. \A k \in 1..Len(s) : s[k].file_bytes \in Nat
  <2>1. s \in Seq(Periods)
    BY <1>1 DEF Typed, RecorderTyped
  <2> QED BY <2>1, PeriodsTyped
<1>5. ASSUME NEW at \in WholePieces PROVE at \in U
  <2>1. PICK num \in Removable : at \in {num} \X (1..Len(data[num]))
    BY DEF WholePieces
  <2>2. num \in DOMAIN data /\ at \in Nat \X Nat /\ at[1] = num /\ at[2] \in 1..Len(data[num])
    BY <1>2, <2>1
  <2>3. data[num][at[2]] # Torn
    BY <2>2 DEF WholePieces
  <2>4. CASE num = p
    <3>1. at[2] <= rec.write_offset
      BY <1>3, <2>2, <2>3, <2>4 DEF Within
    <3>2. at[2] \in 1..rec.write_offset
      BY <1>2, <2>2, <3>1
    <3> QED BY <2>2, <2>4, <3>2 DEF Column
  <2>5. CASE num # p
    <3>1. PICK k \in 1..Len(s) : s[k].num = num
      BY <1>2, <2>5
    <3>2. at[2] <= s[k].file_bytes
      BY <1>3, <2>2, <2>3, <3>1 DEF Within
    <3>3. at[2] \in 1..s[k].file_bytes
      BY <1>2, <1>4, <2>2, <3>2
    <3> QED BY <2>2, <3>1, <3>3 DEF Slots
  <2> QED BY <2>4, <2>5
<1>6. IsFiniteSet(C) /\ Cardinality(C) = rec.write_offset
  BY <1>2, ColumnLemma
<1> HIDE DEF C
<1>7. /\ IsFiniteSet(U) /\ Cardinality(U) \in Nat /\ Cardinality(Slots(s)) \in Nat
      /\ Cardinality(U) <= Cardinality(Slots(s)) + Cardinality(C)
  BY <1>3, <1>6, UnionLemma
<1> HIDE DEF U
<1>8. WholePieces \in SUBSET U
  BY <1>5
<1>9. IsFiniteSet(WholePieces) /\ Cardinality(WholePieces) <= Cardinality(U)
  BY <1>7, <1>8, FS_Subset
<1>10. Cardinality(WholePieces) \in Nat
  BY <1>9, FS_CardinalityType
<1> QED BY <1>2, <1>3, <1>6, <1>7, <1>9, <1>10 DEF ArchivedBytes

\* What retention_bytes may be.
LimitInv == retention_bytes \in Nat

\* Retention as a whole, over any run of connections, crashes and failures: it
\* sees every file but those whose removal failed, and once a segment has been
\* appended the periods and the bytes of the files it sees are within the
\* configured limits, the open period apart (seed_from_disk, start_period,
\* append_segment, enforce_retention, evict_oldest_period).
THEOREM RetentionSoundHolds == Spec => []RetentionSound
<1>1. Init => BytesInv /\ LimitInv
  <2> SUFFICES ASSUME Init PROVE BytesInv /\ LimitInv
    OBVIOUS
  <2>1. rec.seeded = FALSE /\ pc.at = "idle" /\ retention_bytes \in RetentionBytes
    BY DEF Init, FreshRecorder, At
  <2> QED BY <2>1, LimitsAssumption DEF BytesInv, LimitInv
<1>2. LimitInv /\ [Next]_vars => LimitInv'
  <2> SUFFICES ASSUME LimitInv, [Next]_vars PROVE retention_bytes' = retention_bytes
    BY DEF LimitInv
  <2> QED
    BY DEF Next, vars, config, CloseSegment, SetInit, IngestUnchanged, Poll, PollAtPeriodEnd,
           ProgrammeChange, PollUnchanged, OpenPeriod, WriteHead, TakeSegment, TakeGap,
           TakeTerminated, Drained, WriteSegment, WriteFails, IndexSegment, IndexRewritten,
           IndexFails, EvictIndex, EvictData, EvictionUnchanged, Retained, RecorderUnchanged,
           Reconnect, Crash,
           NewConnection, FindArchivedSegment, ReadArchivedBytes
<1>3. ArchiveInv /\ LeftInv /\ BytesInv /\ LimitInv => BytesBounded
  <2> SUFFICES ASSUME ArchiveInv, LeftInv, BytesInv, LimitInv, pc.at = "retain", ~Evicts,
                      retention_bytes > 0
               PROVE  ArchivedBytes <= retention_bytes \/ Removable = {rec.period}
    BY DEF BytesBounded
  <2>1. rec.seeded /\ rec.period \in DOMAIN data /\ KnownInv /\ Typed
    BY DEF ArchiveInv, ControlInv
  <2>2. CASE rec.periods = <<>>
    <3>1. 1..Len(rec.periods) = {}
      BY <2>2, EmptySeq
    <3>2. rec.period \notin left_data
      <4>1. rec.period \in Nat /\ ~(rec.period < rec.period)
        BY <2>1 DEF Typed, RecorderTyped
      <4> QED BY <4>1 DEF LeftInv
    <3> QED BY <2>1, <3>1, <3>2 DEF KnownInv, Removable
  <2>3. CASE rec.periods # <<>>
    <3>1. ~(rec.total_bytes + rec.write_offset > retention_bytes)
      BY <2>3 DEF Evicts, OverBytes
    <3>2. rec.write_offset \in Nat /\ retention_bytes \in Nat
      BY <2>1 DEF Typed, RecorderTyped, LimitInv
    <3>3. /\ ArchivedBytes \in Nat /\ rec.total_bytes \in Nat
          /\ ArchivedBytes <= rec.total_bytes + rec.write_offset
      BY <2>1, WholeOnAccount
    <3> QED BY <3>1, <3>2, <3>3
  <2> QED BY <2>2, <2>3
<1>4. ArchiveInv /\ BytesInv /\ [Next]_vars => BytesInv'
  BY BytesStep
<1>5. Spec => []BytesBounded
  BY <1>1, <1>2, <1>3, <1>4, LeftInvariant, ArchiveInvariant, PTL DEF Spec
<1>6. NoOrphanFiles /\ PeriodsBounded /\ BytesBounded => RetentionSound
  BY DEF RetentionSound
<1> QED BY <1>5, <1>6, FilesKnown, PTL
=============================================================================
