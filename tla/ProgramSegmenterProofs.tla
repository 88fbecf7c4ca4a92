----------------------- MODULE ProgramSegmenterProofs -----------------------
(***************************************************************************)
(* Proofs about the trunk's segment log (first part) and the program       *)
(* segmenter that publishes into it (second part), for every capacity of   *)
(* the rings and the queue, every set of publishers, cursors and recorders *)
(* with any policies, both containers and every bound.                     *)
(***************************************************************************)
EXTENDS ProgramSegmenter, TrunkPartsProofs

(***************************************************************************)
(* The segment log.                                                        *)
(***************************************************************************)

\* A pin exists exactly for a pinned cursor that has not reported its end:
\* the "already removed" and debug_assert branches of poll are unreachable.
PinsMatchCursors ==
    \A c \in Cursors :
        c \in DOMAIN pins <=> cursor[c].kind = "pinned" /\ ~cursor[c].done

\* No cursor reads ahead of the log; a stalled call holds a number on offer.
PositionsInLog ==
    /\ \A c \in Cursors : cursor[c].kind = "lossy" => cursor[c].consumed <= published
    /\ \A c \in DOMAIN pins : pins[c].consumed <= published
    /\ \A p \in Publishers : pub[p].at # "idle" => pub[p].seq \in SeqNums

\* A pin under Gap is never given up on.
GapNeverTerminated ==
    \A c \in DOMAIN pins : pins[c].terminated => pins[c].policy # "Gap"

SafeInv ==
    /\ TypeOK
    /\ RingIsSuffix
    /\ PinsMatchCursors
    /\ PositionsInLog
    /\ PinLossless
    /\ GapNeverTerminated

\* Push keeps the ring the suffix of what was accepted and advances base by
\* one exactly when the ring is full (SegmentLog::push).
LEMMA PushLemma ==
    ASSUME TypeOK, RingIsSuffix, NEW seq \in Nat, Push(seq)
    PROVE  /\ entries' \in Seq(Nat) /\ base' \in Nat /\ published' \in Nat
           /\ hist' \in Seq(Nat)
           /\ RingIsSuffix'
           /\ published' = published + 1
           /\ Full => base' = base + 1
           /\ ~Full => base' = base
<1>1. /\ entries \in Seq(Nat) /\ hist \in Seq(Nat) /\ base \in Nat /\ published \in Nat
      /\ Len(entries) \in Nat /\ Len(hist) \in Nat /\ Capacity \in Nat /\ Capacity > 0
  BY CapacityAssumption DEF TypeOK
<1>2. /\ published = Len(hist) /\ Len(hist) = base + Len(entries)
      /\ Len(entries) <= Capacity
      /\ \A i \in 1..Len(entries) : entries[i] = hist[base + i]
  BY DEF RingIsSuffix
<1>3. /\ hist' \in Seq(Nat) /\ Len(hist') = Len(hist) + 1
      /\ \A i \in 1..Len(hist) : hist'[i] = hist[i]
      /\ hist'[Len(hist) + 1] = seq
  BY <1>1 DEF Push
<1>4. published' = published + 1
  BY DEF Push
<1>5. ASSUME entries' \in Seq(Nat), base' \in Nat, base' + Len(entries') = published',
             Len(entries') <= Capacity,
             \A i \in 1..Len(entries') : entries'[i] = hist'[base' + i]
      PROVE  RingIsSuffix'
  <2>1. published' = Len(hist')
    BY <1>1, <1>2, <1>3, <1>4
  <2> QED BY <1>5, <2>1 DEF RingIsSuffix
<1>6. CASE Len(entries) = Capacity
  <2>1. /\ Tail(entries) \in Seq(Nat) /\ Len(Tail(entries)) = Len(entries) - 1
        /\ \A i \in 1..(Len(entries) - 1) : Tail(entries)[i] = entries[i + 1]
    BY <1>1, <1>6
  <2>2. entries' = Append(Tail(entries), seq) /\ base' = base + 1
    BY <1>6 DEF Push
  <2>3. /\ entries' \in Seq(Nat) /\ Len(entries') = Len(entries)
        /\ \A i \in 1..(Len(entries) - 1) : entries'[i] = entries[i + 1]
        /\ entries'[Len(entries)] = seq
    BY <2>1, <2>2, <1>1, <1>6
  <2>4. ASSUME NEW i \in 1..Len(entries) PROVE entries'[i] = hist'[(base + 1) + i]
    <3>1. CASE i = Len(entries)
      <4>1. (base + 1) + i = Len(hist) + 1
        BY <3>1, <1>1, <1>2
      <4> QED BY <4>1, <3>1, <1>3, <2>3
    <3>2. CASE i # Len(entries)
      <4>1. i \in 1..(Len(entries) - 1) /\ i + 1 \in 1..Len(entries)
        BY <3>2, <1>1
      <4>2. entries'[i] = hist[base + (i + 1)]
        BY <4>1, <2>3, <1>2
      <4>3. base + (i + 1) \in 1..Len(hist) /\ base + (i + 1) = (base + 1) + i
        BY <4>1, <1>1, <1>2
      <4> QED BY <4>2, <4>3, <1>3
    <3> QED BY <3>1, <3>2
  <2>5. RingIsSuffix'
    <3>1. \A i \in 1..Len(entries') : entries'[i] = hist'[base' + i]
      BY <2>2, <2>3, <2>4, Zenon
    <3>2. base' \in Nat /\ base' + Len(entries') = published' /\ Len(entries') <= Capacity
      <4>1. base' = base + 1 /\ Len(entries') = Len(entries) /\ published' = base + Len(entries) + 1
        BY <1>2, <1>4, <2>2, <2>3
      <4> QED BY <4>1, <1>1, <1>6
    <3> QED BY <3>1, <3>2, <1>5, <2>3
  <2>6. Full
    BY <1>1, <1>6 DEF Full
  <2> QED BY <1>1, <1>3, <1>4, <2>2, <2>3, <2>5, <2>6
<1>7. CASE Len(entries) # Capacity
  <2>1. entries' = Append(entries, seq) /\ base' = base
    BY <1>7 DEF Push
  <2>2. /\ entries' \in Seq(Nat) /\ Len(entries') = Len(entries) + 1
        /\ \A i \in 1..Len(entries) : entries'[i] = entries[i]
        /\ entries'[Len(entries) + 1] = seq
    BY <2>1, <1>1
  <2>3. ASSUME NEW i \in 1..(Len(entries) + 1) PROVE entries'[i] = hist'[base + i]
    <3>1. CASE i = Len(entries) + 1
      <4>1. base + i = Len(hist) + 1
        BY <3>1, <1>1, <1>2
      <4> QED BY <4>1, <3>1, <1>3, <2>2
    <3>2. CASE i # Len(entries) + 1
      <4>1. i \in 1..Len(entries) /\ base + i \in 1..Len(hist)
        BY <3>2, <1>1, <1>2
      <4> QED BY <4>1, <1>2, <1>3, <2>2
    <3> QED BY <3>1, <3>2
  <2>4. RingIsSuffix'
    <3>1. \A i \in 1..Len(entries') : entries'[i] = hist'[base' + i]
      BY <2>1, <2>2, <2>3
    <3>2. base' \in Nat /\ base' + Len(entries') = published' /\ Len(entries') <= Capacity
      <4>1. /\ base' = base /\ Len(entries') = Len(entries) + 1
            /\ published' = base + Len(entries) + 1 /\ Len(entries) <= Capacity
        BY <1>2, <1>4, <2>1, <2>2
      <4> QED BY <4>1, <1>1, <1>7
    <3> QED BY <3>1, <3>2, <1>5, <2>2
  <2>5. ~Full
    BY <1>1, <1>2, <1>7 DEF Full
  <2> QED BY <1>1, <1>3, <1>4, <2>1, <2>2, <2>4, <2>5
<1> QED BY <1>6, <1>7

\* Terminating pins touches nothing but their terminated flag.
LEMMA TerminateLemma ==
    ASSUME TypeOK, NEW S
    PROVE  /\ DOMAIN TerminatePins(S) = DOMAIN pins
           /\ TerminatePins(S) \in [DOMAIN pins -> PinState]
           /\ \A c \in DOMAIN pins :
                 /\ TerminatePins(S)[c].consumed = pins[c].consumed
                 /\ TerminatePins(S)[c].policy = pins[c].policy
                 /\ TerminatePins(S)[c].terminated = (pins[c].terminated \/ c \in S)
<1>1. pins \in [DOMAIN pins -> PinState]
  BY DEF TypeOK
<1>2. ASSUME NEW c \in DOMAIN pins
      PROVE  /\ TerminatePins(S)[c] \in PinState
             /\ TerminatePins(S)[c].consumed = pins[c].consumed
             /\ TerminatePins(S)[c].policy = pins[c].policy
             /\ TerminatePins(S)[c].terminated = (pins[c].terminated \/ c \in S)
  <2>1. pins[c] \in PinState /\ pins[c].terminated \in BOOLEAN
    BY <1>1 DEF PinState
  <2>2. CASE c \in S
    BY <2>1, <2>2 DEF TerminatePins, PinState
  <2>3. CASE c \notin S
    BY <2>1, <2>3 DEF TerminatePins, PinState
  <2> QED BY <2>2, <2>3
<1>3. DOMAIN TerminatePins(S) = DOMAIN pins
  BY DEF TerminatePins
<1>4. TerminatePins(S) \in [DOMAIN pins -> PinState]
  BY <1>2 DEF TerminatePins
<1> QED BY <1>2, <1>3, <1>4

\* A push keeps the invariant if, when it evicts, every pin that relies on the
\* evicted entry and was promised it is given up on in the same step.
LEMMA AcceptLemma ==
    ASSUME SafeInv, NEW seq \in Nat, Push(seq),
           NEW S, pins' = TerminatePins(S),
           \A c \in DOMAIN pins : c \in S => pins[c].policy # "Gap",
           Full => \A c \in DOMAIN pins : AtRisk(c) /\ pins[c].policy # "Gap" => c \in S,
           UNCHANGED <<cursor, notifying, item>>, writer_taken' \in BOOLEAN,
           pub' \in [Publishers -> PubState],
           \A p \in Publishers : pub'[p].at # "idle" => pub'[p].seq \in SeqNums
    PROVE  SafeInv'
<1>1. TypeOK /\ RingIsSuffix /\ PinsMatchCursors /\ PositionsInLog /\ PinLossless
      /\ GapNeverTerminated
  BY DEF SafeInv
<1>3. /\ entries' \in Seq(Nat) /\ base' \in Nat /\ published' \in Nat
      /\ hist' \in Seq(Nat)
      /\ RingIsSuffix'
      /\ published' = published + 1
      /\ Full => base' = base + 1
      /\ ~Full => base' = base
  BY <1>1, PushLemma
<1>4. /\ DOMAIN pins' = DOMAIN pins
      /\ pins' \in [DOMAIN pins -> PinState]
      /\ \A c \in DOMAIN pins :
            /\ pins'[c].consumed = pins[c].consumed
            /\ pins'[c].policy = pins[c].policy
            /\ pins'[c].terminated = (pins[c].terminated \/ c \in S)
  BY <1>1, TerminateLemma
<1>5. TypeOK'
  BY <1>1, <1>3, <1>4 DEF TypeOK
<1>6. PinsMatchCursors'
  BY <1>1, <1>4 DEF PinsMatchCursors
<1>7. PositionsInLog'
  <2>1. published \in Nat /\ \A c \in Cursors : cursor[c].consumed \in Nat
    BY <1>1 DEF TypeOK, CursorState
  <2>2. \A c \in DOMAIN pins : pins[c].consumed \in Nat
    BY <1>1 DEF TypeOK, PinState
  <2>3. \A c \in Cursors : cursor'[c].kind = "lossy" => cursor'[c].consumed <= published'
    BY <2>1, <1>1, <1>3 DEF PositionsInLog
  <2>4. \A c \in DOMAIN pins' : pins'[c].consumed <= published'
    BY <2>1, <2>2, <1>1, <1>3, <1>4 DEF PositionsInLog
  <2> QED BY <2>3, <2>4 DEF PositionsInLog
<1>8. PinLossless'
  <2> SUFFICES ASSUME NEW c \in DOMAIN pins, pins[c].policy # "Gap",
                      ~pins[c].terminated, c \notin S
               PROVE  pins[c].consumed >= base'
    BY <1>4 DEF PinLossless
  <2>1. pins[c].consumed \in Nat /\ base \in Nat /\ pins[c].consumed >= base
    BY <1>1 DEF TypeOK, PinState, PinLossless
  <2>2. Full => pins[c].consumed > base
    BY <2>1 DEF AtRisk
  <2> QED BY <2>1, <2>2, <1>3
<1>9. GapNeverTerminated'
  BY <1>1, <1>4 DEF GapNeverTerminated
<1> QED BY <1>3, <1>5, <1>6, <1>7, <1>8, <1>9 DEF SafeInv

\* With no pin to terminate, TerminatePins is the identity.
LEMMA TerminateNobody ==
    ASSUME TypeOK PROVE TerminatePins({}) = pins
BY DEF TypeOK, TerminatePins

\* A step that leaves the log alone and at most sets terminated flags.
LEMMA MarkLemma ==
    ASSUME SafeInv, NEW S, pins' = TerminatePins(S),
           \A c \in DOMAIN pins : c \in S => pins[c].policy # "Gap",
           UNCHANGED <<entries, base, published, hist, cursor, notifying, item>>,
           writer_taken' \in BOOLEAN,
           pub' \in [Publishers -> PubState],
           \A p \in Publishers : pub'[p].at # "idle" => pub'[p].seq \in SeqNums
    PROVE  SafeInv'
<1>1. TypeOK /\ RingIsSuffix /\ PinsMatchCursors /\ PositionsInLog /\ PinLossless
      /\ GapNeverTerminated
  BY DEF SafeInv
<1>2. /\ DOMAIN pins' = DOMAIN pins
      /\ pins' \in [DOMAIN pins -> PinState]
      /\ \A c \in DOMAIN pins :
            /\ pins'[c].consumed = pins[c].consumed
            /\ pins'[c].policy = pins[c].policy
            /\ pins'[c].terminated = (pins[c].terminated \/ c \in S)
  BY <1>1, TerminateLemma
<1>3. TypeOK'
  BY <1>1, <1>2 DEF TypeOK
<1>4. RingIsSuffix'
  BY <1>1 DEF RingIsSuffix
<1>5. PinsMatchCursors'
  BY <1>1, <1>2 DEF PinsMatchCursors
<1>6. PositionsInLog'
  BY <1>1, <1>2 DEF PositionsInLog
<1>7. PinLossless'
  BY <1>1, <1>2 DEF PinLossless
<1>8. GapNeverTerminated'
  BY <1>1, <1>2 DEF GapNeverTerminated
<1> QED BY <1>3, <1>4, <1>5, <1>6, <1>7, <1>8 DEF SafeInv

\* One pass of publish_segment's loop, first or resumed, keeps the invariant.
LEMMA LoopLemma ==
    ASSUME SafeInv, NEW p \in Publishers, NEW seq \in SeqNums, NEW late \in BOOLEAN,
           PublishLoop(p, seq, late), UNCHANGED <<readVars, writer_taken>>
    PROVE  SafeInv'
<1> DEFINE blocking == AtRiskUnder("StallIngest")
           marked == AtRiskUnder("Terminate")
<1>1. TypeOK /\ PositionsInLog
  BY DEF SafeInv
<1>2. pub \in [Publishers -> PubState] /\ writer_taken' \in BOOLEAN /\ seq \in Nat
  BY <1>1, BoundAssumption DEF TypeOK, SeqNums
<1>3. UNCHANGED <<cursor, notifying, item>>
  BY DEF readVars
<1>4. Idle \in PubState /\ [at |-> "parked", seq |-> seq, late |-> FALSE] \in PubState
  BY <1>2 DEF Idle, PubState
<1>5. ASSUME pub' = [pub EXCEPT ![p] = Idle]
      PROVE  /\ pub' \in [Publishers -> PubState]
             /\ \A q \in Publishers : pub'[q].at # "idle" => pub'[q].seq \in SeqNums
  BY <1>1, <1>2, <1>4, <1>5 DEF PositionsInLog, Idle
<1>6. \A c \in DOMAIN pins : AtRisk(c) /\ pins[c].policy # "Gap" => c \in marked \cup blocking
  <2> SUFFICES ASSUME NEW c \in DOMAIN pins, AtRisk(c), pins[c].policy # "Gap"
               PROVE  c \in marked \cup blocking
    OBVIOUS
  <2>1. pins[c].policy \in AllPolicies
    BY <1>1 DEF TypeOK, PinState
  <2> QED BY <2>1 DEF AllPolicies, AtRiskUnder
<1>0. \A c \in DOMAIN pins : c \in marked \cup blocking => pins[c].policy # "Gap"
  BY DEF AtRiskUnder
<1>7. CASE /\ ~Full /\ Push(seq)
           /\ pub' = [pub EXCEPT ![p] = Idle] /\ UNCHANGED pins
  <2>1. pins' = TerminatePins({})
    BY <1>1, <1>7, TerminateNobody
  <2> QED BY <1>2, <1>3, <1>5, <1>7, <2>1, AcceptLemma
<1>8. CASE /\ Full /\ (blocking = {} \/ late)
           /\ pins' = TerminatePins(marked \cup blocking)
           /\ Push(seq)
           /\ pub' = [pub EXCEPT ![p] = Idle]
  BY <1>0, <1>2, <1>3, <1>5, <1>6, <1>8, AcceptLemma
<1>9. CASE /\ Full /\ blocking # {} /\ ~late
           /\ pins' = TerminatePins(marked)
           /\ pub' = [pub EXCEPT ![p] = [at |-> "parked", seq |-> seq, late |-> FALSE]]
           /\ UNCHANGED <<logVars, hist>>
  <2>1. /\ pub' \in [Publishers -> PubState]
        /\ \A q \in Publishers : pub'[q].at # "idle" => pub'[q].seq \in SeqNums
    BY <1>1, <1>2, <1>4, <1>9 DEF PositionsInLog
  <2> QED BY <1>0, <1>2, <1>3, <1>9, <2>1, MarkLemma DEF logVars
<1> QED BY <1>7, <1>8, <1>9 DEF PublishLoop

\* Removing a pin leaves the others as they were.
LEMMA RemoveLemma ==
    ASSUME TypeOK, NEW c
    PROVE  /\ DOMAIN RemovePin(c) = DOMAIN pins \ {c}
           /\ RemovePin(c) \in [DOMAIN pins \ {c} -> PinState]
           /\ \A d \in DOMAIN pins \ {c} : RemovePin(c)[d] = pins[d]
BY DEF TypeOK, RemovePin

\* Init establishes the invariant (Trunk::new).
LEMMA InitSafe == Init => SafeInv
<1> SUFFICES ASSUME Init PROVE SafeInv
  OBVIOUS
<1>1. TypeOK
  <2>1. NoCursor \in CursorState /\ Idle \in PubState /\ NoItem \in [kind : ItemKinds, n : Nat]
    BY DEF NoCursor, CursorState, Kinds, Idle, PubState, NoItem, Item, ItemKinds
  <2>2. DOMAIN pins \subseteq Cursors /\ pins \in [DOMAIN pins -> PinState]
    BY DEF Init
  <2>3. cursor \in [Cursors -> CursorState] /\ pub \in [Publishers -> PubState]
    BY <2>1 DEF Init
  <2>4. item \in [Cursors -> [kind : ItemKinds, n : Nat]]
    BY <2>1 DEF Init
  <2>5. entries \in Seq(Nat) /\ hist \in Seq(Nat)
    BY DEF Init
  <2>6. base \in Nat /\ published \in Nat /\ notifying \subseteq Cursors
    BY DEF Init
  <2>7. writer_taken \in BOOLEAN
    BY DEF Init
  <2> QED BY <2>2, <2>3, <2>4, <2>5, <2>6, <2>7 DEF TypeOK
<1>2. RingIsSuffix
  BY CapacityAssumption DEF Init, RingIsSuffix
<1>3. PinsMatchCursors
  BY DEF Init, PinsMatchCursors, NoCursor
<1>4. PositionsInLog
  BY DEF Init, PositionsInLog, NoCursor, Idle
<1>5. PinLossless
  BY DEF Init, PinLossless
<1>6. GapNeverTerminated
  BY DEF Init, GapNeverTerminated
<1> QED BY <1>1, <1>2, <1>3, <1>4, <1>5, <1>6 DEF SafeInv

\* try_publish_segment of any number keeps the invariant.
LEMMA TrySafe ==
    ASSUME SafeInv, NEW p \in Publishers, NEW seq \in Nat, TryPublishSegment(p, seq)
    PROVE  SafeInv'
<1>0. TypeOK /\ PositionsInLog /\ pub \in [Publishers -> PubState] /\ writer_taken \in BOOLEAN
  BY DEF SafeInv, TypeOK
<1>1. /\ UNCHANGED <<cursor, notifying, item>> /\ writer_taken' \in BOOLEAN
      /\ pub' \in [Publishers -> PubState]
      /\ \A q \in Publishers : pub'[q].at # "idle" => pub'[q].seq \in SeqNums
  BY <1>0 DEF TryPublishSegment, readVars, PositionsInLog
<1>2. CASE Full
  <2>1. pins' = TerminatePins(AtRiskUnder("Terminate"))
    BY <1>2 DEF TryPublishSegment
  <2>2. \A c \in DOMAIN pins :
           AtRisk(c) /\ pins[c].policy # "Gap" => c \in AtRiskUnder("Terminate")
    <3> SUFFICES ASSUME NEW c \in DOMAIN pins, AtRisk(c), pins[c].policy # "Gap"
                 PROVE  c \in AtRiskUnder("Terminate")
      OBVIOUS
    <3>1. pins[c].policy \in AllPolicies
      BY <1>0 DEF TypeOK, PinState
    <3>2. c \notin AtRiskUnder("StallIngest")
      BY <1>2 DEF TryPublishSegment
    <3> QED BY <3>1, <3>2 DEF AllPolicies, AtRiskUnder
  <2>3. Push(seq)
    BY DEF TryPublishSegment
  <2>4. \A c \in AtRiskUnder("Terminate") : pins[c].policy # "Gap"
    BY DEF AtRiskUnder
  <2> QED BY <1>1, <2>1, <2>2, <2>3, <2>4, AcceptLemma
<1>3. CASE ~Full
  <2>1. pins' = TerminatePins({})
    BY <1>0, <1>3, TerminateNobody DEF TryPublishSegment
  <2>2. Push(seq)
    BY DEF TryPublishSegment
  <2> QED BY <1>1, <1>3, <2>1, <2>2, AcceptLemma
<1> QED BY <1>2, <1>3

\* Every step of the writer keeps the invariant.
LEMMA WriterSafe ==
    ASSUME SafeInv, NEW p \in Publishers, WriterStep(p) PROVE SafeInv'
<1>1. TypeOK /\ PositionsInLog /\ pub \in [Publishers -> PubState] /\ writer_taken \in BOOLEAN
  BY DEF SafeInv, TypeOK
<1>2. ASSUME NEW seq \in SeqNums, PublishSegment(p, seq) PROVE SafeInv'
  BY <1>2, LoopLemma DEF PublishSegment
<1>3. ASSUME NEW seq \in SeqNums, TryPublishSegment(p, seq) PROVE SafeInv'
  <2>1. seq \in Nat
    BY BoundAssumption DEF SeqNums
  <2> QED BY <1>3, <2>1, TrySafe
<1>4. CASE ResumePublish(p)
  <2>1. pub[p].seq \in SeqNums /\ pub[p].late \in BOOLEAN
    BY <1>1, <1>4 DEF ResumePublish, PositionsInLog, PubState
  <2> QED BY <1>4, <2>1, LoopLemma DEF ResumePublish
<1>5. CASE DeadlinePasses(p)
  <2>1. pins' = TerminatePins({})
    BY <1>1, <1>5, TerminateNobody DEF DeadlinePasses
  <2>2. pub' \in [Publishers -> PubState]
    BY <1>1, <1>5 DEF DeadlinePasses, PubState
  <2>3. \A q \in Publishers : pub'[q].at # "idle" => pub'[q].seq \in SeqNums
    BY <1>1, <1>5 DEF DeadlinePasses, PositionsInLog, PubState
  <2> QED BY <1>1, <1>5, <2>1, <2>2, <2>3, MarkLemma DEF DeadlinePasses, logVars, readVars
<1>6. CASE ExpireStalledPins(p)
  <2>1. pins' = TerminatePins(AtRiskUnder("StallIngest"))
    BY <1>6 DEF ExpireStalledPins
  <2>2. \A c \in AtRiskUnder("StallIngest") : pins[c].policy # "Gap"
    BY DEF AtRiskUnder
  <2> QED BY <1>1, <1>6, <2>1, <2>2, MarkLemma DEF ExpireStalledPins, logVars, readVars, PositionsInLog
<1> QED BY <1>2, <1>3, <1>4, <1>5, <1>6 DEF WriterStep

\* Every step of a cursor keeps the invariant.
LEMMA CursorSafe ==
    ASSUME SafeInv, NEW c \in Cursors, CursorStep(c) PROVE SafeInv'
<1>1. TypeOK /\ RingIsSuffix /\ PinsMatchCursors /\ PositionsInLog /\ PinLossless
      /\ GapNeverTerminated
  BY DEF SafeInv
<1>2. /\ base \in Nat /\ published \in Nat /\ base <= published
      /\ entries \in Seq(Nat) /\ Len(entries) \in Nat /\ base + Len(entries) = published
  BY <1>1 DEF TypeOK, RingIsSuffix
<1>3. /\ cursor \in [Cursors -> CursorState] /\ cursor[c] \in CursorState
      /\ item \in [Cursors -> [kind : ItemKinds, n : Nat]]
      /\ DOMAIN pins \subseteq Cursors /\ pins \in [DOMAIN pins -> PinState]
  BY <1>1 DEF TypeOK
<1>4. CASE SubscribeSegments(c)
  <2>1. [kind |-> "lossy", consumed |-> published, done |-> FALSE] \in CursorState
    BY <1>2 DEF CursorState, Kinds
  <2>2. TypeOK'
    BY <1>1, <1>4, <2>1 DEF SubscribeSegments, TypeOK, logVars
  <2>3. RingIsSuffix' /\ PinLossless' /\ GapNeverTerminated'
    BY <1>1, <1>4 DEF SubscribeSegments, RingIsSuffix, PinLossless, GapNeverTerminated, logVars
  <2>4. PinsMatchCursors' /\ PositionsInLog'
    BY <1>1, <1>2, <1>3, <1>4 DEF SubscribeSegments, PinsMatchCursors, PositionsInLog, logVars
  <2> QED BY <2>2, <2>3, <2>4 DEF SafeInv
<1>5. ASSUME NEW policy \in Policies, PinSegments(c, policy) PROVE SafeInv'
  <2> DEFINE new == [consumed |-> published, policy |-> policy, terminated |-> FALSE]
  <2>1. /\ [kind |-> "pinned", consumed |-> 0, done |-> FALSE] \in CursorState
        /\ new \in PinState
    BY <1>2, PoliciesAssumption DEF CursorState, Kinds, PinState
  <2>2. /\ DOMAIN pins' = DOMAIN pins \cup {c}
        /\ pins' \in [DOMAIN pins' -> PinState]
        /\ pins'[c] = new
        /\ \A d \in DOMAIN pins : d # c => pins'[d] = pins[d]
    BY <1>3, <1>5, <2>1 DEF PinSegments
  <2>3. TypeOK'
    BY <1>1, <1>3, <1>5, <2>1, <2>2 DEF PinSegments, TypeOK, logVars
  <2>4. RingIsSuffix'
    BY <1>1, <1>5 DEF PinSegments, RingIsSuffix, logVars
  <2>5. PinsMatchCursors'
    BY <1>1, <1>3, <1>5, <2>2 DEF PinSegments, PinsMatchCursors
  <2>6. PositionsInLog'
    BY <1>1, <1>2, <1>3, <1>5, <2>2 DEF PinSegments, PositionsInLog, logVars
  <2>7. PinLossless' /\ GapNeverTerminated'
    BY <1>1, <1>2, <1>5, <2>2 DEF PinSegments, PinLossless, GapNeverTerminated, logVars
  <2> QED BY <2>3, <2>4, <2>5, <2>6, <2>7 DEF SafeInv
<1>6. CASE PollLagged(c)
  <2>1. base - cursor[c].consumed \in Nat /\ cursor[c].consumed \in Nat
    BY <1>2, <1>3, <1>6 DEF PollLagged, CursorState
  <2>2. Item("Lagged", base - cursor[c].consumed) \in [kind : ItemKinds, n : Nat]
    BY <2>1 DEF Item, ItemKinds
  <2>3. cursor' \in [Cursors -> CursorState]
    BY <1>2, <1>3, <1>6 DEF PollLagged, CursorState
  <2>4. TypeOK'
    BY <1>1, <1>6, <2>2, <2>3 DEF PollLagged, TypeOK, logVars
  <2>5. RingIsSuffix' /\ PinLossless' /\ GapNeverTerminated'
    BY <1>1, <1>6 DEF PollLagged, RingIsSuffix, PinLossless, GapNeverTerminated, logVars
  <2>6. \A d \in Cursors : /\ cursor'[d].kind = cursor[d].kind
                           /\ cursor'[d].done = cursor[d].done
                           /\ d # c => cursor'[d] = cursor[d]
    BY <1>3, <1>6 DEF PollLagged, CursorState
  <2>7. cursor'[c].consumed <= published
    BY <1>2, <1>3, <1>6 DEF PollLagged, CursorState
  <2>8. PinsMatchCursors' /\ PositionsInLog'
    BY <1>1, <1>6, <2>6, <2>7 DEF PollLagged, PinsMatchCursors, PositionsInLog, logVars
  <2> QED BY <2>4, <2>5, <2>8 DEF SafeInv
<1>7. CASE PollLossy(c)
  <2>1. /\ cursor[c].consumed \in Nat /\ cursor[c].consumed + 1 <= published
        /\ ring_offset(cursor[c].consumed) \in 1..Len(entries)
    BY <1>2, <1>3, <1>7 DEF PollLossy, CursorState, IsResident, ring_offset
  <2>2. Item("Segment", entries[ring_offset(cursor[c].consumed)]) \in [kind : ItemKinds, n : Nat]
    BY <1>2, <2>1 DEF Item, ItemKinds
  <2>3. cursor' \in [Cursors -> CursorState]
    <3>1. cursor' = [cursor EXCEPT ![c].consumed = cursor[c].consumed + 1]
      BY <1>3, <1>7 DEF PollLossy
    <3>2. cursor[c].consumed + 1 \in Nat
      BY <2>1
    <3> QED BY <1>3, <3>1, <3>2 DEF CursorState
  <2>4. TypeOK'
    BY <1>1, <1>7, <2>2, <2>3 DEF PollLossy, TypeOK, logVars
  <2>5. RingIsSuffix' /\ PinLossless' /\ GapNeverTerminated'
    BY <1>1, <1>7 DEF PollLossy, RingIsSuffix, PinLossless, GapNeverTerminated, logVars
  <2>6. \A d \in Cursors : /\ cursor'[d].kind = cursor[d].kind
                           /\ cursor'[d].done = cursor[d].done
                           /\ d # c => cursor'[d] = cursor[d]
    BY <1>3, <1>7 DEF PollLossy, CursorState
  <2>7. cursor'[c].consumed <= published
    BY <1>3, <1>7, <2>1 DEF PollLossy, CursorState
  <2>8. PinsMatchCursors' /\ PositionsInLog'
    BY <1>1, <1>7, <2>6, <2>7 DEF PollLossy, PinsMatchCursors, PositionsInLog, logVars
  <2> QED BY <2>4, <2>5, <2>8 DEF SafeInv
<1>8. CASE PollTerminated(c)
  <2>1. /\ DOMAIN pins' = DOMAIN pins \ {c}
        /\ pins' \in [DOMAIN pins' -> PinState]
        /\ \A d \in DOMAIN pins' : d # c /\ pins'[d] = pins[d]
    BY <1>1, <1>8, RemoveLemma DEF PollTerminated
  <2>2. Item("Terminated", 0) \in [kind : ItemKinds, n : Nat]
    BY DEF Item, ItemKinds
  <2>3. cursor' \in [Cursors -> CursorState]
    BY <1>3, <1>8 DEF PollTerminated, CursorState
  <2>4. /\ cursor'[c].kind = "pinned" /\ cursor'[c].done
        /\ \A d \in Cursors : d # c => cursor'[d] = cursor[d]
    BY <1>3, <1>8 DEF PollTerminated, CursorState, Pollable
  <2>5. TypeOK'
    BY <1>1, <1>8, <2>1, <2>2, <2>3 DEF PollTerminated, TypeOK, logVars
  <2>6. RingIsSuffix' /\ PinLossless' /\ GapNeverTerminated'
    BY <1>1, <1>8, <2>1 DEF PollTerminated, RingIsSuffix, PinLossless, GapNeverTerminated, logVars
  <2>7. PinsMatchCursors' /\ PositionsInLog'
    BY <1>1, <1>8, <2>1, <2>4 DEF PollTerminated, PinsMatchCursors, PositionsInLog, logVars
  <2> QED BY <2>5, <2>6, <2>7 DEF SafeInv
<1>9. CASE PollGap(c)
  <2>1. c \in DOMAIN pins /\ pins[c] \in PinState
    BY <1>1, <1>3, <1>9 DEF PollGap, Pollable, PinsMatchCursors
  <2>2. base - pins[c].consumed \in Nat
    BY <1>2, <1>9, <2>1 DEF PollGap, PinState
  <2>3. Item("Gap", base - pins[c].consumed) \in [kind : ItemKinds, n : Nat]
    BY <2>2 DEF Item, ItemKinds
  <2>4. /\ DOMAIN pins' = DOMAIN pins /\ pins' \in [DOMAIN pins' -> PinState]
        /\ pins'[c].consumed = base
        /\ \A d \in DOMAIN pins : d # c => pins'[d] = pins[d]
    BY <1>2, <1>3, <1>9, <2>1 DEF PollGap, PinState
  <2>5. TypeOK'
    BY <1>1, <1>9, <2>3, <2>4 DEF PollGap, TypeOK, logVars
  <2>6. RingIsSuffix' /\ PinLossless' /\ GapNeverTerminated'
    BY <1>1, <1>2, <1>9, <2>4 DEF PollGap, RingIsSuffix, PinLossless, GapNeverTerminated, logVars
  <2>7. PinsMatchCursors' /\ PositionsInLog'
    BY <1>1, <1>2, <1>9, <2>4 DEF PollGap, PinsMatchCursors, PositionsInLog, logVars
  <2> QED BY <2>5, <2>6, <2>7 DEF SafeInv
<1>10. CASE PollPinned(c)
  <2>1. c \in DOMAIN pins /\ pins[c] \in PinState
    BY <1>1, <1>3, <1>10 DEF PollPinned, Pollable, PinsMatchCursors
  <2>2. /\ pins[c].consumed \in Nat /\ pins[c].consumed + 1 <= published
        /\ pins[c].consumed >= base
        /\ ring_offset(pins[c].consumed) \in 1..Len(entries)
    BY <1>2, <1>10, <2>1 DEF PollPinned, PinState, IsResident, ring_offset
  <2>3. Item("Segment", entries[ring_offset(pins[c].consumed)]) \in [kind : ItemKinds, n : Nat]
    BY <1>2, <2>2 DEF Item, ItemKinds
  <2>4. /\ DOMAIN pins' = DOMAIN pins /\ pins' \in [DOMAIN pins' -> PinState]
        /\ pins'[c].consumed = pins[c].consumed + 1
        /\ \A d \in DOMAIN pins : d # c => pins'[d] = pins[d]
    BY <1>3, <1>10, <2>1 DEF PollPinned, PinState
  <2>5. TypeOK'
    BY <1>1, <1>10, <2>3, <2>4 DEF PollPinned, TypeOK, logVars
  <2>6. RingIsSuffix'
    BY <1>1, <1>10 DEF PollPinned, RingIsSuffix, logVars
  <2>7. pins'[c].consumed >= base /\ pins'[c].consumed <= published
    BY <1>2, <2>2, <2>4
  <2>8. PinLossless' /\ GapNeverTerminated'
    BY <1>1, <1>10, <2>4, <2>7 DEF PollPinned, PinLossless, GapNeverTerminated, logVars
  <2>9. PinsMatchCursors' /\ PositionsInLog'
    BY <1>1, <1>10, <2>4, <2>7 DEF PollPinned, PinsMatchCursors, PositionsInLog, logVars
  <2> QED BY <2>5, <2>6, <2>8, <2>9 DEF SafeInv
<1>11. CASE DropCursor(c)
  <2>1. /\ DOMAIN pins' = DOMAIN pins \ {c}
        /\ pins' \in [DOMAIN pins' -> PinState]
        /\ \A d \in DOMAIN pins' : d # c /\ pins'[d] = pins[d]
    BY <1>1, <1>11, RemoveLemma DEF DropCursor
  <2>2. NoItem \in [kind : ItemKinds, n : Nat] /\ NoCursor \in CursorState
    BY DEF NoItem, Item, ItemKinds, NoCursor, CursorState, Kinds
  <2>3. /\ cursor' \in [Cursors -> CursorState] /\ cursor'[c].kind = "off"
        /\ \A d \in Cursors : d # c => cursor'[d] = cursor[d]
    BY <1>3, <1>11, <2>2 DEF DropCursor, NoCursor
  <2>4. TypeOK'
    BY <1>1, <1>11, <2>1, <2>2, <2>3 DEF DropCursor, TypeOK, logVars
  <2>5. RingIsSuffix' /\ PinLossless' /\ GapNeverTerminated'
    BY <1>1, <1>11, <2>1 DEF DropCursor, RingIsSuffix, PinLossless, GapNeverTerminated, logVars
  <2>6. PinsMatchCursors' /\ PositionsInLog'
    BY <1>1, <1>11, <2>1, <2>3 DEF DropCursor, PinsMatchCursors, PositionsInLog, logVars
  <2> QED BY <2>4, <2>5, <2>6 DEF SafeInv
<1>12. CASE NotifyAll(c)
  <2>1. pub \in [Publishers -> PubState]
    BY <1>1 DEF TypeOK
  <2>2. /\ pub' \in [Publishers -> PubState]
        /\ \A p \in Publishers : /\ pub'[p].seq = pub[p].seq
                                 /\ pub'[p].at = "idle" <=> pub[p].at = "idle"
    BY <1>12, <2>1 DEF NotifyAll, PubState
  <2>3. TypeOK'
    BY <1>1, <1>12, <2>2 DEF NotifyAll, TypeOK, logVars
  <2>4. RingIsSuffix' /\ PinLossless' /\ GapNeverTerminated' /\ PinsMatchCursors'
    BY <1>1, <1>12 DEF NotifyAll, RingIsSuffix, PinLossless, GapNeverTerminated, PinsMatchCursors, logVars
  <2>5. PositionsInLog'
    BY <1>1, <1>12, <2>2 DEF NotifyAll, PositionsInLog, logVars
  <2> QED BY <2>3, <2>4, <2>5 DEF SafeInv
<1> QED BY <1>4, <1>5, <1>6, <1>7, <1>8, <1>9, <1>10, <1>11, <1>12 DEF CursorStep, PollStep

\* Taking and dropping the writer keep the invariant.
LEMMA WriterSlotSafe ==
    ASSUME SafeInv, TakeWriter \/ DropWriter PROVE SafeInv'
<1>1. TypeOK /\ RingIsSuffix /\ PinsMatchCursors /\ PositionsInLog /\ PinLossless
      /\ GapNeverTerminated
  BY DEF SafeInv
<1>2. /\ UNCHANGED <<entries, base, published, pins, cursor, notifying, item, pub, hist>>
      /\ writer_taken' \in BOOLEAN
  BY DEF TakeWriter, DropWriter, logVars, readVars
<1>3. pins' = TerminatePins({})
  BY <1>1, <1>2, TerminateNobody
<1> QED BY <1>1, <1>2, <1>3, MarkLemma DEF TypeOK, PositionsInLog

\* The invariant holds in every reachable state, for every capacity, every
\* number of publishing threads and cursors: the ring is the suffix of what
\* was accepted, and no pin promised every segment is passed by an eviction.
THEOREM SegmentsSafe == Spec => []SafeInv
<1>1. SafeInv /\ [Next]_vars => SafeInv'
  <2> SUFFICES ASSUME SafeInv, [Next]_vars PROVE SafeInv'
    OBVIOUS
  <2>1. CASE TakeWriter \/ DropWriter
    BY <2>1, WriterSlotSafe
  <2>2. CASE UNCHANGED vars
    BY <2>2 DEF vars, SafeInv, TypeOK, RingIsSuffix, PinsMatchCursors, PositionsInLog, PinLossless, GapNeverTerminated
  <2> QED BY <2>1, <2>2, WriterSafe, CursorSafe DEF Next
<1> QED BY <1>1, InitSafe, PTL DEF Spec

\* The StallIngest and Terminate promise, on its own.
THEOREM PinLosslessHolds == Spec => []PinLossless
BY SegmentsSafe, PTL DEF SafeInv

\* The types of the segment log's state.
THEOREM SegmentsTyped == Spec => []TypeOK
BY SegmentsSafe, PTL DEF SafeInv

\* The ring holds exactly the newest segments accepted.
THEOREM RingIsSuffixHolds == Spec => []RingIsSuffix
BY SegmentsSafe, PTL DEF SafeInv

(***************************************************************************)
(* One publishing thread.  publish_segment checks the sequence number and  *)
(* then may wait with the lock released; only a lone publisher can be sure *)
(* that what it checked still holds when it pushes.                        *)
(***************************************************************************)

OnePublisher == \A p, q \in Publishers : p = q

\* A stalled call's number is still greater than every one accepted, and the
\* newest resident entry is the last one accepted.
LoneInv ==
    /\ SequenceMonotonic
    /\ NoLostWakeup
    /\ \A p \in Publishers : pub[p].at # "idle" => Monotonic(pub[p].seq)
    /\ hist # <<>> => entries # <<>>

\* Append leaves the old elements where they are and adds one behind them.
LEMMA AppendFacts ==
    ASSUME NEW s \in Seq(Nat), NEW x \in Nat
    PROVE  /\ Len(Append(s, x)) = Len(s) + 1
           /\ \A i \in 1..Len(s) : Append(s, x)[i] = s[i]
           /\ Append(s, x)[Len(s) + 1] = x
OBVIOUS

\* A push whose number passed the check keeps the accepted numbers increasing.
LEMMA MonotonicPush ==
    ASSUME SafeInv, SequenceMonotonic, hist # <<>> => entries # <<>>,
           NEW seq \in SeqNums, Monotonic(seq), Push(seq)
    PROVE  SequenceMonotonic' /\ entries' # <<>>
<1>1. /\ entries \in Seq(Nat) /\ hist \in Seq(Nat) /\ base \in Nat
      /\ Len(entries) \in Nat /\ Len(hist) \in Nat /\ Len(hist) = base + Len(entries)
      /\ \A i \in 1..Len(entries) : entries[i] = hist[base + i]
  BY DEF SafeInv, TypeOK, RingIsSuffix
<1>2. seq \in Nat
  BY BoundAssumption DEF SeqNums
<1>3. /\ Len(hist') = Len(hist) + 1
      /\ \A i \in 1..Len(hist) : hist'[i] = hist[i] /\ hist[i] \in Nat
      /\ hist'[Len(hist) + 1] = seq
  <2>1. hist' = Append(hist, seq)
    BY DEF Push
  <2>2. \A i \in 1..Len(hist) : hist[i] \in Nat
    BY <1>1
  <2>3. hist \in Seq(Nat)
    BY <1>1
  <2> QED BY <1>2, <2>1, <2>2, <2>3, AppendFacts
<1>4. entries' # <<>>
  <2>1. \A t \in Seq(Nat) : Append(t, seq) # <<>>
    <3> SUFFICES ASSUME NEW t \in Seq(Nat) PROVE Append(t, seq) # <<>>
      OBVIOUS
    <3>1. Len(Append(t, seq)) = Len(t) + 1 /\ Len(t) \in Nat
      BY <1>2
    <3> QED BY <3>1
  <2>2. CASE Len(entries) = Capacity
    <3>1. entries' = Append(Tail(entries), seq)
      BY <2>2 DEF Push
    <3>2. Tail(entries) \in Seq(Nat)
      BY <1>1, <2>2, CapacityAssumption
    <3> QED BY <2>1, <3>1, <3>2
  <2>3. CASE Len(entries) # Capacity
    BY <1>1, <2>1, <2>3 DEF Push
  <2> QED BY <2>2, <2>3
<1>5. ASSUME NEW i \in 1..Len(hist) PROVE hist[i] < seq
  <2>1. entries # <<>> /\ Len(entries) \in 1..Len(entries)
    <3>1. entries # <<>>
      BY <1>1
    <3> QED BY <1>1, <3>1
  <2>2. seq > hist[Len(hist)]
    <3>1. entries[Len(entries)] = hist[base + Len(entries)]
      BY <1>1, <2>1
    <3>2. seq > entries[Len(entries)]
      BY <2>1 DEF Monotonic
    <3> QED BY <1>1, <3>1, <3>2
  <2>3. hist[i] <= hist[Len(hist)]
    <3>1. Len(hist) \in 1..Len(hist) /\ hist[i] \in Nat
      BY <1>1, <1>3
    <3>2. CASE i = Len(hist)
      BY <3>1, <3>2
    <3>3. CASE i < Len(hist)
      <4>1. hist[i] < hist[Len(hist)] /\ hist[Len(hist)] \in Nat
        BY <1>3, <3>1, <3>3 DEF SequenceMonotonic
      <4> QED BY <3>1, <4>1
    <3> QED BY <1>1, <3>2, <3>3
  <2> QED BY <1>2, <1>3, <2>2, <2>3, <1>1
<1>6. ASSUME NEW i \in 1..Len(hist'), NEW j \in 1..Len(hist'), i < j
      PROVE  hist'[i] < hist'[j]
  <2>1. i \in 1..Len(hist)
    BY <1>1, <1>3, <1>6
  <2>2. CASE j = Len(hist) + 1
    BY <1>3, <1>5, <2>1, <2>2
  <2>3. CASE j # Len(hist) + 1
    <3>1. j \in 1..Len(hist)
      <4>1. j \in 1..(Len(hist) + 1)
        BY <1>3
      <4> QED BY <1>1, <2>3, <4>1
    <3> QED BY <1>3, <1>6, <2>1, <3>1 DEF SequenceMonotonic
  <2> QED BY <2>2, <2>3
<1>7. SequenceMonotonic'
  BY <1>6 DEF SequenceMonotonic
<1> QED BY <1>4, <1>7

\* A pass of the loop by the lone publisher.
LEMMA LoneLoop ==
    ASSUME OnePublisher, SafeInv, LoneInv, NEW p \in Publishers, NEW seq \in SeqNums,
           NEW late \in BOOLEAN, Monotonic(seq), PublishLoop(p, seq, late),
           UNCHANGED <<readVars, writer_taken>>
    PROVE  LoneInv'
<1> DEFINE blocking == AtRiskUnder("StallIngest")
           marked == AtRiskUnder("Terminate")
<1>1. TypeOK /\ pub \in [Publishers -> PubState]
  BY DEF SafeInv, TypeOK
<1>2. CASE Push(seq) /\ pub' = [pub EXCEPT ![p] = Idle]
  <2>1. SequenceMonotonic' /\ entries' # <<>>
    BY <1>2, MonotonicPush DEF LoneInv
  <2>2. \A q \in Publishers : pub'[q].at = "idle"
    BY <1>1, <1>2 DEF OnePublisher, Idle
  <2> QED BY <2>1, <2>2 DEF LoneInv, NoLostWakeup
<1>3. CASE /\ Full /\ blocking # {} /\ pins' = TerminatePins(marked)
           /\ pub' = [pub EXCEPT ![p] = [at |-> "parked", seq |-> seq, late |-> FALSE]]
           /\ UNCHANGED <<logVars, hist>>
  <2>1. /\ \A q \in Publishers : q = p
        /\ pub'[p].seq = seq
    BY <1>1, <1>3 DEF OnePublisher
  <2>2. UNCHANGED <<entries, base, hist>>
    BY <1>3 DEF logVars
  <2>3. PICK c \in DOMAIN pins : AtRisk(c) /\ pins[c].policy = "StallIngest"
    BY <1>3 DEF AtRiskUnder
  <2>4. /\ c \in DOMAIN pins' /\ pins'[c].consumed = pins[c].consumed
        /\ pins'[c].policy = "StallIngest" /\ ~pins'[c].terminated
    <3>1. c \notin marked /\ ~pins[c].terminated
      BY <2>3 DEF AtRiskUnder, AtRisk
    <3>2. /\ DOMAIN pins' = DOMAIN pins /\ pins'[c].consumed = pins[c].consumed
          /\ pins'[c].policy = pins[c].policy
          /\ pins'[c].terminated = (pins[c].terminated \/ c \in marked)
      BY <1>1, <1>3, <2>3, TerminateLemma
    <3> QED BY <2>3, <3>1, <3>2
  <2>5. c \in AtRiskUnder("StallIngest")'
    BY <2>2, <2>3, <2>4 DEF AtRiskUnder, AtRisk
  <2>6. NoLostWakeup'
    BY <1>3, <2>2, <2>5 DEF NoLostWakeup, Full
  <2>7. \A q \in Publishers : Monotonic(pub[q].seq)'
    BY <2>1, <2>2 DEF Monotonic
  <2> QED BY <2>2, <2>6, <2>7 DEF LoneInv, SequenceMonotonic
<1> QED BY <1>2, <1>3 DEF PublishLoop

\* A lone publisher's sequence numbers only go up, across re-issued writers,
\* and it is never left parked after the pin it waited for has moved.
THEOREM LonePublisher ==
    ASSUME OnePublisher PROVE Spec => [](SequenceMonotonic /\ NoLostWakeup)
<1>1. Init => LoneInv
  <2> SUFFICES ASSUME Init PROVE LoneInv
    OBVIOUS
  <2>1. Len(hist) = 0 /\ hist = <<>> /\ \A p \in Publishers : pub[p].at = "idle"
    BY DEF Init, Idle
  <2> QED BY <2>1 DEF LoneInv, SequenceMonotonic, NoLostWakeup
<1>2. SafeInv /\ LoneInv /\ [Next]_vars => LoneInv'
  <2> SUFFICES ASSUME SafeInv, LoneInv, [Next]_vars PROVE LoneInv'
    OBVIOUS
  <2>1. /\ TypeOK /\ pub \in [Publishers -> PubState] /\ PositionsInLog /\ PinsMatchCursors
        /\ pins \in [DOMAIN pins -> PinState]
    BY DEF SafeInv, TypeOK
  <2> DEFINE Blocked == Full /\ AtRiskUnder("StallIngest") # {}
  <2>2. ASSUME UNCHANGED <<entries, hist>>,
               \A p \in Publishers : /\ pub'[p].seq = pub[p].seq
                                     /\ pub'[p].at # "idle" => pub[p].at # "idle",
               NoLostWakeup'
        PROVE  LoneInv'
    BY <2>2 DEF LoneInv, SequenceMonotonic, Monotonic
  <2>3. ASSUME UNCHANGED <<entries, pub>>, Blocked => Blocked', notifying \subseteq notifying'
        PROVE  NoLostWakeup'
    BY <2>3 DEF NoLostWakeup, LoneInv
  <2>4. ASSUME NEW p \in Publishers, WriterStep(p) PROVE LoneInv'
    <3>1. ASSUME NEW seq \in SeqNums, PublishSegment(p, seq) PROVE LoneInv'
      BY <3>1, LoneLoop DEF PublishSegment
    <3>2. ASSUME NEW seq \in SeqNums, TryPublishSegment(p, seq) PROVE LoneInv'
      <4>1. SequenceMonotonic' /\ entries' # <<>>
        BY <3>2, MonotonicPush DEF LoneInv, TryPublishSegment
      <4>2. \A q \in Publishers : pub'[q].at = "idle"
        BY <3>2 DEF OnePublisher, TryPublishSegment
      <4> QED BY <4>1, <4>2 DEF LoneInv, NoLostWakeup
    <3>3. CASE ResumePublish(p)
      <4>1. /\ pub[p].seq \in SeqNums /\ pub[p].late \in BOOLEAN
            /\ Monotonic(pub[p].seq)
        BY <2>1, <3>3 DEF ResumePublish, PositionsInLog, PubState, LoneInv
      <4> QED BY <3>3, <4>1, LoneLoop DEF ResumePublish
    <3>4. CASE DeadlinePasses(p)
      <4>1. /\ \A q \in Publishers : pub'[q].seq = pub[q].seq /\ pub[q].at # "idle"
            /\ \A q \in Publishers : pub'[q].at = "woken"
        BY <2>1, <3>4 DEF DeadlinePasses, OnePublisher, PubState
      <4>2. NoLostWakeup'
        BY <4>1 DEF NoLostWakeup
      <4> QED BY <3>4, <4>1, <4>2, <2>2 DEF DeadlinePasses, logVars
    <3>5. CASE ExpireStalledPins(p)
      <4>1. \A q \in Publishers : pub'[q] = pub[q] /\ pub'[q].at = "idle"
        BY <3>5 DEF ExpireStalledPins, OnePublisher
      <4>2. NoLostWakeup'
        BY <4>1 DEF NoLostWakeup
      <4> QED BY <3>5, <4>1, <4>2, <2>2 DEF ExpireStalledPins, logVars
    <3> QED BY <2>4, <3>1, <3>2, <3>3, <3>4, <3>5 DEF WriterStep
  <2>5. ASSUME NEW c \in Cursors, CursorStep(c) PROVE LoneInv'
    <3>1. UNCHANGED <<entries, base, hist>>
      BY <2>5 DEF CursorStep, PollStep, SubscribeSegments, PinSegments, PollLagged, PollLossy,
                  PollTerminated, PollGap, PollPinned, DropCursor, NotifyAll, logVars
    <3>2. CASE SubscribeSegments(c) \/ PollLagged(c) \/ PollLossy(c)
      <4>1. UNCHANGED <<pins, pub, notifying>>
        BY <3>2 DEF SubscribeSegments, PollLagged, PollLossy
      <4>2. NoLostWakeup'
        BY <3>1, <4>1, <2>3 DEF Full, AtRiskUnder, AtRisk
      <4> QED BY <3>1, <4>1, <4>2, <2>2
    <3>3. ASSUME NEW policy \in Policies, PinSegments(c, policy) PROVE LoneInv'
      <4>1. c \notin DOMAIN pins /\ UNCHANGED <<pub, notifying>>
        BY <2>1, <3>3 DEF PinSegments, PinsMatchCursors
      <4>2. DOMAIN pins \subseteq DOMAIN pins' /\ \A d \in DOMAIN pins : pins'[d] = pins[d]
        BY <3>3, <4>1 DEF PinSegments
      <4>3. Blocked => Blocked'
        BY <3>1, <4>2 DEF Full, AtRiskUnder, AtRisk
      <4>4. NoLostWakeup'
        BY <3>1, <4>1, <4>3, <2>3
      <4> QED BY <3>1, <4>1, <4>4, <2>2
    <3>4. CASE PollTerminated(c)
      <4>1. UNCHANGED <<pub, notifying>> /\ pins[c].terminated
        BY <3>4 DEF PollTerminated
      <4>2. /\ DOMAIN pins' = DOMAIN pins \ {c}
            /\ \A d \in DOMAIN pins' : pins'[d] = pins[d]
        BY <2>1, <3>4, RemoveLemma DEF PollTerminated
      <4>3. Blocked => Blocked'
        BY <3>1, <4>1, <4>2 DEF Full, AtRiskUnder, AtRisk
      <4>4. NoLostWakeup'
        BY <3>1, <4>1, <4>3, <2>3
      <4> QED BY <3>1, <4>1, <4>4, <2>2
    <3>5. CASE PollGap(c) \/ PollPinned(c)
      <4>1. notifying' # {} /\ UNCHANGED pub
        BY <3>5 DEF PollGap, PollPinned
      <4> QED BY <3>1, <4>1, <2>2 DEF NoLostWakeup
    <3>6. CASE DropCursor(c)
      <4>1. CASE c \in DOMAIN pins
        <5>1. notifying' # {} /\ UNCHANGED pub
          BY <3>6, <4>1 DEF DropCursor
        <5> QED BY <3>1, <5>1, <2>2 DEF NoLostWakeup
      <4>2. CASE c \notin DOMAIN pins
        <5>1. UNCHANGED <<pub, notifying>>
          BY <3>6, <4>2 DEF DropCursor
        <5>2. DOMAIN pins' = DOMAIN pins /\ \A d \in DOMAIN pins' : pins'[d] = pins[d]
          BY <2>1, <3>6, <4>2, RemoveLemma DEF DropCursor
        <5>3. Blocked => Blocked'
          BY <3>1, <5>2 DEF Full, AtRiskUnder, AtRisk
        <5>4. NoLostWakeup'
          BY <3>1, <5>1, <5>3, <2>3
        <5> QED BY <3>1, <5>1, <5>4, <2>2
      <4> QED BY <4>1, <4>2
    <3>7. CASE NotifyAll(c)
      <4>1. \A p \in Publishers : /\ pub'[p].at # "parked" /\ pub'[p].seq = pub[p].seq
                                  /\ pub'[p].at # "idle" => pub[p].at # "idle"
        BY <2>1, <3>7 DEF NotifyAll, PubState
      <4>2. NoLostWakeup'
        BY <4>1 DEF NoLostWakeup
      <4> QED BY <3>1, <4>1, <4>2, <2>2
    <3> QED BY <2>5, <3>2, <3>3, <3>4, <3>5, <3>6, <3>7 DEF CursorStep, PollStep
  <2>6. CASE TakeWriter \/ DropWriter \/ UNCHANGED vars
    <3>1. UNCHANGED <<entries, base, hist, pins, pub, notifying>>
      BY <2>6 DEF TakeWriter, DropWriter, logVars, readVars, vars
    <3>2. NoLostWakeup'
      BY <3>1, <2>3 DEF Full, AtRiskUnder, AtRisk
    <3> QED BY <3>1, <3>2, <2>2
  <2> QED BY <2>4, <2>5, <2>6 DEF Next
<1>3. LoneInv => SequenceMonotonic /\ NoLostWakeup
  BY DEF LoneInv
<1> QED BY <1>1, <1>2, <1>3, SegmentsSafe, PTL DEF Spec

\* A lone publisher is never left parked after the pin it waited for has moved:
\* poll and drop unlock first and notify after it, and both come in time.
THEOREM NoLostWakeupHolds ==
    ASSUME OnePublisher PROVE Spec => []NoLostWakeup
BY LonePublisher, PTL

(***************************************************************************)
(* Any number of publishing threads.                                       *)
(***************************************************************************)

\* The step's effect on pin c, if it terminates it under Terminate.
TerminatedByEviction(c) ==
    pins[c].policy = "Terminate" /\ ~pins[c].terminated /\ pins'[c].terminated
        => \/ base' > pins[c].consumed
           \/ \E p \in Publishers : pub'[p].at = "parked"

\* A full push moves past the entry a marked pin had not consumed.
LEMMA EvictionLemma ==
    ASSUME SafeInv, Full, NEW seq \in SeqNums, Push(seq), NEW c \in AtRiskUnder("Terminate")
    PROVE  base' > pins[c].consumed
<1>1. seq \in Nat
  BY BoundAssumption DEF SeqNums
<1>2. base' = base + 1
  BY <1>1, PushLemma DEF SafeInv
<1>3. pins[c].consumed <= base /\ pins[c].consumed \in Nat /\ base \in Nat
  BY DEF AtRiskUnder, AtRisk, SafeInv, TypeOK, PinState
<1> QED BY <1>2, <1>3

\* One pass of publish_segment's loop ends a recording only when it evicts, or
\* when it parks.
LEMMA LoopEvicts ==
    ASSUME SafeInv, NEW p \in Publishers, NEW seq \in SeqNums, NEW late \in BOOLEAN,
           PublishLoop(p, seq, late), NEW c \in DOMAIN pins
    PROVE  TerminatedByEviction(c)
<1> SUFFICES ASSUME pins[c].policy = "Terminate", ~pins[c].terminated, pins'[c].terminated
             PROVE  base' > pins[c].consumed \/ \E q \in Publishers : pub'[q].at = "parked"
  BY DEF TerminatedByEviction
<1>0. TypeOK /\ pub \in [Publishers -> PubState]
  BY DEF SafeInv, TypeOK
<1>1. CASE UNCHANGED pins
  BY <1>1
<1>2. CASE Full /\ pins' = TerminatePins(AtRiskUnder("Terminate") \cup AtRiskUnder("StallIngest"))
           /\ Push(seq)
  <2> DEFINE S == AtRiskUnder("Terminate") \cup AtRiskUnder("StallIngest")
  <2>0. pins' = TerminatePins(S)
    BY <1>2
  <2> HIDE DEF S
  <2>a. TerminatePins(S)[c].terminated = (pins[c].terminated \/ c \in S)
    BY <1>0, TerminateLemma
  <2>b. c \in S
    BY <2>0, <2>a
  <2>1. c \in AtRiskUnder("Terminate") \cup AtRiskUnder("StallIngest")
    BY <2>b DEF S
  <2>2. c \in AtRiskUnder("Terminate")
    BY <2>1 DEF AtRiskUnder
  <2> QED BY <1>2, <2>2, EvictionLemma
<1>3. CASE pub' = [pub EXCEPT ![p] = [at |-> "parked", seq |-> seq, late |-> FALSE]]
  BY <1>0, <1>3
<1> QED BY <1>1, <1>2, <1>3 DEF PublishLoop

\* A Terminate pin is marked terminated only by a step that evicts what it had
\* not consumed, or by a publish_segment that parks: try_publish_segment never
\* ends a recording for a segment it then refuses.
THEOREM TerminateOnlyOnEvictionHolds == Spec => TerminateOnlyOnEviction
<1> DEFINE A == \A c \in DOMAIN pins \cap DOMAIN pins' :
                    pins[c].policy = "Terminate" /\ ~pins[c].terminated /\ pins'[c].terminated
                       => \/ base' > pins[c].consumed
                          \/ \E p \in Publishers : pub'[p].at = "parked"
<1>1. SafeInv /\ [Next]_vars => [A]_vars
  <2> SUFFICES ASSUME SafeInv, Next, NEW c \in DOMAIN pins \cap DOMAIN pins'
               PROVE  TerminatedByEviction(c)
    BY DEF TerminatedByEviction
  <2>0. TypeOK /\ pins \in [DOMAIN pins -> PinState] /\ PositionsInLog /\ PinsMatchCursors
        /\ pub \in [Publishers -> PubState]
    BY DEF SafeInv, TypeOK
  <2>1. ASSUME NEW p \in Publishers, WriterStep(p) PROVE TerminatedByEviction(c)
    <3>1. ASSUME NEW seq \in SeqNums, PublishSegment(p, seq) PROVE TerminatedByEviction(c)
      BY <3>1, LoopEvicts DEF PublishSegment
    <3>2. ASSUME NEW seq \in SeqNums, TryPublishSegment(p, seq) PROVE TerminatedByEviction(c)
      <4>1. CASE Full
        <5>1. pins' = TerminatePins(AtRiskUnder("Terminate")) /\ Push(seq)
          BY <3>2, <4>1 DEF TryPublishSegment
        <5>2. ~pins[c].terminated /\ pins'[c].terminated => c \in AtRiskUnder("Terminate")
          BY <2>0, <5>1, TerminateLemma
        <5> QED BY <4>1, <5>1, <5>2, EvictionLemma DEF TerminatedByEviction
      <4>2. CASE ~Full
        BY <3>2, <4>2 DEF TryPublishSegment, TerminatedByEviction
      <4> QED BY <4>1, <4>2
    <3>3. CASE ResumePublish(p)
      <4>1. pub[p].seq \in SeqNums /\ pub[p].late \in BOOLEAN
        BY <2>0, <3>3 DEF ResumePublish, PositionsInLog, PubState
      <4> QED BY <3>3, <4>1, LoopEvicts DEF ResumePublish
    <3>4. CASE DeadlinePasses(p)
      BY <3>4 DEF DeadlinePasses, TerminatedByEviction
    <3>5. CASE ExpireStalledPins(p)
      <4>1. pins' = TerminatePins(AtRiskUnder("StallIngest"))
        BY <3>5 DEF ExpireStalledPins
      <4>2. ~pins[c].terminated /\ pins'[c].terminated => c \in AtRiskUnder("StallIngest")
        BY <2>0, <4>1, TerminateLemma
      <4>3. c \in AtRiskUnder("StallIngest") => pins[c].policy = "StallIngest"
        BY DEF AtRiskUnder
      <4> QED BY <4>2, <4>3 DEF TerminatedByEviction
    <3> QED BY <2>1, <3>1, <3>2, <3>3, <3>4, <3>5 DEF WriterStep
  <2>2. ASSUME NEW d \in Cursors, CursorStep(d) PROVE TerminatedByEviction(c)
    <3>1. CASE SubscribeSegments(d) \/ PollLagged(d) \/ PollLossy(d) \/ NotifyAll(d)
      <4>1. pins' = pins
        BY <3>1 DEF SubscribeSegments, PollLagged, PollLossy, NotifyAll
      <4> QED BY <4>1 DEF TerminatedByEviction
    <3>2. ASSUME NEW policy \in Policies, PinSegments(d, policy) PROVE TerminatedByEviction(c)
      <4>1. d \notin DOMAIN pins
        BY <2>0, <3>2 DEF PinSegments, PinsMatchCursors
      <4>2. pins'[c] = pins[c]
        BY <3>2, <4>1 DEF PinSegments
      <4> QED BY <4>2 DEF TerminatedByEviction
    <3>3. CASE PollTerminated(d) \/ DropCursor(d)
      <4>0. pins' = RemovePin(d)
        BY <3>3 DEF PollTerminated, DropCursor
      <4>1. pins'[c] = pins[c]
        BY <2>0, <4>0, RemoveLemma
      <4> QED BY <4>1 DEF TerminatedByEviction
    <3>4. CASE PollGap(d) \/ PollPinned(d)
      <4>1. pins'[c].terminated = pins[c].terminated
        <5>1. PICK n : pins' = [pins EXCEPT ![d].consumed = n]
          <6>1. CASE PollGap(d)
            BY <6>1 DEF PollGap
          <6>2. CASE PollPinned(d)
            <7>1. pins' = [pins EXCEPT ![d].consumed = pins[d].consumed + 1]
              BY <2>0, <6>2 DEF PollPinned
            <7> QED BY <7>1
          <6> QED BY <3>4, <6>1, <6>2
        <5>2. pins[c] \in PinState
          BY <2>0
        <5>3. CASE c = d
          <6>1. pins'[c] = [pins[c] EXCEPT !.consumed = n]
            BY <2>0, <5>1, <5>3
          <6> QED BY <5>2, <6>1 DEF PinState
        <5>4. CASE c # d
          BY <2>0, <5>1, <5>4
        <5> QED BY <5>3, <5>4
      <4> QED BY <4>1 DEF TerminatedByEviction
    <3> QED BY <2>2, <3>1, <3>2, <3>3, <3>4 DEF CursorStep, PollStep
  <2>3. CASE TakeWriter \/ DropWriter
    BY <2>3 DEF TakeWriter, DropWriter, TerminatedByEviction
  <2> QED BY <2>1, <2>2, <2>3 DEF Next
<1> QED BY <1>1, SegmentsSafe, PTL DEF Spec, TerminateOnlyOnEviction

-----------------------------------------------------------------------------
(***************************************************************************)
(* The bounded, evicting, pinned segment log implements SegmentFeed, for   *)
(* every capacity and every number of threads and cursors.                 *)
(***************************************************************************)
\* What a cursor looks like from outside depends only on its own record and
\* on the consumed count and policy of its own pin.
LEMMA ReaderSame ==
    ASSUME SafeInv, UNCHANGED cursor,
           \A c \in DOMAIN pins : /\ pins'[c].consumed = pins[c].consumed
                                  /\ pins'[c].policy = pins[c].policy
    PROVE  reader' = reader
<1>1. ASSUME NEW c \in Cursors PROVE Mode(c)' = Mode(c) /\ Position(c)' = Position(c)
  <2>1. cursor[c].kind \in Kinds /\ (cursor[c].kind = "pinned" /\ ~cursor[c].done => c \in DOMAIN pins)
    BY DEF SafeInv, TypeOK, PinsMatchCursors, CursorState
  <2>2. CASE cursor[c].kind = "pinned" /\ ~cursor[c].done
    BY <2>1, <2>2 DEF Mode, Position
  <2>3. CASE cursor[c].kind = "pinned" /\ cursor[c].done
    BY <2>3 DEF Mode, Position
  <2>4. CASE cursor[c].kind # "pinned"
    BY <2>1, <2>4 DEF Mode, Position, Kinds
  <2> QED BY <2>2, <2>3, <2>4
<1> QED BY <1>1 DEF reader

\* A step that touches one cursor and its pin changes only its own reader.
LEMMA ReaderOther ==
    ASSUME SafeInv, NEW c \in Cursors,
           \A d \in Cursors : d # c => cursor'[d] = cursor[d],
           \A d \in DOMAIN pins : d # c => pins'[d] = pins[d]
    PROVE  reader' = [reader EXCEPT ![c] = [mode |-> Mode(c)', pos |-> Position(c)']]
<1>1. ASSUME NEW d \in Cursors, d # c PROVE Mode(d)' = Mode(d) /\ Position(d)' = Position(d)
  <2>1. cursor[d].kind \in Kinds /\ (cursor[d].kind = "pinned" /\ ~cursor[d].done => d \in DOMAIN pins)
    BY DEF SafeInv, TypeOK, PinsMatchCursors, CursorState
  <2>2. cursor'[d] = cursor[d]
    BY <1>1
  <2>3. CASE cursor[d].kind = "pinned" /\ ~cursor[d].done
    BY <1>1, <2>1, <2>2, <2>3 DEF Mode, Position
  <2>4. CASE cursor[d].kind = "pinned" /\ cursor[d].done
    BY <2>2, <2>4 DEF Mode, Position
  <2>5. CASE cursor[d].kind # "pinned"
    BY <2>1, <2>2, <2>5 DEF Mode, Position, Kinds
  <2> QED BY <2>3, <2>4, <2>5
<1> QED BY <1>1 DEF reader

\* Any step that pushes seq and at most marks pins is Accept(seq).
LEMMA AcceptStep ==
    ASSUME SafeInv, NEW seq \in SeqNums, Push(seq), NEW S, pins' = TerminatePins(S),
           UNCHANGED <<cursor, item>>
    PROVE  Feed!Next
<1>1. TypeOK
  BY DEF SafeInv
<1>2. reader' = reader
  BY <1>1, ReaderSame, TerminateLemma
<1>3. Feed!Accept(seq)
  BY <1>2 DEF Push, Feed!Accept
<1> QED BY <1>3 DEF Feed!Next

\* A step that only marks pins is invisible.
LEMMA MarkStep ==
    ASSUME SafeInv, NEW S, pins' = TerminatePins(S), UNCHANGED <<cursor, item, hist>>
    PROVE  UNCHANGED Feed!vars
<1>1. TypeOK
  BY DEF SafeInv
<1>2. reader' = reader
  BY <1>1, ReaderSame, TerminateLemma
<1> QED BY <1>2 DEF Feed!vars

\* A pass of publish_segment's loop is Accept or invisible.
LEMMA LoopStep ==
    ASSUME SafeInv, NEW p \in Publishers, NEW seq \in SeqNums, NEW late \in BOOLEAN,
           PublishLoop(p, seq, late), UNCHANGED <<readVars, writer_taken>>
    PROVE  [Feed!Next]_(Feed!vars)
<1> DEFINE blocking == AtRiskUnder("StallIngest")
           marked == AtRiskUnder("Terminate")
<1>1. TypeOK /\ UNCHANGED <<cursor, item>>
  BY DEF SafeInv, readVars
<1>2. CASE ~Full /\ Push(seq) /\ UNCHANGED pins
  <2>1. pins' = TerminatePins({})
    BY <1>1, <1>2, TerminateNobody
  <2> QED BY <1>1, <1>2, <2>1, AcceptStep
<1>3. CASE Full /\ Push(seq) /\ pins' = TerminatePins(marked \cup blocking)
  BY <1>1, <1>3, AcceptStep
<1>4. CASE Full /\ pins' = TerminatePins(marked) /\ UNCHANGED <<logVars, hist>>
  BY <1>1, <1>4, MarkStep
<1> QED BY <1>2, <1>3, <1>4 DEF PublishLoop

\* Every step of the writer is Accept or invisible.
LEMMA WriterRefines ==
    ASSUME SafeInv, NEW p \in Publishers, WriterStep(p)
    PROVE  [Feed!Next]_(Feed!vars)
<1>1. TypeOK /\ PositionsInLog /\ pub \in [Publishers -> PubState]
  BY DEF SafeInv, TypeOK
<1>2. ASSUME NEW seq \in SeqNums, PublishSegment(p, seq) PROVE [Feed!Next]_(Feed!vars)
  BY <1>2, LoopStep DEF PublishSegment
<1>3. ASSUME NEW seq \in SeqNums, TryPublishSegment(p, seq) PROVE [Feed!Next]_(Feed!vars)
  <2>1. Push(seq) /\ UNCHANGED <<cursor, item>>
    BY <1>3 DEF TryPublishSegment, readVars
  <2>2. \E S : pins' = TerminatePins(S)
    <3>1. CASE Full
      BY <1>3, <3>1 DEF TryPublishSegment
    <3>2. CASE ~Full
      BY <1>1, <1>3, <3>2, TerminateNobody DEF TryPublishSegment
    <3> QED BY <3>1, <3>2
  <2>3. PICK S : pins' = TerminatePins(S)
    BY <2>2
  <2> QED BY <2>1, <2>3, AcceptStep
<1>4. CASE ResumePublish(p)
  <2>1. pub[p].seq \in SeqNums /\ pub[p].late \in BOOLEAN
    BY <1>1, <1>4 DEF ResumePublish, PositionsInLog, PubState
  <2> QED BY <1>4, <2>1, LoopStep DEF ResumePublish
<1>5. CASE DeadlinePasses(p)
  <2>1. pins' = TerminatePins({}) /\ UNCHANGED <<cursor, item, hist>>
    BY <1>1, <1>5, TerminateNobody DEF DeadlinePasses, readVars
  <2> QED BY <2>1, MarkStep
<1>6. CASE ExpireStalledPins(p)
  <2>1. /\ pins' = TerminatePins(AtRiskUnder("StallIngest"))
        /\ UNCHANGED <<cursor, item, hist>>
    BY <1>6 DEF ExpireStalledPins, readVars
  <2> QED BY <2>1, MarkStep
<1> QED BY <1>2, <1>3, <1>4, <1>5, <1>6 DEF WriterStep

\* Every step of a cursor is the SegmentFeed step of the same name in spirit:
\* a poll that finds its segment evicted is Lose, never a silent skip.
LEMMA CursorRefines ==
    ASSUME SafeInv, NEW c \in Cursors, CursorStep(c)
    PROVE  [Feed!Next]_(Feed!vars)
<1>1. TypeOK /\ RingIsSuffix /\ PinsMatchCursors /\ PositionsInLog /\ PinLossless
      /\ GapNeverTerminated
  BY DEF SafeInv
<1>2. /\ base \in Nat /\ published \in Nat /\ base <= published /\ published = Len(hist)
      /\ entries \in Seq(Nat) /\ Len(entries) \in Nat /\ base + Len(entries) = published
      /\ \A i \in 1..Len(entries) : entries[i] = hist[base + i]
  BY <1>1 DEF TypeOK, RingIsSuffix
<1>3. /\ cursor \in [Cursors -> CursorState] /\ cursor[c] \in CursorState
      /\ DOMAIN pins \subseteq Cursors /\ pins \in [DOMAIN pins -> PinState]
  BY <1>1 DEF TypeOK
<1>4. reader[c] = [mode |-> Mode(c), pos |-> Position(c)] /\ DOMAIN reader = Cursors
  BY DEF reader
<1>5. ASSUME Feed!ReaderStep(c) PROVE [Feed!Next]_(Feed!vars)
  BY <1>5 DEF Feed!Next
<1>6. CASE SubscribeSegments(c)
  <2>1. reader' = [reader EXCEPT ![c] = [mode |-> Mode(c)', pos |-> Position(c)']]
    BY <1>3, <1>6, ReaderOther DEF SubscribeSegments
  <2>2. Mode(c) = "off" /\ Mode(c)' = "lossy" /\ Position(c)' = published
    BY <1>3, <1>6 DEF SubscribeSegments, Mode, Position
  <2>3. Feed!Join(c, "lossy")
    BY <1>2, <1>4, <1>6, <2>1, <2>2 DEF SubscribeSegments, Feed!Join
  <2> QED BY <1>5, <2>3 DEF Feed!ReaderStep, Feed!JoinModes
<1>7. ASSUME NEW policy \in Policies, PinSegments(c, policy) PROVE [Feed!Next]_(Feed!vars)
  <2> DEFINE mode == IF policy = "Gap" THEN "gap" ELSE "strict"
  <2>1. pins'[c] = [consumed |-> published, policy |-> policy, terminated |-> FALSE]
    BY <1>7 DEF PinSegments
  <2>2. cursor'[c] = [kind |-> "pinned", consumed |-> 0, done |-> FALSE]
    BY <1>3, <1>7 DEF PinSegments
  <2>3. reader' = [reader EXCEPT ![c] = [mode |-> Mode(c)', pos |-> Position(c)']]
    BY <1>3, <1>7, ReaderOther DEF PinSegments
  <2>4. Mode(c) = "off" /\ Mode(c)' = mode /\ Position(c)' = published
    BY <1>3, <1>7, <2>1, <2>2 DEF PinSegments, Mode, Position
  <2>5. Feed!Join(c, mode)
    BY <1>2, <1>4, <1>7, <2>3, <2>4 DEF PinSegments, Feed!Join
  <2> QED BY <1>5, <2>5 DEF Feed!ReaderStep, Feed!JoinModes
<1>8. CASE PollLagged(c)
  <2>1. /\ cursor'[c].kind = "lossy" /\ cursor'[c].consumed = base
        /\ \A d \in Cursors : d # c => cursor'[d] = cursor[d]
    BY <1>3, <1>8 DEF PollLagged, CursorState
  <2>2. reader' = [reader EXCEPT ![c] = [mode |-> Mode(c)', pos |-> Position(c)']]
    BY <1>8, <2>1, ReaderOther DEF PollLagged
  <2>3. /\ Mode(c) = "lossy" /\ Position(c) = cursor[c].consumed
        /\ Mode(c)' = "lossy" /\ Position(c)' = base
    BY <1>8, <2>1 DEF PollLagged, Mode, Position
  <2>4. reader' = [reader EXCEPT ![c].pos = base]
    <3>1. [reader[c] EXCEPT !.pos = base] = [mode |-> "lossy", pos |-> base]
      BY <1>4, <2>3
    <3> QED BY <3>1, <2>2, <2>3
  <2>5. base \in 1..Len(hist) /\ cursor[c].consumed < base
    BY <1>2, <1>3, <1>8 DEF PollLagged, CursorState
  <2>6. Feed!Lose(c, base)
    <3>1. reader[c].mode = "lossy" /\ reader[c].pos = cursor[c].consumed
      BY <1>4, <2>3
    <3>2. item' = [item EXCEPT ![c] = [kind |-> "Lagged", n |-> base - cursor[c].consumed]]
      BY <1>8 DEF PollLagged, Item
    <3>3. hist' = hist
      BY <1>8 DEF PollLagged
    <3> QED BY <3>1, <3>2, <3>3, <1>2, <2>4, <2>5 DEF Feed!Lose, Feed!Loss
  <2> QED BY <1>5, <2>5, <2>6 DEF Feed!ReaderStep
<1>9. CASE PollLossy(c)
  <2>1. /\ cursor[c].consumed \in Nat /\ cursor[c].consumed < published
        /\ ring_offset(cursor[c].consumed) \in 1..Len(entries)
        /\ base + ring_offset(cursor[c].consumed) = cursor[c].consumed + 1
    BY <1>2, <1>3, <1>9 DEF PollLossy, CursorState, IsResident, ring_offset
  <2>2. entries[ring_offset(cursor[c].consumed)] = hist[cursor[c].consumed + 1]
    BY <1>2, <2>1
  <2>3. /\ cursor'[c].kind = "lossy" /\ cursor'[c].consumed = cursor[c].consumed + 1
        /\ \A d \in Cursors : d # c => cursor'[d] = cursor[d]
    BY <1>3, <1>9 DEF PollLossy, CursorState
  <2>4. reader' = [reader EXCEPT ![c] = [mode |-> Mode(c)', pos |-> Position(c)']]
    BY <1>9, <2>3, ReaderOther DEF PollLossy
  <2>5. /\ Mode(c) = "lossy" /\ Position(c) = cursor[c].consumed
        /\ Mode(c)' = "lossy" /\ Position(c)' = cursor[c].consumed + 1
    BY <1>9, <2>3 DEF PollLossy, Mode, Position
  <2>6. reader' = [reader EXCEPT ![c].pos = @ + 1]
    <3>1. [reader[c] EXCEPT !.pos = @ + 1] = [mode |-> "lossy", pos |-> cursor[c].consumed + 1]
      BY <1>4, <2>5
    <3> QED BY <1>4, <3>1, <2>4, <2>5
  <2>7. Feed!Deliver(c)
    <3>1. reader[c].mode = "lossy" /\ reader[c].pos = cursor[c].consumed
      BY <1>4, <2>5
    <3>2. item' = [item EXCEPT ![c] = [kind |-> "Segment", n |-> hist[cursor[c].consumed + 1]]]
      BY <1>9, <2>2 DEF PollLossy, Item
    <3>3. hist' = hist
      BY <1>9 DEF PollLossy
    <3> QED BY <3>1, <3>2, <3>3, <1>2, <2>1, <2>6 DEF Feed!Deliver, Feed!JoinModes
  <2> QED BY <1>5, <2>7 DEF Feed!ReaderStep
<1>10. CASE PollTerminated(c)
  <2>1. c \in DOMAIN pins /\ pins[c] \in PinState
    BY <1>1, <1>3, <1>10 DEF PollTerminated, Pollable, PinsMatchCursors
  <2>2. cursor'[c].kind = "pinned" /\ cursor'[c].done
    BY <1>3, <1>10 DEF PollTerminated, Pollable, CursorState
  <2>3. reader' = [reader EXCEPT ![c] = [mode |-> Mode(c)', pos |-> Position(c)']]
    BY <1>1, <1>3, <1>10, ReaderOther, RemoveLemma DEF PollTerminated
  <2>4. Mode(c)' = "ended" /\ Position(c)' = 0
    BY <2>2 DEF Mode, Position
  <2>5. Mode(c) = "strict"
    BY <1>1, <1>10, <2>1 DEF PollTerminated, Pollable, Mode, GapNeverTerminated
  <2>6. Feed!End(c)
    BY <1>4, <1>10, <2>3, <2>4, <2>5 DEF PollTerminated, Feed!End, Item
  <2> QED BY <1>5, <2>6 DEF Feed!ReaderStep
<1>11. CASE PollGap(c)
  <2>1. c \in DOMAIN pins /\ pins[c] \in PinState
    BY <1>1, <1>3, <1>11 DEF PollGap, Pollable, PinsMatchCursors
  <2>2. /\ pins'[c].consumed = base /\ pins'[c].policy = pins[c].policy
        /\ \A d \in DOMAIN pins : d # c => pins'[d] = pins[d]
    BY <1>3, <1>11, <2>1 DEF PollGap, PinState
  <2>3. reader' = [reader EXCEPT ![c] = [mode |-> Mode(c)', pos |-> Position(c)']]
    BY <1>11, <2>2, ReaderOther DEF PollGap
  <2>4. pins[c].policy = "Gap"
    <3>1. base \in Nat /\ pins[c].consumed \in Nat /\ pins[c].consumed < base
      BY <1>2, <1>11, <2>1 DEF PollGap, PinState
    <3> QED BY <1>1, <1>11, <2>1, <3>1 DEF PollGap, PinLossless
  <2>5. /\ Mode(c) = "gap" /\ Position(c) = pins[c].consumed
        /\ Mode(c)' = "gap" /\ Position(c)' = base
    BY <1>11, <2>2, <2>4 DEF PollGap, Pollable, Mode, Position
  <2>6. reader' = [reader EXCEPT ![c].pos = base]
    <3>1. [reader[c] EXCEPT !.pos = base] = [mode |-> "gap", pos |-> base]
      BY <1>4, <2>5
    <3> QED BY <3>1, <2>3, <2>5
  <2>7. base \in 1..Len(hist) /\ pins[c].consumed < base
    BY <1>2, <1>11, <2>1 DEF PollGap, PinState
  <2>8. Feed!Lose(c, base)
    <3>1. reader[c].mode = "gap" /\ reader[c].pos = pins[c].consumed
      BY <1>4, <2>5
    <3>2. item' = [item EXCEPT ![c] = [kind |-> "Gap", n |-> base - pins[c].consumed]]
      BY <1>11 DEF PollGap, Item
    <3>3. hist' = hist
      BY <1>11 DEF PollGap
    <3> QED BY <3>1, <3>2, <3>3, <1>2, <2>6, <2>7 DEF Feed!Lose, Feed!Loss
  <2> QED BY <1>5, <2>7, <2>8 DEF Feed!ReaderStep
<1>12. CASE PollPinned(c)
  <2>1. c \in DOMAIN pins /\ pins[c] \in PinState
    BY <1>1, <1>3, <1>12 DEF PollPinned, Pollable, PinsMatchCursors
  <2>2. /\ pins[c].consumed \in Nat /\ pins[c].consumed < published
        /\ ring_offset(pins[c].consumed) \in 1..Len(entries)
        /\ base + ring_offset(pins[c].consumed) = pins[c].consumed + 1
    BY <1>2, <1>12, <2>1 DEF PollPinned, PinState, IsResident, ring_offset
  <2>3. entries[ring_offset(pins[c].consumed)] = hist[pins[c].consumed + 1]
    BY <1>2, <2>2
  <2>4. /\ pins'[c].consumed = pins[c].consumed + 1 /\ pins'[c].policy = pins[c].policy
        /\ \A d \in DOMAIN pins : d # c => pins'[d] = pins[d]
    BY <1>3, <1>12, <2>1 DEF PollPinned, PinState
  <2>5. reader' = [reader EXCEPT ![c] = [mode |-> Mode(c)', pos |-> Position(c)']]
    BY <1>12, <2>4, ReaderOther DEF PollPinned
  <2>6. /\ Mode(c) \in {"gap", "strict"} /\ Position(c) = pins[c].consumed
        /\ Mode(c)' = Mode(c) /\ Position(c)' = pins[c].consumed + 1
    BY <1>12, <2>4 DEF PollPinned, Pollable, Mode, Position
  <2>7. reader' = [reader EXCEPT ![c].pos = @ + 1]
    <3>1. [reader[c] EXCEPT !.pos = @ + 1] = [mode |-> Mode(c), pos |-> pins[c].consumed + 1]
      BY <1>4, <2>6
    <3> QED BY <1>4, <3>1, <2>5, <2>6
  <2>8. Feed!Deliver(c)
    <3>1. reader[c].mode \in {"gap", "strict"} /\ reader[c].pos = pins[c].consumed
      BY <1>4, <2>6
    <3>2. item' = [item EXCEPT ![c] = [kind |-> "Segment", n |-> hist[pins[c].consumed + 1]]]
      BY <1>12, <2>3 DEF PollPinned, Item
    <3>3. hist' = hist
      BY <1>12 DEF PollPinned
    <3> QED BY <3>1, <3>2, <3>3, <1>2, <2>2, <2>7 DEF Feed!Deliver, Feed!JoinModes
  <2> QED BY <1>5, <2>8 DEF Feed!ReaderStep
<1>13. CASE DropCursor(c)
  <2>1. cursor'[c].kind = "off"
    BY <1>3, <1>13 DEF DropCursor, NoCursor
  <2>2. reader' = [reader EXCEPT ![c] = [mode |-> Mode(c)', pos |-> Position(c)']]
    BY <1>1, <1>3, <1>13, ReaderOther, RemoveLemma DEF DropCursor
  <2>3. Mode(c)' = "off" /\ Position(c)' = 0
    BY <2>1 DEF Mode, Position
  <2>4. Mode(c) # "off"
    BY <1>13 DEF DropCursor, Mode
  <2>5. Feed!Leave(c)
    BY <1>4, <1>13, <2>2, <2>3, <2>4 DEF DropCursor, Feed!Leave, NoItem, Item
  <2> QED BY <1>5, <2>5 DEF Feed!ReaderStep
<1>14. CASE NotifyAll(c)
  <2>1. reader' = reader
    BY <1>14, ReaderSame DEF NotifyAll
  <2> QED BY <1>14, <2>1 DEF NotifyAll, Feed!vars
<1> QED BY <1>6, <1>7, <1>8, <1>9, <1>10, <1>11, <1>12, <1>13, <1>14 DEF CursorStep, PollStep

\* The segment log implements SegmentFeed: no silent loss, no duplicate, no
\* reordering, exact loss counts, and for a StallIngest or Terminate reader no
\* loss at all short of being told it has ended.
THEOREM SegmentsImplementFeed == Spec => FeedSpec
<1>1. Init => Feed!Init
  <2> SUFFICES ASSUME Init PROVE Feed!Init
    OBVIOUS
  <2>1. \A c \in Cursors : Mode(c) = "off" /\ Position(c) = 0
    BY DEF Init, Mode, Position, NoCursor
  <2> QED BY <2>1 DEF Init, Feed!Init, reader, NoItem, Item
<1>2. SafeInv /\ [Next]_vars => [Feed!Next]_(Feed!vars)
  <2> SUFFICES ASSUME SafeInv, [Next]_vars PROVE [Feed!Next]_(Feed!vars)
    OBVIOUS
  <2>1. CASE TakeWriter \/ DropWriter \/ UNCHANGED vars
    <3>1. UNCHANGED <<pins, cursor, item, hist>>
      BY <2>1 DEF TakeWriter, DropWriter, readVars, vars
    <3>2. reader' = reader
      BY <3>1, ReaderSame
    <3> QED BY <3>1, <3>2 DEF Feed!vars
  <2> QED BY <2>1, WriterRefines, CursorRefines DEF Next
<1> QED BY <1>1, <1>2, SegmentsSafe, PTL DEF Spec, FeedSpec, Feed!Spec

(***************************************************************************)
(* The segmenter.                                                          *)
(***************************************************************************)

-----------------------------------------------------------------------------
\* Items of the queue.

Items == [kind : {"Part", "Segment"}, n : Nat, i : Nat, id : {0}]

IsSegment(x) == x.kind = "Segment"

SegmentPlaces(s) == {k \in 1..Len(s) : s[k].kind = "Segment"}

\* How many segments a list of items holds.
Size(s) == Len(Numbers(s))

\* Numbers, by whatever enumerates the segments.
LEMMA NumbersAt ==
    ASSUME NEW s, Len(s) \in Nat, NEW w, Enumerates(w, SegmentPlaces(s))
    PROVE  /\ Len(Numbers(s)) = Len(w)
           /\ Numbers(s) = [k \in 1..Len(w) |-> s[w[k]].n]
<1> DEFINE kinds == [k \in 1..Len(s) |-> s[k].kind]
<1>1. Len(kinds) = Len(s)
  <2>1. kinds \in Seq({s[k].kind : k \in 1..Len(s)})
    BY IsASeq
  <2> QED BY <2>1, LenProperties
<1>2. \A k \in 1..Len(s) : kinds[k] = s[k].kind
  OBVIOUS
<1> HIDE DEF kinds
<1>3. {k \in 1..Len(kinds) : kinds[k] = "Segment"} = SegmentPlaces(s)
  BY <1>1, <1>2 DEF SegmentPlaces
<1>4. Where(kinds, "Segment") = w
  BY <1>1, <1>3, WhereIs
<1>5. Numbers(s) = [k \in 1..Len(w) |-> s[w[k]].n]
  BY <1>4 DEF Numbers, kinds
<1>6. Len(w) \in Nat
  BY LenProperties DEF Enumerates
<1> DEFINE f == [k \in 1..Len(w) |-> s[w[k]].n]
<1>7. Len(f) = Len(w)
  <2>1. f \in Seq({s[w[k]].n : k \in 1..Len(w)})
    BY <1>6, IsASeq
  <2>2. DOMAIN f = 1..Len(w)
    OBVIOUS
  <2> HIDE DEF f
  <2> QED BY <1>6, <2>1, <2>2, LenProperties
<1> QED BY <1>5, <1>7

\* There is such an enumeration.
LEMMA PlacesEnumerated ==
    ASSUME NEW s, Len(s) \in Nat
    PROVE  \E w : Enumerates(w, SegmentPlaces(s))
<1> DEFINE kinds == [k \in 1..Len(s) |-> s[k].kind]
<1>1. Len(kinds) = Len(s)
  <2>1. kinds \in Seq({s[k].kind : k \in 1..Len(s)})
    BY IsASeq
  <2> QED BY <2>1, LenProperties
<1>2. \A k \in 1..Len(s) : kinds[k] = s[k].kind
  OBVIOUS
<1> HIDE DEF kinds
<1>3. {k \in 1..Len(kinds) : kinds[k] = "Segment"} = SegmentPlaces(s)
  BY <1>1, <1>2 DEF SegmentPlaces
<1>4. Enumerates(Where(kinds, "Segment"), SegmentPlaces(s))
  BY <1>1, <1>3, WhereEnumerates
<1> QED BY <1>4

\* An empty list has none.
LEMMA SizeNone == Size(<<>>) = 0
<1>1. Len(<<>>) = 0
  BY EmptySeq
<1>2. SegmentPlaces(<<>>) = {}
  BY <1>1 DEF SegmentPlaces
<1>3. Len(Numbers(<<>>)) = Len(<<>>)
  BY <1>1, <1>2, EnumeratesNone, NumbersAt
<1> QED BY <1>1, <1>3 DEF Size

\* It is a number.
LEMMA SizeIsNat ==
    ASSUME NEW s \in Seq(Items)
    PROVE  Size(s) \in Nat
<1>1. Len(s) \in Nat
  BY LenProperties
<1>2. PICK w : Enumerates(w, SegmentPlaces(s))
  BY <1>1, PlacesEnumerated
<1>3. Len(w) \in Nat
  BY <1>2, LenProperties DEF Enumerates
<1> QED BY <1>1, <1>2, <1>3, NumbersAt DEF Size

\* A new last item counts if it is a segment.
LEMMA SizeAppend ==
    ASSUME NEW s \in Seq(Items), NEW x \in Items
    PROVE  Size(Append(s, x)) = IF IsSegment(x) THEN Size(s) + 1 ELSE Size(s)
<1> DEFINE t == Append(s, x)
           n == Len(s)
<1>1. n \in Nat /\ t \in Seq(Items) /\ Len(t) = n + 1 /\ t[n + 1] = x /\ \A k \in 1..n : t[k] = s[k]
  BY AppendProperties, LenProperties
<1>2. PICK w : Enumerates(w, SegmentPlaces(s))
  BY <1>1, PlacesEnumerated
<1>3. Size(s) = Len(w)
  BY <1>1, <1>2, NumbersAt DEF Size
<1> HIDE DEF t
<1>4. CASE IsSegment(x)
  <2>1. SegmentPlaces(t) = SegmentPlaces(s) \cup {n + 1}
    BY <1>1, <1>4 DEF SegmentPlaces, IsSegment
  <2>2. \A y \in SegmentPlaces(s) : y < n + 1
    BY <1>1 DEF SegmentPlaces
  <2> DEFINE u == Append(w, n + 1)
  <2>3. Enumerates(u, SegmentPlaces(t))
    BY <1>1, <1>2, <2>1, <2>2, EnumeratesMore
  <2>4. Len(u) = Len(w) + 1
    BY <1>1, <1>2, AppendProperties DEF Enumerates
  <2> HIDE DEF u
  <2>5. Len(t) \in Nat
    BY <1>1
  <2>6. Size(t) = Len(w) + 1
    BY <2>3, <2>4, <2>5, NumbersAt DEF Size
  <2> QED BY <1>3, <1>4, <2>6 DEF t
<1>5. CASE ~IsSegment(x)
  <2>1. SegmentPlaces(t) = SegmentPlaces(s)
    BY <1>1, <1>5 DEF SegmentPlaces, IsSegment
  <2>2. Size(t) = Len(w)
    BY <1>1, <1>2, <2>1, NumbersAt DEF Size
  <2> QED BY <1>3, <1>5, <2>2 DEF t
<1> QED BY <1>4, <1>5

\* An enumeration of numbers, each one less.
LEMMA EnumeratesShifted ==
    ASSUME NEW w, NEW S, Enumerates(w, S), \A y \in S : y >= 1,
           NEW T, T \subseteq Nat, \A y \in Nat : y \in T <=> y + 1 \in S
    PROVE  \E v : Enumerates(v, T) /\ Len(v) = Len(w)
<1> DEFINE n == Len(w)
           v == [k \in 1..n |-> w[k] - 1]
<1>1. n \in Nat /\ w \in Seq(Nat) /\ \A k \in 1..n : w[k] \in Nat /\ w[k] \in S /\ w[k] >= 1
  BY LenProperties, ElementOfSeq DEF Enumerates
<1>0. \A k \in 1..n : v[k] = w[k] - 1
  OBVIOUS
<1>2. \A k \in 1..n : v[k] \in Nat /\ v[k] + 1 = w[k]
  <2> SUFFICES ASSUME NEW k \in 1..n PROVE v[k] \in Nat /\ v[k] + 1 = w[k]
    OBVIOUS
  <2> DEFINE a == v[k]
             c == w[k]
  <2>1. c \in Nat /\ c >= 1
    BY <1>1
  <2>2. a = c - 1
    BY <1>0
  <2> HIDE DEF a, c
  <2>3. a \in Nat /\ a + 1 = c
    BY <2>1, <2>2
  <2> QED BY <2>3 DEF a, c
<1>3. v \in Seq(Nat) /\ Len(v) = n
  <2>1. \A k \in 1..n : w[k] - 1 \in Nat
    BY <1>0, <1>2, Zenon
  <2>2. v \in Seq(Nat)
    BY <1>1, <2>1, IsASeq
  <2>3. DOMAIN v = 1..n
    OBVIOUS
  <2> HIDE DEF v, n
  <2> QED BY <1>1, <2>2, <2>3, LenProperties
<1> HIDE DEF v
<1>4. \A k \in 1..n : v[k] \in T
  BY <1>1, <1>2
<1>5. ASSUME NEW y \in T PROVE \E k \in 1..n : v[k] = y
  <2>1. y \in Nat /\ y + 1 \in S
    OBVIOUS
  <2>2. PICK k \in 1..n : w[k] = y + 1
    BY <2>1 DEF Enumerates
  <2> DEFINE a == v[k]
  <2>3. a \in Nat /\ a + 1 = y + 1
    BY <1>2, <2>2
  <2> HIDE DEF a
  <2>4. a = y
    BY <2>1, <2>3
  <2> QED BY <2>4 DEF a
<1>6. ASSUME NEW i \in 1..n, NEW j \in 1..n, i < j PROVE v[i] < v[j]
  <2>1. w[i] < w[j]
    BY <1>6 DEF Enumerates
  <2> DEFINE a == v[i]
             b == v[j]
  <2>2. a \in Nat /\ a + 1 = w[i] /\ b \in Nat /\ b + 1 = w[j]
    BY <1>2
  <2> HIDE DEF a, b
  <2>3. a + 1 < b + 1
    BY <2>1, <2>2
  <2>4. a < b
    BY <2>2, <2>3
  <2> QED BY <2>4 DEF a, b
<1>7. Enumerates(v, T)
  BY <1>3, <1>4, <1>5, <1>6 DEF Enumerates
<1> QED BY <1>3, <1>7

\* Without its first item, a list has one segment less if that was one.
LEMMA SizeTail ==
    ASSUME NEW s \in Seq(Items), s # <<>>
    PROVE  Size(s) = IF IsSegment(Head(s)) THEN Size(Tail(s)) + 1 ELSE Size(Tail(s))
<1> DEFINE t == Tail(s)
           n == Len(s)
<1>1. /\ n \in Nat /\ n >= 1 /\ t \in Seq(Items) /\ Len(t) = n - 1 /\ Head(s) = s[1]
      /\ \A k \in 1..Len(t) : t[k] = s[k + 1]
  BY HeadTailProperties, LenProperties, EmptySeq
<1> HIDE DEF t
<1>2. PICK w : Enumerates(w, SegmentPlaces(s))
  BY <1>1, PlacesEnumerated
<1>3. Size(s) = Len(w) /\ Len(w) \in Nat
  BY <1>1, <1>2, NumbersAt, LenProperties DEF Size, Enumerates
<1>4. \A y \in Nat : y \in SegmentPlaces(t) <=> y >= 1 /\ y + 1 \in SegmentPlaces(s)
  BY <1>1 DEF SegmentPlaces
<1>5. ASSUME NEW u, NEW S, Enumerates(u, S), \A y \in S : y >= 1 /\ y \in SegmentPlaces(s) /\ y # 1,
             \A y \in SegmentPlaces(s) : y # 1 => y \in S
      PROVE  Size(t) = Len(u)
  <2>1. \A y \in Nat : y \in SegmentPlaces(t) <=> y + 1 \in S
    BY <1>4, <1>5
  <2>2. SegmentPlaces(t) \subseteq Nat /\ \A y \in S : y >= 1
    BY <1>5 DEF SegmentPlaces
  <2>3. PICK v : Enumerates(v, SegmentPlaces(t)) /\ Len(v) = Len(u)
    BY <1>5, <2>1, <2>2, EnumeratesShifted
  <2> QED BY <1>1, <2>3, NumbersAt DEF Size
<1>6. CASE IsSegment(Head(s))
  <2>1. 1 \in SegmentPlaces(s) /\ \A y \in SegmentPlaces(s) : 1 <= y
    BY <1>1, <1>6 DEF SegmentPlaces, IsSegment
  <2>2. w # <<>> /\ Enumerates(Tail(w), SegmentPlaces(s) \ {1})
    BY <1>2, <2>1, EnumeratesLess
  <2>3. Len(Tail(w)) = Len(w) - 1
    BY <1>2, <2>2, HeadTailProperties DEF Enumerates
  <2>4. Size(t) = Len(Tail(w))
    <3>1. \A y \in SegmentPlaces(s) \ {1} : y >= 1 /\ y \in SegmentPlaces(s) /\ y # 1
      BY <2>1
    <3>2. \A y \in SegmentPlaces(s) : y # 1 => y \in SegmentPlaces(s) \ {1}
      OBVIOUS
    <3> QED BY <1>5, <2>2, <3>1, <3>2
  <2> QED BY <1>3, <1>6, <2>3, <2>4 DEF t
<1>7. CASE ~IsSegment(Head(s))
  <2>1. \A y \in SegmentPlaces(s) : y >= 1 /\ y # 1
    BY <1>1, <1>7 DEF SegmentPlaces, IsSegment
  <2>2. Size(t) = Len(w)
    BY <1>2, <1>5, <2>1
  <2> QED BY <1>3, <1>7, <2>2 DEF t
<1> QED BY <1>6, <1>7

-----------------------------------------------------------------------------
\* Runs: every segment in the list closes the one that is open, which a part
\* belongs to; a is open before the list and b after it.

RunBy(s, a, b, c) ==
    /\ c \in [0..Len(s) -> Nat] /\ c[0] = a /\ c[Len(s)] = b
    /\ \A k \in 1..Len(s) :
          /\ s[k].n = c[k - 1]
          /\ c[k] = IF IsSegment(s[k]) THEN c[k - 1] + 1 ELSE c[k - 1]

Run(s, a, b) == \E c : RunBy(s, a, b, c)

\* The empty list.
LEMMA RunNone ==
    ASSUME NEW a \in Nat
    PROVE  Run(<<>>, a, a) /\ \A b : Run(<<>>, a, b) => b = a
<1>1. Len(<<>>) = 0
  BY EmptySeq
<1>2. RunBy(<<>>, a, a, [k \in 0..0 |-> a])
  BY <1>1 DEF RunBy
<1>3. ASSUME NEW b, Run(<<>>, a, b) PROVE b = a
  BY <1>1, <1>3 DEF Run, RunBy
<1> QED BY <1>2, <1>3 DEF Run

\* One more item.
LEMMA RunAppend ==
    ASSUME NEW s \in Seq(Items), NEW a, NEW b, Run(s, a, b), NEW x \in Items, x.n = b
    PROVE  Run(Append(s, x), a, IF IsSegment(x) THEN b + 1 ELSE b)
<1> DEFINE n == Len(s)
           t == Append(s, x)
           e == IF IsSegment(x) THEN b + 1 ELSE b
<1>1. n \in Nat /\ Len(t) = n + 1 /\ t[n + 1] = x /\ \A k \in 1..n : t[k] = s[k]
  BY AppendProperties, LenProperties
<1>2. PICK c : RunBy(s, a, b, c)
  BY DEF Run
<1>3. b \in Nat /\ e \in Nat
  BY <1>1, <1>2 DEF RunBy
<1> DEFINE d == [k \in 0..(n + 1) |-> IF k = n + 1 THEN e ELSE c[k]]
<1>4. /\ \A k \in 0..n : c[k] \in Nat
      /\ c[0] = a /\ c[n] = b
      /\ \A k \in 1..n : s[k].n = c[k - 1]
                         /\ c[k] = IF IsSegment(s[k]) THEN c[k - 1] + 1 ELSE c[k - 1]
  BY <1>2 DEF RunBy
<1>5. d \in [0..(n + 1) -> Nat] /\ d[n + 1] = e /\ \A k \in 0..n : d[k] = c[k]
  BY <1>1, <1>3, <1>4
<1> HIDE DEF t, e, d
<1>6. d[0] = a
  BY <1>1, <1>4, <1>5
<1>7. ASSUME NEW k \in 1..(n + 1)
      PROVE  t[k].n = d[k - 1] /\ d[k] = IF IsSegment(t[k]) THEN d[k - 1] + 1 ELSE d[k - 1]
  <2>1. CASE k \in 1..n
    <3>1. k - 1 \in 0..n /\ k \in 0..n
      BY <1>1, <2>1
    <3>2. d[k - 1] = c[k - 1] /\ d[k] = c[k] /\ t[k] = s[k]
      BY <1>1, <1>5, <2>1, <3>1
    <3> QED BY <1>4, <2>1, <3>2
  <2>2. CASE k = n + 1
    <3>1. k - 1 = n /\ n \in 0..n
      BY <1>1, <2>2
    <3>2. d[k - 1] = b /\ d[k] = e /\ t[k] = x
      BY <1>1, <1>4, <1>5, <2>2, <3>1
    <3> QED BY <3>2 DEF e
  <2> QED BY <1>1, <2>1, <2>2
<1>8. RunBy(t, a, e, d)
  BY <1>1, <1>5, <1>6, <1>7 DEF RunBy
<1> QED BY <1>8 DEF Run, t, e

\* One item less.
LEMMA RunTail ==
    ASSUME NEW s \in Seq(Items), NEW a, NEW b, Run(s, a, b), s # <<>>
    PROVE  /\ Head(s).n = a
           /\ Run(Tail(s), IF IsSegment(Head(s)) THEN a + 1 ELSE a, b)
<1> DEFINE n == Len(s)
           t == Tail(s)
           e == IF IsSegment(Head(s)) THEN a + 1 ELSE a
<1>1. /\ n \in Nat /\ n >= 1 /\ Len(t) = n - 1 /\ Head(s) = s[1]
      /\ \A k \in 1..(n - 1) : t[k] = s[k + 1]
  BY HeadTailProperties, LenProperties, EmptySeq
<1>2. PICK c : RunBy(s, a, b, c)
  BY DEF Run
<1>3. /\ \A k \in 0..n : c[k] \in Nat
      /\ c[0] = a /\ c[n] = b
      /\ \A k \in 1..n : s[k].n = c[k - 1]
                         /\ c[k] = IF IsSegment(s[k]) THEN c[k - 1] + 1 ELSE c[k - 1]
  BY <1>2 DEF RunBy
<1>4. 1 \in 1..n /\ 1 - 1 = 0
  BY <1>1
<1>5. Head(s).n = a /\ c[1] = e
  BY <1>1, <1>3, <1>4
<1> DEFINE d == [k \in 0..(n - 1) |-> c[k + 1]]
<1>6. d \in [0..(n - 1) -> Nat] /\ \A k \in 0..(n - 1) : d[k] = c[k + 1]
  <2>1. \A k \in 0..(n - 1) : k + 1 \in 0..n
    BY <1>1
  <2> QED BY <1>3, <2>1
<1> HIDE DEF t, d, e
<1>7. d[0] = e /\ d[n - 1] = b
  <2>1. 0 \in 0..(n - 1) /\ n - 1 \in 0..(n - 1) /\ 0 + 1 = 1 /\ (n - 1) + 1 = n
    BY <1>1
  <2> QED BY <1>3, <1>5, <1>6, <2>1
<1>8. ASSUME NEW k \in 1..(n - 1)
      PROVE  t[k].n = d[k - 1] /\ d[k] = IF IsSegment(t[k]) THEN d[k - 1] + 1 ELSE d[k - 1]
  <2>1. /\ k - 1 \in 0..(n - 1) /\ k \in 0..(n - 1) /\ (k - 1) + 1 = k
        /\ k + 1 \in 1..n /\ (k + 1) - 1 = k
    BY <1>1
  <2>2. d[k - 1] = c[k] /\ d[k] = c[k + 1] /\ t[k] = s[k + 1]
    BY <1>1, <1>6, <2>1
  <2> QED BY <1>3, <2>1, <2>2
<1>9. RunBy(t, e, b, d)
  BY <1>1, <1>6, <1>7, <1>8 DEF RunBy
<1> QED BY <1>5, <1>9 DEF Run, t, e

\* One list after another.
LEMMA RunConcat ==
    ASSUME NEW s \in Seq(Items), NEW t \in Seq(Items), NEW a, NEW b, NEW e,
           Run(s, a, b), Run(t, b, e)
    PROVE  Run(s \o t, a, e)
<1> DEFINE n == Len(s)
           m == Len(t)
           u == s \o t
<1>1. /\ n \in Nat /\ m \in Nat /\ Len(u) = n + m
      /\ \A k \in 1..(n + m) : u[k] = IF k <= n THEN s[k] ELSE t[k - n]
  BY ConcatProperties, LenProperties
<1>2. PICK c : RunBy(s, a, b, c)
  BY DEF Run
<1>3. PICK d : RunBy(t, b, e, d)
  BY DEF Run
<1>4. /\ \A k \in 0..n : c[k] \in Nat
      /\ c[0] = a /\ c[n] = b
      /\ \A k \in 1..n : s[k].n = c[k - 1]
                         /\ c[k] = IF IsSegment(s[k]) THEN c[k - 1] + 1 ELSE c[k - 1]
  BY <1>2 DEF RunBy
<1>5. /\ \A k \in 0..m : d[k] \in Nat
      /\ d[0] = b /\ d[m] = e
      /\ \A k \in 1..m : t[k].n = d[k - 1]
                         /\ d[k] = IF IsSegment(t[k]) THEN d[k - 1] + 1 ELSE d[k - 1]
  BY <1>3 DEF RunBy
<1> DEFINE f == [k \in 0..(n + m) |-> IF k <= n THEN c[k] ELSE d[k - n]]
<1>6. ASSUME NEW k \in 0..(n + m), k > n PROVE k - n \in 1..m /\ k - n \in 0..m
  BY <1>1, <1>6
<1>7. f \in [0..(n + m) -> Nat] /\ \A k \in 0..(n + m) : f[k] = IF k <= n THEN c[k] ELSE d[k - n]
  <2>1. \A k \in 0..(n + m) : k <= n => k \in 0..n
    BY <1>1
  <2>2. \A k \in 0..(n + m) : ~(k <= n) => k > n
    BY <1>1
  <2> QED BY <1>4, <1>5, <1>6, <2>1, <2>2
<1> HIDE DEF u, f
<1>8. \A k \in 0..m : f[n + k] = d[k]
  <2> SUFFICES ASSUME NEW k \in 0..m PROVE f[n + k] = d[k]
    OBVIOUS
  <2>1. n + k \in 0..(n + m) /\ (k = 0 => n + k = n) /\ (k # 0 => ~(n + k <= n)) /\ (n + k) - n = k
    BY <1>1
  <2> QED BY <1>1, <1>4, <1>5, <1>7, <2>1
<1>9. f[0] = a /\ f[n + m] = e
  <2>1. 0 \in 0..(n + m) /\ 0 <= n /\ m \in 0..m
    BY <1>1
  <2> QED BY <1>4, <1>5, <1>7, <1>8, <2>1
<1>10. ASSUME NEW k \in 1..(n + m)
       PROVE  u[k].n = f[k - 1] /\ f[k] = IF IsSegment(u[k]) THEN f[k - 1] + 1 ELSE f[k - 1]
  <2>1. CASE k <= n
    <3>1. k \in 1..n /\ k - 1 \in 0..(n + m) /\ k \in 0..(n + m) /\ k - 1 <= n
      BY <1>1, <2>1
    <3>2. u[k] = s[k] /\ f[k - 1] = c[k - 1] /\ f[k] = c[k]
      BY <1>1, <1>7, <2>1, <3>1
    <3> QED BY <1>4, <3>1, <3>2
  <2>2. CASE ~(k <= n)
    <3> DEFINE j == k - n
    <3>1. j \in 1..m /\ j \in 0..m /\ j - 1 \in 0..m /\ n + j = k /\ n + (j - 1) = k - 1
      BY <1>1, <2>2
    <3>2. u[k] = t[j]
      BY <1>1, <2>2
    <3> HIDE DEF j
    <3>3. f[k] = d[j] /\ f[k - 1] = d[j - 1]
      BY <1>8, <3>1
    <3> QED BY <1>5, <3>1, <3>2, <3>3
  <2> QED BY <2>1, <2>2
<1>11. RunBy(u, a, e, f)
  BY <1>1, <1>7, <1>9, <1>10 DEF RunBy
<1> QED BY <1>11 DEF Run, u

\* Parts of the open segment only.
LEMMA RunParts ==
    ASSUME NEW s \in Seq(Items), NEW a \in Nat,
           \A k \in 1..Len(s) : s[k].n = a /\ ~IsSegment(s[k])
    PROVE  Run(s, a, a)
<1> DEFINE c == [k \in 0..Len(s) |-> a]
<1>1. Len(s) \in Nat
  BY LenProperties
<1>2. c \in [0..Len(s) -> Nat] /\ \A k \in 0..Len(s) : c[k] = a
  OBVIOUS
<1> HIDE DEF c
<1>3. \A k \in 1..Len(s) : k \in 0..Len(s) /\ k - 1 \in 0..Len(s)
  BY <1>1
<1>4. 0 \in 0..Len(s) /\ Len(s) \in 0..Len(s)
  BY <1>1
<1>5. RunBy(s, a, a, c)
  BY <1>2, <1>3, <1>4 DEF RunBy
<1> QED BY <1>5 DEF Run

\* The numbers a, ..., b - 1.
Count(a, b) == [k \in 1..(b - a) |-> a + k - 1]

\* The segments of a run are numbered without a gap.
LEMMA RunNumbers ==
    ASSUME NEW s \in Seq(Items), NEW a, NEW b, Run(s, a, b)
    PROVE  a \in Nat /\ b \in Nat /\ a <= b /\ Numbers(s) = Count(a, b)
<1> DEFINE n == Len(s)
           Hits(m) == {k \in 1..m : s[k].kind = "Segment"}
<1>1. n \in Nat
  BY LenProperties
<1>2. PICK c : RunBy(s, a, b, c)
  BY DEF Run
<1>3. /\ \A k \in 0..n : c[k] \in Nat
      /\ c[0] = a /\ c[n] = b
      /\ \A k \in 1..n : s[k].n = c[k - 1]
                         /\ c[k] = IF IsSegment(s[k]) THEN c[k - 1] + 1 ELSE c[k - 1]
  BY <1>2 DEF RunBy
<1>4. a \in Nat /\ b \in Nat
  BY <1>1, <1>3
<1> DEFINE Good(w, m) ==
             /\ Enumerates(w, Hits(m)) /\ a + Len(w) = c[m]
             /\ \A j \in 1..Len(w) : s[w[j]].n = a + j - 1
           N == {m \in Nat : m <= n => \E w : Good(w, m)}
<1>5. 0 \in N
  <2>1. Hits(0) = {} /\ Len(<<>>) = 0
    BY EmptySeq
  <2>2. a + 0 = a
    BY <1>4
  <2> HIDE DEF Hits
  <2>3. a + Len(<<>>) = c[0] /\ \A j \in 1..Len(<<>>) : s[<<>>[j]].n = a + j - 1
    BY <1>3, <2>1, <2>2
  <2>4. Enumerates(<<>>, Hits(0))
    BY <2>1, EnumeratesNone
  <2>5. Good(<<>>, 0)
    BY <2>3, <2>4, Zenon
  <2> HIDE DEF Good
  <2> QED BY <2>5
<1>6. ASSUME NEW m \in Nat, m \in N PROVE m + 1 \in N
  <2> SUFFICES ASSUME m + 1 <= n PROVE \E w : Good(w, m + 1)
    <3> HIDE DEF Good, n
    <3> QED OBVIOUS
  <2>1. PICK w : Good(w, m)
    <3>1. m <= n
      BY <1>1
    <3> HIDE DEF Good, n
    <3> QED BY <1>6, <3>1
  <2>2. w \in Seq(Nat) /\ Len(w) \in Nat /\ m + 1 \in 1..n /\ (m + 1) - 1 = m /\ m \in 0..n
    BY <1>1, <2>1, LenProperties DEF Enumerates
  <2>3. s[m + 1].n = c[m] /\ c[m] \in Nat
        /\ c[m + 1] = IF IsSegment(s[m + 1]) THEN c[m] + 1 ELSE c[m]
    BY <1>3, <2>2
  <2>4. CASE IsSegment(s[m + 1])
    <3> DEFINE v == Append(w, m + 1)
    <3>1. Hits(m + 1) = Hits(m) \cup {m + 1} /\ \A y \in Hits(m) : y < m + 1
      BY <2>4 DEF IsSegment
    <3>2. Enumerates(v, Hits(m + 1))
      <4> HIDE DEF Hits
      <4> QED BY <2>1, <3>1, EnumeratesMore
    <3>3. Len(v) = Len(w) + 1 /\ v[Len(w) + 1] = m + 1 /\ \A j \in 1..Len(w) : v[j] = w[j]
      BY <2>2, AppendProperties
    <3> HIDE DEF v
    <3>4. a + Len(v) = c[m + 1]
      BY <1>4, <2>1, <2>2, <2>3, <2>4, <3>3
    <3>5. ASSUME NEW j \in 1..Len(v) PROVE s[v[j]].n = a + j - 1
      <4>1. CASE j \in 1..Len(w)
        BY <2>1, <3>3, <4>1
      <4>2. CASE j = Len(w) + 1
        <5>1. s[v[j]].n = c[m]
          BY <2>3, <3>3, <4>2
        <5>2. c[m] = a + Len(w) /\ a + j - 1 = a + Len(w)
          BY <1>4, <2>1, <2>2, <4>2
        <5> QED BY <5>1, <5>2
      <4> QED BY <2>2, <3>3, <4>1, <4>2
    <3>6. Good(v, m + 1)
      BY <3>2, <3>4, <3>5
    <3> QED BY <3>6
  <2>5. CASE ~IsSegment(s[m + 1])
    <3>1. Hits(m + 1) = Hits(m)
      BY <2>5 DEF IsSegment
    <3>2. Good(w, m + 1)
      <4> HIDE DEF Hits
      <4> QED BY <2>1, <2>3, <2>5, <3>1
    <3> QED BY <3>2
  <2> QED BY <2>4, <2>5
<1>7. n \in N
  <2> HIDE DEF N
  <2> QED BY <1>1, <1>5, <1>6, SetInduction
<1>8. PICK w : Good(w, n)
  <2>1. n <= n
    BY <1>1
  <2> HIDE DEF Good, n
  <2> QED BY <1>7, <2>1
<1>9. Enumerates(w, SegmentPlaces(s)) /\ Len(w) \in Nat /\ a + Len(w) = b
      /\ \A j \in 1..Len(w) : s[w[j]].n = a + j - 1
  BY <1>3, <1>8, LenProperties DEF Enumerates, SegmentPlaces
<1>10. Numbers(s) = [k \in 1..Len(w) |-> s[w[k]].n]
  BY <1>1, <1>9, NumbersAt
<1>11. Len(w) = b - a /\ a <= b
  BY <1>4, <1>9
<1>12. [k \in 1..Len(w) |-> s[w[k]].n] = Count(a, b)
  BY <1>9, <1>11 DEF Count
<1> QED BY <1>4, <1>10, <1>11, <1>12

-----------------------------------------------------------------------------
\* publish_in_stream_order.

\* A part that goes before the j-th segment and after the one before it.
Due(r, j, i) ==
    /\ j <= Len(r.segments) => r.parts[i].n <= r.segments[j].n
    /\ j > 1 => r.parts[i].n > r.segments[j - 1].n

\* What PartsBefore returns.
LEMMA PartsBeforeDue ==
    ASSUME NEW X, NEW r, r.parts \in Seq(X), NEW j
    PROVE  /\ PartsBefore(r, j) \in Seq(X)
           /\ \A k \in 1..Len(PartsBefore(r, j)) :
                 \E i \in 1..Len(r.parts) :
                    Due(r, j, i) /\ PartsBefore(r, j)[k] = r.parts[i]
<1> DEFINE n == Len(r.parts)
           due == [i \in 1..n |-> Due(r, j, i)]
           w == Where(due, TRUE)
           p == PartsBefore(r, j)
<1>1. n \in Nat
  BY LenProperties
<1>2. Len(due) = n
  <2>1. due \in Seq({Due(r, j, i) : i \in 1..n})
    BY <1>1, IsASeq
  <2>2. DOMAIN due = 1..n
    OBVIOUS
  <2> HIDE DEF due, n
  <2> QED BY <1>1, <2>1, <2>2, LenProperties
<1>3. \A i \in 1..n : due[i] = Due(r, j, i)
  OBVIOUS
<1>4. p = Pick(r.parts, w)
  BY DEF PartsBefore, Due
<1> HIDE DEF due
<1>5. Enumerates(w, {i \in 1..Len(due) : due[i] = TRUE})
  BY <1>1, <1>2, WhereEnumerates
<1>6. w \in Seq(Nat) /\ Len(w) \in Nat
  BY <1>5, LenProperties DEF Enumerates
<1>7. \A k \in 1..Len(w) : w[k] \in 1..n /\ due[w[k]] = TRUE
  BY <1>2, <1>5 DEF Enumerates
<1> HIDE DEF w
<1>8. \A k \in 1..Len(w) : Due(r, j, w[k])
  BY <1>3, <1>7, Zenon
<1>9. Len(p) = Len(w) /\ \A k \in 1..Len(w) : p[k] = r.parts[w[k]]
  BY <1>4, <1>6, PickLength
<1>10. p \in Seq(X)
  <2>1. \A k \in 1..Len(w) : r.parts[w[k]] \in X
    BY <1>7, ElementOfSeq
  <2>2. p = [k \in 1..Len(w) |-> r.parts[w[k]]]
    BY <1>4 DEF Pick
  <2> HIDE DEF p
  <2> QED BY <1>6, <2>1, <2>2, IsASeq
<1> HIDE DEF p
<1>11. \A k \in 1..Len(p) : \E i \in 1..n : Due(r, j, i) /\ p[k] = r.parts[i]
  BY <1>7, <1>8, <1>9
<1> QED BY <1>10, <1>11 DEF p

\* The recursion that defines InStreamOrder, up to the n-th segment.
CloseStep(r, f, j) ==
    IF j = 0 THEN <<>> ELSE Append(f[j - 1] \o PartsBefore(r, j), r.segments[j])
CloseSolves(r, f, n) == f = [j \in 0..n |-> CloseStep(r, f, j)]

\* It has a solution.
LEMMA CloseExists ==
    ASSUME NEW r, Len(r.segments) \in Nat
    PROVE  \E f : CloseSolves(r, f, Len(r.segments))
<1> DEFINE Step(f, k) == CloseStep(r, f, k)
           Solves(f, n) == CloseSolves(r, f, n)
           N == {n \in Nat : \E f : Solves(f, n)}
<1>1. 0 \in N
  <2> DEFINE f == [k \in 0..0 |-> <<>>]
  <2>1. Solves(f, 0)
    BY DEF CloseSolves, CloseStep
  <2> HIDE DEF f, Solves
  <2> QED BY <2>1
<1>2. ASSUME NEW n \in Nat, n \in N PROVE n + 1 \in N
  <2>1. PICK f : f = [k \in 0..n |-> Step(f, k)]
    BY <1>2 DEF CloseSolves
  <2> DEFINE g == [k \in 0..(n + 1) |-> IF k = n + 1 THEN Step(f, n + 1) ELSE f[k]]
  <2>2. ASSUME NEW k \in 0..(n + 1) PROVE g[k] = Step(g, k)
    <3>1. CASE k = 0
      <4>1. 0 \in 0..n /\ 0 \in 0..(n + 1) /\ 0 # n + 1
        OBVIOUS
      <4>2. f[0] = <<>>
        BY <2>1, <4>1 DEF CloseStep
      <4> QED BY <3>1, <4>1, <4>2 DEF CloseStep
    <3>2. CASE k # 0
      <4>1. k - 1 \in 0..n /\ k - 1 \in 0..(n + 1) /\ k - 1 # n + 1
        BY <3>2
      <4>2. g[k - 1] = f[k - 1]
        BY <4>1
      <4>3. Step(g, k) = Step(f, k)
        <5> HIDE DEF g
        <5> QED BY <3>2, <4>2 DEF CloseStep
      <4>4. CASE k = n + 1
        BY <4>3, <4>4
      <4>5. CASE k # n + 1
        <5>1. k \in 0..n
          BY <4>5
        <5>2. f[k] = Step(f, k)
          BY <2>1, <5>1
        <5> QED BY <4>3, <4>5, <5>2
      <4> QED BY <4>4, <4>5
    <3> QED BY <3>1, <3>2
  <2>3. Solves(g, n + 1)
    <3>1. DOMAIN g = 0..(n + 1) /\ g = [k \in 0..(n + 1) |-> g[k]]
      OBVIOUS
    <3> HIDE DEF g
    <3> QED BY <2>2, <3>1 DEF CloseSolves
  <2> HIDE DEF g, Solves
  <2> QED BY <2>3
<1>3. Len(r.segments) \in N
  <2> HIDE DEF N
  <2> QED BY <1>1, <1>2, SetInduction
<1> QED BY <1>3

\* InStreamOrder, with a name for its recursive function.
LEMMA InStreamOrderBy ==
    ASSUME NEW r, Len(r.segments) \in Nat
    PROVE  \E f : /\ f[0] = <<>>
                  /\ \A j \in 1..Len(r.segments) :
                        f[j] = Append(f[j - 1] \o PartsBefore(r, j), r.segments[j])
                  /\ InStreamOrder(r)
                        = f[Len(r.segments)] \o PartsBefore(r, Len(r.segments) + 1)
<1> DEFINE n == Len(r.segments)
           f == CHOOSE g : CloseSolves(r, g, n)
<1>1. InStreamOrder(r) = f[n] \o PartsBefore(r, n + 1)
  BY DEF InStreamOrder, CloseSolves, CloseStep
<1>2. f = [j \in 0..n |-> CloseStep(r, f, j)]
  <2>1. CloseSolves(r, f, n)
    BY CloseExists, Zenon
  <2> HIDE DEF f
  <2> QED BY <2>1 DEF CloseSolves
<1> HIDE DEF f
<1>3. f[0] = <<>>
  BY <1>2 DEF CloseStep
<1>4. \A j \in 1..n : f[j] = Append(f[j - 1] \o PartsBefore(r, j), r.segments[j])
  <2> SUFFICES ASSUME NEW j \in 1..n
               PROVE  f[j] = Append(f[j - 1] \o PartsBefore(r, j), r.segments[j])
    OBVIOUS
  <2>1. j \in 0..n /\ j # 0
    OBVIOUS
  <2>2. f[j] = CloseStep(r, f, j)
    BY <1>2, <2>1
  <2> QED BY <2>1, <2>2 DEF CloseStep
<1> QED BY <1>1, <1>3, <1>4

\* It queues nothing but the parts and the segments.
LEMMA InStreamOrderTyped ==
    ASSUME NEW X, NEW r, r.parts \in Seq(X), r.segments \in Seq(X)
    PROVE  InStreamOrder(r) \in Seq(X)
<1> DEFINE n == Len(r.segments)
<1>1. n \in Nat /\ \A j \in 1..n : r.segments[j] \in X
  BY LenProperties, ElementOfSeq
<1>2. PICK f : /\ f[0] = <<>>
               /\ \A j \in 1..n : f[j] = Append(f[j - 1] \o PartsBefore(r, j), r.segments[j])
               /\ InStreamOrder(r) = f[n] \o PartsBefore(r, n + 1)
  BY <1>1, InStreamOrderBy
<1>3. \A j : PartsBefore(r, j) \in Seq(X)
  BY PartsBeforeDue
<1> DEFINE N == {m \in Nat : m <= n => f[m] \in Seq(X)}
<1>4. 0 \in N
  BY <1>2, EmptySeq
<1>5. ASSUME NEW m \in Nat, m \in N PROVE m + 1 \in N
  <2> SUFFICES ASSUME m + 1 <= n PROVE f[m + 1] \in Seq(X)
    OBVIOUS
  <2>1. f[m] \in Seq(X) /\ m + 1 \in 1..n /\ (m + 1) - 1 = m
    BY <1>1, <1>5
  <2>2. f[m] \o PartsBefore(r, m + 1) \in Seq(X)
    BY <1>3, <2>1, ConcatProperties
  <2>3. Append(f[m] \o PartsBefore(r, m + 1), r.segments[m + 1]) \in Seq(X)
    BY <1>1, <2>1, <2>2, AppendProperties
  <2> QED BY <1>2, <2>1, <2>3
<1>6. n \in N
  <2> HIDE DEF N
  <2> QED BY <1>1, <1>4, <1>5, SetInduction
<1>7. f[n] \in Seq(X)
  BY <1>1, <1>6
<1> QED BY <1>2, <1>3, <1>7, ConcatProperties

\* What is ready: segments a, ..., b - 1, and parts of these and of b.
ReadyRun(r, a, b) ==
    /\ a \in Nat /\ b \in Nat /\ a + Len(r.segments) = b
    /\ \A j \in 1..Len(r.segments) :
          IsSegment(r.segments[j]) /\ r.segments[j].n = a + j - 1
    /\ \A i \in 1..Len(r.parts) :
          ~IsSegment(r.parts[i]) /\ a <= r.parts[i].n /\ r.parts[i].n <= b

\* It is queued as a run: no part of a later segment before a segment's close.
LEMMA InStreamOrderRuns ==
    ASSUME NEW r, r.parts \in Seq(Items), r.segments \in Seq(Items), NEW a, NEW b,
           ReadyRun(r, a, b)
    PROVE  Run(InStreamOrder(r), a, b)
<1> DEFINE n == Len(r.segments)
           segment == r.segments
<1>1. n \in Nat /\ \A j \in 1..n : segment[j] \in Items
  BY LenProperties, ElementOfSeq
<1>2. /\ a \in Nat /\ b \in Nat /\ a + n = b
      /\ \A j \in 1..n : IsSegment(segment[j]) /\ segment[j].n = a + j - 1
  BY DEF ReadyRun
<1>3. PICK f : /\ f[0] = <<>>
               /\ \A j \in 1..n : f[j] = Append(f[j - 1] \o PartsBefore(r, j), segment[j])
               /\ InStreamOrder(r) = f[n] \o PartsBefore(r, n + 1)
  BY <1>1, InStreamOrderBy
<1>4. ASSUME NEW j \in 1..(n + 1)
      PROVE  /\ PartsBefore(r, j) \in Seq(Items)
             /\ a + j - 1 \in Nat /\ Run(PartsBefore(r, j), a + j - 1, a + j - 1)
  <2> DEFINE p == PartsBefore(r, j)
             e == a + j - 1
  <2>1. p \in Seq(Items)
    BY PartsBeforeDue
  <2>2. e \in Nat
    BY <1>2
  <2>3. ASSUME NEW k \in 1..Len(p) PROVE p[k].n = e /\ ~IsSegment(p[k])
    <3>0. \A m \in 1..Len(p) : \E i \in 1..Len(r.parts) : Due(r, j, i) /\ p[m] = r.parts[i]
      BY PartsBeforeDue
    <3>1. PICK i \in 1..Len(r.parts) : Due(r, j, i) /\ p[k] = r.parts[i]
      BY <3>0
    <3> DEFINE q == r.parts[i].n
    <3>2. ~IsSegment(r.parts[i]) /\ a <= q /\ q <= b
      BY DEF ReadyRun
    <3>3. q \in Nat
      <4>1. r.parts[i] \in Items
        BY ElementOfSeq
      <4> QED BY <4>1 DEF Items
    <3>4. j <= n => q <= segment[j].n
      BY <3>1 DEF Due
    <3>5. j > 1 => q > segment[j - 1].n
      BY <3>1 DEF Due
    <3> HIDE DEF q, p
    <3>6. q <= e
      <4>1. CASE j <= n
        <5>1. j \in 1..n
          BY <1>1, <4>1
        <5> QED BY <1>2, <3>4, <4>1, <5>1
      <4>2. CASE ~(j <= n)
        <5>1. j = n + 1
          BY <1>1, <4>2
        <5>2. e = b
          BY <1>1, <1>2, <5>1
        <5> QED BY <3>2, <5>2
      <4> QED BY <4>1, <4>2
    <3>7. e <= q
      <4>1. CASE j > 1
        <5>1. j - 1 \in 1..n
          BY <1>1, <4>1
        <5>2. segment[j - 1].n = a + (j - 1) - 1
          BY <1>2, <5>1
        <5>3. q > a + (j - 1) - 1
          BY <3>5, <4>1, <5>2
        <5> QED BY <1>2, <3>3, <5>3
      <4>2. CASE ~(j > 1)
        <5>1. j = 1
          BY <1>1, <4>2
        <5>2. e = a
          BY <1>2, <5>1
        <5> QED BY <3>2, <5>2
      <4> QED BY <4>1, <4>2
    <3> HIDE DEF e
    <3>8. q = e
      BY <2>2, <3>3, <3>6, <3>7
    <3> QED BY <3>1, <3>2, <3>8 DEF q
  <2> HIDE DEF p, e
  <2>4. Run(p, e, e)
    BY <2>1, <2>2, <2>3, RunParts
  <2> QED BY <2>1, <2>2, <2>4 DEF p, e
<1> HIDE DEF segment
<1> DEFINE Good(m) == f[m] \in Seq(Items) /\ Run(f[m], a, a + m)
           N == {m \in Nat : m <= n => Good(m)}
<1>5. 0 \in N
  <2>1. Run(<<>>, a, a) /\ a + 0 = a /\ <<>> \in Seq(Items)
    BY <1>2, RunNone, EmptySeq
  <2> QED BY <1>3, <2>1
<1>6. ASSUME NEW m \in Nat, m \in N PROVE m + 1 \in N
  <2> SUFFICES ASSUME m + 1 <= n PROVE Good(m + 1)
    <3> HIDE DEF Good
    <3> QED OBVIOUS
  <2> DEFINE j == m + 1
             p == PartsBefore(r, j)
             x == segment[j]
             e == a + m
  <2>1. /\ j \in 1..n /\ j \in 1..(n + 1) /\ j - 1 = m /\ a + j - 1 = e /\ e \in Nat
        /\ e + 1 = a + j
    BY <1>1, <1>2
  <2>2. f[m] \in Seq(Items) /\ Run(f[m], a, e)
    <3>1. m <= n
      BY <1>1
    <3> QED BY <1>6, <3>1
  <2>3. p \in Seq(Items) /\ Run(p, e, e)
    BY <1>4, <2>1
  <2>4. x \in Items /\ x.n = e /\ IsSegment(x)
    BY <1>1, <1>2, <2>1
  <2>5. f[j] = Append(f[m] \o p, x)
    BY <1>3, <2>1
  <2> HIDE DEF p, x, e
  <2>6. f[m] \o p \in Seq(Items)
    BY <2>2, <2>3, ConcatProperties
  <2>7. Run(f[m] \o p, a, e)
    BY <2>2, <2>3, RunConcat
  <2> DEFINE u == f[m] \o p
  <2> HIDE DEF u
  <2>8. Run(Append(u, x), a, e + 1)
    BY <2>4, <2>6, <2>7, RunAppend DEF u
  <2>9. Append(u, x) \in Seq(Items)
    BY <2>4, <2>6, AppendProperties DEF u
  <2>10. f[j] = Append(u, x)
    BY <2>5 DEF u
  <2> HIDE DEF j
  <2> QED BY <2>1, <2>8, <2>9, <2>10 DEF j
<1>7. Good(n)
  <2>1. n \in N
    <3> HIDE DEF N
    <3> QED BY <1>1, <1>5, <1>6, SetInduction
  <2>2. n <= n
    BY <1>1
  <2> HIDE DEF Good
  <2> QED BY <2>1, <2>2
<1>8. f[n] \in Seq(Items) /\ Run(f[n], a, b)
  BY <1>2, <1>7
<1>9. PartsBefore(r, n + 1) \in Seq(Items) /\ Run(PartsBefore(r, n + 1), b, b)
  <2>1. n + 1 \in 1..(n + 1) /\ a + (n + 1) - 1 = b
    BY <1>1, <1>2
  <2> QED BY <1>4, <2>1
<1> QED BY <1>3, <1>8, <1>9, RunConcat

\* Segments on their own.
LEMMA RunSegments ==
    ASSUME NEW s \in Seq(Items), NEW a \in Nat, NEW b \in Nat, a + Len(s) = b,
           \A j \in 1..Len(s) : IsSegment(s[j]) /\ s[j].n = a + j - 1
    PROVE  Run(s, a, b)
<1> DEFINE n == Len(s)
           c == [k \in 0..n |-> a + k]
<1>1. n \in Nat
  BY LenProperties
<1>2. c \in [0..n -> Nat] /\ \A k \in 0..n : c[k] = a + k
  BY <1>1
<1> HIDE DEF c
<1>3. c[0] = a /\ c[n] = b
  BY <1>1, <1>2
<1>4. ASSUME NEW k \in 1..n PROVE s[k].n = c[k - 1] /\ IsSegment(s[k]) /\ c[k] = c[k - 1] + 1
  <2>1. k \in 0..n /\ k - 1 \in 0..n /\ a + (k - 1) = a + k - 1 /\ a + k = a + (k - 1) + 1
    BY <1>1
  <2>2. c[k] = a + k /\ c[k - 1] = a + (k - 1)
    BY <1>2, <2>1
  <2> QED BY <2>1, <2>2
<1>5. RunBy(s, a, b, c)
  BY <1>2, <1>3, <1>4 DEF RunBy
<1> QED BY <1>5 DEF Run

\* One more part of the open segment is ready.
LEMMA ReadyPart ==
    ASSUME NEW r, r.parts \in Seq(Items), Len(r.segments) \in Nat,
           NEW a, NEW b, ReadyRun(r, a, b), NEW x \in Items, ~IsSegment(x), x.n = b,
           NEW t, t.segments = r.segments, t.parts = Append(r.parts, x)
    PROVE  ReadyRun(t, a, b)
<1> DEFINE m == Len(r.parts)
           p == Append(r.parts, x)
<1>1. m \in Nat /\ Len(p) = m + 1 /\ p[m + 1] = x /\ \A i \in 1..m : p[i] = r.parts[i]
  BY LenProperties, AppendProperties
<1>2. a \in Nat /\ b \in Nat /\ a + Len(r.segments) = b
  BY DEF ReadyRun
<1>3. a <= b
  BY <1>2
<1>4. ASSUME NEW i \in 1..(m + 1)
      PROVE  ~IsSegment(p[i]) /\ a <= p[i].n /\ p[i].n <= b
  <2>1. CASE i = m + 1
    BY <1>1, <1>2, <1>3, <2>1
  <2>2. CASE i # m + 1
    <3>1. i \in 1..m
      BY <1>1, <2>2
    <3> QED BY <1>1, <3>1 DEF ReadyRun
  <2> QED BY <2>1, <2>2
<1> HIDE DEF p
<1> QED BY <1>1, <1>2, <1>3, <1>4 DEF ReadyRun, p

\* The open segment is closed, its last parts with it.
LEMMA ReadyClosed ==
    ASSUME NEW r, r.parts \in Seq(Items), r.segments \in Seq(Items),
           NEW a, NEW b, ReadyRun(r, a, b),
           NEW final \in Seq(Items), \A i \in 1..Len(final) : ~IsSegment(final[i]) /\ final[i].n = b,
           NEW x \in Items, IsSegment(x), x.n = b,
           NEW t, t.parts = r.parts \o final, t.segments = Append(r.segments, x)
    PROVE  ReadyRun(t, a, b + 1)
<1> DEFINE m == Len(r.parts)
           f == Len(final)
           n == Len(r.segments)
           p == r.parts \o final
           s == Append(r.segments, x)
<1>1. m \in Nat /\ n \in Nat /\ f \in Nat
  BY LenProperties
<1>2. Len(s) = n + 1 /\ s[n + 1] = x /\ \A j \in 1..n : s[j] = r.segments[j]
  BY AppendProperties
<1>3. Len(p) = m + f /\ \A i \in 1..(m + f) : p[i] = IF i <= m THEN r.parts[i] ELSE final[i - m]
  BY ConcatProperties
<1>4. a \in Nat /\ b \in Nat /\ a + n = b
  BY DEF ReadyRun
<1> HIDE DEF n, m, f, p, s
<1>5. b + 1 \in Nat /\ a + (n + 1) = b + 1 /\ a <= b /\ b <= b + 1
  BY <1>1, <1>4
<1>6. ASSUME NEW j \in 1..(n + 1) PROVE IsSegment(s[j]) /\ s[j].n = a + j - 1
  <2>1. CASE j = n + 1
    <3>1. a + j - 1 = b
      BY <1>1, <1>4, <2>1
    <3> QED BY <1>2, <2>1, <3>1
  <2>2. CASE j # n + 1
    <3>1. j \in 1..n
      BY <1>1, <2>2
    <3> QED BY <1>2, <3>1 DEF ReadyRun, n
  <2> QED BY <2>1, <2>2
<1>7. ASSUME NEW i \in 1..(m + f)
      PROVE  ~IsSegment(p[i]) /\ a <= p[i].n /\ p[i].n <= b + 1
  <2>1. CASE i <= m
    <3>1. i \in 1..m /\ p[i] = r.parts[i]
      BY <1>1, <1>3, <2>1
    <3>2. ~IsSegment(r.parts[i]) /\ a <= r.parts[i].n /\ r.parts[i].n <= b
      BY <3>1 DEF ReadyRun, m
    <3>3. r.parts[i].n \in Nat
      <4>1. r.parts[i] \in Items
        BY <3>1, ElementOfSeq DEF m
      <4> QED BY <4>1 DEF Items
    <3> QED BY <1>4, <1>5, <3>1, <3>2, <3>3
  <2>2. CASE ~(i <= m)
    <3>1. i - m \in 1..f /\ p[i] = final[i - m]
      BY <1>1, <1>3, <2>2
    <3>2. ~IsSegment(p[i]) /\ p[i].n = b
      BY <3>1 DEF f
    <3> QED BY <1>5, <3>2
  <2> QED BY <2>1, <2>2
<1>8. Len(t.segments) = n + 1 /\ Len(t.parts) = m + f /\ t.segments = s /\ t.parts = p
  BY <1>2, <1>3 DEF s, p
<1> QED BY <1>4, <1>5, <1>6, <1>7, <1>8 DEF ReadyRun

\* Nothing is ready.
LEMMA ReadyNone ==
    ASSUME NEW a \in Nat
    PROVE  ReadyRun(NoneReady, a, a) /\ \A b : ReadyRun(NoneReady, a, b) => b = a
<1>1. NoneReady.parts = <<>> /\ NoneReady.segments = <<>> /\ Len(<<>>) = 0
  BY EmptySeq DEF NoneReady
<1>2. Len(NoneReady.parts) = 0 /\ Len(NoneReady.segments) = 0
  BY <1>1
<1> QED BY <1>2 DEF ReadyRun

\* Counting on.
LEMMA CountConcat ==
    ASSUME NEW a \in Nat, NEW b \in Nat, NEW e \in Nat, a <= b, b <= e
    PROVE  Count(a, b) \o Count(b, e) = Count(a, e)
<1>1. \A x, y \in Nat : x <= y =>
         /\ Count(x, y) \in Seq(Nat) /\ Len(Count(x, y)) = y - x
         /\ \A k \in 1..(y - x) : Count(x, y)[k] = x + k - 1
  <2> SUFFICES ASSUME NEW x \in Nat, NEW y \in Nat, x <= y
               PROVE  /\ Count(x, y) \in Seq(Nat) /\ Len(Count(x, y)) = y - x
                      /\ \A k \in 1..(y - x) : Count(x, y)[k] = x + k - 1
    OBVIOUS
  <2> DEFINE n == y - x
             c == [k \in 1..n |-> x + k - 1]
  <2>1. n \in Nat /\ \A k \in 1..n : x + k - 1 \in Nat
    OBVIOUS
  <2>2. c \in Seq(Nat)
    BY <2>1, IsASeq
  <2>3. DOMAIN c = 1..n /\ \A k \in 1..n : c[k] = x + k - 1
    OBVIOUS
  <2>4. Count(x, y) = c
    BY DEF Count
  <2> HIDE DEF c, n
  <2>5. Len(c) = n
    BY <2>1, <2>2, <2>3, LenProperties
  <2> QED BY <2>2, <2>3, <2>4, <2>5 DEF n
<1> DEFINE s == Count(a, b)
           t == Count(b, e)
           u == Count(a, e)
<1>2. a <= e
  OBVIOUS
<1>3. /\ s \in Seq(Nat) /\ Len(s) = b - a /\ \A k \in 1..(b - a) : s[k] = a + k - 1
      /\ t \in Seq(Nat) /\ Len(t) = e - b /\ \A k \in 1..(e - b) : t[k] = b + k - 1
      /\ u \in Seq(Nat) /\ Len(u) = e - a /\ \A k \in 1..(e - a) : u[k] = a + k - 1
  BY <1>1, <1>2
<1> HIDE DEF s, t, u
<1>4. /\ s \o t \in Seq(Nat) /\ Len(s \o t) = Len(s) + Len(t)
      /\ \A k \in 1..(Len(s) + Len(t)) : (s \o t)[k] = IF k <= Len(s) THEN s[k] ELSE t[k - Len(s)]
  BY <1>3, ConcatProperties
<1>5. Len(s \o t) = Len(u) /\ Len(s) + Len(t) = e - a
  BY <1>3, <1>4
<1>6. ASSUME NEW k \in 1..(e - a) PROVE (s \o t)[k] = u[k]
  <2>1. u[k] = a + k - 1
    BY <1>3
  <2>2. CASE k <= b - a
    <3>1. k \in 1..(b - a) /\ k \in 1..(Len(s) + Len(t)) /\ k <= Len(s)
      BY <1>3, <1>5, <2>2
    <3> QED BY <1>3, <1>4, <2>1, <3>1
  <2>3. CASE ~(k <= b - a)
    <3>1. k - (b - a) \in 1..(e - b) /\ k \in 1..(Len(s) + Len(t)) /\ ~(k <= Len(s))
      BY <1>3, <1>5, <2>3
    <3>2. t[k - (b - a)] = b + (k - (b - a)) - 1
      BY <1>3, <3>1
    <3>3. b + (k - (b - a)) - 1 = a + k - 1
      OBVIOUS
    <3> QED BY <1>3, <1>4, <2>1, <3>1, <3>2, <3>3
  <2> QED BY <2>2, <2>3
<1>7. s \o t = u
  BY <1>3, <1>4, <1>5, <1>6, SeqEqual
<1> QED BY <1>7 DEF s, t, u

\* A sequence that counts up from 1.
LEMMA CountsUp ==
    ASSUME NEW s \in Seq(Nat), \A k \in 1..Len(s) : s[k] = k
    PROVE  s = Count(1, Len(s) + 1)
<1>1. Len(s) \in Nat /\ (Len(s) + 1) - 1 = Len(s)
  BY LenProperties
<1>2. \A k \in 1..Len(s) : s[k] = 1 + k - 1
  OBVIOUS
<1>3. DOMAIN s = 1..Len(s) /\ s = [k \in DOMAIN s |-> s[k]]
  BY LenProperties
<1> QED BY <1>1, <1>2, <1>3 DEF Count

(***************************************************************************)
(* The inductive invariant.                                                *)
(***************************************************************************)

\* Items of a segmenter that has cut L segments.
CutItems(L) == {x \in Items : IsSegment(x) => x.n <= L}

\* The trunk's ring only empties by never having been filled.
TrunkInv == SafeInv /\ (entries = <<>> => hist = <<>>)

\* Types, and numbers no greater than the count of segments cut.
TypedInv ==
    /\ container \in {"Fmp4", "MpegTs"}
    /\ cut \in Seq(Nat) /\ Len(cut) <= MaxCut /\ (at = "new" => cut = <<>>)
    /\ seg \in [n : 1..(Len(cut) + 1), part : 0..MaxParts, held : BOOLEAN, tail : BOOLEAN]
    /\ seg.held => Len(cut) < MaxCut
    /\ ready \in [parts : Seq(CutItems(Len(cut))), segments : Seq(CutItems(Len(cut)))]
    /\ pending \in Seq(CutItems(Len(cut))) /\ batch \in Seq(CutItems(Len(cut)))
    /\ lost \in Seq(Items)
    /\ entries \in Seq(0..Len(cut))

\* Where the call is and what it may hold there.
ControlInv ==
    /\ at \in Places /\ since \in {"none", "waiting", "late"}
    /\ call \in {"none", "change", "publish", "flush"}
    /\ call = "none" <=> at \in {"new", "idle", "ingest", "ended"}
    /\ batch # <<>> => at \in {"drain", "queue", "expire"}
    /\ at # "ingest" => ready = NoneReady
    /\ at \in {"new", "ended"} => pending = <<>>
    /\ since # "none" => pending # <<>>
    /\ at = "expire" => pending # <<>> /\ IsSegment(Head(pending))

\* No pin stands in the way of a push.
Clear == Full => AtRiskUnder("StallIngest") = {}

\* The segment in front of the queue would be accepted now.
Unblocked == pending # <<>> /\ IsSegment(Head(pending)) /\ Clear

\* The queue is at its limit only if the next drain gets a segment out.
QueueInv ==
    /\ at # "drain" => Size(pending) <= QueueCap
    /\ at \in {"idle", "ingest", "queue"} /\ Size(pending) = QueueCap => Unblocked
    /\ Size(pending) <= QueueCap + 1
    /\ Size(pending) = QueueCap + 1 => Unblocked

\* Backlog, batch and what is ready continue one another.
Chain(backlog, items, r, from, to) ==
    \E a, b \in Nat : Run(backlog, from, a) /\ Run(items, a, b) /\ ReadyRun(r, b, to)

Backlog == IF at = "ended" THEN lost ELSE pending

\* fMP4: numbers are consecutive from the trunk to the open segment.
StreamInv ==
    container = "Fmp4" =>
        /\ \A k \in 1..Len(hist) : hist[k] = k
        /\ \A k \in 1..Len(cut) : cut[k] = k
        /\ seg.n = Len(cut) + 1 /\ dropped = <<>>
        /\ Chain(Backlog, batch, ready, Len(hist) + 1, Len(cut) + 1)

\* The newest part is of the latest segment any part is of, at most the open one.
EdgeRight(list, open) ==
    \A k \in 1..Len(list) : list[k].n <= list[Len(list)].n /\ list[k].n <= open

EdgeInv ==
    /\ IndexRight(parts, Items, PartCapacity)
    /\ container = "Fmp4" => EdgeRight(parts.ring.entries, Len(hist) + 1)

Segments == {x \in Items : IsSegment(x)}

\* MPEG-TS: there are no parts.
TsInv ==
    container = "MpegTs" =>
        /\ parts.ring.entries = <<>> /\ ready.parts = <<>>
        /\ ready.segments \in Seq(Segments) /\ pending \in Seq(Segments)
        /\ batch \in Seq(Segments)

SegInv ==
    /\ TrunkInv /\ TypedInv /\ ControlInv /\ QueueInv
    /\ StreamInv /\ EdgeInv /\ TsInv

-----------------------------------------------------------------------------
\* The trunk.

\* A step of a reader leaves the log alone.
LEMMA CursorFrame ==
    ASSUME NEW c, CursorStep(c)
    PROVE  UNCHANGED <<entries, base, published, hist, writer_taken>>
BY DEF CursorStep, PollStep, SubscribeSegments, PinSegments, PollLagged, PollLossy,
       PollTerminated, PollGap, PollPinned, DropCursor, NotifyAll, logVars

\* No step of a reader puts a pin in the way of a push.
LEMMA CursorClear ==
    ASSUME SafeInv, Clear, NEW c \in Cursors, CursorStep(c)
    PROVE  Clear'
<1> SUFFICES ASSUME Full' PROVE AtRiskUnder("StallIngest")' = {}
  BY DEF Clear
<1>1. UNCHANGED <<entries, base, published>>
  BY CursorFrame
<1>2. Full
  BY <1>1 DEF Full
<1>3. \A d \in DOMAIN pins : ~(AtRisk(d) /\ pins[d].policy = "StallIngest")
  BY <1>2 DEF Clear, AtRiskUnder
<1>4. TypeOK /\ base \in Nat /\ published \in Nat /\ base < published
  BY <1>2, CapacityAssumption DEF SafeInv, TypeOK, RingIsSuffix, Full
<1>5. pins \in [DOMAIN pins -> PinState]
  BY <1>4 DEF TypeOK
<1> SUFFICES ASSUME NEW d \in DOMAIN pins', AtRisk(d)', pins'[d].policy = "StallIngest"
             PROVE  FALSE
  BY DEF AtRiskUnder
<1>6. ~pins'[d].terminated /\ pins'[d].consumed <= base
  BY <1>1 DEF AtRisk
<1>7. ASSUME d \in DOMAIN pins, pins'[d] = pins[d] PROVE FALSE
  BY <1>3, <1>6, <1>7 DEF AtRisk
<1>8. CASE UNCHANGED pins
  BY <1>7, <1>8
<1>9. ASSUME NEW policy \in Policies, PinSegments(c, policy) PROVE FALSE
  <2>1. CASE d = c
    <3>1. pins'[d].consumed = published
      BY <1>9, <2>1 DEF PinSegments
    <3> QED BY <1>4, <1>6, <3>1
  <2>2. CASE d # c
    BY <1>7, <1>9, <2>2 DEF PinSegments
  <2> QED BY <2>1, <2>2
<1>10. CASE PollTerminated(c) \/ DropCursor(c)
  <2>1. pins' = RemovePin(c)
    BY <1>10 DEF PollTerminated, DropCursor
  <2> QED BY <1>4, <1>7, <2>1, RemoveLemma
<1>11. CASE PollGap(c) \/ PollPinned(c)
  <2>1. c \in DOMAIN pins
    BY <1>11 DEF PollGap, PollPinned, Pollable, SafeInv, PinsMatchCursors
  <2>2. CASE d # c
    <3>1. d \in DOMAIN pins /\ pins'[d] = pins[d]
      BY <1>5, <1>11, <2>1, <2>2 DEF PollGap, PollPinned
    <3> QED BY <1>7, <3>1
  <2>3. CASE d = c
    <3>1. pins[c] \in PinState /\ pins[c].consumed \in Nat
      BY <1>5, <2>1 DEF PinState
    <3>2. /\ pins'[c].policy = pins[c].policy /\ pins'[c].terminated = pins[c].terminated
      BY <1>5, <1>11, <2>1 DEF PollGap, PollPinned, PinState
    <3>3. pins[c].consumed <= base
      <4>1. CASE PollGap(c)
        BY <1>4, <3>1, <4>1 DEF PollGap
      <4>2. CASE PollPinned(c)
        <5>1. pins'[c].consumed = pins[c].consumed + 1
          BY <1>5, <2>1, <3>1, <4>2 DEF PollPinned, PinState
        <5> QED BY <1>4, <1>6, <2>3, <3>1, <5>1
      <4> QED BY <1>11, <4>1, <4>2
    <3>4. AtRisk(c) /\ pins[c].policy = "StallIngest"
      BY <1>6, <2>3, <3>2, <3>3 DEF AtRisk
    <3> QED BY <1>3, <2>1, <3>4
  <2> QED BY <2>2, <2>3
<1>12. CASE SubscribeSegments(c) \/ PollLagged(c) \/ PollLossy(c) \/ NotifyAll(c)
  BY <1>8, <1>12 DEF SubscribeSegments, PollLagged, PollLossy, NotifyAll
<1> QED BY <1>9, <1>10, <1>11, <1>12 DEF CursorStep, PollStep

\* The trunk's own invariant, through every step of the segmenter.
LEMMA TrunkKept ==
    ASSUME SegInv, [SegmenterNext]_allVars
    PROVE  TrunkInv'
<1>1. SafeInv /\ (entries = <<>> => hist = <<>>) /\ TypedInv /\ ControlInv
  BY DEF SegInv, TrunkInv
<1>2. CASE UNCHANGED vars
  BY <1>1, <1>2 DEF vars, TrunkInv, SafeInv, TypeOK, RingIsSuffix, PinsMatchCursors,
                    PositionsInLog, PinLossless, GapNeverTerminated
<1>3. CASE Start
  <2>1. TakeWriter
    BY <1>3 DEF Start
  <2>2. SafeInv' /\ UNCHANGED <<entries, hist>>
    BY <1>1, <2>1, WriterSlotSafe DEF TakeWriter, logVars
  <2> QED BY <1>1, <2>2 DEF TrunkInv
<1>4. CASE DrainSegment
  <2> DEFINE x == Head(pending)
  <2>1. x \in CutItems(Len(cut))
    BY <1>1, <1>4, HeadTailProperties DEF DrainSegment, HeadIsSegment, TypedInv
  <2>2. x.n \in Nat
    BY <2>1 DEF CutItems, Items
  <2>3. Me \in Publishers
    BY MeAssumption
  <2>4. TryPublishSegment(Me, x.n)
    BY <1>4 DEF DrainSegment
  <2> HIDE DEF x
  <2>5. SafeInv'
    BY <1>1, <2>2, <2>3, <2>4, TrySafe
  <2>6. entries' # <<>>
    <3>1. Push(x.n) /\ entries \in Seq(Nat)
      BY <1>1, <2>4 DEF TryPublishSegment, SafeInv, TypeOK
    <3>2. \A s \in Seq(Nat) : Append(s, x.n) # <<>>
      BY <2>2, AppendProperties, EmptySeq
    <3>3. Len(entries) = Capacity => Tail(entries) \in Seq(Nat)
      BY <3>1, CapacityAssumption, HeadTailProperties, EmptySeq
    <3> QED BY <3>1, <3>2, <3>3 DEF Push
  <2> QED BY <2>5, <2>6 DEF TrunkInv
<1>5. CASE Expire
  <2>1. CASE ExpireStalledPins(Me)
    <3>1. WriterStep(Me) /\ Me \in Publishers
      BY <2>1, MeAssumption DEF WriterStep
    <3>2. UNCHANGED <<entries, hist>>
      BY <2>1 DEF ExpireStalledPins, logVars
    <3> QED BY <1>1, <3>1, <3>2, WriterSafe DEF TrunkInv
  <2> QED BY <1>2, <1>5, <2>1 DEF Expire
<1>6. ASSUME NEW c \in Cursors, Reader(c) PROVE TrunkInv'
  <2>1. CursorStep(c)
    BY <1>6 DEF Reader
  <2> QED BY <1>1, <2>1, CursorSafe, CursorFrame DEF TrunkInv
<1>7. CASE \/ PushSample \/ CutPart \/ CutSegment \/ Pump \/ PublishReady \/ TrackChange
           \/ EndOfStream \/ QueueItem \/ Return \/ DrainDone \/ DrainPart \/ DrainRefused
           \/ DrainStalled \/ WaitElapses
  <2>1. UNCHANGED vars
    BY <1>7 DEF PushSample, CutPart, CutSegment, Pump, PublishReady, TrackChange, EndOfStream,
                QueueItem, Return, DrainDone, DrainPart, DrainRefused, DrainStalled, WaitElapses,
                trunkVars
  <2> QED BY <1>2, <2>1
<1>8. CASE UNCHANGED allVars
  BY <1>2, <1>8 DEF allVars, trunkVars
<1> QED BY <1>3, <1>4, <1>5, <1>6, <1>7, <1>8 DEF SegmenterNext, CallStep

-----------------------------------------------------------------------------
\* Types and control.

\* The parts finish_segment may add, and what they belong to.
LEMMA FinalTyped ==
    ASSUME NEW L \in Nat, seg.n \in Nat, seg.part \in Nat, NEW final \in FinalParts
    PROVE  /\ final \in Seq(CutItems(L))
           /\ \A i \in 1..Len(final) : ~IsSegment(final[i]) /\ final[i].n = seg.n
           /\ container # "Fmp4" => final = <<>>
<1> DEFINE x == Part(seg.n, seg.part)
<1>1. x \in CutItems(L) /\ ~IsSegment(x) /\ x.n = seg.n
  BY DEF Part, CutItems, Items, IsSegment
<1>2. CASE final = <<>>
  <2>1. final \in Seq(CutItems(L)) /\ Len(final) = 0
    BY <1>2, EmptySeq
  <2> QED BY <1>2, <2>1
<1>3. CASE final # <<>>
  <2>1. container = "Fmp4" /\ final = <<x>>
    BY <1>3 DEF FinalParts
  <2> HIDE DEF x
  <2>2. <<x>> \in Seq(CutItems(L)) /\ Len(<<x>>) = 1 /\ <<x>>[1] = x
    BY <1>1
  <2> QED BY <1>1, <2>1, <2>2
<1> QED BY <1>2, <1>3

\* A wider bound.
LEMMA CutItemsWiden ==
    ASSUME NEW L \in Nat, NEW M \in Nat, L <= M, NEW s \in Seq(CutItems(L))
    PROVE  s \in Seq(CutItems(M))
<1>1. CutItems(L) \subseteq CutItems(M)
  <2> SUFFICES ASSUME NEW x \in CutItems(L) PROVE x \in CutItems(M)
    OBVIOUS
  <2>1. x \in Items /\ x.n \in Nat /\ (IsSegment(x) => x.n <= L)
    BY DEF CutItems, Items
  <2> QED BY <2>1 DEF CutItems
<1> QED BY <1>1, SeqMonotonic

\* How many segments have been cut after a flush.
Cuts == IF seg.held THEN Len(cut) + 1 ELSE Len(cut)

\* What a flush leaves.
LEMMA FlushTyped ==
    ASSUME TypedInv, NEW final \in FinalParts
    PROVE  /\ Flushed(final).parts \in Seq(CutItems(Cuts))
           /\ Flushed(final).segments \in Seq(CutItems(Cuts))
<1> DEFINE L == Len(cut)
           M == Cuts
<1>1. L \in Nat /\ seg.n \in Nat /\ seg.n <= L + 1 /\ seg.part \in Nat
  <2>1. L \in Nat
    BY LenProperties DEF TypedInv
  <2> QED BY <2>1, CutAssumption DEF TypedInv
<1>2. /\ ready.parts \in Seq(CutItems(L)) /\ ready.segments \in Seq(CutItems(L))
  BY DEF TypedInv
<1>3. CASE seg.held
  <2>1. M = L + 1 /\ M \in Nat /\ L <= M
    BY <1>1, <1>3 DEF Cuts
  <2>2. ready.parts \in Seq(CutItems(M)) /\ ready.segments \in Seq(CutItems(M))
    BY <1>1, <1>2, <2>1, CutItemsWiden
  <2>3. final \in Seq(CutItems(M))
    BY <1>1, <2>1, FinalTyped
  <2>4. Seg(seg.n) \in CutItems(M)
    BY <1>1, <2>1 DEF Seg, CutItems, Items
  <2>5. /\ Flushed(final).parts = ready.parts \o final
        /\ Flushed(final).segments = Append(ready.segments, Seg(seg.n))
    BY <1>3 DEF Flushed
  <2> HIDE DEF M
  <2>6. ready.parts \o final \in Seq(CutItems(M))
    BY <2>2, <2>3, ConcatProperties
  <2>7. Append(ready.segments, Seg(seg.n)) \in Seq(CutItems(M))
    BY <2>2, <2>4, AppendProperties
  <2> QED BY <2>5, <2>6, <2>7 DEF M
<1>4. CASE ~seg.held
  BY <1>2, <1>4 DEF Flushed, Cuts
<1> QED BY <1>3, <1>4

\* The number the trunk would take next.
LEMMA NextNumber ==
    ASSUME TypedInv
    PROVE  next_sequence_number \in 1..(Len(cut) + 1)
<1> DEFINE L == Len(cut)
           m == Len(entries)
<1>1. L \in Nat
  BY LenProperties DEF TypedInv
<1>2. CASE entries = <<>>
  BY <1>1, <1>2 DEF next_sequence_number
<1>3. CASE entries # <<>>
  <2>1. m \in Nat \ {0} /\ entries \in Seq(0..L)
    BY <1>3, EmptySeq DEF TypedInv
  <2>2. entries[m] \in 0..L
    BY <2>1, ElementOfSeq
  <2> QED BY <1>1, <1>3, <2>2 DEF next_sequence_number
<1> QED BY <1>2, <1>3

\* FlushInto(n).
LEMMA FlushKept ==
    ASSUME TypedInv, NEW n \in 1..(Cuts + 1), FlushInto(n),
           UNCHANGED <<pending, lost, entries>>, at' # "new"
    PROVE  TypedInv' /\ Len(cut') = Cuts
<1> DEFINE L == Len(cut)
           M == Cuts
<1>1. L \in Nat /\ cut \in Seq(Nat) /\ seg.n \in Nat /\ M \in Nat /\ L <= M
  <2>1. L \in Nat
    BY LenProperties DEF TypedInv
  <2> QED BY <2>1 DEF TypedInv, Cuts
<1>2. cut' \in Seq(Nat) /\ Len(cut') = M
  <2>1. CASE seg.held
    BY <1>1, <2>1, AppendProperties DEF FlushInto, Cuts
  <2>2. CASE ~seg.held
    BY <1>1, <2>2 DEF FlushInto, Cuts
  <2> QED BY <2>1, <2>2
<1>3. M <= MaxCut
  BY <1>1, CutAssumption DEF TypedInv, Cuts
<1>4. seg' \in [n : 1..(M + 1), part : 0..MaxParts, held : BOOLEAN, tail : BOOLEAN] /\ ~seg'.held
  BY CutAssumption DEF FlushInto, FreshSegmenter
<1>5. ready' = [parts |-> <<>>, segments |-> <<>>] /\ container' = container
  BY DEF FlushInto, NoneReady
<1>6. PICK final \in FinalParts : batch' = InStreamOrder(Flushed(final))
  BY DEF FlushInto
<1>7. batch' \in Seq(CutItems(M))
  BY <1>6, FlushTyped, InStreamOrderTyped
<1> HIDE DEF M
<1>8. pending' \in Seq(CutItems(M))
  BY <1>1, CutItemsWiden DEF TypedInv
<1>9. entries' \in Seq(0..M)
  <2>1. 0..L \subseteq 0..M
    BY <1>1
  <2> QED BY <2>1, SeqMonotonic DEF TypedInv
<1>10. <<>> \in Seq(CutItems(M))
  BY EmptySeq
<1>11. container' \in {"Fmp4", "MpegTs"} /\ lost' \in Seq(Items)
  BY <1>5 DEF TypedInv
<1> QED BY <1>2, <1>3, <1>4, <1>5, <1>7, <1>8, <1>9, <1>10, <1>11 DEF TypedInv, M

\* Types, through every step.
LEMMA TypedKept ==
    ASSUME SegInv, [SegmenterNext]_allVars
    PROVE  TypedInv'
<1> DEFINE L == Len(cut)
<1>1. SafeInv /\ TypedInv /\ ControlInv
  BY DEF SegInv, TrunkInv
<1>2. /\ L \in Nat /\ cut \in Seq(Nat) /\ seg.n \in 1..(L + 1) /\ seg.part \in Nat
      /\ pending \in Seq(CutItems(L)) /\ batch \in Seq(CutItems(L))
      /\ ready.parts \in Seq(CutItems(L)) /\ ready.segments \in Seq(CutItems(L))
      /\ entries \in Seq(0..L)
  <2>1. L \in Nat
    BY <1>1, LenProperties DEF TypedInv
  <2> QED BY <1>1, <2>1 DEF TypedInv
<1>3. \A s : s \in Seq(CutItems(L)) /\ s # <<>> => Head(s) \in CutItems(L) /\ Tail(s) \in Seq(CutItems(L))
  BY HeadTailProperties
<1>4. \A x \in CutItems(L) : x \in Items /\ x.n \in Nat /\ (IsSegment(x) => x.n \in 0..L)
  BY <1>2 DEF CutItems, Items
<1>5. CASE Start
  <2>1. /\ seg' = FreshSegmenter(next_sequence_number) /\ at' # "new"
        /\ UNCHANGED <<container, cut, ready, pending, batch, lost, entries>>
    BY <1>5 DEF Start, TakeWriter, logVars
  <2>2. seg' \in [n : 1..(L + 1), part : 0..MaxParts, held : BOOLEAN, tail : BOOLEAN] /\ ~seg'.held
    BY <1>1, <2>1, NextNumber, CutAssumption DEF FreshSegmenter
  <2> QED BY <1>1, <2>1, <2>2 DEF TypedInv
<1>6. CASE PushSample
  <2>1. /\ L < MaxCut /\ UNCHANGED <<container, cut, at, ready, pending, batch, lost, entries>>
        /\ seg' = [seg EXCEPT !.held = TRUE, !.tail = TRUE]
    BY <1>6 DEF PushSample, trunkVars, vars, queueVars
  <2> QED BY <1>1, <2>1 DEF TypedInv
<1>7. CASE CutPart
  <2> DEFINE x == Part(seg.n, seg.part)
  <2>1. /\ UNCHANGED <<container, cut, at, pending, batch, lost, entries>>
        /\ seg.part < MaxParts
        /\ \E rest \in BOOLEAN : seg' = [seg EXCEPT !.part = @ + 1, !.tail = rest]
        /\ ready' = [ready EXCEPT !.parts = Append(@, x)]
    BY <1>7 DEF CutPart, trunkVars, vars, queueVars
  <2>2. x \in CutItems(L)
    BY <1>2 DEF Part, CutItems, Items, IsSegment
  <2>3. Append(ready.parts, x) \in Seq(CutItems(L))
    BY <1>2, <2>2, AppendProperties
  <2>4. /\ seg' \in [n : 1..(L + 1), part : 0..MaxParts, held : BOOLEAN, tail : BOOLEAN]
        /\ seg'.held = seg.held
    <3>1. PICK rest \in BOOLEAN : seg' = [seg EXCEPT !.part = @ + 1, !.tail = rest]
      BY <2>1
    <3>0. seg.part \in 0..MaxParts
      BY <1>1 DEF TypedInv
    <3>2. seg.part + 1 \in 0..MaxParts
      BY <2>1, <3>0, CutAssumption
    <3> QED BY <1>1, <3>1, <3>2 DEF TypedInv
  <2> HIDE DEF x
  <2>5. ready' \in [parts : Seq(CutItems(L)), segments : Seq(CutItems(L))]
    BY <1>1, <2>1, <2>3 DEF TypedInv
  <2> QED BY <1>1, <2>1, <2>3, <2>4, <2>5 DEF TypedInv
<1>8. CASE CutSegment
  <2>1. /\ UNCHANGED <<container, pending, batch, lost, entries>> /\ at' # "new"
        /\ seg.held /\ seg' = FreshSegmenter(seg.n + 1) /\ cut' = Append(cut, seg.n)
    BY <1>8 DEF CutSegment, trunkVars, vars, queueVars
  <2>2. PICK final \in FinalParts : ready' = Flushed(final)
    BY <1>8 DEF CutSegment
  <2>3. Cuts = L + 1 /\ L + 1 \in Nat /\ L <= L + 1
    BY <1>2, <2>1 DEF Cuts
  <2>4. ready' \in [parts : Seq(CutItems(L + 1)), segments : Seq(CutItems(L + 1))]
    <3>1. ready'.parts \in Seq(CutItems(L + 1)) /\ ready'.segments \in Seq(CutItems(L + 1))
      BY <1>1, <2>2, <2>3, FlushTyped
    <3>2. ready' = [parts |-> ready.parts \o final, segments |-> Append(ready.segments, Seg(seg.n))]
      BY <2>1, <2>2 DEF Flushed
    <3> QED BY <3>1, <3>2
  <2>5. cut' \in Seq(Nat) /\ Len(cut') = L + 1
    BY <1>2, <2>1, AppendProperties
  <2>6. L + 1 <= MaxCut
    BY <1>1, <1>2, <2>1, CutAssumption DEF TypedInv
  <2>7. /\ seg' \in [n : 1..((L + 1) + 1), part : 0..MaxParts, held : BOOLEAN, tail : BOOLEAN]
        /\ ~seg'.held
    BY <1>2, <2>1, CutAssumption DEF FreshSegmenter
  <2>8. pending' \in Seq(CutItems(L + 1)) /\ batch' \in Seq(CutItems(L + 1))
    BY <1>2, <2>1, <2>3, CutItemsWiden
  <2>9. entries' \in Seq(0..(L + 1))
    <3>1. 0..L \subseteq 0..(L + 1)
      BY <1>2
    <3> QED BY <1>2, <2>1, <3>1, SeqMonotonic
  <2>10. container' \in {"Fmp4", "MpegTs"} /\ lost' \in Seq(Items)
    BY <1>1, <2>1 DEF TypedInv
  <2> HIDE DEF L
  <2> QED BY <2>1, <2>4, <2>5, <2>6, <2>7, <2>8, <2>9, <2>10 DEF TypedInv
<1>9. CASE Pump \/ DrainDone \/ DrainStalled \/ WaitElapses \/ UNCHANGED allVars
  <2>1. /\ UNCHANGED <<container, cut, seg, ready, pending, batch, lost, entries>>
        /\ at' = "new" => at = "new"
    BY <1>9 DEF Pump, DrainDone, DrainStalled, WaitElapses, allVars, trunkVars, vars, segVars,
                queueVars
  <2> QED BY <1>1, <2>1 DEF TypedInv
<1>10. CASE PublishReady
  <2>1. /\ UNCHANGED <<container, cut, seg, pending, lost, entries>> /\ at' # "new"
        /\ batch' = InStreamOrder(ready) /\ ready' = NoneReady
    BY <1>10 DEF PublishReady, trunkVars, vars
  <2>2. batch' \in Seq(CutItems(L))
    BY <1>2, <2>1, InStreamOrderTyped
  <2>3. ready' \in [parts : Seq(CutItems(L)), segments : Seq(CutItems(L))]
    BY <2>1, EmptySeq DEF NoneReady
  <2> QED BY <1>1, <2>1, <2>2, <2>3 DEF TypedInv
<1>11. CASE TrackChange \/ EndOfStream
  <2>1. UNCHANGED <<pending, lost, entries>> /\ at' # "new"
    BY <1>11 DEF TrackChange, EndOfStream, trunkVars, vars
  <2>2. Cuts \in Nat /\ L <= Cuts /\ NextOwn \in 1..(Cuts + 1)
    BY <1>2 DEF Cuts, NextOwn
  <2>3. next_sequence_number \in 1..(Cuts + 1)
    BY <1>1, <1>2, <2>2, NextNumber
  <2>4. \E n \in 1..(Cuts + 1) : FlushInto(n)
    BY <1>11, <2>2, <2>3 DEF TrackChange, EndOfStream, ResumeFrom
  <2> QED BY <1>1, <2>1, <2>4, FlushKept
<1>12. CASE QueueItem
  <2>1. /\ UNCHANGED <<container, cut, seg, ready, lost, entries>> /\ at' # "new"
        /\ batch # <<>> /\ pending' = Append(pending, Head(batch)) /\ batch' = Tail(batch)
    BY <1>12 DEF QueueItem, trunkVars, vars, segVars
  <2>2. Head(batch) \in CutItems(L) /\ batch' \in Seq(CutItems(L))
    BY <1>2, <1>3, <2>1
  <2>3. pending' \in Seq(CutItems(L))
    BY <1>2, <2>1, <2>2, AppendProperties
  <2> QED BY <1>1, <2>1, <2>2, <2>3 DEF TypedInv
<1>13. CASE Return
  <2>1. /\ UNCHANGED <<container, cut, seg, ready, batch, entries>>
        /\ lost' = IF call = "flush" THEN pending ELSE lost
        /\ pending' = IF call = "flush" THEN <<>> ELSE pending
    BY <1>13 DEF Return, trunkVars, vars, segVars
  <2>2. at' # "new"
    BY <1>1, <1>13 DEF Return, ControlInv
  <2>3. pending' \in Seq(CutItems(L))
    BY <1>2, <2>1, EmptySeq
  <2>4. lost' \in Seq(Items)
    <3>1. CutItems(L) \subseteq Items
      BY DEF CutItems
    <3>2. pending \in Seq(Items)
      BY <1>2, <3>1, SeqMonotonic
    <3> QED BY <1>1, <2>1, <3>2 DEF TypedInv
  <2> QED BY <1>1, <2>1, <2>2, <2>3, <2>4 DEF TypedInv
<1>14. CASE DrainPart \/ DrainRefused
  <2>1. /\ UNCHANGED <<container, cut, seg, ready, batch, lost, entries>> /\ at' # "new"
        /\ pending # <<>> /\ pending' = Tail(pending)
    BY <1>14 DEF DrainPart, DrainRefused, HeadIsSegment, trunkVars, vars, segVars
  <2>2. pending' \in Seq(CutItems(L))
    BY <1>2, <1>3, <2>1
  <2> QED BY <1>1, <2>1, <2>2 DEF TypedInv
<1>15. CASE DrainSegment
  <2> DEFINE x == Head(pending)
  <2>1. /\ UNCHANGED <<container, cut, seg, ready, batch, lost>> /\ at' # "new"
        /\ pending # <<>> /\ pending' = Tail(pending) /\ IsSegment(x) /\ Push(x.n)
    BY <1>15 DEF DrainSegment, HeadIsSegment, TryPublishSegment, segVars, IsSegment
  <2>2. x \in CutItems(L) /\ pending' \in Seq(CutItems(L))
    BY <1>2, <1>3, <2>1
  <2>3. x.n \in 0..L
    BY <1>4, <2>1, <2>2
  <2> HIDE DEF x
  <2>4. \A s \in Seq(0..L) : Append(s, x.n) \in Seq(0..L)
    BY <2>3, AppendProperties
  <2>5. Len(entries) = Capacity => Tail(entries) \in Seq(0..L)
    BY <1>2, CapacityAssumption, HeadTailProperties, EmptySeq
  <2>6. entries' \in Seq(0..L)
    BY <1>2, <2>1, <2>4, <2>5 DEF Push
  <2> QED BY <1>1, <2>1, <2>2, <2>6 DEF TypedInv
<1>16. CASE Expire
  <2>1. /\ UNCHANGED <<container, cut, seg, ready, pending, batch, lost, entries>> /\ at' # "new"
    BY <1>16 DEF Expire, ExpireStalledPins, logVars, vars, segVars
  <2> QED BY <1>1, <2>1 DEF TypedInv
<1>17. ASSUME NEW c \in Cursors, Reader(c) PROVE TypedInv'
  <2>1. /\ UNCHANGED <<container, cut, seg, ready, pending, batch, lost, at>> /\ CursorStep(c)
    BY <1>17 DEF Reader, segVars, queueVars
  <2>2. entries' = entries
    BY <2>1, CursorFrame
  <2> QED BY <1>1, <2>1, <2>2 DEF TypedInv
<1> QED BY <1>5, <1>6, <1>7, <1>8, <1>9, <1>10, <1>11, <1>12, <1>13, <1>14, <1>15, <1>16, <1>17
        DEF SegmenterNext, CallStep

\* Where the call is, through every step.
LEMMA ControlKept ==
    ASSUME SegInv, [SegmenterNext]_allVars
    PROVE  ControlInv'
<1>1. ControlInv /\ TypedInv
  BY DEF SegInv
<1>2. pending \in Seq(Items) /\ batch \in Seq(Items)
  <2>1. CutItems(Len(cut)) \subseteq Items
    BY DEF CutItems
  <2> QED BY <1>1, <2>1, SeqMonotonic DEF TypedInv
<1>3. CASE Start
  <2>1. at = "new" /\ at' = "idle" /\ UNCHANGED <<ready, pending, since, batch, call>>
    BY <1>3 DEF Start
  <2> QED BY <1>1, <2>1 DEF ControlInv, Places
<1>4. CASE PushSample \/ CutPart \/ CutSegment
  <2>1. at = "ingest" /\ UNCHANGED <<at, pending, since, batch, call>>
    BY <1>4 DEF PushSample, CutPart, CutSegment, queueVars
  <2> QED BY <1>1, <2>1 DEF ControlInv, Places
<1>5. CASE Pump
  <2>1. at = "idle" /\ at' = "ingest" /\ UNCHANGED <<ready, pending, since, batch, call>>
    BY <1>5 DEF Pump, segVars
  <2> QED BY <1>1, <2>1 DEF ControlInv, Places
<1>6. CASE PublishReady \/ EndOfStream \/ TrackChange
  <2>1. /\ at \in {"idle", "ingest"} /\ at' \in {"drain", "queue"} /\ ready' = NoneReady
        /\ call' \in {"publish", "flush", "change"} /\ UNCHANGED <<pending, since>>
    BY <1>6 DEF PublishReady, EndOfStream, TrackChange, FlushInto
  <2> QED BY <1>1, <2>1 DEF ControlInv, Places
<1>7. CASE QueueItem
  <2>1. /\ at = "queue" /\ at' = "drain" /\ batch # <<>>
        /\ pending' = Append(pending, Head(batch)) /\ UNCHANGED <<ready, since, call>>
    BY <1>7 DEF QueueItem, segVars
  <2>2. Head(batch) \in Items
    BY <1>2, <2>1, HeadTailProperties
  <2>3. pending' # <<>>
    BY <1>2, <2>1, <2>2, AppendProperties, EmptySeq
  <2> QED BY <1>1, <2>1, <2>3 DEF ControlInv, Places
<1>8. CASE Return
  <2>1. /\ at = "queue" /\ batch = <<>> /\ call' = "none" /\ UNCHANGED <<ready, batch>>
        /\ pending' = IF call = "flush" THEN <<>> ELSE pending
        /\ since' = IF call = "flush" THEN "none" ELSE since
    BY <1>8 DEF Return, segVars
  <2>2. call \in {"change", "publish", "flush"}
    BY <1>1, <2>1 DEF ControlInv
  <2>3. /\ call = "change" => at' = "ingest"
        /\ call = "publish" => at' = "idle"
        /\ call = "flush" => at' = "ended"
    BY <1>8, <2>2 DEF Return
  <2> QED BY <1>1, <2>1, <2>2, <2>3 DEF ControlInv, Places
<1>9. CASE DrainDone
  <2>1. at = "drain" /\ at' = "queue" /\ since' = "none" /\ UNCHANGED <<ready, pending, batch, call>>
    BY <1>9 DEF DrainDone, segVars
  <2> QED BY <1>1, <2>1 DEF ControlInv, Places
<1>10. CASE DrainPart \/ DrainSegment \/ DrainRefused
  <2>1. at = "drain" /\ since' = "none" /\ UNCHANGED <<at, ready, batch, call>>
    BY <1>10 DEF DrainPart, DrainSegment, DrainRefused, HeadIsSegment, segVars
  <2> QED BY <1>1, <2>1 DEF ControlInv, Places
<1>11. CASE DrainStalled
  <2>1. /\ at = "drain" /\ at' \in {"expire", "queue"} /\ since' \in {"waiting", "late", since}
        /\ pending # <<>> /\ IsSegment(Head(pending)) /\ UNCHANGED <<ready, pending, batch, call>>
    BY <1>11 DEF DrainStalled, WouldStall, HeadIsSegment, segVars, IsSegment
  <2> QED BY <1>1, <2>1 DEF ControlInv, Places
<1>12. CASE Expire
  <2>1. /\ at = "expire" /\ at' \in {"drain", "queue"}
        /\ UNCHANGED <<ready, pending, since, batch, call>>
    BY <1>12 DEF Expire, segVars
  <2> QED BY <1>1, <2>1 DEF ControlInv, Places
<1>13. CASE WaitElapses
  <2>1. since = "waiting" /\ since' = "late" /\ UNCHANGED <<ready, pending, batch, call, at>>
    BY <1>13 DEF WaitElapses, segVars
  <2> QED BY <1>1, <2>1 DEF ControlInv
<1>14. CASE UNCHANGED allVars \/ \E c \in Cursors : Reader(c)
  <2>1. UNCHANGED <<ready, pending, since, batch, call, at>>
    BY <1>14 DEF Reader, segVars, queueVars, allVars
  <2> QED BY <1>1, <2>1 DEF ControlInv
<1> QED BY <1>3, <1>4, <1>5, <1>6, <1>7, <1>8, <1>9, <1>10, <1>11, <1>12, <1>13, <1>14
        DEF SegmenterNext, CallStep

-----------------------------------------------------------------------------
\* The bound on the queue.

\* The publish queue never holds more than the cap allows, through every step.
LEMMA QueueKept ==
    ASSUME SegInv, [SegmenterNext]_allVars
    PROVE  QueueInv'
<1> DEFINE N == Size(pending)
<1>1. ControlInv /\ TypedInv /\ QueueInv /\ SafeInv
  BY DEF SegInv, TrunkInv
<1>2. pending \in Seq(Items) /\ batch \in Seq(Items)
  <2>1. CutItems(Len(cut)) \subseteq Items
    BY DEF CutItems
  <2> QED BY <1>1, <2>1, SeqMonotonic DEF TypedInv
<1>3. N \in Nat /\ QueueCap \in Nat /\ QueueCap >= 1
  BY <1>2, SizeIsNat, QueueAssumption
<1>4. UNCHANGED vars => Clear' = Clear
  BY DEF vars, Clear, Full, AtRiskUnder, AtRisk
<1> HIDE DEF N
<1>5. ASSUME UNCHANGED pending, Clear => Clear', N <= QueueCap,
             at \in {"idle", "ingest", "queue"} \/ at' \notin {"idle", "ingest", "queue"}
      PROVE  QueueInv'
  <2>1. Size(pending') = N
    BY <1>5 DEF N
  <2>2. ~(N = QueueCap + 1) /\ N <= QueueCap + 1
    BY <1>3, <1>5
  <2>3. Unblocked => Unblocked'
    BY <1>5 DEF Unblocked
  <2>4. at \in {"idle", "ingest", "queue"} /\ N = QueueCap => Unblocked
    BY <1>1 DEF QueueInv, N
  <2> HIDE DEF N
  <2> QED BY <1>5, <2>1, <2>2, <2>3, <2>4 DEF QueueInv
<1>6. ASSUME pending' = <<>> PROVE QueueInv'
  <2>1. Size(pending') = 0
    BY <1>6, SizeNone
  <2> QED BY <1>3, <2>1 DEF QueueInv
<1>7. ASSUME pending # <<>>, pending' = Tail(pending), at = "drain", at' = "drain",
             IsSegment(Head(pending)) \/ ~Unblocked
      PROVE  QueueInv'
  <2>1. Tail(pending) \in Seq(Items) /\ Size(Tail(pending)) \in Nat
    BY <1>2, <1>7, HeadTailProperties, SizeIsNat
  <2>2. N = IF IsSegment(Head(pending)) THEN Size(pending') + 1 ELSE Size(pending')
    BY <1>2, <1>7, SizeTail DEF N
  <2>3. N <= QueueCap + 1 /\ (N = QueueCap + 1 => Unblocked)
    BY <1>1 DEF QueueInv, N
  <2>4. Size(pending') <= QueueCap
    BY <1>3, <1>7, <2>1, <2>2, <2>3
  <2>5. ~(Size(pending') = QueueCap + 1) /\ Size(pending') <= QueueCap + 1
    BY <1>3, <1>7, <2>1, <2>4
  <2> QED BY <1>7, <2>4, <2>5 DEF QueueInv
<1>8. at # "drain" => N <= QueueCap
  BY <1>1 DEF QueueInv, N
<1>9. CASE Start
  <2>1. at = "new" /\ pending' = pending
    BY <1>9 DEF Start
  <2> QED BY <1>1, <1>6, <2>1 DEF ControlInv
<1>10. CASE PushSample \/ CutPart \/ CutSegment
  <2>1. at = "ingest" /\ UNCHANGED <<pending, at, vars>>
    BY <1>10 DEF PushSample, CutPart, CutSegment, queueVars, trunkVars
  <2> QED BY <1>4, <1>5, <1>8, <2>1
<1>11. CASE Pump \/ PublishReady \/ TrackChange \/ EndOfStream
  <2>1. at \in {"idle", "ingest"} /\ UNCHANGED <<pending, vars>>
    BY <1>11 DEF Pump, PublishReady, TrackChange, EndOfStream, trunkVars
  <2> QED BY <1>4, <1>5, <1>8, <2>1
<1>12. CASE QueueItem
  <2> DEFINE x == Head(batch)
  <2>1. /\ at = "queue" /\ at' = "drain" /\ batch # <<>>
        /\ pending' = Append(pending, x) /\ UNCHANGED vars
    BY <1>12 DEF QueueItem, trunkVars
  <2>2. x \in Items
    BY <1>2, <2>1, HeadTailProperties
  <2> HIDE DEF x
  <2>3. Size(pending') = IF IsSegment(x) THEN N + 1 ELSE N
    BY <1>2, <2>1, <2>2, SizeAppend DEF N
  <2>4. N <= QueueCap /\ (N = QueueCap => Unblocked)
    BY <1>1, <1>8, <2>1 DEF QueueInv, N
  <2>5. Unblocked => Unblocked'
    <3> SUFFICES ASSUME Unblocked PROVE Unblocked'
      OBVIOUS
    <3>1. pending # <<>> /\ IsSegment(Head(pending)) /\ Clear'
      BY <1>4, <2>1 DEF Unblocked
    <3>2. pending' # <<>> /\ Head(pending') = Head(pending)
      <4>1. Len(pending) \in Nat \ {0}
        BY <1>2, <3>1, EmptySeq
      <4>2. pending' \in Seq(Items) /\ Len(pending') = Len(pending) + 1 /\ pending'[1] = pending[1]
        BY <1>2, <2>1, <2>2, <4>1, AppendProperties
      <4> QED BY <1>2, <3>1, <4>1, <4>2, EmptySeq
    <3> QED BY <3>1, <3>2 DEF Unblocked
  <2>6. Size(pending') <= QueueCap + 1 /\ (Size(pending') = QueueCap + 1 => Unblocked')
    BY <1>3, <2>3, <2>4, <2>5
  <2> QED BY <2>1, <2>6 DEF QueueInv
<1>13. CASE Return
  <2>1. /\ at = "queue" /\ UNCHANGED vars
        /\ pending' = IF call = "flush" THEN <<>> ELSE pending
    BY <1>13 DEF Return, trunkVars
  <2>2. CASE call = "flush"
    BY <1>6, <2>1, <2>2
  <2>3. CASE call # "flush"
    BY <1>4, <1>5, <1>8, <2>1, <2>3
  <2> QED BY <2>2, <2>3
<1>14. CASE DrainDone
  BY <1>6, <1>14 DEF DrainDone
<1>15. CASE DrainPart
  <2>1. /\ at = "drain" /\ at' = "drain" /\ pending # <<>> /\ ~IsSegment(Head(pending))
        /\ pending' = Tail(pending)
    BY <1>15 DEF DrainPart, IsSegment
  <2> QED BY <1>7, <2>1 DEF Unblocked
<1>16. CASE DrainSegment \/ DrainRefused
  <2>1. /\ at = "drain" /\ at' = "drain" /\ pending # <<>> /\ IsSegment(Head(pending))
        /\ pending' = Tail(pending)
    BY <1>16 DEF DrainSegment, DrainRefused, HeadIsSegment, IsSegment
  <2> QED BY <1>7, <2>1
<1>17. CASE DrainStalled
  <2>1. /\ at = "drain" /\ ~Clear /\ UNCHANGED <<pending, vars>>
        /\ at' = IF GiveUp THEN "expire" ELSE "queue"
    BY <1>17 DEF DrainStalled, WouldStall, HeadIsSegment, trunkVars, Clear
  <2>2. N <= QueueCap
    BY <1>1, <1>3, <2>1 DEF QueueInv, Unblocked, N
  <2>3. at' # "expire" => N # QueueCap
    <3>1. ~GiveUp => ~(N >= QueueCap)
      BY DEF GiveUp, N, Size
    <3> QED BY <1>3, <2>1, <3>1
  <2>4. Size(pending') = N /\ ~(N = QueueCap + 1) /\ N <= QueueCap + 1
    BY <1>3, <2>1, <2>2 DEF N
  <2> QED BY <2>1, <2>2, <2>3, <2>4 DEF QueueInv
<1>18. CASE Expire
  <2>1. at = "expire" /\ UNCHANGED pending
    BY <1>18 DEF Expire
  <2>2. N <= QueueCap
    BY <1>8, <2>1
  <2>3. Size(pending') = N /\ ~(N = QueueCap + 1) /\ N <= QueueCap + 1
    BY <1>3, <2>1, <2>2 DEF N
  <2>4. CASE at' = "drain"
    BY <2>2, <2>3, <2>4 DEF QueueInv
  <2>5. CASE at' # "drain"
    <3>1. UNCHANGED vars /\ Clear
      BY <1>18, <2>5 DEF Expire, Clear
    <3>2. Unblocked'
      BY <1>1, <1>4, <2>1, <3>1 DEF Unblocked, ControlInv
    <3> QED BY <2>2, <2>3, <3>2 DEF QueueInv
  <2> QED BY <2>4, <2>5
<1>19. ASSUME UNCHANGED <<pending, at>>, Clear => Clear' PROVE QueueInv'
  <2>1. Unblocked => Unblocked'
    BY <1>19 DEF Unblocked
  <2>2. QueueInv
    BY <1>1
  <2> QED BY <1>19, <2>1, <2>2 DEF QueueInv
<1>20. CASE WaitElapses \/ UNCHANGED allVars
  <2>1. UNCHANGED <<pending, at, vars>>
    BY <1>20 DEF WaitElapses, allVars, trunkVars, queueVars
  <2> QED BY <1>4, <1>19, <2>1
<1>21. ASSUME NEW c \in Cursors, Reader(c) PROVE QueueInv'
  <2>1. UNCHANGED <<pending, at>> /\ CursorStep(c)
    BY <1>21 DEF Reader, queueVars
  <2> QED BY <1>1, <1>19, <2>1, CursorClear
<1> QED BY <1>9, <1>10, <1>11, <1>12, <1>13, <1>14, <1>15, <1>16, <1>17, <1>18, <1>20, <1>21
        DEF SegmenterNext, CallStep

-----------------------------------------------------------------------------
\* The stream.

\* Without a batch and with nothing ready, the queue ends at the open segment.
LEMMA ChainShort ==
    ASSUME NEW backlog, NEW from, NEW to, Chain(backlog, <<>>, NoneReady, from, to)
    PROVE  to \in Nat /\ Run(backlog, from, to)
<1>1. PICK a, b \in Nat : /\ Run(backlog, from, a) /\ Run(<<>>, a, b)
                          /\ ReadyRun(NoneReady, b, to)
  BY DEF Chain
<1>2. a = b /\ to = b
  BY <1>1, RunNone, ReadyNone
<1> QED BY <1>1, <1>2

\* What is ready becomes the batch.
LEMMA ChainBatch ==
    ASSUME NEW backlog, NEW r, r.parts \in Seq(Items), r.segments \in Seq(Items),
           NEW from, NEW to, Chain(backlog, <<>>, r, from, to)
    PROVE  Chain(backlog, InStreamOrder(r), NoneReady, from, to)
<1>1. PICK a, b \in Nat : Run(backlog, from, a) /\ Run(<<>>, a, b) /\ ReadyRun(r, b, to)
  BY DEF Chain
<1>2. a = b /\ to \in Nat
  BY <1>1, RunNone DEF ReadyRun
<1>3. Run(InStreamOrder(r), a, to)
  BY <1>1, <1>2, InStreamOrderRuns
<1>4. ReadyRun(NoneReady, to, to)
  BY <1>2, ReadyNone
<1> QED BY <1>1, <1>2, <1>3, <1>4 DEF Chain

\* An item moves from the batch to the backlog.
LEMMA ChainQueue ==
    ASSUME NEW backlog \in Seq(Items), NEW items \in Seq(Items), items # <<>>, NEW r, NEW from,
           NEW to, Chain(backlog, items, r, from, to)
    PROVE  Chain(Append(backlog, Head(items)), Tail(items), r, from, to)
<1> DEFINE x == Head(items)
<1>1. PICK a, b \in Nat : Run(backlog, from, a) /\ Run(items, a, b) /\ ReadyRun(r, b, to)
  BY DEF Chain
<1> DEFINE e == IF IsSegment(x) THEN a + 1 ELSE a
<1>2. x \in Items /\ x.n = a /\ Run(Tail(items), e, b)
  BY <1>1, RunTail, HeadTailProperties
<1> HIDE DEF x
<1>3. Run(Append(backlog, x), from, e) /\ e \in Nat
  BY <1>1, <1>2, RunAppend
<1> HIDE DEF e
<1> QED BY <1>1, <1>2, <1>3 DEF Chain, x

\* The front of the backlog goes.
LEMMA ChainDrain ==
    ASSUME NEW backlog \in Seq(Items), backlog # <<>>, NEW items, NEW r, NEW from,
           NEW to, Chain(backlog, items, r, from, to)
    PROVE  /\ Head(backlog).n = from
           /\ Chain(Tail(backlog), items, r,
                    IF IsSegment(Head(backlog)) THEN from + 1 ELSE from, to)
<1>1. PICK a, b \in Nat : Run(backlog, from, a) /\ Run(items, a, b) /\ ReadyRun(r, b, to)
  BY DEF Chain
<1>2. /\ Head(backlog).n = from
      /\ Run(Tail(backlog), IF IsSegment(Head(backlog)) THEN from + 1 ELSE from, a)
  BY <1>1, RunTail
<1> QED BY <1>1, <1>2 DEF Chain

\* The chain goes up.
LEMMA ChainUp ==
    ASSUME NEW backlog \in Seq(Items), NEW items \in Seq(Items), NEW r, r.segments \in Seq(Items),
           NEW from, NEW to, Chain(backlog, items, r, from, to)
    PROVE  from \in Nat /\ to \in Nat /\ from <= to
<1>1. PICK a, b \in Nat : Run(backlog, from, a) /\ Run(items, a, b) /\ ReadyRun(r, b, to)
  BY DEF Chain
<1>2. from \in Nat /\ from <= a /\ a <= b
  BY <1>1, RunNumbers
<1>3. to \in Nat /\ b <= to
  <2>1. Len(r.segments) \in Nat
    BY LenProperties
  <2> QED BY <1>1, <2>1 DEF ReadyRun
<1> QED BY <1>2, <1>3

\* The open segment's flush, as the next thing ready.
LEMMA FlushRuns ==
    ASSUME TypedInv, NEW final \in FinalParts, NEW b, ReadyRun(ready, b, Len(cut) + 1),
           seg.n = Len(cut) + 1
    PROVE  ReadyRun(Flushed(final), b, Cuts + 1)
<1> DEFINE L == Len(cut)
<1>1. L \in Nat /\ seg.part \in Nat
  <2>1. L \in Nat
    BY LenProperties DEF TypedInv
  <2> QED BY <2>1, CutAssumption DEF TypedInv
<1>2. CutItems(L) \subseteq Items /\ CutItems(L + 1) \subseteq Items
  BY DEF CutItems
<1>3. ready.parts \in Seq(Items) /\ ready.segments \in Seq(Items)
  BY <1>2, SeqMonotonic DEF TypedInv
<1>4. CASE seg.held
  <2>1. Cuts + 1 = (L + 1) + 1
    BY <1>4 DEF Cuts
  <2>2. /\ final \in Seq(Items)
        /\ \A i \in 1..Len(final) : ~IsSegment(final[i]) /\ final[i].n = L + 1
    BY <1>1, <1>2, FinalTyped, SeqMonotonic
  <2>3. Seg(seg.n) \in Items /\ IsSegment(Seg(seg.n)) /\ Seg(seg.n).n = L + 1
    BY <1>1 DEF Seg, Items, IsSegment
  <2>4. /\ Flushed(final).parts = ready.parts \o final
        /\ Flushed(final).segments = Append(ready.segments, Seg(seg.n))
    BY <1>4 DEF Flushed
  <2> HIDE DEF L
  <2>5. ReadyRun(Flushed(final), b, (L + 1) + 1)
    BY <1>3, <2>2, <2>3, <2>4, ReadyClosed DEF L
  <2> QED BY <2>1, <2>5
<1>5. CASE ~seg.held
  BY <1>5 DEF Flushed, Cuts
<1> QED BY <1>4, <1>5

\* FlushInto, in the stream.
LEMMA FlushStream ==
    ASSUME TypedInv, StreamInv, container = "Fmp4", batch = <<>>, ready = NoneReady,
           FlushInto(NextOwn), UNCHANGED <<hist, dropped>>, Backlog' = Backlog
    PROVE  StreamInv'
<1> DEFINE L == Len(cut)
           M == Cuts
<1>1. L \in Nat /\ cut \in Seq(Nat) /\ seg.n = L + 1 /\ \A k \in 1..L : cut[k] = k
  BY LenProperties DEF TypedInv, StreamInv
<1>2. /\ \A k \in 1..Len(hist) : hist[k] = k
      /\ dropped = <<>> /\ Chain(Backlog, <<>>, ready, Len(hist) + 1, L + 1)
  BY DEF StreamInv
<1>3. PICK final \in FinalParts : batch' = InStreamOrder(Flushed(final))
  BY DEF FlushInto
<1>4. PICK a, b \in Nat : /\ Run(Backlog, Len(hist) + 1, a) /\ Run(<<>>, a, b)
                          /\ ReadyRun(ready, b, L + 1)
  BY <1>2 DEF Chain
<1>5. ReadyRun(Flushed(final), b, M + 1)
  BY <1>1, <1>4, FlushRuns
<1>6. Chain(Backlog, <<>>, Flushed(final), Len(hist) + 1, M + 1)
  BY <1>4, <1>5 DEF Chain
<1>7. Flushed(final).parts \in Seq(Items) /\ Flushed(final).segments \in Seq(Items)
  <2>1. CutItems(M) \subseteq Items
    BY DEF CutItems
  <2> QED BY <2>1, FlushTyped, SeqMonotonic
<1>8. Chain(Backlog, batch', NoneReady, Len(hist) + 1, M + 1)
  BY <1>3, <1>6, <1>7, ChainBatch
<1>9. Len(cut') = M /\ \A k \in 1..M : cut'[k] = k
  <2>1. CASE seg.held
    <3>1. cut' = Append(cut, L + 1) /\ M = L + 1 /\ L + 1 \in Nat
      BY <1>1, <2>1 DEF FlushInto, Cuts
    <3>2. Len(cut') = L + 1 /\ cut'[L + 1] = L + 1 /\ \A k \in 1..L : cut'[k] = cut[k]
      BY <1>1, <3>1, AppendProperties
    <3> HIDE DEF M
    <3>3. \A k \in 1..(L + 1) : k = L + 1 \/ k \in 1..L
      BY <1>1
    <3> QED BY <1>1, <3>1, <3>2, <3>3
  <2>2. CASE ~seg.held
    BY <1>1, <2>2 DEF FlushInto, Cuts
  <2> QED BY <2>1, <2>2
<1>10. seg'.n = M + 1 /\ ready' = NoneReady /\ container' = container
  BY <1>1 DEF FlushInto, FreshSegmenter, NextOwn, Cuts
<1> HIDE DEF M
<1> QED BY <1>2, <1>8, <1>9, <1>10 DEF StreamInv

\* The stream, through every step.
LEMMA StreamKept ==
    ASSUME SegInv, [SegmenterNext]_allVars
    PROVE  StreamInv'
<1> DEFINE H == Len(hist)
           L == Len(cut)
<1>1. SafeInv /\ TrunkInv /\ TypedInv /\ ControlInv /\ StreamInv
  BY DEF SegInv, TrunkInv
<1>2. container' = container
  BY DEF SegmenterNext, CallStep, Start, PushSample, CutPart, CutSegment, Pump, PublishReady,
         TrackChange, EndOfStream, FlushInto, QueueItem, Return, DrainDone, DrainPart, DrainSegment,
         DrainRefused, DrainStalled, Expire, WaitElapses, Reader, allVars, segVars
<1> SUFFICES ASSUME container = "Fmp4" PROVE StreamInv'
  BY <1>2 DEF StreamInv
<1>3. /\ \A k \in 1..H : hist[k] = k
      /\ \A k \in 1..L : cut[k] = k
      /\ seg.n = L + 1 /\ dropped = <<>>
      /\ Chain(Backlog, batch, ready, H + 1, L + 1)
  BY <1>1 DEF StreamInv
<1>4. H \in Nat /\ L \in Nat /\ hist \in Seq(Nat) /\ cut \in Seq(Nat) /\ seg.part \in Nat
  <2>1. hist \in Seq(Nat) /\ cut \in Seq(Nat)
    BY <1>1 DEF SafeInv, TypeOK, TypedInv
  <2>2. seg.part \in Nat
    BY <1>1, CutAssumption DEF TypedInv
  <2> QED BY <2>1, <2>2, LenProperties
<1>5. /\ pending \in Seq(Items) /\ batch \in Seq(Items) /\ Backlog \in Seq(Items)
      /\ ready.parts \in Seq(Items) /\ ready.segments \in Seq(Items)
  <2>1. CutItems(L) \subseteq Items
    BY DEF CutItems
  <2>2. /\ pending \in Seq(Items) /\ batch \in Seq(Items) /\ lost \in Seq(Items)
        /\ ready.parts \in Seq(Items) /\ ready.segments \in Seq(Items)
    BY <1>1, <2>1, SeqMonotonic DEF TypedInv
  <2> QED BY <2>2 DEF Backlog
<1>6. ASSUME UNCHANGED <<hist, cut, dropped, batch, ready>>, seg'.n = seg.n, Backlog' = Backlog
      PROVE  StreamInv'
  BY <1>2, <1>3, <1>6 DEF StreamInv
<1>7. CASE Start
  <2>1. /\ at = "new" /\ at' = "idle" /\ seg' = FreshSegmenter(next_sequence_number)
        /\ UNCHANGED <<hist, cut, dropped, batch, ready, pending>>
    BY <1>7 DEF Start, TakeWriter, logVars
  <2>2. cut = <<>>
    BY <1>1, <2>1 DEF TypedInv
  <2>3. L = 0
    BY <2>2, EmptySeq
  <2>4. H + 1 <= L + 1
    BY <1>3, <1>5, ChainUp
  <2>5. H = 0
    BY <1>4, <2>3, <2>4
  <2>6. entries = <<>>
    <3>1. Len(entries) = 0 /\ entries \in Seq(Nat)
      BY <1>1, <2>5, LenProperties DEF SafeInv, TypeOK, RingIsSuffix
    <3> QED BY <3>1, EmptySeq
  <2>7. seg'.n = seg.n
    BY <1>3, <2>1, <2>3, <2>6 DEF next_sequence_number, FreshSegmenter
  <2> QED BY <1>6, <2>1, <2>7 DEF Backlog
<1>8. CASE PushSample
  <2>1. /\ UNCHANGED <<hist, cut, dropped, batch, ready, pending, lost, at>>
        /\ seg' = [seg EXCEPT !.held = TRUE, !.tail = TRUE]
    BY <1>8 DEF PushSample, trunkVars, vars, queueVars
  <2>2. seg'.n = seg.n
    BY <1>1, <2>1 DEF TypedInv
  <2> QED BY <1>6, <2>1, <2>2 DEF Backlog
<1>9. CASE CutPart
  <2> DEFINE x == Part(seg.n, seg.part)
  <2>1. /\ UNCHANGED <<hist, cut, dropped, batch, pending, lost, at>>
        /\ \E rest \in BOOLEAN : seg' = [seg EXCEPT !.part = @ + 1, !.tail = rest]
        /\ ready' = [ready EXCEPT !.parts = Append(@, x)]
    BY <1>9 DEF CutPart, trunkVars, vars, queueVars
  <2>2. seg'.n = seg.n /\ Backlog' = Backlog
    BY <1>1, <2>1 DEF TypedInv, Backlog
  <2>3. x \in Items /\ ~IsSegment(x) /\ x.n = L + 1
    BY <1>3, <1>4 DEF Part, Items, IsSegment
  <2> HIDE DEF x
  <2>4. ready'.segments = ready.segments /\ ready'.parts = Append(ready.parts, x)
    BY <1>1, <2>1 DEF TypedInv
  <2>5. PICK a, b \in Nat : Run(Backlog, H + 1, a) /\ Run(batch, a, b) /\ ReadyRun(ready, b, L + 1)
    BY <1>3 DEF Chain
  <2>6. Len(ready.segments) \in Nat
    BY <1>5, LenProperties
  <2>7. ReadyRun(ready', b, L + 1)
    BY <1>5, <2>3, <2>4, <2>5, <2>6, ReadyPart
  <2>8. Chain(Backlog, batch, ready', H + 1, L + 1)
    BY <2>5, <2>7 DEF Chain
  <2> QED BY <1>2, <1>3, <2>1, <2>2, <2>8 DEF StreamInv
<1>10. CASE CutSegment
  <2>1. /\ UNCHANGED <<hist, dropped, batch, pending, lost, at>>
        /\ seg.held /\ seg' = FreshSegmenter(seg.n + 1) /\ cut' = Append(cut, seg.n)
    BY <1>10 DEF CutSegment, trunkVars, vars, queueVars
  <2>2. PICK final \in FinalParts : ready' = Flushed(final)
    BY <1>10 DEF CutSegment
  <2>3. Cuts = L + 1
    BY <2>1 DEF Cuts
  <2>4. PICK a, b \in Nat : Run(Backlog, H + 1, a) /\ Run(batch, a, b) /\ ReadyRun(ready, b, L + 1)
    BY <1>3 DEF Chain
  <2>5. ReadyRun(ready', b, (L + 1) + 1)
    BY <1>1, <1>3, <2>2, <2>3, <2>4, FlushRuns
  <2>6. Chain(Backlog, batch, ready', H + 1, (L + 1) + 1)
    BY <2>4, <2>5 DEF Chain
  <2>7. seg'.n = (L + 1) + 1 /\ cut' = Append(cut, L + 1) /\ L + 1 \in Nat /\ Backlog' = Backlog
    BY <1>3, <1>4, <2>1 DEF FreshSegmenter, Backlog
  <2>8. Len(cut') = L + 1 /\ cut'[L + 1] = L + 1 /\ \A k \in 1..L : cut'[k] = cut[k]
    BY <1>4, <2>7, AppendProperties
  <2>9. \A k \in 1..(L + 1) : cut'[k] = k
    <3>1. \A k \in 1..(L + 1) : k = L + 1 \/ k \in 1..L
      BY <1>4
    <3> QED BY <1>3, <2>8, <3>1
  <2> HIDE DEF L
  <2> QED BY <1>2, <1>3, <2>1, <2>6, <2>7, <2>8, <2>9 DEF StreamInv
<1>11. CASE Pump \/ DrainDone \/ DrainStalled \/ WaitElapses \/ UNCHANGED allVars
  <2>1. /\ UNCHANGED <<hist, cut, seg, dropped, batch, ready, pending, lost>>
        /\ at' = "ended" <=> at = "ended"
    BY <1>11 DEF Pump, DrainDone, DrainStalled, WouldStall, HeadIsSegment, WaitElapses, allVars,
                 trunkVars, vars, segVars, queueVars
  <2> QED BY <1>6, <2>1 DEF Backlog
<1>12. CASE PublishReady
  <2>1. /\ UNCHANGED <<hist, cut, seg, dropped, pending>> /\ at = "ingest" /\ at' = "drain"
        /\ batch' = InStreamOrder(ready) /\ ready' = NoneReady
    BY <1>12 DEF PublishReady, trunkVars, vars
  <2>2. batch = <<>> /\ Backlog' = Backlog
    BY <1>1, <2>1 DEF ControlInv, Backlog
  <2>3. Chain(Backlog, InStreamOrder(ready), NoneReady, H + 1, L + 1)
    BY <1>3, <1>5, <2>2, ChainBatch
  <2> QED BY <1>2, <1>3, <2>1, <2>2, <2>3 DEF StreamInv
<1>13. CASE TrackChange \/ EndOfStream
  <2>1. /\ UNCHANGED <<hist, dropped, pending, lost>> /\ at = "idle" /\ at' # "ended"
        /\ FlushInto(NextOwn)
    BY <1>13 DEF TrackChange, EndOfStream, ResumeFrom, trunkVars, vars
  <2>2. batch = <<>> /\ ready = NoneReady /\ Backlog' = Backlog
    BY <1>1, <2>1 DEF ControlInv, Backlog
  <2> QED BY <1>1, <2>1, <2>2, FlushStream
<1>14. CASE QueueItem
  <2>1. /\ UNCHANGED <<hist, cut, seg, dropped, ready>> /\ at = "queue" /\ at' = "drain"
        /\ batch # <<>> /\ pending' = Append(pending, Head(batch)) /\ batch' = Tail(batch)
    BY <1>14 DEF QueueItem, trunkVars, vars, segVars
  <2>2. Backlog = pending /\ Backlog' = pending'
    BY <2>1 DEF Backlog
  <2>3. Chain(Append(pending, Head(batch)), Tail(batch), ready, H + 1, L + 1)
    BY <1>3, <1>5, <2>1, <2>2, ChainQueue
  <2> QED BY <1>2, <1>3, <2>1, <2>2, <2>3 DEF StreamInv
<1>15. CASE Return
  <2>1. /\ UNCHANGED <<hist, cut, seg, dropped, ready, batch>> /\ at = "queue"
        /\ lost' = IF call = "flush" THEN pending ELSE lost
        /\ pending' = IF call = "flush" THEN <<>> ELSE pending
    BY <1>15 DEF Return, trunkVars, vars, segVars
  <2>2. call \in {"change", "publish", "flush"}
    BY <1>1, <2>1 DEF ControlInv
  <2>3. at' = "ended" <=> call = "flush"
    BY <1>15, <2>2 DEF Return
  <2>4. Backlog' = Backlog
    BY <2>1, <2>3 DEF Backlog
  <2> QED BY <1>6, <2>1, <2>4
<1>16. CASE DrainPart
  <2>1. /\ UNCHANGED <<hist, cut, seg, dropped, ready, batch>> /\ at = "drain" /\ at' = "drain"
        /\ pending # <<>> /\ ~IsSegment(Head(pending)) /\ pending' = Tail(pending)
    BY <1>16 DEF DrainPart, vars, segVars, IsSegment
  <2>2. Backlog = pending /\ Backlog' = pending'
    BY <2>1 DEF Backlog
  <2>3. Chain(Tail(pending), batch, ready, H + 1, L + 1)
    BY <1>3, <1>5, <2>1, <2>2, ChainDrain
  <2> QED BY <1>2, <1>3, <2>1, <2>2, <2>3 DEF StreamInv
<1>17. CASE DrainSegment
  <2>1. /\ UNCHANGED <<cut, seg, dropped, ready, batch>> /\ at = "drain" /\ at' = "drain"
        /\ pending # <<>> /\ IsSegment(Head(pending)) /\ pending' = Tail(pending)
        /\ hist' = Append(hist, Head(pending).n)
    BY <1>17 DEF DrainSegment, HeadIsSegment, TryPublishSegment, Push, segVars, IsSegment
  <2>2. Backlog = pending /\ Backlog' = pending'
    BY <2>1 DEF Backlog
  <2>3. Head(pending).n = H + 1 /\ Chain(Tail(pending), batch, ready, (H + 1) + 1, L + 1)
    BY <1>3, <1>5, <2>1, <2>2, ChainDrain
  <2>4. Len(hist') = H + 1 /\ hist'[H + 1] = H + 1 /\ \A k \in 1..H : hist'[k] = hist[k]
    BY <1>4, <2>1, <2>3, AppendProperties
  <2>5. \A k \in 1..(H + 1) : hist'[k] = k
    <3>1. \A k \in 1..(H + 1) : k = H + 1 \/ k \in 1..H
      BY <1>4
    <3> QED BY <1>3, <2>4, <3>1
  <2> HIDE DEF H
  <2> QED BY <1>2, <1>3, <2>1, <2>2, <2>3, <2>4, <2>5 DEF StreamInv
<1>18. CASE DrainRefused
  <2>1. at = "drain" /\ pending # <<>> /\ ~Monotonic(Head(pending).n)
    BY <1>18 DEF DrainRefused, HeadIsSegment
  <2>2. Head(pending).n = H + 1
    BY <1>3, <1>5, <2>1, ChainDrain DEF Backlog
  <2>3. entries # <<>> /\ ~(Head(pending).n > entries[Len(entries)])
    BY <2>1 DEF Monotonic
  <2>4. entries[Len(entries)] = H
    <3> DEFINE m == Len(entries)
    <3>1. m \in Nat \ {0} /\ base \in Nat /\ base + m = H /\ \A i \in 1..m : entries[i] = hist[base + i]
      BY <1>1, <2>3, EmptySeq DEF SafeInv, TypeOK, RingIsSuffix
    <3> HIDE DEF m, H
    <3>2. m \in 1..m /\ H \in 1..H
      BY <1>4, <3>1
    <3>3. entries[m] = hist[H]
      BY <3>1, <3>2
    <3> QED BY <1>3, <3>2, <3>3 DEF m
  <2> QED BY <1>4, <2>2, <2>3, <2>4
<1>19. CASE Expire
  <2>1. /\ UNCHANGED <<hist, cut, seg, dropped, batch, ready, pending, lost>>
        /\ at # "ended" /\ at' # "ended"
    BY <1>19 DEF Expire, ExpireStalledPins, vars, segVars
  <2> QED BY <1>6, <2>1 DEF Backlog
<1>20. ASSUME NEW c \in Cursors, Reader(c) PROVE StreamInv'
  <2>1. UNCHANGED <<cut, seg, dropped, batch, ready, pending, lost, at>> /\ CursorStep(c)
    BY <1>20 DEF Reader, segVars, queueVars
  <2>2. hist' = hist
    BY <2>1, CursorFrame
  <2> QED BY <1>6, <2>1, <2>2 DEF Backlog
<1> QED BY <1>7, <1>8, <1>9, <1>10, <1>11, <1>12, <1>13, <1>14, <1>15, <1>16, <1>17, <1>18, <1>19,
           <1>20
        DEF SegmenterNext, CallStep

-----------------------------------------------------------------------------
\* The live edge.

\* A part of the open segment is pushed.
LEMMA EdgePushed ==
    ASSUME NEW capacity \in Nat \ {0}, NEW log, IndexRight(log, Items, capacity),
           NEW open \in Nat, EdgeRight(log.ring.entries, open), NEW x \in Items, x.n = open
    PROVE  EdgeRight(push(log, capacity, x).ring.entries, open)
<1> DEFINE ring == log.ring
           new == push(log, capacity, x).ring
           d == IF Len(ring.entries) = capacity THEN 1 ELSE 0
           m == Len(ring.entries) - d
           s == ring.entries
           t == new.entries
<1>1. ring \in PartRings(Items) /\ RingOK(ring, capacity)
  BY DEF IndexRight
<1>2. new = RingPush(ring, capacity, x)
  BY DEF push
<1>3. Pushed(ring, new, capacity, x, Items, d)
  BY <1>1, <1>2, RingPushed
<1> HIDE DEF new, d
<1>4. /\ m \in Nat /\ Len(t) = m + 1 /\ t[m + 1] = x
      /\ \A k \in 1..m : t[k] = s[k + d] /\ k + d \in 1..Len(s)
  BY <1>3 DEF Pushed
<1> HIDE DEF m, s, t
<1>5. ASSUME NEW k \in 1..(m + 1) PROVE t[k].n <= open
  <2>1. CASE k = m + 1
    BY <1>4, <2>1
  <2>2. CASE k # m + 1
    <3>1. k \in 1..m
      BY <1>4, <2>2
    <3> QED BY <1>4, <3>1 DEF EdgeRight, s
  <2> QED BY <2>1, <2>2
<1>6. EdgeRight(t, open)
  BY <1>4, <1>5 DEF EdgeRight
<1> QED BY <1>6 DEF t, new

\* The part log, through every step.
LEMMA EdgeKept ==
    ASSUME SegInv, [SegmenterNext]_allVars
    PROVE  EdgeInv'
<1> DEFINE H == Len(hist)
           list == parts.ring.entries
<1>1. SafeInv /\ TypedInv /\ ControlInv /\ StreamInv /\ EdgeInv
  BY DEF SegInv, TrunkInv
<1>2. hist \in Seq(Nat) /\ H \in Nat
  BY <1>1, LenProperties DEF SafeInv, TypeOK
<1>3. pending \in Seq(Items)
  <2>1. CutItems(Len(cut)) \subseteq Items
    BY DEF CutItems
  <2> QED BY <1>1, <2>1, SeqMonotonic DEF TypedInv
<1>4. CASE DrainPart
  <2> DEFINE x == Head(pending)
  <2>1. /\ at = "drain" /\ pending # <<>> /\ parts' = push(parts, PartCapacity, x)
        /\ UNCHANGED <<hist, container>>
    BY <1>4 DEF DrainPart, vars, segVars
  <2>2. x \in Items
    BY <1>3, <2>1, HeadTailProperties
  <2>3. container = "Fmp4" => x.n = H + 1
    BY <1>1, <1>3, <2>1, ChainDrain DEF StreamInv, Backlog
  <2> HIDE DEF x, H
  <2>4. IndexRight(parts', Items, PartCapacity)
    BY <1>1, <2>1, <2>2, PushIndexRight, QueueAssumption DEF EdgeInv
  <2>5. ASSUME container = "Fmp4" PROVE EdgeRight(parts'.ring.entries, H + 1)
    <3>1. H + 1 \in Nat /\ x.n = H + 1 /\ EdgeRight(parts.ring.entries, H + 1)
      BY <1>1, <1>2, <2>3, <2>5 DEF EdgeInv, H
    <3> QED BY <1>1, <2>1, <2>2, <3>1, EdgePushed, QueueAssumption DEF EdgeInv
  <2> QED BY <2>1, <2>4, <2>5 DEF EdgeInv, H
<1>5. CASE DrainSegment
  <2>1. /\ pending # <<>> /\ hist' = Append(hist, Head(pending).n) /\ UNCHANGED <<parts, container>>
    BY <1>5 DEF DrainSegment, HeadIsSegment, TryPublishSegment, Push, segVars
  <2>2. Head(pending) \in Items
    BY <1>3, <2>1, HeadTailProperties
  <2>3. Len(hist') = H + 1
    BY <1>2, <2>1, <2>2, AppendProperties DEF Items
  <2>4. ASSUME EdgeRight(list, H + 1) PROVE EdgeRight(list, (H + 1) + 1)
    <3>1. list \in Seq(Items)
      BY <1>1 DEF EdgeInv, IndexRight, PartRings
    <3>2. \A k \in 1..Len(list) : list[k].n \in Nat
      <4>1. \A k \in 1..Len(list) : list[k] \in Items
        BY <3>1, ElementOfSeq
      <4> QED BY <4>1 DEF Items
    <3> HIDE DEF list, H
    <3> QED BY <1>2, <2>4, <3>2 DEF EdgeRight
  <2> HIDE DEF H
  <2> QED BY <1>1, <2>1, <2>3, <2>4 DEF EdgeInv, H
<1>6. ASSUME UNCHANGED <<hist, parts, container>> PROVE EdgeInv'
  BY <1>1, <1>6 DEF EdgeInv
<1>7. CASE \/ Start \/ PushSample \/ CutPart \/ CutSegment \/ Pump \/ PublishReady \/ TrackChange
           \/ EndOfStream \/ QueueItem \/ Return \/ DrainDone \/ DrainRefused \/ DrainStalled
           \/ Expire \/ WaitElapses \/ UNCHANGED allVars
  <2>1. UNCHANGED <<hist, parts, container>>
    BY <1>7 DEF Start, TakeWriter, PushSample, CutPart, CutSegment, Pump, PublishReady, TrackChange,
                EndOfStream, FlushInto, QueueItem, Return, DrainDone, DrainRefused, DrainStalled,
                Expire, ExpireStalledPins, WaitElapses, allVars, trunkVars, vars, segVars
  <2> QED BY <1>6, <2>1
<1>8. ASSUME NEW c \in Cursors, Reader(c) PROVE EdgeInv'
  <2>1. UNCHANGED <<parts, container, hist>>
    BY <1>8, CursorFrame DEF Reader, segVars
  <2> QED BY <1>6, <2>1
<1> QED BY <1>4, <1>5, <1>7, <1>8 DEF SegmenterNext, CallStep

\* MPEG-TS has no parts, through every step.
LEMMA TsKept ==
    ASSUME SegInv, [SegmenterNext]_allVars
    PROVE  TsInv'
<1>1. TypedInv /\ ControlInv /\ TsInv
  BY DEF SegInv
<1>2. container' = container
  BY DEF SegmenterNext, CallStep, Start, PushSample, CutPart, CutSegment, Pump, PublishReady,
         TrackChange, EndOfStream, FlushInto, QueueItem, Return, DrainDone, DrainPart, DrainSegment,
         DrainRefused, DrainStalled, Expire, WaitElapses, Reader, allVars, segVars
<1> SUFFICES ASSUME container = "MpegTs" PROVE TsInv'
  BY <1>2 DEF TsInv
<1>3. /\ parts.ring.entries = <<>> /\ ready.parts = <<>>
      /\ ready.segments \in Seq(Segments) /\ pending \in Seq(Segments) /\ batch \in Seq(Segments)
  BY <1>1 DEF TsInv
<1>4. \A s \in Seq(Segments) : s # <<>> => Head(s) \in Segments /\ Tail(s) \in Seq(Segments)
  BY HeadTailProperties
<1>5. <<>> \in Seq(Segments)
  BY EmptySeq
<1>6. ASSUME NEW final \in FinalParts
      PROVE  Flushed(final).parts = <<>> /\ Flushed(final).segments \in Seq(Segments)
  <2>1. final = <<>>
    BY DEF FinalParts
  <2>2. CASE seg.held
    <3>1. seg.n \in Nat
      <4>1. Len(cut) \in Nat
        BY <1>1, LenProperties DEF TypedInv
      <4> QED BY <1>1, <4>1 DEF TypedInv
    <3>2. Seg(seg.n) \in Segments
      BY <3>1 DEF Seg, Segments, Items, IsSegment
    <3>3. Append(ready.segments, Seg(seg.n)) \in Seq(Segments)
      BY <1>3, <3>2, AppendProperties
    <3>4. ready.parts \o final = <<>>
      BY <1>3, <1>5, <2>1, ConcatEmptySeq
    <3> QED BY <2>2, <3>3, <3>4 DEF Flushed
  <2>3. CASE ~seg.held
    BY <1>3, <2>3 DEF Flushed
  <2> QED BY <2>2, <2>3
<1>7. CASE \/ Start \/ PushSample \/ Pump \/ DrainDone \/ DrainStalled \/ Expire
           \/ WaitElapses \/ UNCHANGED allVars \/ \E c \in Cursors : Reader(c)
  <2>1. UNCHANGED <<parts, ready, pending, batch>>
    BY <1>7 DEF Start, PushSample, Pump, DrainDone, DrainStalled, Expire, WaitElapses, Reader,
                allVars, trunkVars, segVars, queueVars
  <2> QED BY <1>3, <2>1 DEF TsInv
<1>8. CASE CutPart
  BY <1>8 DEF CutPart
<1>9. CASE CutSegment
  <2>1. UNCHANGED <<parts, pending, batch>> /\ \E final \in FinalParts : ready' = Flushed(final)
    BY <1>9 DEF CutSegment, trunkVars, queueVars
  <2> QED BY <1>3, <1>6, <2>1 DEF TsInv
<1>10. CASE PublishReady
  <2>1. /\ UNCHANGED <<parts, pending>> /\ batch' = InStreamOrder(ready) /\ ready' = NoneReady
    BY <1>10 DEF PublishReady, trunkVars
  <2>2. batch' \in Seq(Segments)
    BY <1>3, <1>5, <2>1, InStreamOrderTyped
  <2>3. ready'.parts = <<>> /\ ready'.segments = <<>>
    BY <2>1 DEF NoneReady
  <2> QED BY <1>3, <1>5, <2>1, <2>2, <2>3 DEF TsInv
<1>11. CASE TrackChange \/ EndOfStream
  <2>1. /\ UNCHANGED <<parts, pending>> /\ ready' = NoneReady
        /\ \E final \in FinalParts : batch' = InStreamOrder(Flushed(final))
    BY <1>11 DEF TrackChange, EndOfStream, FlushInto, trunkVars
  <2>2. PICK final \in FinalParts : batch' = InStreamOrder(Flushed(final))
    BY <2>1
  <2>3. batch' \in Seq(Segments)
    BY <1>5, <1>6, <2>2, InStreamOrderTyped
  <2>4. ready'.parts = <<>> /\ ready'.segments = <<>>
    BY <2>1 DEF NoneReady
  <2> QED BY <1>3, <1>5, <2>1, <2>3, <2>4 DEF TsInv
<1>12. CASE QueueItem
  <2>1. /\ UNCHANGED <<parts, ready>> /\ batch # <<>>
        /\ pending' = Append(pending, Head(batch)) /\ batch' = Tail(batch)
    BY <1>12 DEF QueueItem, trunkVars, segVars
  <2>2. pending' \in Seq(Segments) /\ batch' \in Seq(Segments)
    BY <1>3, <1>4, <2>1, AppendProperties
  <2> QED BY <1>3, <2>1, <2>2 DEF TsInv
<1>13. CASE Return
  <2>1. /\ UNCHANGED <<parts, ready, batch>> /\ pending' \in {<<>>, pending}
    BY <1>13 DEF Return, trunkVars, segVars
  <2> QED BY <1>3, <1>5, <2>1 DEF TsInv
<1>14. CASE DrainPart
  BY <1>3, <1>4, <1>14 DEF DrainPart, Segments, IsSegment
<1>15. CASE DrainSegment \/ DrainRefused
  <2>1. UNCHANGED <<parts, ready, batch>> /\ pending # <<>> /\ pending' = Tail(pending)
    BY <1>15 DEF DrainSegment, DrainRefused, HeadIsSegment, trunkVars, segVars
  <2> QED BY <1>3, <1>4, <2>1 DEF TsInv
<1> QED BY <1>7, <1>8, <1>9, <1>10, <1>11, <1>12, <1>13, <1>14, <1>15 DEF SegmenterNext, CallStep

-----------------------------------------------------------------------------
\* The theorems.

\* A fresh segmenter over a fresh trunk.
LEMMA SegmenterInitial == SegmenterInit => SegInv
<1> SUFFICES ASSUME SegmenterInit PROVE SegInv
  OBVIOUS
<1>1. /\ Init /\ container \in Containers /\ parts = EmptyPartLog /\ seg = FreshSegmenter(1)
      /\ ready = NoneReady /\ pending = <<>> /\ since = "none" /\ batch = <<>> /\ call = "none"
      /\ at = "new" /\ cut = <<>> /\ dropped = <<>> /\ lost = <<>>
  BY DEF SegmenterInit
<1>2. entries = <<>> /\ hist = <<>>
  BY <1>1 DEF Init
<1>3. \A X : <<>> \in Seq(X)
  BY EmptySeq
<1>4. Len(cut) = 0 /\ Len(hist) = 0
  BY <1>1, <1>2, EmptySeq
<1>5. TrunkInv
  BY <1>1, <1>2, InitSafe DEF TrunkInv
<1>6. TypedInv
  <2>1. seg \in [n : 1..(Len(cut) + 1), part : 0..MaxParts, held : BOOLEAN, tail : BOOLEAN]
        /\ ~seg.held
    BY <1>1, <1>4, CutAssumption DEF FreshSegmenter
  <2>2. container \in {"Fmp4", "MpegTs"}
    BY <1>1, ContainersAssumption
  <2>3. Len(cut) <= MaxCut /\ cut \in Seq(Nat)
    BY <1>1, <1>3, <1>4, CutAssumption
  <2> HIDE DEF CutItems
  <2>4. ready \in [parts : Seq(CutItems(Len(cut))), segments : Seq(CutItems(Len(cut)))]
    BY <1>1, <1>3 DEF NoneReady
  <2> QED BY <1>1, <1>2, <1>3, <2>1, <2>2, <2>3, <2>4 DEF TypedInv
<1>7. ControlInv
  BY <1>1 DEF ControlInv, Places
<1>8. QueueInv
  <2>1. Size(pending) = 0
    BY <1>1, SizeNone
  <2> QED BY <1>1, <2>1, QueueAssumption DEF QueueInv
<1>9. StreamInv
  <2>1. Backlog = <<>> /\ seg.n = 1
    BY <1>1 DEF Backlog, FreshSegmenter
  <2>2. Chain(<<>>, <<>>, NoneReady, 1, 1)
    BY RunNone, ReadyNone DEF Chain
  <2> QED BY <1>1, <1>4, <2>1, <2>2 DEF StreamInv
<1>10. parts.ring.entries = <<>>
  BY <1>1 DEF EmptyPartLog, EmptyRing
<1>11. EdgeInv
  <2>1. IndexRight(parts, Items, PartCapacity)
    BY <1>1, EmptyIndexRight, QueueAssumption
  <2>2. Len(parts.ring.entries) = 0
    BY <1>10, EmptySeq
  <2> QED BY <2>1, <2>2 DEF EdgeInv, EdgeRight
<1>12. TsInv
  BY <1>1, <1>3, <1>10 DEF TsInv, NoneReady
<1> QED BY <1>5, <1>6, <1>7, <1>8, <1>9, <1>11, <1>12 DEF SegInv

\* The invariant holds in every reachable state.
THEOREM SegmenterSafe == SegmenterSpec => []SegInv
<1>1. SegInv /\ [SegmenterNext]_allVars => SegInv'
  BY TrunkKept, TypedKept, ControlKept, QueueKept, StreamKept, EdgeKept, TsKept DEF SegInv
<1> QED BY <1>1, SegmenterInitial, PTL DEF SegmenterSpec

\* Nothing is lost, repeated or reordered between the segmenter's cut and the
\* trunk, however recorders stall the queue and tracks change: every segment
\* ever cut is in the trunk, in the backlog, in the batch or ready, in order.
THEOREM StreamPreservedHolds == SegmenterSpec => []StreamPreserved
<1>1. SegInv => StreamPreserved
  <2> SUFFICES ASSUME SegInv, container = "Fmp4"
               PROVE  /\ dropped = <<>>
                      /\ cut = hist \o Numbers(Backlog) \o Numbers(batch) \o Numbers(ready.segments)
    BY DEF StreamPreserved, Backlog
  <2> DEFINE H == Len(hist)
             L == Len(cut)
  <2>1. /\ \A k \in 1..H : hist[k] = k
        /\ \A k \in 1..L : cut[k] = k
        /\ dropped = <<>> /\ Chain(Backlog, batch, ready, H + 1, L + 1)
    BY DEF SegInv, StreamInv
  <2>2. hist \in Seq(Nat) /\ cut \in Seq(Nat) /\ H \in Nat /\ L \in Nat
    BY LenProperties DEF SegInv, TrunkInv, SafeInv, TypeOK, TypedInv
  <2>3. Backlog \in Seq(Items) /\ batch \in Seq(Items) /\ ready.segments \in Seq(Items)
    <3>1. CutItems(L) \subseteq Items
      BY DEF CutItems
    <3>2. /\ pending \in Seq(Items) /\ batch \in Seq(Items) /\ lost \in Seq(Items)
          /\ ready.segments \in Seq(Items)
      BY <3>1, SeqMonotonic DEF SegInv, TypedInv
    <3> QED BY <3>2 DEF Backlog
  <2>4. PICK a, b \in Nat : Run(Backlog, H + 1, a) /\ Run(batch, a, b) /\ ReadyRun(ready, b, L + 1)
    BY <2>1 DEF Chain
  <2> HIDE DEF H, L
  <2>5. Numbers(Backlog) = Count(H + 1, a) /\ H + 1 <= a
    BY <2>3, <2>4, RunNumbers
  <2>6. Numbers(batch) = Count(a, b) /\ a <= b
    BY <2>3, <2>4, RunNumbers
  <2>7. Numbers(ready.segments) = Count(b, L + 1) /\ b <= L + 1
    <3>1. Run(ready.segments, b, L + 1)
      BY <2>3, <2>4, RunSegments DEF ReadyRun
    <3> QED BY <2>3, <3>1, RunNumbers
  <2>8. hist = Count(1, H + 1) /\ cut = Count(1, L + 1)
    BY <2>1, <2>2, CountsUp DEF H, L
  <2>9. H + 1 \in Nat /\ L + 1 \in Nat /\ 1 <= H + 1 /\ 1 <= a /\ 1 <= b
    BY <2>2, <2>5, <2>6
  <2> DEFINE h == H + 1
             l == L + 1
  <2> HIDE DEF h, l
  <2>10. hist \o Numbers(Backlog) = Count(1, a)
    <3>1. Count(1, h) \o Count(h, a) = Count(1, a)
      BY <2>5, <2>9, CountConcat DEF h
    <3> QED BY <2>5, <2>8, <3>1 DEF h
  <2>11. Count(1, a) \o Numbers(batch) = Count(1, b)
    <3>1. Count(1, a) \o Count(a, b) = Count(1, b)
      BY <2>6, <2>9, CountConcat
    <3> QED BY <2>6, <3>1
  <2>12. Count(1, b) \o Numbers(ready.segments) = Count(1, L + 1)
    <3>1. Count(1, b) \o Count(b, l) = Count(1, l)
      BY <2>7, <2>9, CountConcat DEF l
    <3> QED BY <2>7, <3>1 DEF l
  <2> QED BY <2>1, <2>8, <2>10, <2>11, <2>12
<1> QED BY <1>1, SegmenterSafe, PTL

\* The live edge an origin reads off the trunk is the segment of the newest
\* part, with exactly its resident parts, or the last closed segment.
THEOREM LiveEdgeExactHolds == SegmenterSpec => []LiveEdgeExact
<1>1. SegInv => LiveEdgeExact
  <2> SUFFICES ASSUME SegInv PROVE LiveEdgeExact
    OBVIOUS
  <2> DEFINE ring == parts.ring.entries
             newest == IF ring = <<>> THEN 0 ELSE ring[Len(ring)].n
             closed == last_closed_segment
             next == closed + 1
  <2>1. IndexRight(parts, Items, PartCapacity)
    BY DEF SegInv, EdgeInv
  <2>2. ring \in Seq(Items) /\ Len(ring) \in Nat
    BY <2>1, LenProperties DEF IndexRight, PartRings
  <2>3. in_segment(parts, next) = PartsOf(ring, next)
    BY <2>1, LookupIsScan
  <2>4. closed \in Nat
    <3>1. entries \in Seq(Nat)
      BY DEF SegInv, TrunkInv, SafeInv, TypeOK
    <3> QED BY <3>1, EmptySeq, ElementOfSeq DEF last_closed_segment
  <2>5. container = "Fmp4" => closed = Len(hist)
    <3> SUFFICES ASSUME container = "Fmp4" PROVE closed = Len(hist)
      OBVIOUS
    <3> DEFINE m == Len(entries)
               H == Len(hist)
    <3>1. /\ entries \in Seq(Nat) /\ m \in Nat /\ H \in Nat /\ base \in Nat /\ base + m = H
          /\ \A i \in 1..m : entries[i] = hist[base + i]
      BY LenProperties DEF SegInv, TrunkInv, SafeInv, TypeOK, RingIsSuffix
    <3>2. CASE entries = <<>>
      BY <3>2, EmptySeq DEF SegInv, TrunkInv, last_closed_segment
    <3>3. CASE entries # <<>>
      <4>1. m \in Nat \ {0} /\ closed = entries[m]
        BY <3>1, <3>3, EmptySeq DEF last_closed_segment
      <4>2. \A k \in 1..H : hist[k] = k
        BY DEF SegInv, StreamInv
      <4> HIDE DEF m, H, closed
      <4>3. m \in 1..m /\ H \in 1..H
        BY <3>1, <4>1
      <4> QED BY <3>1, <4>1, <4>2, <4>3 DEF H
    <3> QED BY <3>2, <3>3
  <2>6. container = "Fmp4" => EdgeRight(ring, next)
    BY <2>5 DEF SegInv, EdgeInv
  <2>7. container # "Fmp4" => ring = <<>>
    BY DEF SegInv, TsInv, TypedInv
  <2> DEFINE w == Where([k \in 1..Len(ring) |-> ring[k].n], next)
  <2>8. /\ PartsOf(ring, next) = Pick(ring, w)
        /\ Enumerates(w, {k \in 1..Len(ring) : ring[k].n = next})
    BY <2>2, PartsOfPositions
  <2>9. PartsOf(ring, next) = <<>> <=> {k \in 1..Len(ring) : ring[k].n = next} = {}
    <3> HIDE DEF w, ring, next
    <3>1. w \in Seq(Nat) /\ Len(Pick(ring, w)) = Len(w)
      BY <2>8, PickLength DEF Enumerates
    <3>2. w = <<>> <=> {k \in 1..Len(ring) : ring[k].n = next} = {}
      BY <2>8, EnumeratesEmpty
    <3>3. Pick(ring, w) = <<>> <=> w = <<>>
      <4>1. w = <<>> => Pick(ring, w) = <<>>
        <5> SUFFICES ASSUME w = <<>> PROVE Pick(ring, w) = <<>>
          OBVIOUS
        <5>1. Len(w) = 0
          BY EmptySeq
        <5> QED BY <5>1 DEF Pick
      <4>2. Pick(ring, w) = <<>> => w = <<>>
        <5> SUFFICES ASSUME Pick(ring, w) = <<>> PROVE w = <<>>
          OBVIOUS
        <5>1. Len(w) = 0
          BY <3>1, EmptySeq
        <5> QED BY <3>1, <5>1, EmptySeq
      <4> QED BY <4>1, <4>2
    <3> QED BY <2>8, <3>2, <3>3
  <2> HIDE DEF w, ring, closed
  <2>10. CASE ring = <<>>
    <3>1. Len(ring) = 0
      BY <2>10, EmptySeq
    <3>2. PartsOf(ring, next) = <<>>
      BY <2>9, <3>1
    <3>3. live_edge = <<closed, <<>>>>
      BY <2>3, <3>2 DEF live_edge, closed
    <3>4. ~(newest > closed)
      BY <2>4, <2>10
    <3> QED BY <3>3, <3>4 DEF LiveEdgeExact, ring, closed
  <2>11. CASE ring # <<>>
    <3> DEFINE m == Len(ring)
    <3>1. m \in 1..m /\ newest = ring[m].n
      <4>1. Len(ring) \in Nat \ {0}
        BY <2>2, <2>11, EmptySeq
      <4> QED BY <2>11, <4>1
    <3>2. newest \in Nat
      <4>1. ring[m] \in Items
        BY <2>2, <3>1, ElementOfSeq
      <4> QED BY <3>1, <4>1 DEF Items
    <3>3. newest <= next /\ \A k \in 1..m : ring[k].n <= newest
      BY <2>6, <2>7, <2>11, <3>1 DEF EdgeRight
    <3> HIDE DEF newest
    <3>4. CASE newest > closed
      <4>1. newest = next
        BY <2>4, <3>2, <3>3, <3>4
      <4>2. PartsOf(ring, next) # <<>>
        BY <2>9, <3>1, <4>1
      <4>3. live_edge = <<newest, PartsOf(ring, newest)>>
        BY <2>3, <4>1, <4>2 DEF live_edge, closed
      <4> QED BY <3>4, <4>3 DEF LiveEdgeExact, ring, closed, newest
    <3>5. CASE ~(newest > closed)
      <4>1. \A k \in 1..m : ring[k].n # next
        <5>1. \A k \in 1..m : ring[k].n \in Nat
          <6>1. \A k \in 1..m : ring[k] \in Items
            BY <2>2, ElementOfSeq
          <6> QED BY <6>1 DEF Items
        <5> QED BY <2>4, <3>2, <3>3, <3>5, <5>1
      <4>2. PartsOf(ring, next) = <<>>
        BY <2>9, <4>1
      <4>3. live_edge = <<closed, <<>>>>
        BY <2>3, <4>2 DEF live_edge, closed
      <4> QED BY <3>5, <4>3 DEF LiveEdgeExact, ring, closed, newest
    <3> QED BY <3>4, <3>5
  <2> QED BY <2>10, <2>11
<1> QED BY <1>1, SegmenterSafe, PTL

\* The publish queue never holds more than PENDING_PUBLISH_QUEUE_CAP segments
\* and the one being offered, and its stall clock runs only while it holds
\* something.
THEOREM QueueSoundHolds == SegmenterSpec => []QueueSound
<1>1. SegInv => QueueSound
  <2> SUFFICES ASSUME SegInv PROVE QueueSound
    OBVIOUS
  <2>1. TypeOK /\ TypedInv /\ ControlInv /\ QueueInv
    BY DEF SegInv, TrunkInv, SafeInv
  <2>2. Len(parts.ring.entries) <= PartCapacity
    BY DEF SegInv, EdgeInv, IndexRight, RingOK
  <2>3. \A s \in {pending, batch} : \A k \in 1..Len(s) : s[k].kind \in {"Part", "Segment"}
    <3> SUFFICES ASSUME NEW s \in {pending, batch}, NEW k \in 1..Len(s)
                 PROVE  s[k].kind \in {"Part", "Segment"}
      OBVIOUS
    <3>1. s \in Seq(CutItems(Len(cut)))
      BY <2>1 DEF TypedInv
    <3>2. s[k] \in CutItems(Len(cut))
      BY <3>1, ElementOfSeq
    <3> QED BY <3>2 DEF CutItems, Items
  <2>4. seg.n \in 1..(MaxCut + 1) /\ seg.part \in 0..MaxParts
    <3>1. Len(cut) \in Nat
      BY <2>1, LenProperties DEF TypedInv
    <3> QED BY <2>1, <3>1, CutAssumption DEF TypedInv
  <2>5. SegmenterTypeOK
    BY <2>1, <2>2, <2>3, <2>4 DEF SegmenterTypeOK, ControlInv
  <2>6. QueueBounded
    BY <2>1 DEF QueueInv, QueueBounded, Size
  <2> QED BY <2>5, <2>6 DEF QueueSound
<1> QED BY <1>1, SegmenterSafe, PTL
=============================================================================
