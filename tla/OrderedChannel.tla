--------------------------- MODULE OrderedChannel ---------------------------
(***************************************************************************)
(* What an SRT connection promises the application: payloads come out in   *)
(* the order they went in, none twice and none that was not sent.  A live  *)
(* connection (lossy) may leave payloads out for good; a reliable one only *)
(* those the sending side has abandoned, and those the application missed: *)
(* payloads that came out while Capacity others waited to be taken.        *)
(***************************************************************************)
EXTENDS Integers, Sequences

CONSTANT Capacity

VARIABLES
    lossy,
    sent,       \* how many payloads went in; payload k is the k-th
    abandoned,  \* payloads the sending side has given up
    delivered,  \* the payloads that came out
    waiting,    \* how many of those, the last ones, have not been taken yet
    missed      \* payloads there was no place for

channelVars == <<lossy, sent, abandoned, delivered, waiting, missed>>

ChannelInit ==
    /\ lossy \in BOOLEAN
    /\ sent = 0 /\ abandoned = {} /\ delivered = <<>> /\ waiting = 0 /\ missed = {}

ChannelSend == sent' = sent + 1 /\ UNCHANGED <<lossy, abandoned, delivered, waiting, missed>>

ChannelAbandon ==
    /\ abandoned' \in SUBSET (1..sent) /\ abandoned \subseteq abandoned'
    /\ UNCHANGED <<lossy, sent, delivered, waiting, missed>>

\* Some more payloads come out, in order and, if reliable, without a gap that is
\* not accounted for; none is missed that there was a place for.
ChannelDeliver ==
    /\ Len(delivered') >= Len(delivered)
    /\ SubSeq(delivered', 1, Len(delivered)) = delivered
    /\ missed \subseteq missed' /\ missed' \subseteq 1..sent
    /\ \A i \in (Len(delivered) + 1)..Len(delivered') :
          LET before == IF i = 1 THEN 0 ELSE delivered'[i - 1]
          IN  /\ delivered'[i] \in ((before + 1)..sent) \ missed'
              /\ lossy \/ (before + 1)..(delivered'[i] - 1) \subseteq abandoned \cup missed'
    /\ waiting' \in waiting..Capacity
    /\ waiting' < Capacity =>
          missed' = missed /\ waiting' = waiting + Len(delivered') - Len(delivered)
    /\ UNCHANGED <<lossy, sent, abandoned>>

ChannelTake ==
    /\ waiting > 0 /\ waiting' = waiting - 1
    /\ UNCHANGED <<lossy, sent, abandoned, delivered, missed>>

ChannelNext == ChannelSend \/ ChannelAbandon \/ ChannelDeliver \/ ChannelTake

ChannelSpec == ChannelInit /\ [][ChannelNext]_channelVars
=============================================================================
