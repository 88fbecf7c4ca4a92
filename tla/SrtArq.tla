------------------------------- MODULE SrtArq -------------------------------
(***************************************************************************)
(* One direction of an SRT connection: the ARQ sender, a network that      *)
(* loses, duplicates, delays and reorders datagrams, and the receiving     *)
(* driver with its two cursors over one stream, the ARQ receiver's ack     *)
(* point and the TSBPD scheduler's delivery point.  Every message ever     *)
(* sent stays in its set: one that is never taken is lost, one taken twice *)
(* is a duplicate.  Payload k has sequence number isn + k - 1.  Time       *)
(* passes in units; the driver runs its timers after every wake-up.        *)
(***************************************************************************)
EXTENDS SeqSpace, Sequences, SequencesExt

CONSTANTS
    isn,               \* the peer's initial sequence number
    max_flow_window,
    tsbpd_delay,       \* TsbpdDelay, in units
    DeliverCapacity,   \* DELIVER_CHANNEL_CAPACITY
    DropReqsAhead,     \* BOOLEAN: a DROPREQ may name numbers past the ack point
    MaxSent,           \* bound: payloads
    MaxTime,           \* bound: units
    MaxResends,        \* bound: retransmissions
    MaxDropReqs        \* bound: DROPREQs

ASSUME WindowAssumption == max_flow_window \in 1..(Modulus \div 2 - 1)
ASSUME DelayAssumption == tsbpd_delay \in Nat \ {0}
ASSUME DeliverAssumption == DeliverCapacity \in Nat \ {0}
ASSUME IsnAssumption == isn \in Seqs

VARIABLES
    tlpktdrop,     \* tlpktdrop_enabled, negotiated
    now,
    sent,          \* payloads taken from the application
    buffer,        \* Sender::buffer, the unacknowledged numbers
    data,          \* data packets: number, timestamp, payload
    acks, naks, dropreqs,   \* control packets of the two sides
    resends,       \* bound: retransmissions so far
    rcv,           \* Receiver: next_expected, out_of_order, loss_list, highest
    sch,           \* TsbpdScheduler: next_release, buffer (play times), pending_skips
    staged,        \* Driver::staged, the payload held under each number
    delivered,     \* what the channel to the application accepted
    waiting,       \* how much of that the application has not taken yet
    given_up,      \* history: numbers a DROPREQ announced
    deliver_dropped   \* history: payloads the full channel refused

senderVars == <<sent, buffer, data, resends>>
appVars == <<delivered, waiting, deliver_dropped>>
driverVars == <<rcv, sch, staged, appVars>>
vars == <<tlpktdrop, now, senderVars, driverVars, acks, naks, dropreqs, given_up>>

None == -1
NoPlayTimes == [s \in {} |-> 0]

Init ==
    /\ tlpktdrop \in BOOLEAN
    /\ now = 0 /\ sent = 0 /\ buffer = {} /\ data = {} /\ resends = 0
    /\ acks = {} /\ naks = {} /\ dropreqs = {} /\ given_up = {}
    /\ rcv = [next_expected |-> isn, out_of_order |-> {}, loss_list |-> {}, highest |-> None]
    /\ sch = [next_release |-> isn, buffer |-> NoPlayTimes, pending_skips |-> {}]
    /\ staged = NoPlayTimes
    /\ delivered = <<>> /\ waiting = 0 /\ deliver_dropped = {}

(***************************************************************************)
(* The sending side.                                                       *)
(***************************************************************************)
send_window_open == Cardinality(buffer) < max_flow_window

SendOne ==
    /\ sent < MaxSent /\ send_window_open
    /\ LET seq == seq_add(isn, sent)
       IN  /\ buffer' = buffer \cup {seq}
           /\ data' = data \cup {[seq |-> seq, ts |-> now, payload |-> sent + 1]}
    /\ sent' = sent + 1
    /\ UNCHANGED <<tlpktdrop, now, resends, driverVars, acks, naks, dropreqs, given_up>>

\* Fault: the acknowledged number itself is freed.
freed_by_inclusive(ack) == {s \in buffer : ~seq_gt(s, ack)}

\* on_ack: the front of the buffer up to the acknowledged number.
freed_by(ack) == {s \in buffer : seq_lt(s, ack)}

OnAck ==
    /\ \E ack \in acks : buffer' = buffer \ freed_by(ack)
    /\ UNCHANGED <<tlpktdrop, now, sent, data, resends, driverVars, acks, naks, dropreqs, given_up>>

\* on_nak: a range is intersected with the buffer.
requested(nak) == {s \in buffer : \E r \in nak : seq_in_closed_range(s, r[1], r[2])}

payload_of(seq) == (CHOOSE d \in data : d.seq = seq).payload

\* on_nak and the Sender::tick of the same wake-up: what is still buffered goes
\* out again, stamped with the time of the retransmission.
OnNak ==
    /\ resends < MaxResends
    /\ \E nak \in naks :
          /\ requested(nak) # {}
          /\ data' = data \cup {[seq |-> s, ts |-> now, payload |-> payload_of(s)] :
                                   s \in requested(nak)}
    /\ resends' = resends + 1
    /\ UNCHANGED <<tlpktdrop, now, sent, buffer, driverVars, acks, naks, dropreqs, given_up>>

\* A peer's sender gives up on a range it has sent and says so.
PeerGivesUp ==
    /\ Cardinality(dropreqs) < MaxDropReqs
    /\ \E first, last \in buffer :
          /\ closed_range(first, last) # {}
          /\ dropreqs' = dropreqs \cup {<<first, last>>}
          /\ buffer' = buffer \ closed_range(first, last)
          /\ given_up' = given_up \cup closed_range(first, last)
    /\ UNCHANGED <<tlpktdrop, now, sent, data, resends, driverVars, acks, naks>>

(***************************************************************************)
(* The ARQ receiver.                                                       *)
(***************************************************************************)

\* Draining out_of_order from a new ack point.
Advanced(r, from) ==
    LET k == Min({n \in 0..Cardinality(r.out_of_order) :
                     seq_add(from, n) \notin r.out_of_order})
    IN  [r EXCEPT !.next_expected = seq_add(from, k),
                  !.out_of_order = @ \ {seq_add(from, n) : n \in 0..(k - 1)}]

out_of_window(r, seq) == seq_diff(seq, r.next_expected) > max_flow_window

highest_received(r) == IF r.highest = None THEN seq_prev(r.next_expected) ELSE r.highest

\* The numbers whose absence this packet reveals, clipped to the ack point.
newly_lost(r, seq) ==
    LET after == seq_next(highest_received(r))
        first == IF seq_lt(after, r.next_expected) THEN r.next_expected ELSE after
    IN  IF seq_gt(seq, highest_received(r)) /\ seq_lt(first, seq)
        THEN closed_range(first, seq_prev(seq)) ELSE {}

\* Receiver::feed_data of a packet inside the window.
feed_data(r, seq) ==
    LET noted == [r EXCEPT !.loss_list = (@ \cup newly_lost(r, seq)) \ {seq},
                           !.highest = IF seq_gt(seq, highest_received(r)) THEN seq ELSE @]
    IN  IF seq = r.next_expected THEN Advanced(noted, seq_next(seq))
        ELSE IF seq_gt(seq, r.next_expected)
        THEN [noted EXCEPT !.out_of_order = @ \cup {seq}]
        ELSE noted

\* Receiver::skip_range.
skip_range(r, first, last) ==
    LET range == closed_range(first, last)
        kept == [r EXCEPT !.loss_list = @ \ range, !.out_of_order = @ \ range]
    IN  Advanced(kept, IF r.next_expected \in range THEN seq_next(last) ELSE r.next_expected)

(***************************************************************************)
(* The TSBPD scheduler.                                                    *)
(***************************************************************************)
tlpktdrop_threshold == (tsbpd_delay * 5 + 3) \div 4

pkt_tsbpd_time(ts) == ts + tsbpd_delay

\* Fault: dropped even if TLPKTDROP was not negotiated.
too_late_always(time) == time < Max({0, now - tlpktdrop_threshold})

too_late(time) == tlpktdrop /\ time < Max({0, now - tlpktdrop_threshold})

WithoutSeqs(f, seqs) == [s \in DOMAIN f \ seqs |-> f[s]]

\* The first buffered number at or after the cursor.
next_avail(s) ==
    CHOOSE n \in DOMAIN s.buffer :
        \A m \in DOMAIN s.buffer :
            (n - s.next_release) % Modulus <= (m - s.next_release) % Modulus

\* One round of release_ready's loop on o = [sch, delivered, dropped].
release_step(o) ==
    LET s == o.sch
        n == s.next_release
        passed == [s EXCEPT !.buffer = WithoutSeqs(@, {n}), !.next_release = seq_next(n)]
        skips == {r \in s.pending_skips : seq_in_closed_range(n, r[1], r[2])}
        skip == CHOOSE r \in skips : TRUE
    IN  CASE n \in DOMAIN s.buffer ->
               IF now < s.buffer[n] THEN o
               ELSE IF too_late(s.buffer[n])
               THEN [o EXCEPT !.sch = passed, !.dropped = Append(@, n)]
               ELSE [o EXCEPT !.sch = passed, !.delivered = Append(@, n)]
          [] n \notin DOMAIN s.buffer /\ skips # {} ->
               [o EXCEPT !.sch.next_release = seq_next(skip[2]),
                         !.sch.pending_skips = @ \ {skip}]
          [] n \notin DOMAIN s.buffer /\ skips = {} ->
               IF ~tlpktdrop \/ DOMAIN s.buffer = {} THEN o
               ELSE IF now < s.buffer[next_avail(s)] \/ seq_lt(next_avail(s), n) THEN o
               ELSE [o EXCEPT !.sch.next_release = next_avail(s),
                              !.dropped = Append(@, n) \o
                                  [i \in 1..(seq_diff(next_avail(s), n) - 1) |-> seq_add(n, i)]]

\* release_ready: rounds until nothing changes.
release_ready(o) ==
    LET rounds == 3 * (Cardinality(DOMAIN o.sch.buffer) + Cardinality(o.sch.pending_skips)) + 1
        after[i \in 0..rounds] == IF i = 0 THEN o ELSE release_step(after[i - 1])
    IN  after[rounds]

Outcome(s, dropped) == [sch |-> s, delivered |-> <<>>, dropped |-> dropped]

\* TsbpdScheduler::feed_data.
tsbpd_feed(s, seq, ts) ==
    LET time == pkt_tsbpd_time(ts)
        past == [s EXCEPT !.buffer = WithoutSeqs(@, {seq}),
                          !.next_release = IF @ = seq THEN seq_next(seq) ELSE @]
        kept == IF seq_lt(seq, s.next_release) THEN s
                ELSE [s EXCEPT !.buffer = [n \in DOMAIN @ \cup {seq} |->
                                              IF n = seq THEN time ELSE @[n]]]
    IN  IF too_late(time) THEN release_ready(Outcome(past, <<seq>>))
        ELSE release_ready(Outcome(kept, <<>>))

\* TsbpdScheduler::skip_range.
tsbpd_skip(s, first, last) ==
    LET range == closed_range(first, last)
        kept == [s EXCEPT !.buffer = WithoutSeqs(@, range),
                          !.pending_skips = {r \in @ : ~seq_lt(r[2], s.next_release)}]
    IN  IF s.next_release \in range THEN [kept EXCEPT !.next_release = seq_next(last)]
        ELSE IF seq_lt(s.next_release, first)
        THEN [kept EXCEPT !.pending_skips = @ \cup {<<first, last>>}]
        ELSE kept

(***************************************************************************)
(* The receiving driver.                                                   *)
(***************************************************************************)

\* contiguous_runs of what was dropped, in the order it was.
contiguous_runs(seqs) ==
    FoldLeft(LAMBDA acc, s : IF acc # <<>> /\ seq_next(Last(acc)[2]) = s
                             THEN Append(Front(acc), <<Last(acc)[1], s>>)
                             ELSE Append(acc, <<s, s>>),
             <<>>, seqs)

\* try_send of each payload in turn: the application may take some meanwhile, so
\* any may be refused once the free places have been filled.
deliver(payloads) ==
    \E kept \in SUBSET ToSet(payloads) :
        LET accepted == SelectSeq(payloads, LAMBDA k : k \in kept)
        IN  /\ \A i \in 1..Len(payloads) :
                  payloads[i] \in kept
                  \/ Cardinality(ToSet(SubSeq(payloads, 1, i - 1)) \cap kept)
                        >= DeliverCapacity - waiting
            /\ delivered' = delivered \o accepted
            /\ waiting' = Min({DeliverCapacity, waiting + Len(accepted)})
            /\ deliver_dropped' = deliver_dropped \cup (ToSet(payloads) \ kept)

handed(held, o) == [i \in 1..Len(o.delivered) |-> held[o.delivered[i]]]

\* Fault: only the delivery cursor learns that packets were given up.
release_silent(r, held, o) ==
    /\ sch' = o.sch
    /\ deliver(handed(held, o))
    /\ staged' = WithoutSeqs(held, ToSet(o.delivered) \cup ToSet(o.dropped))
    /\ rcv' = r

\* Driver::release: hand over, purge, and move the ack point past the dropped.
release(r, held, o) ==
    /\ sch' = o.sch
    /\ deliver(handed(held, o))
    /\ staged' = WithoutSeqs(held, ToSet(o.delivered) \cup ToSet(o.dropped))
    /\ rcv' = FoldLeft(LAMBDA acc, run : skip_range(acc, run[1], run[2]),
                       r, contiguous_runs(o.dropped))

DriverUnchanged == UNCHANGED <<tlpktdrop, now, senderVars, dropreqs, given_up>>

\* receiver.tick, which follows every wake-up: the ACK and, if anything is lost,
\* the NAK of a receiver r.  A timer that is not due is a packet that is lost.
Timers(r, asked) ==
    /\ acks' = acks \cup {r.next_expected}
    /\ naks' = asked \cup ({runs(r.loss_list)} \ {{}})

\* Fault: every packet is looked at.
passed_already_never(seq) == FALSE

\* A packet the delivery cursor has passed is not looked at.
passed_already(seq) == seq_lt(seq, sch.next_release)

\* ingress_data: loss detection and the immediate NAK, staging, scheduling.
IngressData ==
    \E d \in data :
        /\ ~passed_already(d.seq) /\ ~out_of_window(rcv, d.seq)
        /\ LET held == [s \in DOMAIN staged \cup {d.seq} |->
                           IF s \in DOMAIN staged THEN staged[s] ELSE d.payload]
           IN  release(feed_data(rcv, d.seq), held, tsbpd_feed(sch, d.seq, d.ts))
        /\ Timers(rcv', naks \cup {{r} : r \in runs(newly_lost(rcv, d.seq))})
        /\ DriverUnchanged

\* handle_dropreq.
HandleDropReq ==
    \E req \in dropreqs :
        /\ DropReqsAhead \/ ~seq_gt(req[1], rcv.next_expected)
        /\ LET held == WithoutSeqs(staged, closed_range(req[1], req[2]))
               skipped == tsbpd_skip(sch, req[1], req[2])
           IN  release(skip_range(rcv, req[1], req[2]), held,
                       release_ready(Outcome(skipped, <<>>)))
        /\ Timers(rcv', naks) /\ DriverUnchanged

\* tick_engines after a wake-up on a deadline: timers, then what is due.
Wake ==
    /\ Timers(rcv, naks)
    /\ release(rcv, staged, release_ready(Outcome(sch, <<>>)))
    /\ DriverUnchanged

\* SrtSocket::recv: the application takes the oldest payload of the channel.
Recv ==
    /\ waiting > 0
    /\ waiting' = waiting - 1
    /\ UNCHANGED <<rcv, sch, staged, delivered, deliver_dropped>>
    /\ UNCHANGED <<acks, naks>> /\ DriverUnchanged

Tick ==
    /\ now < MaxTime
    /\ now' = now + 1
    /\ UNCHANGED <<tlpktdrop, senderVars, driverVars, acks, naks, dropreqs, given_up>>

Next ==
    \/ SendOne \/ OnAck \/ OnNak \/ PeerGivesUp
    \/ IngressData \/ HandleDropReq \/ Wake \/ Recv \/ Tick

Spec == Init /\ [][Next]_vars

(***************************************************************************)
(* Properties.                                                             *)
(***************************************************************************)
TypeOK ==
    /\ buffer \subseteq Seqs /\ sent \in 0..MaxSent /\ now \in 0..MaxTime
    /\ rcv.next_expected \in Seqs /\ sch.next_release \in Seqs
    /\ rcv.out_of_order \cup rcv.loss_list \subseteq Seqs

\* Whatever the network does, the application sees the payloads in the order
\* they were sent, none twice; without TLPKTDROP only what a DROPREQ named is
\* missing, and what came out while the channel to the application was full.
Channel == INSTANCE OrderedChannel WITH
    Capacity <- DeliverCapacity,
    lossy <- tlpktdrop,
    abandoned <- {k \in 1..MaxSent : seq_add(isn, k - 1) \in given_up},
    missed <- deliver_dropped
ImplementsChannel == Channel!ChannelSpec

\* The ack point never lags the delivery point: what delivery has passed is
\* acknowledged, so the peer frees it and the window moves on.
AckFollowsDelivery == ~seq_lt(rcv.next_expected, sch.next_release)

\* An ack point that lags the delivery point is at least a number the receiver
\* keeps asking for: it never waits in silence for a packet given up on.
NeverStalled ==
    /\ seq_lt(rcv.next_expected, sch.next_release)
    /\ seq_gt(highest_received(rcv), rcv.next_expected)
    => rcv.next_expected \in rcv.loss_list

\* A packet the receiver may still ask for is one the sender still holds,
\* whatever order ACKs arrive in, or one the peer announced it dropped.
RepairPossible == rcv.loss_list \subseteq buffer \cup given_up

\* Every staged datagram has a play time and the reverse, and none is held that
\* delivery has already passed, unless it came after a DROPREQ for it.
StagedIsScheduled ==
    /\ DOMAIN staged = DOMAIN sch.buffer
    /\ \A s \in DOMAIN staged \ given_up : ~seq_lt(s, sch.next_release)

\* What the receiver tracks past the ack point is bounded by the flow window,
\* and a number is never both received and believed lost.
TrackingBounded ==
    /\ rcv.out_of_order \cap rcv.loss_list = {}
    /\ \A s \in rcv.out_of_order \cup rcv.loss_list :
          seq_diff(s, rcv.next_expected) \in 0..max_flow_window

\* What the receiving side holds: three buffers in step and bounded.
BuffersInStep == TypeOK /\ StagedIsScheduled /\ TrackingBounded
=============================================================================
