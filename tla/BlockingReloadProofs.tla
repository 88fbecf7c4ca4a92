------------------------ MODULE BlockingReloadProofs ------------------------
(***************************************************************************)
(* Proofs about BlockingReload for every number of requests and push       *)
(* outputs, every waiter cap and any number of parts.                      *)
(***************************************************************************)
EXTENDS BlockingReload, SequenceTheorems, FiniteSetTheorems, TLAPS

Events(S) == [queue : Seq(S), notified : SUBSET S]

\* From ev to ev2 only c's own listener came or went.
EventStep(ev, ev2, c, S) ==
    /\ ev2 \in Events(S) /\ EventOK(ev2, S)
    /\ \A d \in S \ {c} : d \in ToSet(ev2.queue) <=> d \in ToSet(ev.queue)
    /\ \A d \in S \ {c} : d \in ev.notified => d \in ev2.notified

Owners == {c \in Clients : slot[c]}

WaitPlaces == {"register", "parked", "drop_slot"}
SlotPlaces == {"register", "recheck", "remaining", "parked", "drop_slot"}
QueuePlaces == {"recheck", "remaining", "parked", "drop_slot", "drop_notify", "drop_listener"}
FreedPlaces == {"freed_check", "freed_parked"}
RequestPlaces == {"idle", "resolve", "recheck", "remaining", "backoff"}

\* What a client's place says of its slot and of its two listeners: it owns a
\* slot all through a wait and its listener is in the event's queue from the
\* moment it is registered until it is woken or dropped.
PlaceRight(c, at, holds, queued, freed) ==
    /\ at \in WaitPlaces => holds
    /\ holds => at \in SlotPlaces
    /\ queued => at \in QueuePlaces
    /\ at \in {"recheck", "remaining", "parked"} => (queued <=> holds)
    /\ freed <=> at \in FreedPlaces
    /\ c \in Pushers => at \notin RequestPlaces
    /\ c \in Requesters => at \notin FreedPlaces \cup {"freed_listen"}

ClientRight(c) ==
    PlaceRight(c, pc[c], slot[c], c \in ToSet(progress.queue), c \in ToSet(slot_freed.queue))

\* NoMissedProgress from the re-check on, not only once parked.
Rechecked(r) ==
    slot[r] /\ pc[r] \in {"remaining", "parked"} /\ r \notin progress.notified /\ parts >= want[r]
      => notify_due

ReloadInv ==
    /\ TypeOK /\ progress \in Events(Clients) /\ slot_freed \in Events(Pushers)
    /\ waiter_count = Cardinality(Owners)
    /\ \A c \in Clients : ClientRight(c)
    /\ \A r \in Requesters : Rechecked(r)
    /\ ParkedOnlyWhileInUse

-----------------------------------------------------------------------------
\* The elements of a sequence.
LEMMA ToSetLemma ==
    ASSUME NEW S, NEW q \in Seq(S)
    PROVE  /\ Len(q) \in Nat /\ DOMAIN q = 1..Len(q)
           /\ ToSet(q) = {q[i] : i \in 1..Len(q)} /\ ToSet(q) \subseteq S
           /\ IsInjective(q) <=> \A i, j \in 1..Len(q) : q[i] = q[j] => i = j
<1>1. Len(q) \in Nat /\ DOMAIN q = 1..Len(q)
  OBVIOUS
<1>2. ToSet(q) = {q[i] : i \in 1..Len(q)}
  BY <1>1 DEF ToSet
<1>3. ToSet(q) \subseteq S
  BY <1>2
<1> QED BY <1>1, <1>2, <1>3 DEF IsInjective

LEMMA RemoveAtLemma ==
    ASSUME NEW S, NEW q \in Seq(S), NEW i \in 1..Len(q)
    PROVE  /\ RemoveAt(q, i) \in Seq(S) /\ Len(RemoveAt(q, i)) = Len(q) - 1
           /\ \A t \in 1..(Len(q) - 1) : RemoveAt(q, i)[t] = IF t < i THEN q[t] ELSE q[t + 1]
<1> DEFINE a == SubSeq(q, 1, i - 1)
           b == SubSeq(q, i + 1, Len(q))
           n == Len(q)
<1>1. n \in Nat /\ i \in 1..n
  OBVIOUS
<1>2. a \in Seq(S) /\ Len(a) = i - 1 /\ \A t \in 1..(i - 1) : a[t] = q[t]
  BY <1>1
<1>3. b \in Seq(S) /\ Len(b) = n - i /\ \A t \in 1..(n - i) : b[t] = q[t + i]
  BY <1>1
<1>4. RemoveAt(q, i) = a \o b
  BY DEF RemoveAt
<1> HIDE DEF a, b, n
<1>5. /\ a \o b \in Seq(S) /\ Len(a \o b) = Len(a) + Len(b)
      /\ \A t \in 1..(Len(a) + Len(b)) : (a \o b)[t] = IF t <= Len(a) THEN a[t] ELSE b[t - Len(a)]
  BY <1>2, <1>3, ConcatProperties
<1>6. Len(a) + Len(b) = n - 1
  BY <1>1, <1>2, <1>3
<1>7. ASSUME NEW t \in 1..(n - 1) PROVE (a \o b)[t] = IF t < i THEN q[t] ELSE q[t + 1]
  <2>1. CASE t < i
    <3>1. t \in 1..(i - 1) /\ t <= Len(a)
      BY <1>1, <1>2, <2>1
    <3> QED BY <1>2, <1>5, <1>6, <2>1, <3>1
  <2>2. CASE ~(t < i)
    <3>1. t - Len(a) \in 1..(n - i) /\ (t - Len(a)) + i = t + 1 /\ ~(t <= Len(a))
      BY <1>1, <1>2, <2>2
    <3>2. b[t - Len(a)] = q[t + 1]
      BY <1>3, <3>1
    <3> QED BY <1>5, <1>6, <2>2, <3>1, <3>2
  <2> QED BY <2>1, <2>2
<1> QED BY <1>4, <1>5, <1>6, <1>7 DEF n

\* A listener leaves the queue, and nobody else does.
LEMMA WithoutLemma ==
    ASSUME NEW S, NEW q \in Seq(S), IsInjective(q), NEW c
    PROVE  /\ Without(q, c) \in Seq(S) /\ IsInjective(Without(q, c))
           /\ ToSet(Without(q, c)) = ToSet(q) \ {c}
<1>1. /\ Len(q) \in Nat /\ ToSet(q) = {q[i] : i \in 1..Len(q)}
      /\ \A i, j \in 1..Len(q) : q[i] = q[j] => i = j
  BY ToSetLemma
<1>2. CASE c \notin ToSet(q)
  BY <1>2 DEF Without
<1>3. CASE c \in ToSet(q)
  <2> DEFINE k == CHOOSE i \in 1..Len(q) : q[i] = c
             w == RemoveAt(q, k)
             n == Len(q)
  <2>1. k \in 1..n /\ q[k] = c /\ Without(q, c) = w
    BY <1>1, <1>3 DEF Without
  <2> HIDE DEF k
  <2>2. /\ w \in Seq(S) /\ Len(w) = n - 1
        /\ \A t \in 1..(n - 1) : w[t] = IF t < k THEN q[t] ELSE q[t + 1]
    BY <2>1, RemoveAtLemma
  <2> HIDE DEF w
  <2>3. n \in Nat /\ \A i, j \in 1..n : q[i] = q[j] => i = j
    BY <1>1
  <2>4. ToSet(w) = {w[i] : i \in 1..(n - 1)} /\ ToSet(q) = {q[i] : i \in 1..n}
        /\ (IsInjective(w) <=> \A i, j \in 1..(n - 1) : w[i] = w[j] => i = j)
    BY <1>1, <2>2, ToSetLemma, SMTT(60)
  <2> HIDE DEF n
  <2>5. ASSUME NEW i \in 1..(n - 1), NEW j \in 1..(n - 1), w[i] = w[j] PROVE i = j
    <3> DEFINE u == IF i < k THEN i ELSE i + 1
               v == IF j < k THEN j ELSE j + 1
    <3>1. u \in 1..n /\ v \in 1..n /\ w[i] = q[u] /\ w[j] = q[v]
      BY <2>1, <2>2, <2>3
    <3>2. u = v
      BY <2>3, <2>5, <3>1
    <3> QED BY <2>1, <2>3, <3>2
  <2>6. ASSUME NEW i \in 1..(n - 1) PROVE w[i] \in ToSet(q) \ {c}
    <3> DEFINE u == IF i < k THEN i ELSE i + 1
    <3>1. u \in 1..n /\ u # k /\ w[i] = q[u]
      BY <2>1, <2>2, <2>3
    <3> HIDE DEF u
    <3> QED BY <2>1, <2>3, <2>4, <3>1
  <2>7. ASSUME NEW i \in 1..n, q[i] # c PROVE \E t \in 1..(n - 1) : w[t] = q[i]
    <3>1. CASE i < k
      <4>1. i \in 1..(n - 1) /\ w[i] = q[i]
        BY <2>1, <2>2, <2>3, <3>1
      <4> QED BY <4>1
    <3>2. CASE ~(i < k)
      <4>1. i # k
        BY <2>1, <2>7
      <4>2. i - 1 \in 1..(n - 1) /\ ~(i - 1 < k) /\ (i - 1) + 1 = i
        BY <2>1, <2>3, <3>2, <4>1
      <4>3. w[i - 1] = q[i]
        BY <2>2, <4>2
      <4> QED BY <4>2, <4>3
    <3> QED BY <3>1, <3>2
  <2>8. ToSet(w) = ToSet(q) \ {c}
    BY <2>4, <2>6, <2>7, SMTT(60)
  <2>9. IsInjective(w)
    BY <2>4, <2>5
  <2> QED BY <2>1, <2>2, <2>8, <2>9
<1> QED BY <1>2, <1>3

-----------------------------------------------------------------------------
\* Event::listen.
LEMMA ListenLemma ==
    ASSUME NEW S, NEW ev \in Events(S), EventOK(ev, S), NEW c \in S, c \notin ToSet(ev.queue)
    PROVE  /\ EventStep(ev, Listen(ev, c), c, S) /\ c \in ToSet(Listen(ev, c).queue)
           /\ Listen(ev, c).notified = ev.notified
<1> DEFINE q == ev.queue
           w == Append(q, c)
           n == Len(q)
<1>1. /\ q \in Seq(S) /\ n \in Nat /\ ev.notified \subseteq ToSet(q) /\ ev.notified \subseteq S
      /\ IsInjective(q)
  BY DEF Events, EventOK
<1>2. /\ w \in Seq(S) /\ Len(w) = n + 1 /\ \A i \in 1..n : w[i] = q[i]
      /\ w[n + 1] = c
  BY <1>1, AppendProperties
<1>3. /\ ToSet(q) = {q[i] : i \in 1..n} /\ \A i, j \in 1..n : q[i] = q[j] => i = j
      /\ ToSet(w) = {w[i] : i \in 1..(n + 1)}
      /\ IsInjective(w) <=> \A i, j \in 1..(n + 1) : w[i] = w[j] => i = j
  <2>1. ToSet(q) = {q[i] : i \in 1..n} /\ \A i, j \in 1..n : q[i] = q[j] => i = j
    <3> HIDE DEF q
    <3> QED BY <1>1, ToSetLemma
  <2> HIDE DEF w, q, n
  <2>2. /\ ToSet(w) = {w[i] : i \in 1..Len(w)}
        /\ IsInjective(w) <=> \A i, j \in 1..Len(w) : w[i] = w[j] => i = j
    BY <1>2, ToSetLemma, SMTT(60)
  <2> QED BY <1>2, <2>1, <2>2
<1>4. Listen(ev, c) = [queue |-> w, notified |-> ev.notified]
  BY DEF Listen, Events
<1>5. c \notin {q[i] : i \in 1..n}
  BY <1>3
<1> HIDE DEF w, q, n
<1>6. IsInjective(w)
  BY <1>1, <1>2, <1>3, <1>5
<1>7. ToSet(w) = ToSet(q) \cup {c}
  <2>1. ASSUME NEW i \in 1..(n + 1) PROVE w[i] \in ToSet(q) \cup {c}
    BY <1>1, <1>2, <1>3
  <2>2. ASSUME NEW i \in 1..n PROVE i \in 1..(n + 1) /\ w[i] = q[i]
    BY <1>1, <1>2
  <2>3. n + 1 \in 1..(n + 1)
    BY <1>1
  <2> QED BY <1>2, <1>3, <2>1, <2>2, <2>3
<1>8. ToSet(w) \subseteq S
  BY <1>2, ToSetLemma
<1>9. Listen(ev, c).queue = w /\ Listen(ev, c).notified = ev.notified
  BY <1>4
<1>10. Listen(ev, c) \in Events(S)
  BY <1>1, <1>2, <1>4 DEF Events
<1>11. EventOK(Listen(ev, c), S)
  BY <1>1, <1>6, <1>7, <1>8, <1>9 DEF EventOK
<1> QED BY <1>7, <1>9, <1>10, <1>11 DEF EventStep, q

\* Event::notify: nobody leaves the queue or loses a notification; if anyone
\* listens someone is notified, and n as large as the listeners' number
\* notifies them all.
LEMMA NotifyLemma ==
    ASSUME NEW S, NEW ev \in Events(S), EventOK(ev, S), NEW n \in Nat \ {0}
    PROVE  /\ Notify(ev, n) \in Events(S) /\ EventOK(Notify(ev, n), S)
           /\ Notify(ev, n).queue = ev.queue /\ ev.notified \subseteq Notify(ev, n).notified
           /\ ToSet(ev.queue) # {} => Notify(ev, n).notified # {}
           /\ IsFiniteSet(S) /\ n = Cardinality(S) => Notify(ev, n).notified = ToSet(ev.queue)
<1> DEFINE q == ev.queue
           more == {q[i] : i \in {j \in 1..Len(q) : Cardinality(ev.notified \cup Before(ev, j)) < n}}
           all == ev.notified \cup more
<1>1. /\ q \in Seq(S) /\ ev.notified \subseteq ToSet(q) /\ ToSet(q) \subseteq S
      /\ IsInjective(q) /\ ev.notified \subseteq S
  BY DEF Events, EventOK
<1>2. /\ Len(q) \in Nat /\ ToSet(q) = {q[i] : i \in 1..Len(q)}
      /\ \A i, j \in 1..Len(q) : q[i] = q[j] => i = j
  BY <1>1, ToSetLemma
<1>3. Notify(ev, n) = [queue |-> q, notified |-> all]
  <2>1. Notify(ev, n) = [ev EXCEPT !.notified = all]
    BY DEF Notify
  <2> HIDE DEF all
  <2> QED BY <2>1 DEF Events
<1>4. more \subseteq ToSet(q)
  BY <1>2
<1>5. ASSUME ToSet(q) # {}, ev.notified = {} PROVE more # {}
  <2>1. 1 \in 1..Len(q)
    BY <1>2, <1>5
  <2>2. Before(ev, 1) = {}
    BY DEF Before
  <2>3. Cardinality(ev.notified \cup Before(ev, 1)) = 0
    BY <1>5, <2>2, FS_EmptySet
  <2>4. Cardinality(ev.notified \cup Before(ev, 1)) < n
    BY <2>3
  <2>5. q[1] \in more
    BY <2>1, <2>4
  <2> QED BY <2>5
<1>6. ASSUME IsFiniteSet(S), n = Cardinality(S), NEW i \in 1..Len(q), q[i] \notin ev.notified
      PROVE  q[i] \in more
  <2> DEFINE T == ev.notified \cup Before(ev, i)
  <2>1. q[i] \notin Before(ev, i) /\ Before(ev, i) \subseteq S
    <3>1. ASSUME NEW j \in 1..(i - 1) PROVE j \in 1..Len(q) /\ j # i
      BY <1>2
    <3>2. ASSUME NEW j \in 1..(i - 1) PROVE q[j] # q[i] /\ q[j] \in S
      BY <1>1, <1>2, <3>1
    <3> QED BY <3>2 DEF Before
  <2>2. T \in SUBSET S /\ q[i] \in S /\ q[i] \notin T
    BY <1>1, <1>2, <1>6, <2>1
  <2> HIDE DEF T
  <2>3. IsFiniteSet(T) /\ Cardinality(T) <= Cardinality(S)
        /\ (Cardinality(S) = Cardinality(T) => S = T)
    BY <1>6, <2>2, FS_Subset
  <2>4. Cardinality(T) \in Nat /\ Cardinality(S) \in Nat
    BY <1>6, <2>3, FS_CardinalityType
  <2>5. Cardinality(T) < n
    BY <1>6, <2>2, <2>3, <2>4
  <2> QED BY <2>5 DEF T
<1>7. IsFiniteSet(S) /\ n = Cardinality(S) => all = ToSet(q)
  <2> SUFFICES ASSUME IsFiniteSet(S), n = Cardinality(S) PROVE all = ToSet(q)
    OBVIOUS
  <2>1. ASSUME NEW i \in 1..Len(q) PROVE q[i] \in ev.notified \/ q[i] \in more
    BY <1>6
  <2> HIDE DEF more
  <2> QED BY <1>1, <1>2, <1>4, <2>1
<1>8. ToSet(q) # {} => all # {}
  BY <1>5
<1>9. all \subseteq ToSet(q)
  BY <1>1, <1>4
<1> HIDE DEF all, more
<1>10. Notify(ev, n).queue = q /\ Notify(ev, n).notified = all
  BY <1>3
<1>11. ev.notified \subseteq all
  BY DEF all
<1>12. Notify(ev, n) \in Events(S)
  BY <1>1, <1>3, <1>9 DEF Events
<1>13. EventOK(Notify(ev, n), S)
  BY <1>1, <1>9, <1>10 DEF EventOK
<1> QED BY <1>7, <1>8, <1>10, <1>11, <1>12, <1>13

\* A listener that is woken, or dropped: its notification is handed on.
LEMMA LeaveLemma ==
    ASSUME NEW S, NEW ev \in Events(S), EventOK(ev, S), NEW c
    PROVE  /\ EventStep(ev, Consume(ev, c), c, S) /\ c \notin ToSet(Consume(ev, c).queue)
           /\ EventStep(ev, Discard(ev, c), c, S) /\ c \notin ToSet(Discard(ev, c).queue)
<1> DEFINE w == Without(ev.queue, c)
           e == Consume(ev, c)
<1>1. /\ ev.queue \in Seq(S) /\ IsInjective(ev.queue) /\ ev.notified \subseteq ToSet(ev.queue)
      /\ ToSet(ev.queue) \subseteq S
  BY DEF Events, EventOK
<1>2. w \in Seq(S) /\ IsInjective(w) /\ ToSet(w) = ToSet(ev.queue) \ {c}
  BY <1>1, WithoutLemma
<1>3. e = [queue |-> w, notified |-> ev.notified \ {c}]
  BY DEF Consume
<1> HIDE DEF w, e
<1>4. e.queue = w /\ e.notified = ev.notified \ {c}
  BY <1>3
<1>5. e \in Events(S) /\ EventOK(e, S)
  <2>1. e \in Events(S)
    BY <1>1, <1>2, <1>3 DEF Events
  <2> QED BY <1>1, <1>2, <1>4, <2>1 DEF EventOK
<1>6. EventStep(ev, e, c, S) /\ c \notin ToSet(e.queue)
  BY <1>2, <1>4, <1>5 DEF EventStep
<1>7. /\ Notify(e, 1) \in Events(S) /\ EventOK(Notify(e, 1), S)
      /\ Notify(e, 1).queue = w /\ e.notified \subseteq Notify(e, 1).notified
  BY <1>4, <1>5, NotifyLemma
<1>8. EventStep(ev, Notify(e, 1), c, S) /\ c \notin ToSet(Notify(e, 1).queue)
  BY <1>2, <1>4, <1>7 DEF EventStep
<1>9. Discard(ev, c) = Notify(e, 1) \/ Discard(ev, c) = e
  BY DEF Discard, e
<1> QED BY <1>6, <1>8, <1>9 DEF e

\* An event nobody touched.
LEMMA IdleLemma ==
    ASSUME NEW S, NEW ev \in Events(S), EventOK(ev, S), NEW c
    PROVE  EventStep(ev, ev, c, S)
BY DEF EventStep

-----------------------------------------------------------------------------
LEMMA FiniteClients == IsFiniteSet(Clients) /\ Pushers \subseteq Clients
BY ClientsAssumption, FS_Union DEF Clients

\* The number of slots owned, as one is taken or given back.
LEMMA OwnersLemma ==
    ASSUME ReloadInv, NEW c \in Clients
    PROVE  /\ slot \in [Clients -> BOOLEAN] /\ Cardinality(Owners) \in Nat
           /\ slot' = [slot EXCEPT ![c] = TRUE] /\ ~slot[c] =>
                 Cardinality(Owners') = waiter_count + 1
           /\ slot' = [slot EXCEPT ![c] = FALSE] /\ slot[c] =>
                 Cardinality(Owners') = waiter_count - 1 /\ waiter_count > 0
           /\ slot' = slot => Cardinality(Owners') = waiter_count
<1>1. slot \in [Clients -> BOOLEAN] /\ waiter_count = Cardinality(Owners)
  BY DEF ReloadInv, TypeOK
<1>2. IsFiniteSet(Owners) /\ Cardinality(Owners) \in Nat
  <2>1. Owners \in SUBSET Clients
    BY DEF Owners
  <2>2. IsFiniteSet(Owners)
    BY <2>1, FiniteClients, FS_Subset
  <2> QED BY <2>2, FS_CardinalityType
<1>3. ASSUME slot' = [slot EXCEPT ![c] = TRUE], ~slot[c]
      PROVE  Cardinality(Owners') = waiter_count + 1
  <2>1. Owners' = Owners \cup {c} /\ c \notin Owners
    BY <1>1, <1>3 DEF Owners
  <2>2. Cardinality(Owners \cup {c}) = Cardinality(Owners) + 1
    BY <1>2, <2>1, FS_AddElement
  <2> QED BY <1>1, <2>1, <2>2
<1>4. ASSUME slot' = [slot EXCEPT ![c] = FALSE], slot[c]
      PROVE  Cardinality(Owners') = waiter_count - 1 /\ waiter_count > 0
  <2>1. Owners' = Owners \ {c} /\ c \in Owners
    BY <1>1, <1>4 DEF Owners
  <2>2. Cardinality(Owners \ {c}) = Cardinality(Owners) - 1
    BY <1>2, <2>1, FS_RemoveElement
  <2>3. Cardinality(Owners) # 0
    BY <1>2, <2>1, FS_EmptySet
  <2> QED BY <1>1, <1>2, <2>1, <2>2, <2>3
<1>5. slot' = slot => Owners' = Owners
  BY DEF Owners
<1> QED BY <1>1, <1>2, <1>3, <1>4, <1>5

LEMMA ReloadInit == Init => ReloadInv
<1> SUFFICES ASSUME Init PROVE ReloadInv
  OBVIOUS
<1>1. /\ parts = 0 /\ notify_due = FALSE /\ waiter_count = 0
      /\ progress = NoListeners /\ slot_freed = NoListeners
      /\ pc = [c \in Clients |-> IF c \in Pushers THEN "listen" ELSE "idle"]
      /\ slot = [c \in Clients |-> FALSE]
      /\ want = [r \in Requesters |-> 0] /\ late = [r \in Requesters |-> FALSE]
      /\ answer = [r \in Requesters |-> "none"]
  BY DEF Init
<1>2. /\ NoListeners.queue = <<>> /\ NoListeners.notified = {}
      /\ NoListeners \in Events(Clients) /\ NoListeners \in Events(Pushers)
  BY DEF NoListeners, Events
<1>3. ToSet(<<>>) = {} /\ IsInjective(<<>>)
  <2>1. <<>> \in Seq({}) /\ Len(<<>>) = 0 /\ 1..0 = {}
    OBVIOUS
  <2> DEFINE q == <<>>
  <2>2. q \in Seq({}) /\ Len(q) = 0
    BY <2>1
  <2> HIDE DEF q
  <2>3. ToSet(q) = {} /\ IsInjective(q)
    BY <2>1, <2>2, ToSetLemma
  <2> QED BY <2>3 DEF q
<1>4. EventOK(NoListeners, Clients) /\ EventOK(NoListeners, Pushers)
  BY <1>2, <1>3 DEF EventOK
<1>5. Owners = {} /\ Cardinality(Owners) = 0
  <2>1. Owners = {}
    BY <1>1 DEF Owners
  <2> QED BY <2>1, FS_EmptySet
<1>6. TypeOK
  <2>1. parts \in 0..MaxProgress /\ notify_due \in BOOLEAN /\ waiter_count \in 0..WaiterCap
    <3>1. 0 \in 0..MaxProgress /\ 0 \in 0..WaiterCap
      BY CapAssumption, BoundAssumption
    <3> QED BY <1>1, <3>1
  <2>2. pc \in [Clients -> Places]
    BY <1>1 DEF Places
  <2>3. slot \in [Clients -> BOOLEAN] /\ late \in [Requesters -> BOOLEAN]
    BY <1>1
  <2>4. want \in [Requesters -> 0..MaxProgress]
    BY <1>1, BoundAssumption
  <2>5. answer \in [Requesters -> {"none", "Ready", "NotFound"}]
    BY <1>1
  <2> QED BY <1>1, <1>4, <2>1, <2>2, <2>3, <2>4, <2>5 DEF TypeOK
<1>7. ASSUME NEW c \in Clients PROVE ClientRight(c)
  <2>1. ~slot[c] /\ c \notin ToSet(progress.queue) /\ c \notin ToSet(slot_freed.queue)
    BY <1>1, <1>2, <1>3
  <2>2. pc[c] \in {"listen", "idle"}
    BY <1>1
  <2>3. c \in Pushers => pc[c] = "listen"
    BY <1>1
  <2> QED BY <2>1, <2>2, <2>3 DEF ClientRight, PlaceRight, WaitPlaces, SlotPlaces, QueuePlaces,
            FreedPlaces, RequestPlaces
<1>8. \A r \in Requesters : Rechecked(r)
  BY <1>1 DEF Rechecked, Clients
<1>9. ParkedOnlyWhileInUse
  BY <1>1 DEF ParkedOnlyWhileInUse, Clients
<1> QED BY <1>1, <1>2, <1>5, <1>6, <1>7, <1>8, <1>9 DEF ReloadInv

\* A step of client c that moves it to another place, takes or leaves its slot
\* and its own listeners.
LEMMA ClientStep ==
    ASSUME ReloadInv, NEW c \in Clients, NEW at \in Places, NEW b \in BOOLEAN,
           pc' = [pc EXCEPT ![c] = at], slot' = [slot EXCEPT ![c] = b],
           UNCHANGED <<parts, notify_due>>,
           EventStep(progress, progress', c, Clients),
           EventStep(slot_freed, slot_freed', c, Pushers),
           waiter_count' \in 0..WaiterCap, waiter_count' = Cardinality(Owners'),
           want' \in [Requesters -> 0..MaxProgress], late' \in [Requesters -> BOOLEAN],
           answer' \in [Requesters -> {"none", "Ready", "NotFound"}],
           \A r \in Requesters \ {c} : want'[r] = want[r],
           PlaceRight(c, at, b, c \in ToSet(progress'.queue), c \in ToSet(slot_freed'.queue)),
           c \in Requesters /\ b /\ at \in {"remaining", "parked"} /\ c \notin progress'.notified
              => ~(parts >= want'[c]) \/ notify_due,
           \/ waiter_count' > 0 \/ slot_freed'.notified # {} \/ at \in {"drop_notify", "listen"}
           \/ ToSet(slot_freed'.queue) = {}
           \/ /\ pc[c] \notin {"drop_notify", "listen"} /\ at # "freed_parked"
              /\ waiter_count' = waiter_count
              /\ slot_freed.notified # {} => slot_freed'.notified # {}
    PROVE  ReloadInv'
<1>1. /\ pc \in [Clients -> Places] /\ slot \in [Clients -> BOOLEAN]
      /\ progress \in Events(Clients) /\ slot_freed \in Events(Pushers)
      /\ parts \in 0..MaxProgress /\ notify_due \in BOOLEAN
  BY DEF ReloadInv, TypeOK
<1>2. /\ pc' \in [Clients -> Places] /\ slot' \in [Clients -> BOOLEAN]
      /\ pc'[c] = at /\ slot'[c] = b
      /\ \A d \in Clients \ {c} : pc'[d] = pc[d] /\ slot'[d] = slot[d]
  BY <1>1
<1>3. /\ progress' \in Events(Clients) /\ EventOK(progress', Clients)
      /\ slot_freed' \in Events(Pushers) /\ EventOK(slot_freed', Pushers)
      /\ \A d \in Clients \ {c} : d \in ToSet(progress'.queue) <=> d \in ToSet(progress.queue)
      /\ \A d \in Clients \ {c} : d \in progress.notified => d \in progress'.notified
      /\ \A d \in Pushers \ {c} : d \in ToSet(slot_freed'.queue) <=> d \in ToSet(slot_freed.queue)
      /\ \A d \in Pushers \ {c} : d \in slot_freed.notified => d \in slot_freed'.notified
  BY DEF EventStep
<1>4. ToSet(slot_freed.queue) \subseteq Pushers /\ ToSet(slot_freed'.queue) \subseteq Pushers
  BY <1>3 DEF ReloadInv, TypeOK, EventOK
<1>5. TypeOK'
  BY <1>1, <1>2, <1>3 DEF TypeOK
<1>6. ASSUME NEW d \in Clients PROVE ClientRight(d)'
  <2>1. CASE d = c
    BY <1>2, <2>1 DEF ClientRight
  <2>2. CASE d # c
    <3>1. ClientRight(d)
      BY DEF ReloadInv
    <3>2. /\ d \in ToSet(progress'.queue) <=> d \in ToSet(progress.queue)
          /\ d \in ToSet(slot_freed'.queue) <=> d \in ToSet(slot_freed.queue)
          /\ pc'[d] = pc[d] /\ slot'[d] = slot[d]
      BY <1>2, <1>3, <1>4, <2>2
    <3> QED BY <3>1, <3>2 DEF ClientRight, PlaceRight
  <2> QED BY <2>1, <2>2
<1>7. ASSUME NEW r \in Requesters PROVE Rechecked(r)'
  <2>1. r \in Clients
    BY DEF Clients
  <2>2. CASE r = c
    BY <1>2, <2>2 DEF Rechecked
  <2>3. CASE r # c
    <3>1. Rechecked(r)
      BY DEF ReloadInv
    <3>2. /\ pc'[r] = pc[r] /\ slot'[r] = slot[r] /\ want'[r] = want[r]
          /\ r \in progress.notified => r \in progress'.notified
      BY <1>2, <1>3, <2>1, <2>3
    <3> QED BY <3>1, <3>2 DEF Rechecked
  <2> QED BY <2>2, <2>3
<1>8. ParkedOnlyWhileInUse'
  <2> SUFFICES ASSUME NEW p \in Pushers, pc'[p] = "freed_parked", p \notin slot_freed'.notified
               PROVE  \/ waiter_count' > 0 \/ slot_freed'.notified # {}
                      \/ \E d \in Clients : pc'[d] \in {"drop_notify", "listen"}
    BY DEF ParkedOnlyWhileInUse
  <2>1. p \in Clients
    BY FiniteClients
  <2>2. CASE at \in {"drop_notify", "listen"}
    BY <1>2, <2>2
  <2>3. CASE ToSet(slot_freed'.queue) = {}
    <3>1. ClientRight(p)'
      BY <1>6, <2>1
    <3> QED BY <2>3, <3>1 DEF ClientRight, PlaceRight, FreedPlaces
  <2>4. CASE /\ pc[c] \notin {"drop_notify", "listen"} /\ at # "freed_parked"
             /\ waiter_count' = waiter_count
             /\ slot_freed.notified # {} => slot_freed'.notified # {}
    <3>1. p # c /\ pc[p] = "freed_parked" /\ p \notin slot_freed.notified
      BY <1>2, <1>3, <2>1, <2>4
    <3>2. \/ waiter_count > 0 \/ slot_freed.notified # {}
          \/ \E d \in Clients : pc[d] \in {"drop_notify", "listen"}
      BY <3>1 DEF ReloadInv, ParkedOnlyWhileInUse
    <3>3. ASSUME NEW d \in Clients, pc[d] \in {"drop_notify", "listen"}
          PROVE  pc'[d] \in {"drop_notify", "listen"}
      BY <1>2, <2>4, <3>3
    <3> QED BY <2>4, <3>2, <3>3
  <2> QED BY <2>2, <2>3, <2>4
<1> QED BY <1>3, <1>5, <1>6, <1>7, <1>8 DEF ReloadInv

\* What every step of a client starts from.
LEMMA BaseFacts ==
    ASSUME ReloadInv, NEW c \in Clients
    PROVE  /\ slot[c] \in BOOLEAN /\ slot = [slot EXCEPT ![c] = slot[c]]
           /\ waiter_count \in 0..WaiterCap /\ WaiterCap \in Nat \ {0} /\ pc[c] \in Places
           /\ want \in [Requesters -> 0..MaxProgress] /\ late \in [Requesters -> BOOLEAN]
           /\ answer \in [Requesters -> {"none", "Ready", "NotFound"}]
           /\ progress \in Events(Clients) /\ EventOK(progress, Clients)
           /\ slot_freed \in Events(Pushers) /\ EventOK(slot_freed, Pushers)
           /\ EventStep(progress, progress, c, Clients)
           /\ EventStep(slot_freed, slot_freed, c, Pushers)
           /\ PlaceRight(c, pc[c], slot[c], c \in ToSet(progress.queue), c \in ToSet(slot_freed.queue))
<1>1. /\ slot \in [Clients -> BOOLEAN] /\ waiter_count \in 0..WaiterCap /\ pc \in [Clients -> Places]
      /\ want \in [Requesters -> 0..MaxProgress] /\ late \in [Requesters -> BOOLEAN]
      /\ answer \in [Requesters -> {"none", "Ready", "NotFound"}]
      /\ progress \in Events(Clients) /\ EventOK(progress, Clients)
      /\ slot_freed \in Events(Pushers) /\ EventOK(slot_freed, Pushers)
      /\ ClientRight(c)
  BY DEF ReloadInv, TypeOK
<1>2. slot[c] \in BOOLEAN /\ slot = [slot EXCEPT ![c] = slot[c]] /\ pc[c] \in Places
  BY <1>1
<1>3. EventStep(progress, progress, c, Clients) /\ EventStep(slot_freed, slot_freed, c, Pushers)
  BY <1>1, IdleLemma
<1>4. PlaceRight(c, pc[c], slot[c], c \in ToSet(progress.queue), c \in ToSet(slot_freed.queue))
  BY <1>1 DEF ClientRight
<1> QED BY <1>1, <1>2, <1>3, <1>4, CapAssumption

\* A step of a client that leaves the slots alone.
LEMMA MoveStep ==
    ASSUME ReloadInv, NEW c \in Clients, NEW at \in Places,
           pc' = [pc EXCEPT ![c] = at], UNCHANGED <<parts, notify_due, slot, waiter_count>>,
           EventStep(progress, progress', c, Clients),
           EventStep(slot_freed, slot_freed', c, Pushers),
           want' \in [Requesters -> 0..MaxProgress], late' \in [Requesters -> BOOLEAN],
           answer' \in [Requesters -> {"none", "Ready", "NotFound"}],
           \A r \in Requesters \ {c} : want'[r] = want[r],
           PlaceRight(c, at, slot[c], c \in ToSet(progress'.queue), c \in ToSet(slot_freed'.queue)),
           c \in Requesters /\ slot[c] /\ at \in {"remaining", "parked"} /\ c \notin progress'.notified
              => ~(parts >= want'[c]) \/ notify_due,
           \/ waiter_count > 0 \/ slot_freed'.notified # {} \/ at \in {"drop_notify", "listen"}
           \/ ToSet(slot_freed'.queue) = {}
           \/ /\ pc[c] \notin {"drop_notify", "listen"} /\ at # "freed_parked"
              /\ slot_freed.notified # {} => slot_freed'.notified # {}
    PROVE  ReloadInv'
<1>1. slot[c] \in BOOLEAN /\ slot' = [slot EXCEPT ![c] = slot[c]] /\ waiter_count' \in 0..WaiterCap
  BY BaseFacts
<1>2. waiter_count' = Cardinality(Owners')
  BY OwnersLemma
<1> QED BY <1>1, <1>2, ClientStep

\* Trunk::listen takes a slot; the drop of a WaiterSlot gives it back.
LEMMA SlotStep ==
    ASSUME ReloadInv, NEW c \in Clients, TakeSlot(c) \/ DropSlot(c)
    PROVE  ReloadInv'
<1>1. /\ waiter_count \in 0..WaiterCap /\ WaiterCap \in Nat \ {0} /\ pc[c] \in Places
      /\ want \in [Requesters -> 0..MaxProgress] /\ late \in [Requesters -> BOOLEAN]
      /\ answer \in [Requesters -> {"none", "Ready", "NotFound"}]
      /\ EventStep(progress, progress, c, Clients)
      /\ EventStep(slot_freed, slot_freed, c, Pushers)
      /\ PlaceRight(c, pc[c], slot[c], c \in ToSet(progress.queue), c \in ToSet(slot_freed.queue))
  BY BaseFacts
<1>2. UNCHANGED <<parts, notify_due, progress, slot_freed, want, late, answer>>
  BY DEF TakeSlot, DropSlot, trunkVars, requestVars
<1>3. CASE TakeSlot(c)
  <2>1. /\ pc[c] = "listen" /\ waiter_count < WaiterCap /\ waiter_count' = waiter_count + 1
        /\ slot' = [slot EXCEPT ![c] = TRUE] /\ pc' = [pc EXCEPT ![c] = "register"]
    BY <1>3 DEF TakeSlot, Goto
  <2>2. ~slot[c]
    BY <1>1, <2>1 DEF PlaceRight, SlotPlaces
  <2>3. waiter_count' = Cardinality(Owners')
    BY <2>1, <2>2, OwnersLemma
  <2>4. waiter_count' \in 0..WaiterCap /\ waiter_count' > 0
    BY <1>1, <2>1
  <2>5. "register" \in Places
    BY DEF Places
  <2>6. PlaceRight(c, "register", TRUE, c \in ToSet(progress'.queue), c \in ToSet(slot_freed'.queue))
    BY <1>1, <1>2, <2>1 DEF PlaceRight, WaitPlaces, SlotPlaces, QueuePlaces, FreedPlaces, RequestPlaces
  <2>7. EventStep(progress, progress', c, Clients) /\ EventStep(slot_freed, slot_freed', c, Pushers)
    BY <1>1, <1>2
  <2>8. /\ want' \in [Requesters -> 0..MaxProgress] /\ late' \in [Requesters -> BOOLEAN]
        /\ answer' \in [Requesters -> {"none", "Ready", "NotFound"}]
        /\ \A r \in Requesters \ {c} : want'[r] = want[r]
    BY <1>1, <1>2
  <2> QED BY <1>2, <2>1, <2>3, <2>4, <2>5, <2>6, <2>7, <2>8, ClientStep
<1>4. CASE DropSlot(c)
  <2>1. /\ pc[c] = "drop_slot" /\ waiter_count' = waiter_count - 1
        /\ slot' = [slot EXCEPT ![c] = FALSE] /\ pc' = [pc EXCEPT ![c] = "drop_notify"]
    BY <1>4 DEF DropSlot, Goto
  <2>2. slot[c]
    BY <1>1, <2>1 DEF PlaceRight, WaitPlaces
  <2>3. waiter_count' = Cardinality(Owners') /\ waiter_count > 0
    BY <2>1, <2>2, OwnersLemma
  <2>4. waiter_count' \in 0..WaiterCap
    BY <1>1, <2>1, <2>3
  <2>5. "drop_notify" \in Places
    BY DEF Places
  <2>6. PlaceRight(c, "drop_notify", FALSE, c \in ToSet(progress'.queue), c \in ToSet(slot_freed'.queue))
    BY <1>1, <1>2, <2>1 DEF PlaceRight, WaitPlaces, SlotPlaces, QueuePlaces, FreedPlaces, RequestPlaces
  <2>7. EventStep(progress, progress', c, Clients) /\ EventStep(slot_freed, slot_freed', c, Pushers)
    BY <1>1, <1>2
  <2>8. /\ want' \in [Requesters -> 0..MaxProgress] /\ late' \in [Requesters -> BOOLEAN]
        /\ answer' \in [Requesters -> {"none", "Ready", "NotFound"}]
        /\ \A r \in Requesters \ {c} : want'[r] = want[r]
    BY <1>1, <1>2
  <2> QED BY <1>2, <2>1, <2>3, <2>4, <2>5, <2>6, <2>7, <2>8, ClientStep
<1> QED BY <1>3, <1>4

\* A step that leaves the requests' own fields alone too.
LEMMA RunMove ==
    ASSUME ReloadInv, NEW c \in Clients, NEW at \in Places,
           pc' = [pc EXCEPT ![c] = at],
           UNCHANGED <<parts, notify_due, slot, waiter_count, want, late, answer>>,
           EventStep(progress, progress', c, Clients),
           EventStep(slot_freed, slot_freed', c, Pushers),
           PlaceRight(c, at, slot[c], c \in ToSet(progress'.queue), c \in ToSet(slot_freed'.queue)),
           c \in Requesters /\ slot[c] => at \notin {"remaining", "parked"},
           \/ waiter_count > 0 \/ slot_freed'.notified # {} \/ at \in {"drop_notify", "listen"}
           \/ ToSet(slot_freed'.queue) = {}
           \/ /\ pc[c] \notin {"drop_notify", "listen"} /\ at # "freed_parked"
              /\ slot_freed.notified # {} => slot_freed'.notified # {}
    PROVE  ReloadInv'
<1>1. /\ want' \in [Requesters -> 0..MaxProgress] /\ late' \in [Requesters -> BOOLEAN]
      /\ answer' \in [Requesters -> {"none", "Ready", "NotFound"}]
      /\ \A r \in Requesters \ {c} : want'[r] = want[r]
  BY BaseFacts
<1> QED BY <1>1, MoveStep

\* Trunk::listen without a slot, the registration and the two ends of a wait.
LEMMA WaitStep ==
    ASSUME ReloadInv, NEW c \in Clients, NoSlot(c) \/ Register(c) \/ Wake(c) \/ TimeOut(c)
    PROVE  ReloadInv'
<1>1. /\ waiter_count \in 0..WaiterCap /\ WaiterCap \in Nat \ {0}
      /\ progress \in Events(Clients) /\ EventOK(progress, Clients)
      /\ EventStep(progress, progress, c, Clients)
      /\ EventStep(slot_freed, slot_freed, c, Pushers)
      /\ PlaceRight(c, pc[c], slot[c], c \in ToSet(progress.queue), c \in ToSet(slot_freed.queue))
  BY BaseFacts
<1>2. UNCHANGED <<parts, notify_due, slot, waiter_count, slot_freed, want, late, answer>>
  BY DEF NoSlot, Register, Wake, TimeOut, trunkVars, requestVars
<1>3. EventStep(slot_freed, slot_freed', c, Pushers)
  BY <1>1, <1>2
<1>4. c \in Requesters <=> c \notin Pushers
  BY ClientsAssumption DEF Clients
<1>5. CASE NoSlot(c)
  <2> DEFINE at == IF c \in Pushers THEN "freed_listen" ELSE "recheck"
  <2>1. pc[c] = "listen" /\ waiter_count >= WaiterCap /\ pc' = [pc EXCEPT ![c] = at] /\ progress' = progress
    BY <1>5 DEF NoSlot, Goto
  <2>2. at \in Places /\ waiter_count > 0
    BY <1>1, <2>1 DEF Places
  <2>3. EventStep(progress, progress', c, Clients)
    BY <1>1, <2>1
  <2>4. ~slot[c]
    BY <1>1, <2>1 DEF PlaceRight, SlotPlaces
  <2>5. PlaceRight(c, at, slot[c], c \in ToSet(progress'.queue), c \in ToSet(slot_freed'.queue))
    BY <1>1, <1>2, <1>4, <2>1, <2>4 DEF PlaceRight, WaitPlaces, SlotPlaces, QueuePlaces,
            FreedPlaces, RequestPlaces
  <2> HIDE DEF at
  <2> QED BY <1>2, <1>3, <2>1, <2>2, <2>3, <2>4, <2>5, RunMove
<1>6. CASE Register(c)
  <2> DEFINE at == IF c \in Pushers THEN "parked" ELSE "recheck"
  <2>1. pc[c] = "register" /\ pc' = [pc EXCEPT ![c] = at] /\ progress' = Listen(progress, c)
    BY <1>6 DEF Register, Goto
  <2>2. at \in Places
    BY DEF Places
  <2>3. c \notin ToSet(progress.queue)
    BY <1>1, <2>1 DEF PlaceRight, QueuePlaces
  <2>4. EventStep(progress, progress', c, Clients) /\ c \in ToSet(progress'.queue)
    BY <1>1, <2>1, <2>3, ListenLemma
  <2>5. slot[c]
    BY <1>1, <2>1 DEF PlaceRight, WaitPlaces
  <2>6. PlaceRight(c, at, slot[c], c \in ToSet(progress'.queue), c \in ToSet(slot_freed'.queue))
    BY <1>1, <1>2, <1>4, <2>1, <2>4, <2>5 DEF PlaceRight, WaitPlaces, SlotPlaces, QueuePlaces,
            FreedPlaces, RequestPlaces
  <2>7. /\ c \in Requesters => at \notin {"remaining", "parked"}
        /\ pc[c] \notin {"drop_notify", "listen"} /\ at # "freed_parked"
    BY <1>4, <2>1
  <2> HIDE DEF at
  <2> QED BY <1>2, <1>3, <2>1, <2>2, <2>4, <2>6, <2>7, RunMove
<1>7. CASE Wake(c) \/ TimeOut(c)
  <2>1. /\ pc[c] = "parked" /\ pc' = [pc EXCEPT ![c] = "drop_slot"]
        /\ progress' = Consume(progress, c) \/ progress' = progress
    BY <1>7 DEF Wake, TimeOut, Goto
  <2>2. "drop_slot" \in Places
    BY DEF Places
  <2>3. EventStep(progress, progress', c, Clients)
    BY <1>1, <2>1, LeaveLemma
  <2>4. slot[c]
    BY <1>1, <2>1 DEF PlaceRight, WaitPlaces
  <2>5. PlaceRight(c, "drop_slot", slot[c], c \in ToSet(progress'.queue), c \in ToSet(slot_freed'.queue))
    BY <1>1, <1>2, <2>1, <2>4 DEF PlaceRight, WaitPlaces, SlotPlaces, QueuePlaces,
            FreedPlaces, RequestPlaces
  <2>6. "drop_slot" \notin {"remaining", "parked"} /\ "drop_slot" # "freed_parked"
        /\ pc[c] \notin {"drop_notify", "listen"}
    BY <2>1
  <2> QED BY <1>2, <1>3, <2>1, <2>2, <2>3, <2>5, <2>6, RunMove
<1> QED BY <1>5, <1>6, <1>7

\* The rest of a ProgressListener's drop.
LEMMA DropStep ==
    ASSUME ReloadInv, NEW c \in Clients, DropNotify(c) \/ DropListener(c)
    PROVE  ReloadInv'
<1>1. /\ progress \in Events(Clients) /\ EventOK(progress, Clients)
      /\ slot_freed \in Events(Pushers) /\ EventOK(slot_freed, Pushers)
      /\ EventStep(progress, progress, c, Clients)
      /\ EventStep(slot_freed, slot_freed, c, Pushers)
      /\ PlaceRight(c, pc[c], slot[c], c \in ToSet(progress.queue), c \in ToSet(slot_freed.queue))
  BY BaseFacts
<1>2. UNCHANGED <<parts, notify_due, slot, waiter_count, want, late, answer>>
  BY DEF DropNotify, DropListener, trunkVars, requestVars
<1>3. c \in Requesters <=> c \notin Pushers
  BY ClientsAssumption DEF Clients
<1>4. CASE DropNotify(c)
  <2>1. /\ pc[c] = "drop_notify" /\ pc' = [pc EXCEPT ![c] = "drop_listener"]
        /\ slot_freed' = Notify(slot_freed, 1) /\ progress' = progress
    BY <1>4 DEF DropNotify, Goto
  <2>2. "drop_listener" \in Places
    BY DEF Places
  <2>3. /\ slot_freed' \in Events(Pushers) /\ EventOK(slot_freed', Pushers)
        /\ slot_freed'.queue = slot_freed.queue /\ slot_freed.notified \subseteq slot_freed'.notified
        /\ ToSet(slot_freed.queue) # {} => slot_freed'.notified # {}
    <3> DEFINE e == slot_freed
               e2 == Notify(e, 1)
    <3>1. e \in Events(Pushers) /\ EventOK(e, Pushers) /\ 1 \in Nat \ {0}
      BY <1>1
    <3>2. slot_freed' = e2
      BY <2>1
    <3> HIDE DEF e
    <3>3. /\ e2 \in Events(Pushers) /\ EventOK(e2, Pushers)
          /\ e2.queue = e.queue /\ e.notified \subseteq e2.notified
          /\ ToSet(e.queue) # {} => e2.notified # {}
      BY <3>1, NotifyLemma
    <3> HIDE DEF e2
    <3> QED BY <3>2, <3>3 DEF e
  <2>4. EventStep(slot_freed, slot_freed', c, Pushers) /\ EventStep(progress, progress', c, Clients)
    <3>1. EventStep(slot_freed, slot_freed', c, Pushers)
      BY <2>3 DEF EventStep
    <3> QED BY <1>1, <2>1, <3>1
  <2>5. PlaceRight(c, "drop_listener", slot[c], c \in ToSet(progress'.queue), c \in ToSet(slot_freed'.queue))
    BY <1>1, <2>1, <2>3 DEF PlaceRight, WaitPlaces, SlotPlaces, QueuePlaces,
            FreedPlaces, RequestPlaces
  <2>6. slot_freed'.notified # {} \/ ToSet(slot_freed'.queue) = {}
    BY <2>3
  <2>7. "drop_listener" \notin {"remaining", "parked"}
    OBVIOUS
  <2> QED BY <1>2, <2>1, <2>2, <2>4, <2>5, <2>6, <2>7, RunMove
<1>5. CASE DropListener(c)
  <2> DEFINE at == IF c \in Pushers THEN "listen"
                   ELSE IF answer[c] = "none" THEN "resolve" ELSE "idle"
  <2>1. /\ pc[c] = "drop_listener" /\ pc' = [pc EXCEPT ![c] = at]
        /\ progress' = Discard(progress, c) /\ slot_freed' = slot_freed
    BY <1>5 DEF DropListener, Goto
  <2>2. at \in Places
    BY DEF Places
  <2>3. EventStep(progress, progress', c, Clients) /\ c \notin ToSet(progress'.queue)
    BY <1>1, <2>1, LeaveLemma
  <2>4. EventStep(slot_freed, slot_freed', c, Pushers)
    BY <1>1, <2>1
  <2>5. /\ at \notin {"remaining", "parked", "freed_parked"} /\ pc[c] \notin {"drop_notify", "listen"}
        /\ at \in {"listen", "resolve", "idle"}
        /\ c \in Pushers => at = "listen"
    BY <2>1
  <2> HIDE DEF at
  <2>6. PlaceRight(c, at, slot[c], c \in ToSet(progress'.queue), c \in ToSet(slot_freed'.queue))
    BY <1>1, <1>3, <2>1, <2>3, <2>5 DEF PlaceRight, WaitPlaces, SlotPlaces, QueuePlaces,
            FreedPlaces, RequestPlaces
  <2> QED BY <1>2, <2>1, <2>2, <2>3, <2>4, <2>5, <2>6, RunMove
<1> QED BY <1>4, <1>5

\* Trunk::waiter_slot_freed.
LEMMA FreedStepLemma ==
    ASSUME ReloadInv, NEW p \in Pushers, FreedStep(p) \/ FreedTimeOut(p)
    PROVE  ReloadInv'
<1>0. p \in Clients /\ p \notin Requesters
  BY ClientsAssumption DEF Clients
<1>1. /\ waiter_count \in 0..WaiterCap /\ WaiterCap \in Nat \ {0}
      /\ slot_freed \in Events(Pushers) /\ EventOK(slot_freed, Pushers)
      /\ EventStep(progress, progress, p, Clients)
      /\ EventStep(slot_freed, slot_freed, p, Pushers)
      /\ PlaceRight(p, pc[p], slot[p], p \in ToSet(progress.queue), p \in ToSet(slot_freed.queue))
  BY <1>0, BaseFacts
<1>2. UNCHANGED <<parts, notify_due, slot, waiter_count, progress, want, late, answer>>
  BY DEF FreedStep, FreedListen, FreedCheck, FreedWake, FreedTimeOut, trunkVars, requestVars
<1>3. EventStep(progress, progress', p, Clients)
  BY <1>1, <1>2
<1>4. CASE FreedListen(p)
  <2>1. /\ pc[p] = "freed_listen" /\ pc' = [pc EXCEPT ![p] = "freed_check"]
        /\ slot_freed' = Listen(slot_freed, p)
    BY <1>4 DEF FreedListen, Goto
  <2>2. "freed_check" \in Places /\ "freed_check" \notin {"remaining", "parked"}
    BY DEF Places
  <2>3. p \notin ToSet(slot_freed.queue)
    BY <1>1, <2>1 DEF PlaceRight, FreedPlaces
  <2>4. /\ EventStep(slot_freed, slot_freed', p, Pushers) /\ p \in ToSet(slot_freed'.queue)
        /\ slot_freed'.notified = slot_freed.notified
    BY <1>1, <2>1, <2>3, ListenLemma
  <2>5. PlaceRight(p, "freed_check", slot[p], p \in ToSet(progress'.queue), p \in ToSet(slot_freed'.queue))
    BY <1>0, <1>1, <1>2, <2>1, <2>4 DEF PlaceRight, WaitPlaces, SlotPlaces, QueuePlaces,
            FreedPlaces, RequestPlaces
  <2> QED BY <1>0, <1>2, <1>3, <2>1, <2>2, <2>4, <2>5, RunMove
<1>5. CASE FreedCheck(p) /\ waiter_count >= WaiterCap
  <2>1. /\ pc[p] = "freed_check" /\ pc' = [pc EXCEPT ![p] = "freed_parked"]
        /\ slot_freed' = slot_freed /\ waiter_count > 0
    BY <1>1, <1>5 DEF FreedCheck, Goto
  <2>2. "freed_parked" \in Places /\ "freed_parked" \notin {"remaining", "parked"}
    BY DEF Places
  <2>3. EventStep(slot_freed, slot_freed', p, Pushers)
    BY <1>1, <2>1
  <2>4. PlaceRight(p, "freed_parked", slot[p], p \in ToSet(progress'.queue), p \in ToSet(slot_freed'.queue))
    BY <1>0, <1>1, <1>2, <2>1 DEF PlaceRight, WaitPlaces, SlotPlaces, QueuePlaces,
            FreedPlaces, RequestPlaces
  <2> QED BY <1>0, <1>2, <1>3, <2>1, <2>2, <2>3, <2>4, RunMove
<1>6. CASE (FreedCheck(p) /\ waiter_count < WaiterCap) \/ FreedWake(p) \/ FreedTimeOut(p)
  <2>1. /\ pc[p] \in FreedPlaces /\ pc' = [pc EXCEPT ![p] = "listen"]
        /\ slot_freed' = Discard(slot_freed, p) \/ slot_freed' = Consume(slot_freed, p)
    BY <1>6 DEF FreedCheck, FreedWake, FreedTimeOut, Goto, FreedPlaces
  <2>2. "listen" \in Places /\ "listen" \notin {"remaining", "parked"}
    BY DEF Places
  <2>3. EventStep(slot_freed, slot_freed', p, Pushers) /\ p \notin ToSet(slot_freed'.queue)
    BY <1>1, <2>1, LeaveLemma
  <2>4. PlaceRight(p, "listen", slot[p], p \in ToSet(progress'.queue), p \in ToSet(slot_freed'.queue))
    BY <1>0, <1>1, <1>2, <2>1, <2>3 DEF PlaceRight, WaitPlaces, SlotPlaces, QueuePlaces,
            FreedPlaces, RequestPlaces
  <2> QED BY <1>0, <1>2, <1>3, <2>1, <2>2, <2>3, <2>4, RunMove
<1>7. FreedCheck(p) => waiter_count >= WaiterCap \/ waiter_count < WaiterCap
  BY <1>1
<1> QED BY <1>4, <1>5, <1>6, <1>7 DEF FreedStep

\* A step of resolve_blocking that touches neither the slots nor the events.
LEMMA RequestMove ==
    ASSUME ReloadInv, NEW r \in Requesters, NEW at \in Places,
           pc' = [pc EXCEPT ![r] = at], pc[r] # "listen", pc[r] # "drop_notify", at # "freed_parked",
           UNCHANGED <<parts, notify_due, slot, waiter_count, progress, slot_freed, want, late>>,
           answer' \in [Requesters -> {"none", "Ready", "NotFound"}],
           PlaceRight(r, at, slot[r], r \in ToSet(progress.queue), r \in ToSet(slot_freed.queue)),
           slot[r] /\ at \in {"remaining", "parked"} /\ r \notin progress.notified
              => ~(parts >= want[r]) \/ notify_due
    PROVE  ReloadInv'
<1>1. r \in Clients
  BY DEF Clients
<1>2. /\ want \in [Requesters -> 0..MaxProgress] /\ late \in [Requesters -> BOOLEAN]
      /\ EventStep(progress, progress, r, Clients)
      /\ EventStep(slot_freed, slot_freed, r, Pushers)
  BY <1>1, BaseFacts
<1>3. /\ want' \in [Requesters -> 0..MaxProgress] /\ late' \in [Requesters -> BOOLEAN]
      /\ \A d \in Requesters \ {r} : want'[d] = want[d]
  BY <1>2
<1>4. EventStep(progress, progress', r, Clients) /\ EventStep(slot_freed, slot_freed', r, Pushers)
  BY <1>2
<1>5. PlaceRight(r, at, slot[r], r \in ToSet(progress'.queue), r \in ToSet(slot_freed'.queue))
  OBVIOUS
<1>6. r \in Requesters /\ slot[r] /\ at \in {"remaining", "parked"} /\ r \notin progress'.notified
         => ~(parts >= want'[r]) \/ notify_due
  OBVIOUS
<1>7. /\ pc[r] \notin {"drop_notify", "listen"} /\ at # "freed_parked"
      /\ slot_freed.notified # {} => slot_freed'.notified # {}
  OBVIOUS
<1> QED BY <1>1, <1>3, <1>4, <1>5, <1>6, <1>7, MoveStep

\* Whatever the request was doing, its return gives back what it holds.
LEMMA ReturnStep ==
    ASSUME ReloadInv, NEW r \in Requesters, pc[r] \in {"resolve", "recheck", "remaining"},
           NEW resp \in {"Ready", "NotFound"}, Return(r, resp),
           UNCHANGED <<parts, notify_due, slot, waiter_count, progress, slot_freed, want, late>>
    PROVE  ReloadInv'
<1> DEFINE at == IF slot[r] THEN "drop_slot" ELSE "idle"
<1>1. r \in Clients /\ r \notin Pushers
  BY ClientsAssumption DEF Clients
<1>2. /\ answer \in [Requesters -> {"none", "Ready", "NotFound"}]
      /\ PlaceRight(r, pc[r], slot[r], r \in ToSet(progress.queue), r \in ToSet(slot_freed.queue))
  BY <1>1, BaseFacts
<1>3. pc' = [pc EXCEPT ![r] = at] /\ answer' \in [Requesters -> {"none", "Ready", "NotFound"}]
  BY <1>2 DEF Return, Goto
<1>4. at \in Places /\ at \notin {"remaining", "parked", "freed_parked"}
  BY DEF Places
<1>5. PlaceRight(r, at, slot[r], r \in ToSet(progress.queue), r \in ToSet(slot_freed.queue))
  <2>1. CASE slot[r]
    BY <1>1, <1>2, <2>1 DEF PlaceRight, WaitPlaces, SlotPlaces, QueuePlaces,
          FreedPlaces, RequestPlaces
  <2>2. CASE ~slot[r]
    <3>1. r \notin ToSet(progress.queue) /\ r \notin ToSet(slot_freed.queue)
      BY <1>2, <2>2 DEF PlaceRight, QueuePlaces, FreedPlaces
    <3> QED BY <1>1, <2>2, <3>1 DEF PlaceRight, WaitPlaces, SlotPlaces, QueuePlaces,
          FreedPlaces, RequestPlaces
  <2> QED BY <2>1, <2>2
<1>6. pc[r] # "listen" /\ pc[r] # "drop_notify"
  OBVIOUS
<1> HIDE DEF at
<1> QED BY <1>3, <1>4, <1>5, <1>6, RequestMove

\* resolve_blocking.
LEMMA RequestStepLemma ==
    ASSUME ReloadInv, NEW r \in Requesters, RequestStep(r)
    PROVE  ReloadInv'
<1>1. r \in Clients /\ r \notin Pushers
  BY ClientsAssumption DEF Clients
<1>2. /\ answer \in [Requesters -> {"none", "Ready", "NotFound"}]
      /\ PlaceRight(r, pc[r], slot[r], r \in ToSet(progress.queue), r \in ToSet(slot_freed.queue))
  BY <1>1, BaseFacts
<1>3. UNCHANGED <<parts, notify_due, slot, waiter_count, progress, slot_freed, want, late>>
  BY DEF RequestStep, Resolve, Recheck, Remaining, BackoffEnds, trunkVars, requestVars
<1>4. /\ resolve(r) # "Await" => resolve(r) \in {"Ready", "NotFound"}
      /\ resolve(r) = "Await" => ~(parts >= want[r])
      /\ late[r] => resolve(r) # "Await"
  BY DEF resolve
<1>5. CASE Resolve(r) /\ resolve(r) = "Await"
  <2>1. pc[r] = "resolve" /\ pc' = [pc EXCEPT ![r] = "listen"] /\ answer' = answer
    BY <1>5 DEF Resolve, Goto
  <2>2. "listen" \in Places
    BY DEF Places
  <2>3. PlaceRight(r, "listen", slot[r], r \in ToSet(progress.queue), r \in ToSet(slot_freed.queue))
    BY <1>1, <1>2, <2>1 DEF PlaceRight, WaitPlaces, SlotPlaces, QueuePlaces,
          FreedPlaces, RequestPlaces
  <2> QED BY <1>2, <1>3, <2>1, <2>2, <2>3, RequestMove
<1>6. CASE Recheck(r) /\ resolve(r) = "Await"
  <2>1. pc[r] = "recheck" /\ pc' = [pc EXCEPT ![r] = "remaining"] /\ answer' = answer
    BY <1>6 DEF Recheck, Goto
  <2>2. "remaining" \in Places
    BY DEF Places
  <2>3. PlaceRight(r, "remaining", slot[r], r \in ToSet(progress.queue), r \in ToSet(slot_freed.queue))
    BY <1>1, <1>2, <2>1 DEF PlaceRight, WaitPlaces, SlotPlaces, QueuePlaces,
          FreedPlaces, RequestPlaces
  <2> QED BY <1>2, <1>3, <1>4, <1>6, <2>1, <2>2, <2>3, RequestMove
<1>7. CASE Remaining(r) /\ ~late[r]
  <2> DEFINE at == IF slot[r] THEN "parked" ELSE "backoff"
  <2>1. pc[r] = "remaining" /\ pc' = [pc EXCEPT ![r] = at] /\ answer' = answer
    BY <1>7 DEF Remaining, Goto
  <2>2. at \in Places /\ at # "freed_parked"
    BY DEF Places
  <2>3. PlaceRight(r, at, slot[r], r \in ToSet(progress.queue), r \in ToSet(slot_freed.queue))
    <3>1. r \notin ToSet(slot_freed.queue) /\ (r \in ToSet(progress.queue) <=> slot[r])
      BY <1>2, <2>1 DEF PlaceRight, FreedPlaces
    <3>2. CASE slot[r]
      BY <1>1, <3>1, <3>2 DEF PlaceRight, WaitPlaces, SlotPlaces, QueuePlaces,
          FreedPlaces, RequestPlaces
    <3>3. CASE ~slot[r]
      BY <1>1, <3>1, <3>3 DEF PlaceRight, WaitPlaces, SlotPlaces, QueuePlaces,
          FreedPlaces, RequestPlaces
    <3> QED BY <3>2, <3>3
  <2>4. slot[r] /\ r \notin progress.notified => ~(parts >= want[r]) \/ notify_due
    BY <2>1 DEF ReloadInv, Rechecked
  <2> HIDE DEF at
  <2> QED BY <1>2, <1>3, <2>1, <2>2, <2>3, <2>4, RequestMove
<1>8. CASE BackoffEnds(r)
  <2>1. pc[r] = "backoff" /\ pc' = [pc EXCEPT ![r] = "resolve"] /\ answer' = answer
    BY <1>8 DEF BackoffEnds, Goto, requestVars
  <2>2. "resolve" \in Places
    BY DEF Places
  <2>3. PlaceRight(r, "resolve", slot[r], r \in ToSet(progress.queue), r \in ToSet(slot_freed.queue))
    BY <1>1, <1>2, <2>1 DEF PlaceRight, WaitPlaces, SlotPlaces, QueuePlaces,
          FreedPlaces, RequestPlaces
  <2> QED BY <1>2, <1>3, <2>1, <2>2, <2>3, RequestMove
<1>9. CASE (Resolve(r) /\ resolve(r) # "Await") \/ (Recheck(r) /\ resolve(r) # "Await")
           \/ (Remaining(r) /\ late[r])
  <2>1. /\ pc[r] \in {"resolve", "recheck", "remaining"} /\ Return(r, resolve(r))
        /\ resolve(r) \in {"Ready", "NotFound"}
    BY <1>4, <1>9 DEF Resolve, Recheck, Remaining
  <2> QED BY <1>3, <2>1, ReturnStep
<1> QED BY <1>5, <1>6, <1>7, <1>8, <1>9 DEF RequestStep

\* A new request.
LEMMA ArriveStep ==
    ASSUME ReloadInv, NEW r \in Requesters, NEW n \in 1..MaxProgress, Arrive(r, n)
    PROVE  ReloadInv'
<1>1. r \in Clients /\ r \notin Pushers
  BY ClientsAssumption DEF Clients
<1>2. /\ want \in [Requesters -> 0..MaxProgress] /\ late \in [Requesters -> BOOLEAN]
      /\ answer \in [Requesters -> {"none", "Ready", "NotFound"}]
      /\ EventStep(progress, progress, r, Clients)
      /\ EventStep(slot_freed, slot_freed, r, Pushers)
      /\ PlaceRight(r, pc[r], slot[r], r \in ToSet(progress.queue), r \in ToSet(slot_freed.queue))
  BY <1>1, BaseFacts
<1>3. /\ pc[r] = "idle" /\ pc' = [pc EXCEPT ![r] = "resolve"]
      /\ want' = [want EXCEPT ![r] = n] /\ late' = [late EXCEPT ![r] = FALSE]
      /\ answer' = [answer EXCEPT ![r] = "none"]
      /\ UNCHANGED <<parts, notify_due, slot, waiter_count, progress, slot_freed>>
  BY DEF Arrive, Goto, trunkVars
<1>4. want' \in [Requesters -> 0..MaxProgress] /\ \A d \in Requesters \ {r} : want'[d] = want[d]
  <2>1. n \in 0..MaxProgress
    BY BoundAssumption
  <2> QED BY <1>2, <1>3, <2>1
<1>5. late' \in [Requesters -> BOOLEAN]
  BY <1>2, <1>3
<1>6. answer' \in [Requesters -> {"none", "Ready", "NotFound"}]
  BY <1>2, <1>3
<1>7. EventStep(progress, progress', r, Clients) /\ EventStep(slot_freed, slot_freed', r, Pushers)
  BY <1>2, <1>3
<1>8. PlaceRight(r, "resolve", slot[r], r \in ToSet(progress'.queue), r \in ToSet(slot_freed'.queue))
  BY <1>1, <1>2, <1>3 DEF PlaceRight, WaitPlaces, SlotPlaces, QueuePlaces,
          FreedPlaces, RequestPlaces
<1>9. /\ "resolve" \in Places /\ "resolve" \notin {"remaining", "parked", "freed_parked"}
      /\ pc[r] \notin {"drop_notify", "listen"}
      /\ slot_freed.notified # {} => slot_freed'.notified # {}
  BY <1>3 DEF Places
<1> QED BY <1>1, <1>3, <1>4, <1>5, <1>6, <1>7, <1>8, <1>9, MoveStep

\* The writer's two steps, and the passing of a deadline.
LEMMA WriterStep ==
    ASSUME ReloadInv, PublishPart \/ NotifyProgress \/ \E r \in Requesters : DeadlinePasses(r)
    PROVE  ReloadInv'
<1>1. UNCHANGED <<waiter_count, slot_freed, pc, slot, want>>
  BY DEF PublishPart, NotifyProgress, DeadlinePasses, trunkVars, requestVars
<1>2. /\ parts \in 0..MaxProgress /\ notify_due \in BOOLEAN /\ late \in [Requesters -> BOOLEAN]
      /\ progress \in Events(Clients) /\ EventOK(progress, Clients) /\ MaxProgress \in Nat
  BY BoundAssumption DEF ReloadInv, TypeOK
<1>3. parts' \in 0..MaxProgress /\ notify_due' \in BOOLEAN
  <2>1. CASE PublishPart
    BY <1>2, <2>1 DEF PublishPart
  <2>2. CASE NotifyProgress
    BY <1>2, <2>2 DEF NotifyProgress
  <2>3. CASE \E r \in Requesters : DeadlinePasses(r)
    BY <1>2, <2>3 DEF DeadlinePasses, trunkVars
  <2> QED BY <2>1, <2>2, <2>3
<1>4. late' \in [Requesters -> BOOLEAN] /\ answer' = answer
  <2>1. CASE PublishPart \/ NotifyProgress
    BY <1>2, <2>1 DEF PublishPart, NotifyProgress, requestVars
  <2>2. CASE \E r \in Requesters : DeadlinePasses(r)
    BY <1>2, <2>2 DEF DeadlinePasses
  <2> QED BY <2>1, <2>2
<1>5. ASSUME NotifyProgress
      PROVE  /\ progress' \in Events(Clients) /\ EventOK(progress', Clients)
             /\ progress'.queue = progress.queue /\ progress'.notified = ToSet(progress.queue)
  <2> DEFINE e == progress
             k == Cardinality(Clients)
             e2 == Notify(e, k)
  <2>1. progress' = e2 /\ k \in Nat
    BY <1>5, FiniteClients, FS_CardinalityType DEF NotifyProgress
  <2>2. e \in Events(Clients) /\ EventOK(e, Clients) /\ IsFiniteSet(Clients)
    BY <1>2, FiniteClients
  <2>3. CASE Clients # {}
    <3>1. k \in Nat \ {0}
      BY <2>1, <2>2, <2>3, FS_EmptySet
    <3> HIDE DEF e
    <3>2. /\ e2 \in Events(Clients) /\ EventOK(e2, Clients) /\ e2.queue = e.queue
          /\ e2.notified = ToSet(e.queue)
      BY <2>2, <3>1, NotifyLemma
    <3> HIDE DEF e2
    <3> QED BY <2>1, <3>2 DEF e
  <2>4. CASE Clients = {}
    <3>1. e.queue \in Seq(Clients) /\ ToSet(e.queue) = {} /\ e.notified = {} /\ k = 0
      BY <2>2, <2>4, FS_EmptySet DEF Events, EventOK
    <3>2. Len(e.queue) \in Nat /\ ToSet(e.queue) = {e.queue[i] : i \in 1..Len(e.queue)}
      BY <3>1, ToSetLemma, SMTT(60)
    <3>3. 1..Len(e.queue) = {}
      BY <3>1, <3>2
    <3> DEFINE more == {e.queue[i] : i \in {j \in 1..Len(e.queue) :
                                  Cardinality(e.notified \cup Before(e, j)) < k}}
    <3>4. e2 = [e EXCEPT !.notified = e.notified \cup more]
      BY DEF Notify
    <3>5. more = {}
      BY <3>3
    <3> HIDE DEF more
    <3>6. e2 = e
      BY <2>2, <3>1, <3>4, <3>5 DEF Events
    <3> QED BY <2>1, <2>2, <3>1, <3>6
  <2> QED BY <2>3, <2>4
<1>6. /\ progress' \in Events(Clients) /\ EventOK(progress', Clients)
      /\ progress'.queue = progress.queue
  <2>1. CASE NotifyProgress
    BY <1>5, <2>1
  <2>2. CASE PublishPart \/ \E r \in Requesters : DeadlinePasses(r)
    BY <1>2, <2>2 DEF PublishPart, DeadlinePasses
  <2> QED BY <2>1, <2>2
<1>7. TypeOK'
  BY <1>1, <1>3, <1>4, <1>6 DEF ReloadInv, TypeOK
<1>8. \A c \in Clients : ClientRight(c)'
  BY <1>1, <1>6 DEF ReloadInv, ClientRight
<1>9. ASSUME NEW r \in Requesters PROVE Rechecked(r)'
  <2>1. Rechecked(r) /\ r \in Clients
    BY DEF ReloadInv, Clients
  <2>2. CASE PublishPart
    BY <2>2 DEF PublishPart, Rechecked
  <2>3. CASE NotifyProgress
    <3>1. ClientRight(r)
      BY <2>1 DEF ReloadInv
    <3>2. slot[r] /\ pc[r] \in {"remaining", "parked"} => r \in ToSet(progress.queue)
      BY <3>1 DEF ClientRight, PlaceRight
    <3> QED BY <1>1, <1>5, <2>3, <3>2 DEF Rechecked
  <2>4. CASE \E d \in Requesters : DeadlinePasses(d)
    BY <2>1, <2>4 DEF DeadlinePasses, Rechecked, trunkVars
  <2> QED BY <2>2, <2>3, <2>4
<1>10. ParkedOnlyWhileInUse'
  BY <1>1 DEF ReloadInv, ParkedOnlyWhileInUse
<1>11. waiter_count' = Cardinality(Owners') /\ slot_freed' \in Events(Pushers)
  BY <1>1 DEF ReloadInv, Owners
<1> QED BY <1>6, <1>7, <1>8, <1>9, <1>10, <1>11 DEF ReloadInv

LEMMA ReloadStep == ReloadInv /\ [Next]_vars => ReloadInv'
<1> SUFFICES ASSUME ReloadInv, [Next]_vars PROVE ReloadInv'
  OBVIOUS
<1>1. CASE PublishPart \/ NotifyProgress \/ \E r \in Requesters : DeadlinePasses(r)
  BY <1>1, WriterStep
<1>2. CASE \E c \in Clients : RunStep(c) \/ TimeOut(c)
  BY <1>2, SlotStep, WaitStep, DropStep DEF RunStep
<1>3. CASE \E r \in Requesters : RequestStep(r)
  BY <1>3, RequestStepLemma
<1>4. CASE \E r \in Requesters, n \in 1..MaxProgress : Arrive(r, n)
  BY <1>4, ArriveStep
<1>5. CASE \E p \in Pushers : FreedStep(p) \/ FreedTimeOut(p)
  BY <1>5, FreedStepLemma
<1>6. CASE UNCHANGED vars
  <2>1. UNCHANGED <<parts, notify_due, waiter_count, progress, slot_freed, pc, slot, want, late, answer>>
    BY <1>6 DEF vars
  <2> QED BY <2>1 DEF ReloadInv, TypeOK, Owners, ClientRight, Rechecked, ParkedOnlyWhileInUse
<1> QED BY <1>1, <1>2, <1>3, <1>4, <1>5, <1>6 DEF Next

LEMMA ReloadCorrect == Spec => []ReloadInv
<1> QED BY ReloadInit, ReloadStep, PTL DEF Spec

-----------------------------------------------------------------------------
\* WaiterSlot: however a wait ends, its slot is given back exactly once, the
\* count never passes part_waiter_cap, and no push output stays parked on
\* waiter_slot_freed with every slot free and nothing under way to wake it.
THEOREM SlotsSoundHolds == Spec => []SlotsSound
<1>1. ReloadInv => SlotsSound
  <2> SUFFICES ASSUME ReloadInv PROVE SlotsSound
    OBVIOUS
  <2>1. waiter_count = Cardinality({c \in Clients : slot[c]})
    BY DEF ReloadInv, Owners
  <2>2. \A c \in Clients : slot[c] => pc[c] \in SlotPlaces
    BY DEF ReloadInv, ClientRight, PlaceRight
  <2> QED BY <2>1, <2>2 DEF ReloadInv, SlotsSound, SlotsAccounted, SlotPlaces
<1> QED BY <1>1, ReloadCorrect, PTL

\* resolve_blocking registers before it looks again, and the writer notifies
\* after it has published: a parked request whose part is there has been
\* notified, or is about to be.
THEOREM NoMissedProgressHolds == Spec => []NoMissedProgress
<1>1. ReloadInv => NoMissedProgress
  <2> SUFFICES ASSUME ReloadInv, NEW r \in Requesters, pc[r] = "parked",
                      r \notin progress.notified, parts >= want[r]
               PROVE  notify_due
    BY DEF NoMissedProgress
  <2>1. ClientRight(r) /\ Rechecked(r)
    BY DEF ReloadInv, Clients
  <2>2. slot[r]
    BY <2>1 DEF ClientRight, PlaceRight, WaitPlaces
  <2> QED BY <2>1, <2>2 DEF Rechecked
<1> QED BY <1>1, ReloadCorrect, PTL
=============================================================================
