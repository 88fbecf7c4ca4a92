------------------------------ MODULE WakeList ------------------------------
(***************************************************************************)
(* The event_listener::Event that media-plane's Trunk uses for its two     *)
(* wake-ups (an external crate): a queue of listeners, some of them        *)
(* notified.  notify(n) makes sure that n listeners are notified, counting *)
(* the ones that already are and have not run yet; a notified listener     *)
(* that is dropped unseen hands its notification on.                       *)
(***************************************************************************)
EXTENDS Integers, FiniteSets, SequencesExt

NoListeners == [queue |-> <<>>, notified |-> {}]

Listen(ev, c) == [ev EXCEPT !.queue = Append(@, c)]

\* The listeners that registered before the one at place i.
Before(ev, i) == {ev.queue[j] : j \in 1..(i - 1)}

\* notify(n): the oldest listeners not notified yet, up to n in all.
Notify(ev, n) ==
    [ev EXCEPT !.notified = @ \cup
        {ev.queue[i] : i \in {j \in 1..Len(ev.queue) :
                                Cardinality(ev.notified \cup Before(ev, j)) < n}}]

\* The queue once c has left it.
Without(queue, c) ==
    IF c \in ToSet(queue)
    THEN RemoveAt(queue, CHOOSE i \in 1..Len(queue) : queue[i] = c) ELSE queue

\* A notified listener polled to completion.
Consume(ev, c) == [queue |-> Without(ev.queue, c), notified |-> ev.notified \ {c}]

\* A listener dropped without having been polled since.
Discard(ev, c) ==
    IF c \in ev.notified THEN Notify(Consume(ev, c), 1) ELSE Consume(ev, c)
=============================================================================
