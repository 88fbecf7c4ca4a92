--------------------------- MODULE BlockingReload ---------------------------
(***************************************************************************)
(* Waiting for a media-plane Trunk to make progress.  HTTP requests for a  *)
(* part or playlist that does not exist yet (multimux's resolve_blocking)  *)
(* and push outputs (multimux's push loop) register on the trunk's         *)
(* progress event, at most WaiterCap of them at a time: Trunk::listen      *)
(* hands out a slot or None.  A request without a slot sleeps and retries; *)
(* a push output without one parks on a second event, slot_freed, which    *)
(* the drop of every slot notifies.                                        *)
(*                                                                         *)
(* Atomics, events and the trunk's lock are separate: each access is an    *)
(* action of its own, and so is each drop of a ProgressListener's fields.  *)
(***************************************************************************)
EXTENDS WakeList

CONSTANTS
    Requesters,     \* HTTP requests
    Pushers,        \* push outputs
    WaiterCap,      \* Trunk::part_waiter_cap, a NonZeroUsize
    MaxProgress     \* bound: parts published

ASSUME CapAssumption == WaiterCap \in Nat \ {0}
ASSUME BoundAssumption == MaxProgress \in Nat
ASSUME ClientsAssumption ==
    Requesters \cap Pushers = {} /\ IsFiniteSet(Requesters) /\ IsFiniteSet(Pushers)

VARIABLES
    parts,          \* parts and segments published so far
    notify_due,     \* the writer has unlocked and not yet notified
    waiter_count,   \* Trunk::waiter_count
    progress,       \* Trunk::progress
    slot_freed,     \* Trunk::slot_freed
    pc,             \* client -> where it is
    slot,           \* client -> does it own a WaiterSlot
    want,           \* requester -> the number of parts it asked for
    late,           \* requester -> its AwaitPolicy deadline has passed
    answer          \* requester -> the EgressResponse it is returning with

Clients == Requesters \cup Pushers
vars == <<parts, notify_due, waiter_count, progress, slot_freed, pc, slot,
          want, late, answer>>
trunkVars == <<parts, notify_due>>
requestVars == <<want, late, answer>>

Init ==
    /\ parts = 0 /\ notify_due = FALSE
    /\ waiter_count = 0
    /\ progress = NoListeners /\ slot_freed = NoListeners
    /\ pc = [c \in Clients |-> IF c \in Pushers THEN "listen" ELSE "idle"]
    /\ slot = [c \in Clients |-> FALSE]
    /\ want = [r \in Requesters |-> 0]
    /\ late = [r \in Requesters |-> FALSE]
    /\ answer = [r \in Requesters |-> "none"]

Goto(c, where) == pc' = [pc EXCEPT ![c] = where]

(***************************************************************************)
(* The writer: a part lands under the lock, the event is notified after.   *)
(***************************************************************************)
PublishPart ==
    /\ ~notify_due /\ parts < MaxProgress
    /\ parts' = parts + 1
    /\ notify_due' = TRUE
    /\ UNCHANGED <<waiter_count, progress, slot_freed, pc, slot, requestVars>>

NotifyProgress ==
    /\ notify_due
    /\ progress' = Notify(progress, Cardinality(Clients))
    /\ notify_due' = FALSE
    /\ UNCHANGED <<parts, waiter_count, slot_freed, pc, slot, requestVars>>

(***************************************************************************)
(* Trunk::listen and the drop of what it returns.                          *)
(***************************************************************************)

\* The compare_exchange that takes a slot.
TakeSlot(c) ==
    /\ pc[c] = "listen" /\ waiter_count < WaiterCap
    /\ waiter_count' = waiter_count + 1
    /\ slot' = [slot EXCEPT ![c] = TRUE]
    /\ Goto(c, "register")
    /\ UNCHANGED <<trunkVars, progress, slot_freed, requestVars>>

\* listen returns None; a push output turns to waiter_slot_freed.
NoSlot(c) ==
    /\ pc[c] = "listen" /\ waiter_count >= WaiterCap
    /\ Goto(c, IF c \in Pushers THEN "freed_listen" ELSE "recheck")
    /\ UNCHANGED <<trunkVars, waiter_count, progress, slot_freed, slot, requestVars>>

\* progress.listen(); a push output waits at once, it re-reads after waking.
Register(c) ==
    /\ pc[c] = "register"
    /\ progress' = Listen(progress, c)
    /\ Goto(c, IF c \in Pushers THEN "parked" ELSE "recheck")
    /\ UNCHANGED <<trunkVars, waiter_count, slot_freed, slot, requestVars>>

\* The ProgressListener future completes: its listener leaves the event.
Wake(c) ==
    /\ pc[c] = "parked" /\ c \in progress.notified
    /\ progress' = Consume(progress, c)
    /\ Goto(c, "drop_slot")
    /\ UNCHANGED <<trunkVars, waiter_count, slot_freed, slot, requestVars>>

\* Fault: no bound around the wait; only a notification ends it.
TimeOutAfterNotify(c) ==
    /\ pc[c] = "parked" /\ c \in progress.notified
    /\ Goto(c, "drop_slot")
    /\ UNCHANGED <<trunkVars, waiter_count, progress, slot_freed, slot, requestVars>>

\* The timeout around it fires first: the request's remaining time, or the
\* push loop's 250 ms.
TimeOut(c) ==
    /\ pc[c] = "parked" /\ c \notin progress.notified
    /\ c \in Requesters => late[c]
    /\ Goto(c, "drop_slot")
    /\ UNCHANGED <<trunkVars, waiter_count, progress, slot_freed, slot, requestVars>>

\* Drop for WaiterSlot, first half.
DropSlot(c) ==
    /\ pc[c] = "drop_slot"
    /\ waiter_count' = waiter_count - 1
    /\ slot' = [slot EXCEPT ![c] = FALSE]
    /\ Goto(c, "drop_notify")
    /\ UNCHANGED <<trunkVars, progress, slot_freed, requestVars>>

\* Drop for WaiterSlot, second half.
DropNotify(c) ==
    /\ pc[c] = "drop_notify"
    /\ slot_freed' = Notify(slot_freed, 1)
    /\ Goto(c, "drop_listener")
    /\ UNCHANGED <<trunkVars, waiter_count, progress, slot, requestVars>>

\* The listener field is dropped last; then the caller goes on.
DropListener(c) ==
    /\ pc[c] = "drop_listener"
    /\ progress' = Discard(progress, c)
    /\ Goto(c, IF c \in Pushers THEN "listen"
               ELSE IF answer[c] = "none" THEN "resolve" ELSE "idle")
    /\ UNCHANGED <<trunkVars, waiter_count, slot_freed, slot, requestVars>>

(***************************************************************************)
(* resolve_blocking: one HTTP request.                                     *)
(***************************************************************************)

Arrive(r, n) ==
    /\ pc[r] = "idle"
    /\ want' = [want EXCEPT ![r] = n]
    /\ late' = [late EXCEPT ![r] = FALSE]
    /\ answer' = [answer EXCEPT ![r] = "none"]
    /\ Goto(r, "resolve")
    /\ UNCHANGED <<trunkVars, waiter_count, progress, slot_freed, slot>>

DeadlinePasses(r) ==
    /\ pc[r] # "idle" /\ ~late[r]
    /\ late' = [late EXCEPT ![r] = TRUE]
    /\ UNCHANGED <<trunkVars, waiter_count, progress, slot_freed, pc, slot, want, answer>>

\* ServedEgress::resolve with EgressResponse::pending.
resolve(r) ==
    IF parts >= want[r] THEN "Ready" ELSE IF late[r] THEN "NotFound" ELSE "Await"

\* The call returns: the listener, if it holds one, is dropped on the way.
Return(r, resp) ==
    /\ answer' = [answer EXCEPT ![r] = resp]
    /\ Goto(r, IF slot[r] THEN "drop_slot" ELSE "idle")

Resolve(r) ==
    /\ pc[r] = "resolve"
    /\ \/ /\ resolve(r) = "Await"
          /\ Goto(r, "listen")
          /\ UNCHANGED answer
       \/ /\ resolve(r) # "Await"
          /\ Return(r, resolve(r))
    /\ UNCHANGED <<trunkVars, waiter_count, progress, slot_freed, slot, want, late>>

\* Fault: an answer found after registering returns without dropping the slot.
RecheckLeaking(r) ==
    /\ pc[r] = "recheck"
    /\ \/ /\ resolve(r) = "Await"
          /\ Goto(r, "remaining")
          /\ UNCHANGED answer
       \/ /\ resolve(r) # "Await"
          /\ answer' = [answer EXCEPT ![r] = resolve(r)]
          /\ Goto(r, "idle")
    /\ UNCHANGED <<trunkVars, waiter_count, progress, slot_freed, slot, want, late>>

\* Fault: the condition is not looked at again after registering.
RecheckSkipped(r) ==
    /\ pc[r] = "recheck"
    /\ Goto(r, "remaining")
    /\ UNCHANGED <<trunkVars, waiter_count, progress, slot_freed, slot, requestVars>>

\* The second look, after listen.
Recheck(r) ==
    /\ pc[r] = "recheck"
    /\ \/ /\ resolve(r) = "Await"
          /\ Goto(r, "remaining")
          /\ UNCHANGED answer
       \/ /\ resolve(r) # "Await"
          /\ Return(r, resolve(r))
    /\ UNCHANGED <<trunkVars, waiter_count, progress, slot_freed, slot, want, late>>

\* Out of time: one final resolve.  Otherwise park, or back off without a slot.
Remaining(r) ==
    /\ pc[r] = "remaining"
    /\ \/ /\ late[r]
          /\ Return(r, resolve(r))
       \/ /\ ~late[r]
          /\ Goto(r, IF slot[r] THEN "parked" ELSE "backoff")
          /\ UNCHANGED answer
    /\ UNCHANGED <<trunkVars, waiter_count, progress, slot_freed, slot, want, late>>

\* NO_SLOT_BACKOFF, or what remains of the deadline, has been slept through.
BackoffEnds(r) ==
    /\ pc[r] = "backoff"
    /\ Goto(r, "resolve")
    /\ UNCHANGED <<trunkVars, waiter_count, progress, slot_freed, slot, requestVars>>

(***************************************************************************)
(* Trunk::waiter_slot_freed, as the push loop uses it.                     *)
(***************************************************************************)

FreedListen(p) ==
    /\ pc[p] = "freed_listen"
    /\ slot_freed' = Listen(slot_freed, p)
    /\ Goto(p, "freed_check")
    /\ UNCHANGED <<trunkVars, waiter_count, progress, slot, requestVars>>

\* Register first, then re-check: a free slot drops the listener unused.
FreedCheck(p) ==
    /\ pc[p] = "freed_check"
    /\ IF waiter_count < WaiterCap
       THEN slot_freed' = Discard(slot_freed, p) /\ Goto(p, "listen")
       ELSE Goto(p, "freed_parked") /\ UNCHANGED slot_freed
    /\ UNCHANGED <<trunkVars, waiter_count, progress, slot, requestVars>>

FreedWake(p) ==
    /\ pc[p] = "freed_parked" /\ p \in slot_freed.notified
    /\ slot_freed' = Consume(slot_freed, p)
    /\ Goto(p, "listen")
    /\ UNCHANGED <<trunkVars, waiter_count, progress, slot, requestVars>>

\* The 250 ms cap; a notification that lands before the drop is handed on.
FreedTimeOut(p) ==
    /\ pc[p] = "freed_parked"
    /\ slot_freed' = Discard(slot_freed, p)
    /\ Goto(p, "listen")
    /\ UNCHANGED <<trunkVars, waiter_count, progress, slot, requestVars>>

\* What a client does of itself, no timer needed; a 20 ms sleep included.
RunStep(c) ==
    \/ TakeSlot(c) \/ NoSlot(c) \/ Register(c) \/ Wake(c)
    \/ DropSlot(c) \/ DropNotify(c) \/ DropListener(c)

RequestStep(r) == Resolve(r) \/ Recheck(r) \/ Remaining(r) \/ BackoffEnds(r)

FreedStep(p) == FreedListen(p) \/ FreedCheck(p) \/ FreedWake(p)

Next ==
    \/ PublishPart \/ NotifyProgress
    \/ \E c \in Clients : RunStep(c) \/ TimeOut(c)
    \/ \E r \in Requesters : RequestStep(r) \/ DeadlinePasses(r)
    \/ \E r \in Requesters, n \in 1..MaxProgress : Arrive(r, n)
    \/ \E p \in Pushers : FreedStep(p) \/ FreedTimeOut(p)

Spec == Init /\ [][Next]_vars

\* Tasks that can run do run.
RunFairness ==
    /\ WF_vars(NotifyProgress)
    /\ \A c \in Clients : WF_vars(RunStep(c))
    /\ \A r \in Requesters : WF_vars(RequestStep(r))
    /\ \A p \in Pushers : WF_vars(FreedStep(p))

\* The deadlines and the 250 ms caps expire too.
TimerFairness ==
    /\ \A c \in Clients : WF_vars(TimeOut(c))
    /\ \A r \in Requesters : WF_vars(DeadlinePasses(r))
    /\ \A p \in Pushers : WF_vars(FreedTimeOut(p))

FairSpec == Spec /\ RunFairness /\ TimerFairness

(***************************************************************************)
(* Properties.                                                             *)
(***************************************************************************)
Places == {"idle", "resolve", "listen", "register", "recheck", "remaining",
           "parked", "backoff", "drop_slot", "drop_notify", "drop_listener",
           "freed_listen", "freed_check", "freed_parked"}

EventOK(ev, S) ==
    /\ IsInjective(ev.queue)
    /\ ToSet(ev.queue) \subseteq S /\ ev.notified \subseteq ToSet(ev.queue)

\* The shape of the counters, the two events and the clients.
TypeOK ==
    /\ parts \in 0..MaxProgress /\ notify_due \in BOOLEAN
    /\ waiter_count \in 0..WaiterCap
    /\ EventOK(progress, Clients) /\ EventOK(slot_freed, Pushers)
    /\ pc \in [Clients -> Places] /\ slot \in [Clients -> BOOLEAN]
    /\ want \in [Requesters -> 0..MaxProgress] /\ late \in [Requesters -> BOOLEAN]
    /\ answer \in [Requesters -> {"none", "Ready", "NotFound"}]

\* No slot leaks and none is lent twice: the counter is the number of slots
\* really owned, and nobody owns one outside a wait, whichever way the wait
\* ended (answered on the re-check, woken, timed out).
SlotsAccounted ==
    /\ waiter_count = Cardinality({c \in Clients : slot[c]})
    /\ \A c \in Clients :
          slot[c] => pc[c] \in {"register", "recheck", "remaining", "parked", "drop_slot"}

\* A request never sleeps through its part: parked and not notified, its
\* part is missing, or the writer that published it has yet to notify
\* (listen registers before the re-check).
NoMissedProgress ==
    \A r \in Requesters :
        pc[r] = "parked" /\ r \notin progress.notified /\ parts >= want[r] => notify_due

\* Nobody waits for ever: requests end even if nothing is published again,
\* and a push output comes back from either wait.
EveryWaitEnds ==
    /\ \A r \in Requesters : pc[r] # "idle" ~> pc[r] = "idle"
    /\ \A p \in Pushers : pc[p] \in {"parked", "freed_parked"} ~> pc[p] = "listen"

\* A push output never stays parked on waiter_slot_freed with every slot free,
\* unless a wake-up or a taker is under way: while a slot is in use, its drop
\* is still to come.  (Beside some free slot it may: notify(1) does nothing
\* while an earlier woken caller has not run.)
ParkedOnlyWhileInUse ==
    \A p \in Pushers :
        pc[p] = "freed_parked" /\ p \notin slot_freed.notified =>
            \/ waiter_count > 0
            \/ slot_freed.notified # {}
            \/ \E c \in Clients : pc[c] \in {"drop_notify", "listen"}

\* The slots as a whole: every way out of a wait gives its slot back once, and
\* tells a push output that waits for one.
SlotsSound == TypeOK /\ SlotsAccounted /\ ParkedOnlyWhileInUse
=============================================================================
