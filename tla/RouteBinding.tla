---------------------------- MODULE RouteBinding ----------------------------
(***************************************************************************)
(* How a route's sources come and go: the supervisor retries an ingest     *)
(* attempt, an attempt holds sessions, a session brings a new trunk for    *)
(* each program it announces, and the route binds that trunk to the        *)
(* program unless another live publisher has it.  What a player sees must  *)
(* survive the change of trunk, and a push output must follow it.          *)
(*                                                                         *)
(* All sessions of a route run in the supervisor's task, one loop turn at  *)
(* a time; the push outputs are tasks of their own.  publish_program wakes *)
(* them while it holds the programs lock, so one turn is one step to them. *)
(***************************************************************************)
EXTENDS Integers, Sequences, FiniteSetsExt

CONSTANTS
    Kinds,          \* "pull": an attempt is one session; "listen": it accepts several
    Programs,       \* ProgramId
    Followers,      \* the route's push and WHEP outputs
    max_sessions,   \* Listener::max_sessions
    archive_floor,  \* the highest media sequence number the DVR archive holds
    MAX_AUTH_ATTEMPTS_BEFORE_PERMANENT,
    MAX_DESCRIBE_NOT_FOUND_BEFORE_PERMANENT,
    MaxSessions,    \* bound: sessions of the route, over all attempts
    MaxAttempts,    \* bound: attempts
    MaxWrites       \* bound: parts and segments published

ASSUME KindsAssumption == Kinds \subseteq {"pull", "listen"}
ASSUME ProgramsAssumption == Programs \subseteq Nat /\ IsFiniteSet(Programs)
ASSUME FloorAssumption == archive_floor \in Nat
ASSUME PermanentAssumption ==
    /\ MAX_AUTH_ATTEMPTS_BEFORE_PERMANENT \in Nat
    /\ MAX_DESCRIBE_NOT_FOUND_BEFORE_PERMANENT \in Nat
ASSUME BoundsAssumption == {MaxSessions, MaxAttempts, MaxWrites} \subseteq Nat

VARIABLES
    kind, servable,  \* the configuration: servable when ProgramServing::new accepts it
    sup,             \* the supervisor
    health,          \* RouteHandle::health
    sessions,        \* the sessions admitted so far
    active,          \* active_publisher: program -> trunk
    programs,        \* program -> the trunk it serves and its media sequence offset
    logs,            \* trunk -> its closed segments, and whether the next has parts
    followers,       \* the push outputs
    verdicts,        \* history: how each attempt ended
    shown            \* history: the media sequence numbers players were shown

config == <<kind, servable>>
route == <<active, programs, logs, shown>>
vars == <<config, sup, health, sessions, route, followers, verdicts>>

SessionIds == 1..MaxSessions
Trunk(s, p) == <<s, p>>
Trunks == SessionIds \X Programs
NoTrunk == <<0, 0>>

Unpublished == [trunk |-> NoTrunk, offset |-> 0]
EmptyLog == [closed |-> 0, open |-> FALSE]
Connected == [state |-> "connecting", published |-> {}]

Init ==
    /\ kind \in Kinds /\ servable \in BOOLEAN
    /\ sup = [pc |-> "attempt", auth |-> 0, missing |-> 0]
    /\ health = "Connecting"
    /\ sessions = <<>>
    /\ active = [p \in Programs |-> NoTrunk]
    /\ programs = [p \in Programs |-> Unpublished]
    /\ logs = [t \in Trunks |-> EmptyLog]
    /\ followers = [f \in Followers |->
                       [pc |-> "begin", trunk |-> NoTrunk, next |-> NoTrunk, notified |-> FALSE]]
    /\ verdicts = <<>>
    /\ shown = {}

Running(s) == sessions[s].state \in {"connecting", "live"}
RunningSessions == {s \in DOMAIN sessions : Running(s)}

-----------------------------------------------------------------------------
\* The route's registry.

\* Fault: continue right after the last closed segment.
next_media_sequence_closed(bound, lgs) == bound.offset + lgs[bound.trunk].closed

\* HlsOrigin::next_media_sequence of the bound program.
next_media_sequence(bound, lgs) == bound.offset + lgs[bound.trunk].closed + 1

media_sequence_offset(p, lgs) ==
    Max({archive_floor} \cup
        {next_media_sequence(b, lgs) : b \in {programs[p]} \ {Unpublished}})

\* Fault: only the outputs that are already waiting.
Notified_parked(fs) ==
    [f \in Followers |->
        IF fs[f].pc = "parked" THEN [fs[f] EXCEPT !.notified = TRUE] ELSE fs[f]]

\* notify_waiters: whoever has enabled its Notified; no permit is kept.
Notified(fs) ==
    [f \in Followers |->
        IF fs[f].pc \in {"enabled", "looked", "parked"} THEN [fs[f] EXCEPT !.notified = TRUE] ELSE fs[f]]

\* Fault: whoever comes last has the program.
Accepts_always(s, p) == TRUE

\* publish_program accepts a trunk when the program has no other publisher.
Accepts(s, p) == active[p] \in {NoTrunk, Trunk(s, p)}

\* publish_program for the programs new of session s: the ones it binds.  When
\* the serving state cannot be built the slot is given back and nothing bound.
Bound(s, new) == {p \in new : servable /\ Accepts(s, p)}

ActiveAfter(s, new) ==
    [p \in Programs |-> IF p \in Bound(s, new) THEN Trunk(s, p) ELSE active[p]]

ProgramsAfter(s, new) ==
    [p \in Programs |->
        IF p \in Bound(s, new)
        THEN [trunk |-> Trunk(s, p), offset |-> media_sequence_offset(p, logs)]
        ELSE programs[p]]

\* release_program: a slot is freed by its owner only.
release_program(act, s) ==
    [p \in Programs |-> IF act[p] = Trunk(s, p) THEN NoTrunk ELSE act[p]]

\* Fault: trust every exit path to have released.
release_all_publishers_trusting(act) == act

release_all_publishers(act) == [p \in Programs |-> NoTrunk]

\* first_trunk: of the lowest-numbered published program.
first_trunk ==
    LET published == {p \in Programs : programs[p] # Unpublished}
    IN  IF published = {} THEN NoTrunk ELSE programs[Min(published)].trunk

\* How many segments of a trunk a player can see: the closed ones, and the next
\* when parts of it are out.
Reach(log) == log.closed + (IF log.open THEN 1 ELSE 0)

\* What a player can see of the bound programs.
Shown(progs, lgs) ==
    UNION {{[program |-> p, msn |-> progs[p].offset + i, trunk |-> progs[p].trunk] :
                i \in 1..Reach(lgs[progs[p].trunk])} :
           p \in {q \in Programs : progs[q] # Unpublished}}

-----------------------------------------------------------------------------
\* advance_route: report the driver's progress, then let the segmenters publish.

Writes == [trunk : Trunks, close : BOOLEAN]
NoWrite == [trunk |-> NoTrunk, close |-> FALSE]
Written == FoldSet(LAMBDA t, n : n + Reach(logs[t]), 0, Trunks)

\* A segmenter publishes a part, or closes its segment.
LogsAfter(w) ==
    IF w = NoWrite THEN logs
    ELSE [logs EXCEPT ![w.trunk] =
             IF w.close THEN [closed |-> @.closed + 1, open |-> FALSE] ELSE [@ EXCEPT !.open = TRUE]]

\* What a session may write: to a trunk of its own.
SessionWrites(s, announced) ==
    {NoWrite} \cup {w \in Writes : /\ w.trunk \in {Trunk(s, p) : p \in announced}
                                   /\ Written < MaxWrites
                                   /\ w.close \/ ~logs[w.trunk].open}

New(s, announced) == announced \ sessions[s].published

\* advance_route for session s, which has now announced these programs, with
\* the segmenters writing w; act is what the turn leaves in the slots.
advance_route(s, announced, w, act) ==
    LET new == New(s, announced)
    IN  /\ programs' = ProgramsAfter(s, new)
        /\ active' = act
        /\ followers' = IF Bound(s, new) = {} THEN followers ELSE Notified(followers)
        /\ logs' = LogsAfter(w)
        /\ shown' = shown \cup Shown(programs', logs')

\* The session after its driver was fed.
Fed(s, announced, state) ==
    [sessions EXCEPT ![s] = [state |-> state, published |-> announced]]

\* A loop turn that received something with the handshake complete, perhaps by
\* it, and perhaps programs announced.
Received(s) ==
    /\ sup.pc = "attempt" /\ Running(s)
    /\ \E announced \in SUBSET Programs, w \in Writes \cup {NoWrite} :
          /\ sessions[s].published \subseteq announced
          /\ w \in SessionWrites(s, announced)
          /\ advance_route(s, announced, w, ActiveAfter(s, New(s, announced)))
          /\ sessions' = Fed(s, announced, "live")
    /\ health' = "Live"
    /\ UNCHANGED <<config, sup, verdicts>>

-----------------------------------------------------------------------------
\* The supervisor.

\* Fault: an attempt that went live leaves the counts alone.
Counts_kept(verdict) ==
    [auth |-> IF verdict = "auth" THEN sup.auth + 1 ELSE IF verdict = "live" THEN sup.auth ELSE 0,
     missing |-> IF verdict = "missing" THEN sup.missing + 1 ELSE 0]

Counts(verdict) ==
    [auth |-> IF verdict = "auth" THEN sup.auth + 1 ELSE 0,
     missing |-> IF verdict = "missing" THEN sup.missing + 1 ELSE 0]

Permanent(counts) ==
    \/ counts.missing > MAX_DESCRIBE_NOT_FOUND_BEFORE_PERMANENT
    \/ counts.auth > MAX_AUTH_ATTEMPTS_BEFORE_PERMANENT

\* supervise_driver after the attempt returned: health says whether it went live.
AttemptReturned(error, healthy) ==
    LET verdict == IF healthy = "Live" THEN "live" ELSE error
        counts == Counts(verdict)
    IN  /\ sup' = [pc |-> IF Permanent(counts) THEN "failed" ELSE "backoff",
                   auth |-> counts.auth, missing |-> counts.missing]
        /\ health' = IF Permanent(counts) THEN "Failed" ELSE "Reconnecting"
        /\ verdicts' = Append(verdicts, verdict)

\* The sessions of an attempt that is over.
Dropped(sess) == [s \in DOMAIN sess |-> [sess[s] EXCEPT !.state = "over"]]

Errors == {"auth", "missing", "other"}

\* A pull attempt has its session; a listener accepts while it has room.
Admit ==
    /\ sup.pc = "attempt" /\ Len(sessions) < MaxSessions
    /\ Cardinality(RunningSessions) < (IF kind = "pull" THEN 1 ELSE max_sessions)
    /\ sessions' = Append(sessions, Connected)
    /\ UNCHANGED <<config, sup, health, route, followers, verdicts>>

\* The session's last turn: end of stream, or a terminal driver.  It advances
\* the route once more and releases after it; a listener reaps the session.
Ends(s) ==
    /\ sup.pc = "attempt" /\ Running(s)
    /\ \E announced \in SUBSET Programs, w \in Writes \cup {NoWrite} :
          /\ sessions[s].published \subseteq announced
          /\ w \in SessionWrites(s, announced)
          /\ sessions' = Fed(s, announced, "over")
          /\ LET released == release_program(ActiveAfter(s, New(s, announced)), s)
             IN  IF kind = "listen"
                 THEN /\ advance_route(s, announced, w, released)
                      /\ UNCHANGED <<sup, health, verdicts>>
                 ELSE /\ advance_route(s, announced, w, release_all_publishers(released))
                      /\ \E error \in Errors : AttemptReturned(error, health)
    /\ UNCHANGED config

\* Any other end of the attempt: the dial or the bind fails, accept fails, the
\* scaffold returns early (a stalled read, a failed or late write, an error of
\* the step), a pull loop of its own stops.  Nothing more is advanced, and the
\* supervisor frees the slots whether or not the attempt did.
AttemptFails ==
    /\ sup.pc = "attempt"
    /\ \E error \in (IF kind = "pull" THEN Errors ELSE {"other"}) : AttemptReturned(error, health)
    /\ active' = release_all_publishers(active)
    /\ sessions' = Dropped(sessions)
    /\ UNCHANGED <<config, programs, logs, shown, followers>>

\* finish_vod: the source is complete; what it published stays served.
SourceFinished ==
    /\ sup.pc = "attempt" /\ kind = "pull" /\ RunningSessions # {}
    /\ health' = "Ended"
    /\ sup' = [sup EXCEPT !.pc = "ended"]
    /\ active' = release_all_publishers(active)
    /\ sessions' = Dropped(sessions)
    /\ UNCHANGED <<config, programs, logs, shown, followers, verdicts>>

\* The backoff elapsed.
Retry ==
    /\ sup.pc = "backoff" /\ Len(verdicts) < MaxAttempts
    /\ sup' = [sup EXCEPT !.pc = "attempt"]
    /\ health' = "Connecting"
    /\ UNCHANGED <<config, sessions, route, followers, verdicts>>

-----------------------------------------------------------------------------
\* A push output: follow_trunk around await_trunk_other_than.

\* The Notified is enabled before the registry is looked at.
Enable(f) ==
    /\ followers[f].pc = "begin"
    /\ followers' = [followers EXCEPT ![f].pc = "enabled", ![f].notified = FALSE]
    /\ UNCHANGED <<config, sup, health, sessions, route, verdicts>>

Look(f) ==
    /\ followers[f].pc = "enabled"
    /\ followers' =
          [followers EXCEPT ![f] =
              IF first_trunk \notin {NoTrunk, followers[f].trunk}
              THEN [@ EXCEPT !.pc = "rebind", !.next = first_trunk]
              ELSE [@ EXCEPT !.pc = "looked"]]
    /\ UNCHANGED <<config, sup, health, sessions, route, verdicts>>

\* notified.await is polled: it completes at once when a publish came since.
Await(f) ==
    /\ followers[f].pc = "looked"
    /\ followers' = [followers EXCEPT ![f].pc = "parked"]
    /\ UNCHANGED <<config, sup, health, sessions, route, verdicts>>

Woken(f) ==
    /\ followers[f].pc = "parked" /\ followers[f].notified
    /\ followers' = [followers EXCEPT ![f].pc = "begin", ![f].notified = FALSE]
    /\ UNCHANGED <<config, sup, health, sessions, route, verdicts>>

\* Fault: wait for the next change without looking again.
Rebind_blind(f) ==
    /\ followers[f].pc = "rebind"
    /\ followers' = [followers EXCEPT ![f].pc = "parked", ![f].trunk = followers[f].next,
                                      ![f].next = NoTrunk]
    /\ UNCHANGED <<config, sup, health, sessions, route, verdicts>>

\* The old run was cancelled and wound down, or its grace is over.
Rebind(f) ==
    /\ followers[f].pc = "rebind"
    /\ followers' = [followers EXCEPT ![f].pc = "begin", ![f].trunk = followers[f].next,
                                      ![f].next = NoTrunk]
    /\ UNCHANGED <<config, sup, health, sessions, route, verdicts>>

\* The output gave up for good.
EgressEnds(f) ==
    /\ followers[f].trunk # NoTrunk /\ followers[f].pc \in {"begin", "enabled", "looked", "parked"}
    /\ followers' = [followers EXCEPT ![f].pc = "done", ![f].notified = FALSE]
    /\ UNCHANGED <<config, sup, health, sessions, route, verdicts>>

Follow(f) == Enable(f) \/ Look(f) \/ Await(f) \/ Woken(f) \/ Rebind(f)

Next ==
    \/ Admit \/ AttemptFails \/ SourceFinished \/ Retry
    \/ \E s \in DOMAIN sessions : Received(s) \/ Ends(s)
    \/ \E f \in Followers : Follow(f) \/ EgressEnds(f)

\* The runtime polls a woken task, and the grace of a rebind ends.
Spec == Init /\ [][Next]_vars /\ \A f \in Followers : WF_vars(Follow(f))

-----------------------------------------------------------------------------
SupPcs == {"attempt", "backoff", "failed", "ended"}
SessionStates == [state : {"connecting", "live", "over"}, published : SUBSET Programs]
Bindings == [trunk : Trunks \cup {NoTrunk}, offset : Nat]
LogStates == [closed : Nat, open : BOOLEAN]
FollowerStates ==
    [pc : {"begin", "enabled", "looked", "parked", "rebind", "done"},
     trunk : Trunks \cup {NoTrunk}, next : Trunks \cup {NoTrunk}, notified : BOOLEAN]

TypeOK ==
    /\ kind \in Kinds /\ servable \in BOOLEAN
    /\ sup \in [pc : SupPcs, auth : 0..MAX_AUTH_ATTEMPTS_BEFORE_PERMANENT + 1,
                missing : 0..MAX_DESCRIBE_NOT_FOUND_BEFORE_PERMANENT + 1]
    /\ health \in {"Connecting", "Live", "Reconnecting", "Failed", "Ended"}
    /\ \A s \in DOMAIN sessions : sessions[s] \in SessionStates
    /\ active \in [Programs -> Trunks \cup {NoTrunk}]
    /\ programs \in [Programs -> Bindings]
    /\ logs \in [Trunks -> LogStates]
    /\ followers \in [Followers -> FollowerStates]

\* Every publisher slot belongs to a session that is still running, so a source
\* that reconnects is never refused for a publisher that is gone: each way an
\* attempt or a session ends frees what it held.
SlotHeldByLive == \A p \in Programs : active[p] # NoTrunk => Running(active[p][1])

\* active_publisher and programs agree: whoever holds a program's slot is what
\* the route serves, although the two maps change under different locks.
PublisherIsServed == \A p \in Programs : active[p] # NoTrunk => programs[p].trunk = active[p]

\* An output that waits without a wake-up pending is on the trunk the route
\* serves: no publish falls between its look and its wait.
NoMissedRebind ==
    \A f \in Followers :
        followers[f].pc = "parked" /\ ~followers[f].notified =>
            first_trunk \in {NoTrunk, followers[f].trunk}

\* The last n attempts were all refused this way, none of them going live.
RefusedInARow(error, n) ==
    /\ Len(verdicts) >= n
    /\ \A i \in Len(verdicts) - n + 1 .. Len(verdicts) : verdicts[i] = error

\* supervise_driver gives the route up after more than the allowed number of
\* consecutive permanent errors, and never otherwise.
GivesUpExactly ==
    sup.pc \in {"failed", "backoff"} =>
        (sup.pc = "failed" <=>
            \/ RefusedInARow("auth", MAX_AUTH_ATTEMPTS_BEFORE_PERMANENT + 1)
            \/ RefusedInARow("missing", MAX_DESCRIBE_NOT_FOUND_BEFORE_PERMANENT + 1))

\* A program changes hands only once the session it was served from is over.
NoTakeover ==
    [][\A p \in Programs :
          programs[p] # Unpublished /\ programs'[p].trunk # programs[p].trunk =>
              ~Running(programs[p].trunk[1])]_vars

\* A number a player is newly shown is above the archive's and above every
\* number it was shown before, of whatever connection, the parts of a segment
\* that never closed included.
NumbersOnlyGrow ==
    [][\A x \in shown' \ shown :
          /\ x.msn > archive_floor
          /\ \A y \in shown : y.program = x.program => y.msn < x.msn]_vars

\* follow_trunk: once the sources stop changing, every output that still runs
\* is on the trunk the route serves.
EgressFollows ==
    \A f \in Followers :
        <>[](followers[f].pc = "done" \/ followers[f].trunk = first_trunk)

\* The publisher slots as a whole: held by a running session, which is the one
\* the route serves.
PublisherSlots == TypeOK /\ SlotHeldByLive /\ PublisherIsServed
=============================================================================
