------------------------- MODULE RouteBindingProofs -------------------------
(***************************************************************************)
(* Proofs about RouteBinding for every number of sessions, programs and    *)
(* push outputs, every archive floor and every limit of the supervisor.    *)
(***************************************************************************)
EXTENDS RouteBinding, FiniteSetTheorems, SequenceTheorems, WellFoundedInduction, TLAPS

\* The sessions are a list, no longer than its bound.
SessionsListed == sessions \in Seq(SessionStates) /\ Len(sessions) <= MaxSessions

\* While the supervisor still retries, no counter has reached its limit.
CountsInLimit ==
    sup.pc # "failed" => /\ sup.auth <= MAX_AUTH_ATTEMPTS_BEFORE_PERMANENT
                         /\ sup.missing <= MAX_DESCRIBE_NOT_FOUND_BEFORE_PERMANENT

\* A slot, or a served trunk, of program p is a session's trunk for p.
TrunksMatch ==
    \A p \in Programs :
        /\ active[p] # NoTrunk => \E s \in DOMAIN sessions : active[p] = Trunk(s, p)
        /\ programs[p] # Unpublished =>
              \E s \in DOMAIN sessions : programs[p].trunk = Trunk(s, p)

SlotsInv == /\ TypeOK /\ SessionsListed /\ CountsInLimit
            /\ TrunksMatch /\ SlotHeldByLive /\ PublisherIsServed

\* A pull attempt has one session at most.
OnePuller ==
    kind = "pull" =>
        \A s, t \in DOMAIN sessions : Running(s) /\ Running(t) => s = t

\* A served trunk whose session still runs holds its program's slot.
ServedHoldsSlot ==
    \A p \in Programs, s \in DOMAIN sessions :
        programs[p].trunk = Trunk(s, p) /\ Running(s) => active[p] = Trunk(s, p)

HandoverInv == SlotsInv /\ OnePuller /\ ServedHoldsSlot

\* NoMissedRebind from the look on.
LookStillHolds ==
    \A f \in Followers :
        followers[f].pc \in {"looked", "parked"} /\ ~followers[f].notified =>
            first_trunk \in {NoTrunk, followers[f].trunk}

\* A counter is the exact length of the run of its verdict at the end of verdicts.
CountsRun(error, n) ==
    /\ RefusedInARow(error, n)
    /\ n < Len(verdicts) => verdicts[Len(verdicts) - n] # error

CountsExact ==
    /\ verdicts \in Seq({"live", "auth", "missing", "other"})
    /\ CountsRun("auth", sup.auth) /\ CountsRun("missing", sup.missing)
    /\ sup.pc \in {"failed", "backoff"} =>
          (sup.pc = "failed" <=> Permanent([auth |-> sup.auth, missing |-> sup.missing]))

\* What was shown of a program is at most what its bound trunk reaches; what the
\* bound trunk reaches has been shown.
ShownWithinReach ==
    /\ \A y \in shown :
          /\ y.program \in Programs /\ y.msn \in Nat
          /\ programs[y.program] # Unpublished
          /\ y.msn <= programs[y.program].offset + Reach(logs[programs[y.program].trunk])
    /\ Shown(programs, logs) \subseteq shown
    /\ \A p \in Programs : programs[p] # Unpublished => programs[p].offset >= archive_floor

-----------------------------------------------------------------------------
\* A trunk of a listed session is a trunk, and none of them is NoTrunk.
LEMMA TrunkLemma ==
    ASSUME SessionsListed, NEW s \in DOMAIN sessions, NEW p \in Programs
    PROVE  /\ s \in SessionIds /\ s \in Nat /\ s > 0
           /\ Trunk(s, p) \in Trunks /\ Trunk(s, p) # NoTrunk /\ Trunk(s, p)[1] = s
<1>1. DOMAIN sessions = 1..Len(sessions) /\ Len(sessions) \in Nat
  BY LenProperties DEF SessionsListed
<1>2. s \in SessionIds /\ s \in Nat /\ s > 0
  BY <1>1, BoundsAssumption DEF SessionsListed, SessionIds
<1>3. Trunk(s, p) \in Trunks
  BY <1>2 DEF Trunk, Trunks
<1>4. Trunk(s, p)[1] = s /\ NoTrunk[1] = 0
  BY DEF Trunk, NoTrunk
<1> QED BY <1>2, <1>3, <1>4

\* The offset of a newly bound trunk is past the archive and past every number
\* the program's previous trunk can have shown (media_sequence_offset).
LEMMA OffsetLemma ==
    ASSUME TypeOK, SessionsListed, TrunksMatch, NEW p \in Programs
    PROVE  /\ media_sequence_offset(p, logs) \in Nat
           /\ media_sequence_offset(p, logs) >= archive_floor
           /\ programs[p] # Unpublished =>
                 /\ programs[p].trunk \in Trunks
                 /\ media_sequence_offset(p, logs)
                       >= programs[p].offset + logs[programs[p].trunk].closed + 1
<1> DEFINE next == programs[p].offset + logs[programs[p].trunk].closed + 1
<1>1. ASSUME NEW a \in Nat, NEW b \in Nat
      PROVE  Max({a} \cup {b}) \in {a, b} /\ Max({a} \cup {b}) >= a /\ Max({a} \cup {b}) >= b
  <2>1. \E x \in {a} \cup {b} : \A y \in {a} \cup {b} : x >= y
    <3>1. CASE a >= b
      BY <3>1
    <3>2. CASE b >= a
      BY <3>2
    <3> QED BY <3>1, <3>2
  <2> QED BY <2>1 DEF Max
<1>2. ASSUME NEW a \in Nat PROVE Max({a}) = a
  BY DEF Max
<1>3. archive_floor \in Nat
  BY FloorAssumption
<1>4. CASE programs[p] = Unpublished
  <2>1. media_sequence_offset(p, logs) = Max({archive_floor})
    <3>1. {next_media_sequence(b, logs) : b \in {programs[p]} \ {Unpublished}} = {}
      BY <1>4
    <3>2. {archive_floor} \cup {} = {archive_floor}
      OBVIOUS
    <3> QED BY <3>1, <3>2 DEF media_sequence_offset
  <2> QED BY <2>1, <1>2, <1>3, <1>4
<1>5. CASE programs[p] # Unpublished
  <2>1. PICK s \in DOMAIN sessions : programs[p].trunk = Trunk(s, p)
    BY <1>5 DEF TrunksMatch
  <2>2. programs[p].trunk \in Trunks
    BY <2>1, TrunkLemma
  <2>3. logs[programs[p].trunk].closed \in Nat /\ programs[p].offset \in Nat
    BY <2>2 DEF TypeOK, LogStates, Bindings
  <2>4. next \in Nat
    BY <2>3
  <2>5. {next_media_sequence(b, logs) : b \in {programs[p]} \ {Unpublished}} = {next}
    BY <1>5 DEF next_media_sequence
  <2>6. media_sequence_offset(p, logs) = Max({archive_floor} \cup {next})
    BY <2>5 DEF media_sequence_offset
  <2> QED BY <1>1, <1>3, <2>2, <2>4, <2>6
<1> QED BY <1>4, <1>5

\* What a log shows is its closed segments and at most one more.
LEMMA ReachLemma ==
    ASSUME NEW log \in LogStates
    PROVE  /\ log.closed \in Nat /\ Reach(log) \in Nat
           /\ log.closed <= Reach(log) /\ Reach(log) <= log.closed + 1
           /\ log.open => Reach(log) = log.closed + 1
<1>1. log.closed \in Nat
  BY DEF LogStates
<1>2. CASE log.open
  BY <1>1, <1>2 DEF Reach
<1>3. CASE ~log.open
  BY <1>1, <1>3 DEF Reach
<1> QED BY <1>1, <1>2, <1>3

\* A write to a log never takes away what it shows.
LEMMA WriteLemma ==
    ASSUME NEW log \in LogStates, NEW close \in BOOLEAN, NEW after,
           after = IF close THEN [closed |-> log.closed + 1, open |-> FALSE]
                   ELSE [log EXCEPT !.open = TRUE]
    PROVE  after \in LogStates /\ Reach(log) <= Reach(after)
<1>1. CASE close
  <2>1. after \in LogStates /\ after.closed = log.closed + 1
    BY <1>1 DEF LogStates
  <2> QED BY <2>1, ReachLemma
<1>2. CASE ~close
  <2>1. after \in LogStates /\ after.closed = log.closed /\ after.open
    BY <1>2 DEF LogStates
  <2> QED BY <2>1, ReachLemma
<1> QED BY <1>1, <1>2

\* A wake-up touches nothing but the notified flags, and sets them for every
\* output that has looked (notify_waiters).
LEMMA NotifiedLemma ==
    ASSUME NEW fs \in [Followers -> FollowerStates]
    PROVE  /\ Notified(fs) \in [Followers -> FollowerStates]
           /\ \A f \in Followers :
                 /\ Notified(fs)[f].pc = fs[f].pc
                 /\ fs[f].pc \in {"looked", "parked"} => Notified(fs)[f].notified
<1>1. ASSUME NEW f \in Followers
      PROVE  /\ Notified(fs)[f] \in FollowerStates
             /\ Notified(fs)[f].pc = fs[f].pc
             /\ fs[f].pc \in {"looked", "parked"} => Notified(fs)[f].notified
  <2>1. fs[f] \in FollowerStates
    OBVIOUS
  <2>2. CASE fs[f].pc \in {"enabled", "looked", "parked"}
    <3>1. Notified(fs)[f] = [fs[f] EXCEPT !.notified = TRUE]
      BY <2>2 DEF Notified
    <3> QED BY <2>1, <3>1 DEF FollowerStates
  <2>3. CASE fs[f].pc \notin {"enabled", "looked", "parked"}
    <3>1. Notified(fs)[f] = fs[f]
      BY <2>3 DEF Notified
    <3> QED BY <2>1, <2>3, <3>1
  <2> QED BY <2>2, <2>3
<1> QED BY <1>1 DEF Notified

\* What advance_route leaves behind is well typed, and follows the slots.
LEMMA AdvanceLemma ==
    ASSUME SlotsInv, NEW s \in DOMAIN sessions, NEW announced \in SUBSET Programs,
           NEW w \in Writes \cup {NoWrite}, w \in SessionWrites(s, announced),
           NEW act, advance_route(s, announced, w, act)
    PROVE  /\ active' = act
           /\ programs' = ProgramsAfter(s, New(s, announced))
           /\ programs' \in [Programs -> Bindings]
           /\ logs' \in [Trunks -> LogStates]
           /\ \A t \in Trunks : Reach(logs[t]) \in Nat /\ Reach(logs[t]) <= Reach(logs'[t])
           /\ followers' \in [Followers -> FollowerStates]
<1>1. TypeOK /\ SessionsListed /\ TrunksMatch
  BY DEF SlotsInv
<1>2. programs' \in [Programs -> Bindings]
  <2>1. ASSUME NEW p \in Programs
        PROVE  ProgramsAfter(s, New(s, announced))[p] \in Bindings
    <3>1. media_sequence_offset(p, logs) \in Nat /\ Trunk(s, p) \in Trunks
      BY <1>1, OffsetLemma, TrunkLemma
    <3> QED BY <3>1, <1>1 DEF ProgramsAfter, TypeOK, Bindings
  <2> QED BY <2>1 DEF advance_route, ProgramsAfter
<1>3. /\ logs' \in [Trunks -> LogStates]
      /\ \A t \in Trunks : Reach(logs[t]) \in Nat /\ Reach(logs[t]) <= Reach(logs'[t])
  <2>0. logs \in [Trunks -> LogStates]
    BY <1>1 DEF TypeOK
  <2>1. CASE w = NoWrite
    <3>1. logs' = logs
      BY <2>1 DEF advance_route, LogsAfter
    <3>2. ASSUME NEW t \in Trunks PROVE Reach(logs[t]) \in Nat
      BY <2>0, ReachLemma
    <3> QED BY <3>1, <3>2, <2>0
  <2>2. CASE w # NoWrite
    <3>1. w.trunk \in Trunks /\ w.close \in BOOLEAN
      BY <2>2 DEF Writes
    <3>2. logs[w.trunk] \in LogStates
      BY <3>1, <2>0
    <3> DEFINE after == IF w.close THEN [closed |-> logs[w.trunk].closed + 1, open |-> FALSE]
                        ELSE [logs[w.trunk] EXCEPT !.open = TRUE]
    <3>3. after \in LogStates /\ Reach(logs[w.trunk]) <= Reach(after)
      BY <3>1, <3>2, WriteLemma
    <3>4. logs' = [logs EXCEPT ![w.trunk] = after]
      BY <2>2 DEF advance_route, LogsAfter
    <3> HIDE DEF after
    <3>5. ASSUME NEW t \in Trunks
          PROVE  Reach(logs[t]) \in Nat /\ Reach(logs[t]) <= Reach(logs'[t])
      <4>0. Reach(logs[t]) \in Nat
        BY <2>0, ReachLemma
      <4>1. CASE t = w.trunk
        BY <4>0, <4>1, <3>3, <3>4, <2>0
      <4>2. CASE t # w.trunk
        <5>1. logs'[t] = logs[t]
          BY <4>2, <3>4, <2>0
        <5> QED BY <4>0, <5>1
      <4> QED BY <4>1, <4>2
    <3> QED BY <3>1, <3>3, <3>4, <3>5, <2>0
  <2> QED BY <2>1, <2>2
<1>4. followers' \in [Followers -> FollowerStates]
  BY <1>1, NotifiedLemma DEF advance_route, TypeOK
<1>5. active' = act /\ programs' = ProgramsAfter(s, New(s, announced))
  BY DEF advance_route
<1> QED BY <1>2, <1>3, <1>4, <1>5

\* Feeding a session changes that session only.
LEMMA FedLemma ==
    ASSUME SessionsListed, NEW s \in DOMAIN sessions, NEW announced \in SUBSET Programs,
           NEW state \in {"live", "over"}, sessions' = Fed(s, announced, state)
    PROVE  /\ SessionsListed' /\ DOMAIN sessions' = DOMAIN sessions
           /\ \A t \in DOMAIN sessions : t # s => sessions'[t] = sessions[t]
           /\ sessions'[s].state = state
           /\ \A t \in DOMAIN sessions : sessions'[t] \in SessionStates
<1>1. sessions \in Seq(SessionStates) /\ DOMAIN sessions = 1..Len(sessions)
  BY LenProperties DEF SessionsListed
<1> DEFINE new == [state |-> state, published |-> announced]
<1>2. new \in SessionStates /\ new.state = state
  BY DEF SessionStates
<1>3. sessions' = [sessions EXCEPT ![s] = new]
  BY DEF Fed
<1> HIDE DEF new
<1>4. sessions' \in Seq(SessionStates) /\ Len(sessions') = Len(sessions)
  BY <1>1, <1>2, <1>3, ExceptSeq
<1>5. DOMAIN sessions' = DOMAIN sessions /\ sessions'[s] = new
  BY <1>1, <1>3
<1>6. ASSUME NEW t \in DOMAIN sessions, t # s PROVE sessions'[t] = sessions[t]
  BY <1>6, <1>3
<1>7. ASSUME NEW t \in DOMAIN sessions PROVE sessions'[t] \in SessionStates
  BY <1>1, <1>2, <1>5, <1>6, ElementOfSeq
<1> QED BY <1>2, <1>4, <1>5, <1>6, <1>7 DEF SessionsListed

\* When an attempt is over, so are all its sessions.
LEMMA DroppedLemma ==
    ASSUME SessionsListed, sessions' = Dropped(sessions)
    PROVE  /\ SessionsListed' /\ DOMAIN sessions' = DOMAIN sessions
           /\ \A t \in DOMAIN sessions : sessions'[t] \in SessionStates /\ ~Running(t)'
<1>1. sessions \in Seq(SessionStates) /\ DOMAIN sessions = 1..Len(sessions) /\ Len(sessions) \in Nat
  BY LenProperties DEF SessionsListed
<1>2. ASSUME NEW t \in DOMAIN sessions
      PROVE  sessions'[t] \in SessionStates /\ sessions'[t].state = "over"
  <2>1. sessions[t] \in SessionStates
    BY <1>1, ElementOfSeq
  <2>2. sessions'[t] = [sessions[t] EXCEPT !.state = "over"]
    BY DEF Dropped
  <2> QED BY <2>1, <2>2 DEF SessionStates
<1>3. DOMAIN sessions' = 1..Len(sessions)
  BY <1>1 DEF Dropped
<1>4. sessions' \in Seq(SessionStates) /\ Len(sessions') = Len(sessions)
  <2>1. sessions' = [t \in 1..Len(sessions) |-> sessions'[t]]
    BY <1>1 DEF Dropped
  <2> QED BY <2>1, <1>1, <1>2, IsASeq, LenProperties
<1> QED BY <1>1, <1>2, <1>3, <1>4 DEF SessionsListed, Running

\* After an attempt returned the supervisor is well typed, and retries only
\* while both counters are within their limits.
LEMMA ReturnedLemma ==
    ASSUME TypeOK, CountsInLimit, sup.pc = "attempt", NEW error, NEW healthy,
           AttemptReturned(error, healthy)
    PROVE  /\ sup' \in [pc : SupPcs, auth : 0..MAX_AUTH_ATTEMPTS_BEFORE_PERMANENT + 1,
                        missing : 0..MAX_DESCRIBE_NOT_FOUND_BEFORE_PERMANENT + 1]
           /\ health' \in {"Connecting", "Live", "Reconnecting", "Failed", "Ended"}
           /\ CountsInLimit'
<1> DEFINE verdict == IF healthy = "Live" THEN "live" ELSE error
           counts == Counts(verdict)
<1>1. /\ sup.auth \in 0..MAX_AUTH_ATTEMPTS_BEFORE_PERMANENT
      /\ sup.missing \in 0..MAX_DESCRIBE_NOT_FOUND_BEFORE_PERMANENT
  BY PermanentAssumption DEF TypeOK, CountsInLimit
<1>2. /\ counts.auth \in 0..MAX_AUTH_ATTEMPTS_BEFORE_PERMANENT + 1
      /\ counts.missing \in 0..MAX_DESCRIBE_NOT_FOUND_BEFORE_PERMANENT + 1
  BY <1>1, PermanentAssumption DEF Counts
<1>3. /\ sup' = [pc |-> IF Permanent(counts) THEN "failed" ELSE "backoff",
                 auth |-> counts.auth, missing |-> counts.missing]
      /\ health' = IF Permanent(counts) THEN "Failed" ELSE "Reconnecting"
  BY DEF AttemptReturned
<1> HIDE DEF counts
<1>4. CASE Permanent(counts)
  BY <1>2, <1>3, <1>4 DEF SupPcs, CountsInLimit
<1>5. CASE ~Permanent(counts)
  BY <1>2, <1>3, <1>5, PermanentAssumption DEF SupPcs, CountsInLimit, Permanent
<1> QED BY <1>4, <1>5

\* A loop turn of session s that leaves a slot either as publish_program set it or
\* free, and keeps s in none of them once s is over.
LEMMA TurnLemma ==
    ASSUME SlotsInv, NEW s \in DOMAIN sessions, Running(s), NEW announced \in SUBSET Programs,
           NEW w \in Writes \cup {NoWrite}, w \in SessionWrites(s, announced),
           NEW state \in {"live", "over"}, sessions' = Fed(s, announced, state),
           NEW act \in [Programs -> Trunks \cup {NoTrunk}],
           \A p \in Programs : act[p] # NoTrunk =>
               /\ act[p] = ActiveAfter(s, New(s, announced))[p]
               /\ state = "live" \/ act[p] # Trunk(s, p),
           advance_route(s, announced, w, act)
    PROVE  /\ SessionsListed' /\ \A t \in DOMAIN sessions' : sessions'[t] \in SessionStates
           /\ active' \in [Programs -> Trunks \cup {NoTrunk}]
           /\ programs' \in [Programs -> Bindings]
           /\ logs' \in [Trunks -> LogStates]
           /\ followers' \in [Followers -> FollowerStates]
           /\ TrunksMatch' /\ SlotHeldByLive' /\ PublisherIsServed'
<1>1. /\ TypeOK /\ SessionsListed /\ TrunksMatch /\ SlotHeldByLive /\ PublisherIsServed
  BY DEF SlotsInv
<1>2. /\ SessionsListed' /\ DOMAIN sessions' = DOMAIN sessions
      /\ \A t \in DOMAIN sessions : t # s => sessions'[t] = sessions[t]
      /\ sessions'[s].state = state
      /\ \A t \in DOMAIN sessions : sessions'[t] \in SessionStates
  BY <1>1, FedLemma
<1> DEFINE new == New(s, announced)
<1>3. /\ active' = act /\ programs' = ProgramsAfter(s, new)
      /\ programs' \in [Programs -> Bindings]
      /\ logs' \in [Trunks -> LogStates]
      /\ followers' \in [Followers -> FollowerStates]
  BY AdvanceLemma
<1> HIDE DEF new
<1>4. ASSUME NEW p \in Programs, active'[p] # NoTrunk
      PROVE  /\ \E t \in DOMAIN sessions' : active'[p] = Trunk(t, p)
             /\ sessions'[active'[p][1]].state \in {"connecting", "live"}
             /\ programs'[p].trunk = active'[p]
  <2>1. /\ active'[p] = IF p \in Bound(s, new) THEN Trunk(s, p) ELSE active[p]
        /\ state = "live" \/ active'[p] # Trunk(s, p)
    BY <1>3, <1>4 DEF ActiveAfter, new
  <2>2. programs'[p] = IF p \in Bound(s, new)
                       THEN [trunk |-> Trunk(s, p), offset |-> media_sequence_offset(p, logs)]
                       ELSE programs[p]
    BY <1>3 DEF ProgramsAfter
  <2>3. CASE p \in Bound(s, new)
    <3>1. active'[p] = Trunk(s, p) /\ state = "live" /\ programs'[p].trunk = Trunk(s, p)
      BY <2>1, <2>2, <2>3
    <3>2. active'[p][1] = s /\ sessions'[s].state = "live"
      BY <3>1, <1>2 DEF Trunk
    <3> QED BY <3>1, <3>2, <1>2
  <2>4. CASE p \notin Bound(s, new)
    <3>1. active'[p] = active[p] /\ active[p] # NoTrunk /\ programs'[p] = programs[p]
      BY <2>1, <2>2, <2>4, <1>4
    <3>2. PICK t \in DOMAIN sessions : active[p] = Trunk(t, p)
      BY <3>1, <1>1 DEF TrunksMatch
    <3>3. active[p][1] = t /\ sessions[t].state \in {"connecting", "live"}
      <4>1. active[p][1] = t
        BY <3>2 DEF Trunk
      <4> QED BY <4>1, <3>1, <1>1 DEF SlotHeldByLive, Running
    <3>4. sessions'[t].state \in {"connecting", "live"}
      <4>1. CASE t = s
        <5>1. state = "live"
          BY <4>1, <3>1, <3>2, <2>1
        <5> QED BY <4>1, <5>1, <1>2
      <4>2. CASE t # s
        BY <4>2, <3>3, <1>2
      <4> QED BY <4>1, <4>2
    <3> QED BY <3>1, <3>2, <3>3, <3>4, <1>1, <1>2 DEF PublisherIsServed
  <2> QED BY <2>3, <2>4
<1>5. ASSUME NEW p \in Programs, programs'[p] # Unpublished
      PROVE  \E t \in DOMAIN sessions' : programs'[p].trunk = Trunk(t, p)
  <2>1. CASE p \in Bound(s, new)
    BY <2>1, <1>2, <1>3 DEF ProgramsAfter
  <2>2. CASE p \notin Bound(s, new)
    <3>1. programs'[p] = programs[p]
      BY <2>2, <1>3 DEF ProgramsAfter
    <3> QED BY <3>1, <1>1, <1>2, <1>5 DEF TrunksMatch
  <2> QED BY <2>1, <2>2
<1>6. TrunksMatch' /\ SlotHeldByLive' /\ PublisherIsServed'
  <2>1. TrunksMatch'
    BY <1>4, <1>5 DEF TrunksMatch, Trunk, NoTrunk, Unpublished
  <2>2. SlotHeldByLive'
    BY <1>4 DEF SlotHeldByLive, Running, NoTrunk
  <2>3. PublisherIsServed'
    BY <1>4 DEF PublisherIsServed, NoTrunk
  <2> QED BY <2>1, <2>2, <2>3
<1> QED BY <1>2, <1>3, <1>6

\* A nonempty finite set of program numbers has a least one.
LEMMA LeastLemma ==
    ASSUME NEW S \in SUBSET Nat, S # {}
    PROVE  Min(S) \in S
<1> DEFINE below == {ss \in Nat \X Nat : ss[1] < ss[2]}
<1>0. IsWellFoundedOn(below, Nat)
  BY NatLessThanWellFounded DEF OpToRel
<1>1. PICK n \in S : \A m \in S : ~(<<m, n>> \in below)
  <2> HIDE DEF below
  <2> QED BY <1>0, WFMin
<1>2. ASSUME NEW m \in S PROVE n <= m
  <2>1. m \in Nat /\ n \in Nat /\ ~(<<m, n>> \in below)
    BY <1>1
  <2>2. ~(<<m, n>>[1] < <<m, n>>[2])
    BY <2>1
  <2> QED BY <2>1, <2>2
<1> QED BY <1>2 DEF Min

\* An output is told of a program's trunk or of none.
LEMMA FirstTrunkLemma ==
    ASSUME TypeOK
    PROVE  first_trunk \in Trunks \cup {NoTrunk}
<1> DEFINE published == {p \in Programs : programs[p] # Unpublished}
<1>1. CASE published = {}
  BY <1>1 DEF first_trunk
<1>2. CASE published # {}
  <2>1. Min(published) \in published
    BY <1>2, LeastLemma, ProgramsAssumption
  <2>2. first_trunk = programs[Min(published)].trunk
    BY <1>2 DEF first_trunk
  <2> QED BY <2>1, <2>2 DEF TypeOK, Bindings
<1> QED BY <1>1, <1>2

\* What the follower actions leave alone is all that SlotsInv speaks of, besides
\* the shape of the followers.
LEMMA FollowLemma ==
    ASSUME SlotsInv, NEW f \in Followers, NEW r \in FollowerStates,
           followers' = [followers EXCEPT ![f] = r],
           UNCHANGED <<config, sup, health, sessions, route, verdicts>>
    PROVE  SlotsInv'
<1>1. followers' \in [Followers -> FollowerStates]
  BY DEF SlotsInv, TypeOK
<1>2. TypeOK'
  BY <1>1 DEF SlotsInv, TypeOK, config, route
<1> QED BY <1>2 DEF SlotsInv, SessionsListed, CountsInLimit, TrunksMatch, SlotHeldByLive,
                    PublisherIsServed, Running, config, route

\* The route starts with every slot free and nothing bound.
LEMMA SlotsInit == Init => SlotsInv
<1> SUFFICES ASSUME Init PROVE SlotsInv
  OBVIOUS
<1>1. sessions = <<>> /\ DOMAIN sessions = {} /\ Len(sessions) = 0
  BY DEF Init
<1>2. SessionsListed
  BY <1>1, BoundsAssumption DEF SessionsListed
<1>3. logs \in [Trunks -> LogStates]
  <2>1. EmptyLog \in LogStates
    BY DEF EmptyLog, LogStates
  <2> QED BY <2>1 DEF Init
<1>4. followers \in [Followers -> FollowerStates]
  <2> DEFINE r == [pc |-> "begin", trunk |-> NoTrunk, next |-> NoTrunk, notified |-> FALSE]
  <2>1. r \in FollowerStates
    BY DEF FollowerStates
  <2>2. followers = [f \in Followers |-> r]
    BY DEF Init
  <2> HIDE DEF r
  <2> QED BY <2>1, <2>2
<1>5. TypeOK
  <2>1. programs \in [Programs -> Bindings]
    BY DEF Init, Unpublished, Bindings
  <2>2. kind \in Kinds /\ servable \in BOOLEAN
    BY DEF Init
  <2>3. /\ sup \in [pc : SupPcs, auth : 0..MAX_AUTH_ATTEMPTS_BEFORE_PERMANENT + 1,
                     missing : 0..MAX_DESCRIBE_NOT_FOUND_BEFORE_PERMANENT + 1]
        /\ health \in {"Connecting", "Live", "Reconnecting", "Failed", "Ended"}
        /\ active \in [Programs -> Trunks \cup {NoTrunk}]
    BY PermanentAssumption DEF Init, SupPcs
  <2> QED BY <1>1, <1>3, <1>4, <2>1, <2>2, <2>3 DEF TypeOK
<1>6. active = [p \in Programs |-> NoTrunk] /\ programs = [p \in Programs |-> Unpublished]
  BY DEF Init
<1>7. TrunksMatch /\ SlotHeldByLive /\ PublisherIsServed
  BY <1>6 DEF TrunksMatch, SlotHeldByLive, PublisherIsServed
<1> QED BY <1>2, <1>5, <1>7, PermanentAssumption DEF SlotsInv, CountsInLimit, Init

\* An attempt that is over with all slots freed keeps the invariant, whatever its
\* supervisor does next.
LEMMA AttemptOverLemma ==
    ASSUME SlotsInv, active' = release_all_publishers(active), sessions' = Dropped(sessions),
           UNCHANGED <<config, programs, logs, shown, followers>>,
           sup' \in [pc : SupPcs, auth : 0..MAX_AUTH_ATTEMPTS_BEFORE_PERMANENT + 1,
                     missing : 0..MAX_DESCRIBE_NOT_FOUND_BEFORE_PERMANENT + 1],
           health' \in {"Connecting", "Live", "Reconnecting", "Failed", "Ended"},
           CountsInLimit'
    PROVE  SlotsInv'
<1>1. TypeOK /\ SessionsListed /\ TrunksMatch
  BY DEF SlotsInv
<1>2. /\ SessionsListed' /\ DOMAIN sessions' = DOMAIN sessions
      /\ \A t \in DOMAIN sessions : sessions'[t] \in SessionStates
  BY <1>1, DroppedLemma
<1>3. /\ active' \in [Programs -> Trunks \cup {NoTrunk}]
      /\ \A p \in Programs : active'[p] = NoTrunk
  BY DEF release_all_publishers
<1>4. TypeOK'
  BY <1>1, <1>2, <1>3 DEF TypeOK, config
<1>5. TrunksMatch'
  BY <1>1, <1>2, <1>3 DEF TrunksMatch, Trunk, NoTrunk, Unpublished
<1>6. SlotHeldByLive' /\ PublisherIsServed'
  BY <1>3 DEF SlotHeldByLive, PublisherIsServed, NoTrunk
<1> QED BY <1>2, <1>4, <1>5, <1>6 DEF SlotsInv

\* A new session changes none of the others.
LEMMA AdmitLemma ==
    ASSUME SessionsListed, Admit
    PROVE  /\ SessionsListed' /\ DOMAIN sessions' = DOMAIN sessions \cup {Len(sessions) + 1}
           /\ Len(sessions) \in Nat /\ DOMAIN sessions = 1..Len(sessions)
           /\ \A t \in DOMAIN sessions : sessions'[t] = sessions[t]
           /\ sessions'[Len(sessions) + 1] = Connected
           /\ \A t \in DOMAIN sessions' : sessions'[t] \in SessionStates
<1>1. sessions \in Seq(SessionStates) /\ DOMAIN sessions = 1..Len(sessions) /\ Len(sessions) \in Nat
  BY LenProperties DEF SessionsListed
<1>2. Connected \in SessionStates
  BY DEF Connected, SessionStates
<1>3. sessions' = Append(sessions, Connected) /\ Len(sessions) < MaxSessions
  BY DEF Admit
<1>4. /\ sessions' \in Seq(SessionStates) /\ Len(sessions') = Len(sessions) + 1
      /\ \A t \in 1..Len(sessions) : sessions'[t] = sessions[t]
      /\ sessions'[Len(sessions) + 1] = Connected
  BY <1>1, <1>2, <1>3, AppendProperties
<1>5. DOMAIN sessions' = 1..(Len(sessions) + 1)
  BY <1>4, LenProperties
<1>6. \A t \in DOMAIN sessions' : sessions'[t] \in SessionStates
  BY <1>4, <1>5, ElementOfSeq
<1> QED BY <1>1, <1>3, <1>4, <1>5, <1>6, BoundsAssumption DEF SessionsListed

\* Every step of the route keeps its slots in order.
LEMMA SlotsStep == SlotsInv /\ [Next]_vars => SlotsInv'
<1> SUFFICES ASSUME SlotsInv, [Next]_vars PROVE SlotsInv'
  OBVIOUS
<1>0. TypeOK /\ SessionsListed /\ CountsInLimit /\ TrunksMatch /\ SlotHeldByLive /\ PublisherIsServed
  BY DEF SlotsInv
<1>1. CASE Admit
  <2>1. /\ SessionsListed' /\ DOMAIN sessions \subseteq DOMAIN sessions'
        /\ \A t \in DOMAIN sessions : sessions'[t] = sessions[t]
        /\ \A t \in DOMAIN sessions' : sessions'[t] \in SessionStates
    BY <1>0, <1>1, AdmitLemma
  <2>2. UNCHANGED <<config, sup, health, route, followers, verdicts>>
    BY <1>1 DEF Admit
  <2>3. TypeOK' /\ CountsInLimit' /\ PublisherIsServed'
    BY <1>0, <2>1, <2>2 DEF TypeOK, CountsInLimit, PublisherIsServed, config, route
  <2>4. TrunksMatch'
    BY <1>0, <2>1, <2>2 DEF TrunksMatch, route, Trunk
  <2>5. SlotHeldByLive'
    <3>1. ASSUME NEW p \in Programs, active[p] # NoTrunk
          PROVE  sessions'[active[p][1]].state \in {"connecting", "live"}
      <4>1. PICK t \in DOMAIN sessions : active[p] = Trunk(t, p)
        BY <1>0, <3>1 DEF TrunksMatch
      <4>2. active[p][1] = t
        BY <4>1 DEF Trunk
      <4> QED BY <1>0, <2>1, <3>1, <4>2 DEF SlotHeldByLive, Running
    <3> QED BY <2>2, <3>1 DEF SlotHeldByLive, Running, route
  <2> QED BY <2>1, <2>3, <2>4, <2>5 DEF SlotsInv
<1>2. CASE AttemptFails
  <2>1. PICK error : AttemptReturned(error, health)
    BY <1>2 DEF AttemptFails
  <2> QED BY <1>0, <1>2, <2>1, ReturnedLemma, AttemptOverLemma DEF AttemptFails
<1>3. CASE SourceFinished
  <2>1. sup' = [sup EXCEPT !.pc = "ended"] /\ sup.pc = "attempt" /\ health' = "Ended"
    BY <1>3 DEF SourceFinished
  <2>2. /\ sup' \in [pc : SupPcs, auth : 0..MAX_AUTH_ATTEMPTS_BEFORE_PERMANENT + 1,
                     missing : 0..MAX_DESCRIBE_NOT_FOUND_BEFORE_PERMANENT + 1]
        /\ CountsInLimit'
    BY <1>0, <2>1 DEF TypeOK, SupPcs, CountsInLimit
  <2> QED BY <1>3, <2>1, <2>2, AttemptOverLemma DEF SourceFinished
<1>4. CASE Retry
  <2>1. /\ sup' = [sup EXCEPT !.pc = "attempt"] /\ sup.pc = "backoff" /\ health' = "Connecting"
        /\ UNCHANGED <<config, sessions, route, followers, verdicts>>
    BY <1>4 DEF Retry
  <2>2. TypeOK' /\ CountsInLimit'
    BY <1>0, <2>1 DEF TypeOK, SupPcs, CountsInLimit, config, route
  <2> QED BY <1>0, <2>1, <2>2 DEF SlotsInv, SessionsListed, TrunksMatch, SlotHeldByLive,
                                 PublisherIsServed, Running, route
<1>5. ASSUME NEW s \in DOMAIN sessions, Received(s)
      PROVE  SlotsInv'
  <2>1. PICK announced \in SUBSET Programs, w \in Writes \cup {NoWrite} :
          /\ w \in SessionWrites(s, announced)
          /\ advance_route(s, announced, w, ActiveAfter(s, New(s, announced)))
          /\ sessions' = Fed(s, announced, "live")
    BY <1>5 DEF Received
  <2> DEFINE act == ActiveAfter(s, New(s, announced))
  <2>2. act \in [Programs -> Trunks \cup {NoTrunk}]
    BY <1>0, TrunkLemma DEF ActiveAfter, TypeOK
  <2>3. Running(s) /\ health' = "Live" /\ UNCHANGED <<config, sup, verdicts>>
    BY <1>5 DEF Received
  <2>4. /\ SessionsListed' /\ \A t \in DOMAIN sessions' : sessions'[t] \in SessionStates
        /\ active' \in [Programs -> Trunks \cup {NoTrunk}]
        /\ programs' \in [Programs -> Bindings]
        /\ logs' \in [Trunks -> LogStates]
        /\ followers' \in [Followers -> FollowerStates]
        /\ TrunksMatch' /\ SlotHeldByLive' /\ PublisherIsServed'
    BY <2>1, <2>2, <2>3, TurnLemma
  <2>5. TypeOK' /\ CountsInLimit'
    BY <1>0, <2>3, <2>4 DEF TypeOK, CountsInLimit, config
  <2> QED BY <2>4, <2>5 DEF SlotsInv
<1>6. ASSUME NEW s \in DOMAIN sessions, Ends(s)
      PROVE  SlotsInv'
  <2>1. PICK announced \in SUBSET Programs, w \in Writes \cup {NoWrite} :
          /\ w \in SessionWrites(s, announced)
          /\ sessions' = Fed(s, announced, "over")
          /\ LET released == release_program(ActiveAfter(s, New(s, announced)), s)
             IN  IF kind = "listen"
                 THEN /\ advance_route(s, announced, w, released)
                      /\ UNCHANGED <<sup, health, verdicts>>
                 ELSE /\ advance_route(s, announced, w, release_all_publishers(released))
                      /\ \E error \in Errors : AttemptReturned(error, health)
    BY <1>6 DEF Ends
  <2>2. Running(s) /\ sup.pc = "attempt" /\ UNCHANGED config
    BY <1>6 DEF Ends
  <2> DEFINE released == release_program(ActiveAfter(s, New(s, announced)), s)
             free == release_all_publishers(released)
  <2>3. /\ released \in [Programs -> Trunks \cup {NoTrunk}]
        /\ \A p \in Programs : released[p] # NoTrunk =>
              /\ released[p] = ActiveAfter(s, New(s, announced))[p]
              /\ released[p] # Trunk(s, p)
    <3>1. ActiveAfter(s, New(s, announced)) \in [Programs -> Trunks \cup {NoTrunk}]
      BY <1>0, TrunkLemma DEF ActiveAfter, TypeOK
    <3> QED BY <3>1 DEF release_program
  <2>4. free \in [Programs -> Trunks \cup {NoTrunk}] /\ \A p \in Programs : free[p] = NoTrunk
    BY DEF release_all_publishers
  <2>5. PICK act \in {released, free} : advance_route(s, announced, w, act)
    BY <2>1
  <2>6. /\ act \in [Programs -> Trunks \cup {NoTrunk}]
        /\ \A p \in Programs : act[p] # NoTrunk =>
              /\ act[p] = ActiveAfter(s, New(s, announced))[p]
              /\ act[p] # Trunk(s, p)
    BY <2>3, <2>4, <2>5
  <2>7. /\ SessionsListed' /\ \A t \in DOMAIN sessions' : sessions'[t] \in SessionStates
        /\ active' \in [Programs -> Trunks \cup {NoTrunk}]
        /\ programs' \in [Programs -> Bindings]
        /\ logs' \in [Trunks -> LogStates]
        /\ followers' \in [Followers -> FollowerStates]
        /\ TrunksMatch' /\ SlotHeldByLive' /\ PublisherIsServed'
    BY <2>1, <2>2, <2>5, <2>6, TurnLemma
  <2>8. /\ sup' \in [pc : SupPcs, auth : 0..MAX_AUTH_ATTEMPTS_BEFORE_PERMANENT + 1,
                     missing : 0..MAX_DESCRIBE_NOT_FOUND_BEFORE_PERMANENT + 1]
        /\ health' \in {"Connecting", "Live", "Reconnecting", "Failed", "Ended"}
        /\ CountsInLimit'
    <3>1. CASE kind = "listen"
      BY <3>1, <2>1, <1>0 DEF TypeOK, CountsInLimit
    <3>2. CASE kind # "listen"
      BY <3>2, <2>1, <2>2, <1>0, ReturnedLemma
    <3> QED BY <3>1, <3>2
  <2>9. TypeOK'
    BY <1>0, <2>2, <2>7, <2>8 DEF TypeOK, config
  <2> QED BY <2>7, <2>8, <2>9 DEF SlotsInv
<1>7. ASSUME NEW f \in Followers, Follow(f) \/ EgressEnds(f)
      PROVE  SlotsInv'
  <2>1. followers \in [Followers -> FollowerStates] /\ followers[f] \in FollowerStates
    BY <1>0 DEF TypeOK
  <2>2. UNCHANGED <<config, sup, health, sessions, route, verdicts>>
    BY <1>7 DEF Follow, Enable, Look, Await, Woken, Rebind, EgressEnds
  <2>3. \E r \in FollowerStates : followers' = [followers EXCEPT ![f] = r]
    <3>1. CASE Look(f)
      <4>1. first_trunk \in Trunks \cup {NoTrunk}
        BY <1>0, FirstTrunkLemma
      <4> QED BY <2>1, <3>1, <4>1 DEF Look, FollowerStates
    <3>2. CASE ~Look(f)
      BY <1>7, <2>1, <3>2 DEF Follow, Enable, Await, Woken, Rebind, EgressEnds, FollowerStates
    <3> QED BY <3>1, <3>2
  <2> QED BY <2>2, <2>3, FollowLemma
<1>8. CASE UNCHANGED vars
  BY <1>0, <1>8 DEF SlotsInv, TypeOK, SessionsListed, CountsInLimit, TrunksMatch, SlotHeldByLive,
                    PublisherIsServed, Running, vars, config, route
<1> QED BY <1>1, <1>2, <1>3, <1>4, <1>5, <1>6, <1>7, <1>8 DEF Next

\* Every publisher slot is held by a running session, the one whose trunk the
\* route serves, whatever ends its attempts (publish_program, release_program,
\* release_all_publishers).
THEOREM PublisherSlotsHold == Spec => []PublisherSlots
<1>1. SlotsInv => PublisherSlots
  BY DEF SlotsInv, PublisherSlots
<1> QED BY <1>1, SlotsInit, SlotsStep, PTL DEF Spec

-----------------------------------------------------------------------------
\* Who is served, and who may take over.

\* Dropping or ending sessions never restarts one, and a turn runs in one that
\* was running already.
LEMMA TurnRunning ==
    ASSUME SessionsListed, NEW s \in DOMAIN sessions, Running(s), NEW announced \in SUBSET Programs,
           NEW state \in {"live", "over"}, sessions' = Fed(s, announced, state),
           NEW t \in DOMAIN sessions', Running(t)'
    PROVE  t \in DOMAIN sessions /\ Running(t) /\ (t = s => state = "live")
<1>1. /\ DOMAIN sessions' = DOMAIN sessions
      /\ \A u \in DOMAIN sessions : u # s => sessions'[u] = sessions[u]
      /\ sessions'[s].state = state
  BY FedLemma
<1>2. sessions'[t].state \in {"connecting", "live"}
  BY DEF Running
<1>3. CASE t = s
  BY <1>1, <1>2, <1>3
<1>4. CASE t # s
  BY <1>1, <1>2, <1>4 DEF Running
<1> QED BY <1>3, <1>4

\* A turn of session s keeps a served running session in its slot, when the only
\* slots it frees are those of s, or of anybody once s was the only one.
LEMMA HandoverTurn ==
    ASSUME HandoverInv, NEW s \in DOMAIN sessions, Running(s), NEW announced \in SUBSET Programs,
           NEW w \in Writes \cup {NoWrite}, w \in SessionWrites(s, announced),
           NEW state \in {"live", "over"}, sessions' = Fed(s, announced, state),
           NEW act, advance_route(s, announced, w, act), kind' = kind,
           \A p \in Programs :
               \/ act[p] = ActiveAfter(s, New(s, announced))[p]
               \/ /\ state = "over"
                  /\ ActiveAfter(s, New(s, announced))[p] = Trunk(s, p) \/ kind = "pull"
    PROVE  OnePuller' /\ ServedHoldsSlot'
<1> DEFINE new == New(s, announced)
<1>1. SlotsInv /\ SessionsListed /\ OnePuller /\ ServedHoldsSlot
  BY DEF HandoverInv, SlotsInv
<1>2. ASSUME NEW t \in DOMAIN sessions', Running(t)'
      PROVE  t \in DOMAIN sessions /\ Running(t) /\ (t = s => state = "live")
  BY <1>1, <1>2, TurnRunning
<1>3. active' = act /\ programs' = ProgramsAfter(s, new)
  BY <1>1, AdvanceLemma
<1>4. OnePuller'
  <2> SUFFICES ASSUME kind' = "pull", NEW t \in DOMAIN sessions', NEW u \in DOMAIN sessions',
                      Running(t)', Running(u)'
               PROVE  t = u
    BY DEF OnePuller
  <2> QED BY <1>1, <1>2 DEF OnePuller
<1> HIDE DEF new
<1>5. ASSUME NEW p \in Programs, NEW t \in DOMAIN sessions',
             programs'[p].trunk = Trunk(t, p), Running(t)'
      PROVE  active'[p] = Trunk(t, p)
  <2>1. t \in DOMAIN sessions /\ Running(t) /\ (t = s => state = "live")
    BY <1>2, <1>5
  <2>2. ActiveAfter(s, new)[p] = Trunk(t, p) /\ (t # s => p \notin Bound(s, new))
    <3>1. CASE p \in Bound(s, new)
      <4>1. programs'[p].trunk = Trunk(s, p)
        BY <3>1, <1>3 DEF ProgramsAfter
      <4>2. t = s
        BY <4>1, <1>5, <2>1, <1>1, TrunkLemma
      <4> QED BY <3>1, <4>2 DEF ActiveAfter
    <3>2. CASE p \notin Bound(s, new)
      <4>1. programs'[p] = programs[p] /\ ActiveAfter(s, new)[p] = active[p]
        BY <3>2, <1>3 DEF ProgramsAfter, ActiveAfter
      <4> QED BY <4>1, <3>2, <1>5, <2>1, <1>1 DEF ServedHoldsSlot
    <3> QED BY <3>1, <3>2
  <2>3. CASE act[p] = ActiveAfter(s, new)[p]
    BY <2>2, <2>3, <1>3
  <2>4. CASE state = "over" /\ (ActiveAfter(s, new)[p] = Trunk(s, p) \/ kind = "pull")
    <3>1. t # s
      BY <2>1, <2>4
    <3>2. CASE ActiveAfter(s, new)[p] = Trunk(s, p)
      <4>1. Trunk(s, p)[1] = s /\ Trunk(t, p)[1] = t
        BY <1>1, <2>1, TrunkLemma
      <4> QED BY <4>1, <3>1, <3>2, <2>2
    <3>3. CASE kind = "pull"
      BY <3>1, <3>3, <2>1, <1>1 DEF OnePuller
    <3> QED BY <2>4, <3>2, <3>3
  <2> QED BY <2>3, <2>4 DEF new
<1>6. ServedHoldsSlot'
  BY <1>5 DEF ServedHoldsSlot, Running, Trunk
<1> QED BY <1>4, <1>6

LEMMA HandoverInit == Init => HandoverInv
<1> SUFFICES ASSUME Init PROVE HandoverInv
  OBVIOUS
<1>1. DOMAIN sessions = {}
  BY DEF Init
<1> QED BY <1>1, SlotsInit DEF HandoverInv, OnePuller, ServedHoldsSlot

\* Every step keeps a program's slot with the running session it is served from.
LEMMA HandoverStep == HandoverInv /\ [Next]_vars => HandoverInv'
<1> SUFFICES ASSUME HandoverInv, [Next]_vars PROVE HandoverInv'
  OBVIOUS
<1>0. SlotsInv /\ TypeOK /\ SessionsListed /\ TrunksMatch /\ OnePuller /\ ServedHoldsSlot
  BY DEF HandoverInv, SlotsInv
<1>a. SlotsInv'
  BY <1>0, SlotsStep
<1> SUFFICES OnePuller' /\ ServedHoldsSlot'
  BY <1>a DEF HandoverInv
<1>1. CASE Admit
  <2> DEFINE n == Len(sessions) + 1
  <2>1. /\ DOMAIN sessions' = DOMAIN sessions \cup {n}
        /\ Len(sessions) \in Nat /\ DOMAIN sessions = 1..Len(sessions)
        /\ \A t \in DOMAIN sessions : sessions'[t] = sessions[t]
        /\ sessions'[n] = Connected
    BY <1>0, <1>1, AdmitLemma
  <2>2. UNCHANGED <<config, sup, health, route, followers, verdicts>>
    BY <1>1 DEF Admit
  <2>3. n \notin DOMAIN sessions /\ n # 0
    BY <2>1
  <2> HIDE DEF n
  <2>4. OnePuller'
    <3>1. CASE kind = "pull"
      <4>1. IsFiniteSet(RunningSessions)
        <5>1. IsFiniteSet(1..Len(sessions)) /\ RunningSessions \subseteq 1..Len(sessions)
          BY <2>1, FS_Interval DEF RunningSessions
        <5> QED BY <5>1, FS_Subset
      <4>2. Cardinality(RunningSessions) < 1
        BY <1>1, <3>1 DEF Admit
      <4>3. RunningSessions = {}
        BY <4>1, <4>2, FS_EmptySet, FS_CardinalityType
      <4>4. ASSUME NEW t \in DOMAIN sessions', Running(t)' PROVE t = n
        BY <4>3, <4>4, <2>1 DEF RunningSessions, Running
      <4> QED BY <4>4 DEF OnePuller, Running
    <3>2. CASE kind # "pull"
      BY <3>2, <2>2 DEF OnePuller, config
    <3> QED BY <3>1, <3>2
  <2>5. ASSUME NEW p \in Programs, NEW t \in DOMAIN sessions',
               programs[p].trunk = Trunk(t, p), Running(t)'
        PROVE  active[p] = Trunk(t, p)
    <3>1. CASE t = n
      <4>1. programs[p] # Unpublished
        BY <2>3, <2>5, <3>1 DEF Unpublished, Trunk, NoTrunk
      <4>2. PICK u \in DOMAIN sessions : programs[p].trunk = Trunk(u, p)
        BY <4>1, <1>0 DEF TrunksMatch
      <4>3. u = t
        BY <4>2, <2>5 DEF Trunk
      <4> QED BY <4>3, <3>1, <2>3
    <3>2. CASE t # n
      BY <3>2, <2>1, <2>5, <1>0 DEF ServedHoldsSlot, Running
    <3> QED BY <3>1, <3>2
  <2>6. ServedHoldsSlot'
    BY <2>2, <2>5 DEF ServedHoldsSlot, route, Trunk, Running
  <2> QED BY <2>4, <2>6
<1>2. CASE AttemptFails \/ SourceFinished
  <2>1. sessions' = Dropped(sessions)
    BY <1>2 DEF AttemptFails, SourceFinished
  <2>2. DOMAIN sessions' = DOMAIN sessions /\ \A t \in DOMAIN sessions : ~Running(t)'
    BY <1>0, <2>1, DroppedLemma
  <2>3. OnePuller'
    BY <2>2 DEF OnePuller, Running
  <2>4. ServedHoldsSlot'
    BY <2>2 DEF ServedHoldsSlot, Running
  <2> QED BY <2>3, <2>4
<1>3. ASSUME NEW s \in DOMAIN sessions, Received(s)
      PROVE  OnePuller' /\ ServedHoldsSlot'
  <2>1. PICK announced \in SUBSET Programs, w \in Writes \cup {NoWrite} :
          /\ w \in SessionWrites(s, announced)
          /\ advance_route(s, announced, w, ActiveAfter(s, New(s, announced)))
          /\ sessions' = Fed(s, announced, "live")
    BY <1>3 DEF Received
  <2>2. Running(s) /\ kind' = kind
    BY <1>3 DEF Received, config
  <2> QED BY <2>1, <2>2, HandoverTurn
<1>4. ASSUME NEW s \in DOMAIN sessions, Ends(s)
      PROVE  OnePuller' /\ ServedHoldsSlot'
  <2>1. PICK announced \in SUBSET Programs, w \in Writes \cup {NoWrite} :
          /\ w \in SessionWrites(s, announced)
          /\ sessions' = Fed(s, announced, "over")
          /\ LET released == release_program(ActiveAfter(s, New(s, announced)), s)
             IN  IF kind = "listen"
                 THEN /\ advance_route(s, announced, w, released)
                      /\ UNCHANGED <<sup, health, verdicts>>
                 ELSE /\ advance_route(s, announced, w, release_all_publishers(released))
                      /\ \E error \in Errors : AttemptReturned(error, health)
    BY <1>4 DEF Ends
  <2>2. Running(s) /\ kind' = kind
    BY <1>4 DEF Ends, config
  <2> DEFINE after == ActiveAfter(s, New(s, announced))
             released == release_program(after, s)
  <2>3. \A p \in Programs : released[p] = after[p] \/ after[p] = Trunk(s, p)
    BY DEF release_program
  <2>4. CASE kind = "listen"
    <3>1. advance_route(s, announced, w, released)
      BY <2>1, <2>4
    <3> QED BY <2>1, <2>2, <2>3, <3>1, HandoverTurn
  <2>5. CASE kind = "pull"
    <3>1. advance_route(s, announced, w, release_all_publishers(released))
      BY <2>1, <2>5
    <3> QED BY <2>1, <2>2, <2>5, <3>1, HandoverTurn
  <2> QED BY <2>4, <2>5, <1>0, KindsAssumption DEF TypeOK
<1>5. CASE Retry \/ (\E f \in Followers : Follow(f) \/ EgressEnds(f)) \/ UNCHANGED vars
  <2>1. kind' = kind /\ sessions' = sessions /\ active' = active /\ programs' = programs
    BY <1>5, Zenon DEF Retry, Follow, Enable, Look, Await, Woken, Rebind, EgressEnds, vars, config, route
  <2> QED BY <1>0, <2>1, Zenon DEF OnePuller, ServedHoldsSlot, Running
<1> QED BY <1>1, <1>2, <1>3, <1>4, <1>5 DEF Next

\* A turn of session s changes the trunk of a program only when the session that
\* program was served from is over.
LEMMA TakeoverTurn ==
    ASSUME HandoverInv, NEW s \in DOMAIN sessions, NEW announced \in SUBSET Programs,
           NEW w \in Writes \cup {NoWrite}, w \in SessionWrites(s, announced),
           NEW act, advance_route(s, announced, w, act),
           NEW p \in Programs, programs[p] # Unpublished,
           programs'[p].trunk # programs[p].trunk
    PROVE  ~Running(programs[p].trunk[1])
<1>1. SlotsInv /\ SessionsListed /\ TrunksMatch /\ ServedHoldsSlot
  BY DEF HandoverInv, SlotsInv
<1>2. programs' = ProgramsAfter(s, New(s, announced))
  BY <1>1, AdvanceLemma
<1>3. p \in Bound(s, New(s, announced)) /\ programs'[p].trunk = Trunk(s, p)
  BY <1>2 DEF ProgramsAfter
<1>4. active[p] \in {NoTrunk, Trunk(s, p)}
  BY <1>3 DEF Bound, Accepts
<1>5. PICK t \in DOMAIN sessions : programs[p].trunk = Trunk(t, p)
  BY <1>1 DEF TrunksMatch
<1>6. Trunk(t, p) # NoTrunk /\ programs[p].trunk[1] = t
  BY <1>1, <1>5, TrunkLemma
<1>7. ~Running(t)
  BY <1>1, <1>3, <1>4, <1>5, <1>6 DEF ServedHoldsSlot
<1> QED BY <1>6, <1>7

\* A program changes hands only once the session it was served from is over:
\* publish_program refuses a second publisher, and a slot is never freed while
\* its session still runs and is served.
THEOREM NoTakeoverHolds == Spec => NoTakeover
<1> DEFINE Kept == \A p \in Programs :
                       programs[p] # Unpublished /\ programs'[p].trunk # programs[p].trunk =>
                           ~Running(programs[p].trunk[1])
<1>1. HandoverInv /\ [Next]_vars => [Kept]_vars
  <2> SUFFICES ASSUME HandoverInv, Next, NEW p \in Programs, programs[p] # Unpublished,
                      programs'[p].trunk # programs[p].trunk
               PROVE  ~Running(programs[p].trunk[1])
    BY Zenon
  <2>1. PICK s \in DOMAIN sessions : Received(s) \/ Ends(s)
    BY Zenon DEF Next, Admit, AttemptFails, SourceFinished, Retry, Follow, Enable, Look, Await, Woken,
           Rebind, EgressEnds, route
  <2>2. \E announced \in SUBSET Programs, w \in Writes \cup {NoWrite}, act \in {active'} :
           w \in SessionWrites(s, announced) /\ advance_route(s, announced, w, act)
    BY <2>1 DEF Received, Ends, advance_route
  <2> QED BY <2>2, TakeoverTurn
<1>2. HandoverInv /\ [Next]_vars => HandoverInv'
  BY HandoverStep
<1> QED BY <1>1, <1>2, HandoverInit, PTL DEF Spec, NoTakeover

-----------------------------------------------------------------------------
\* The push outputs.

RebindInv == TypeOK /\ LookStillHolds

\* A step that leaves the programs alone, or wakes every output that has looked.
LEMMA WakeLemma ==
    ASSUME RebindInv,
           \/ programs' = programs /\ followers' = followers
           \/ followers' = Notified(followers)
    PROVE  LookStillHolds'
<1>0. followers \in [Followers -> FollowerStates] /\ LookStillHolds
  BY DEF RebindInv, TypeOK
<1>1. CASE programs' = programs /\ followers' = followers
  BY <1>0, <1>1 DEF LookStillHolds, first_trunk
<1>2. CASE followers' = Notified(followers)
  <2> SUFFICES ASSUME NEW f \in Followers, followers'[f].pc \in {"looked", "parked"}
               PROVE  followers'[f].notified
    BY DEF LookStillHolds
  <2>1. Notified(followers)[f].pc \in {"looked", "parked"} => Notified(followers)[f].notified
    BY <1>0, NotifiedLemma
  <2> QED BY <1>2, <2>1
<1> QED BY <1>1, <1>2

\* A session's turn either binds nothing, and then leaves the programs as they
\* were, or wakes the outputs.
LEMMA TurnWakes ==
    ASSUME TypeOK, NEW s, NEW announced, NEW w, NEW act, advance_route(s, announced, w, act)
    PROVE  \/ programs' = programs /\ followers' = followers
           \/ followers' = Notified(followers)
<1>1. CASE Bound(s, New(s, announced)) = {}
  <2>1. programs' = [p \in Programs |-> programs[p]]
    BY <1>1 DEF advance_route, ProgramsAfter
  <2>2. programs \in [Programs -> Bindings]
    BY DEF TypeOK
  <2>3. programs' = programs
    BY <2>1, <2>2
  <2> QED BY <1>1, <2>3 DEF advance_route
<1>2. CASE Bound(s, New(s, announced)) # {}
  BY <1>2 DEF advance_route
<1> QED BY <1>1, <1>2

\* An output's own step, which leaves the registry alone.
LEMMA LookLemma ==
    ASSUME RebindInv, NEW f \in Followers, Follow(f) \/ EgressEnds(f)
    PROVE  LookStillHolds'
<1>0. followers \in [Followers -> FollowerStates] /\ LookStillHolds
  BY DEF RebindInv, TypeOK
<1>1. programs' = programs /\ first_trunk' = first_trunk
  BY DEF Follow, Enable, Look, Await, Woken, Rebind, EgressEnds, route, first_trunk
<1>2. \A g \in Followers : g # f => followers'[g] = followers[g]
  BY <1>0 DEF Follow, Enable, Look, Await, Woken, Rebind, EgressEnds
<1> DEFINE r == followers[f]
           q == followers'[f]
<1>3. r \in FollowerStates
  BY <1>0
<1>4. q.pc \in {"looked", "parked"} /\ ~q.notified => first_trunk \in {NoTrunk, q.trunk}
  <2>1. CASE Enable(f)
    <3>1. q.pc = "enabled"
      BY <1>0, <1>3, <2>1 DEF Enable, FollowerStates
    <3> QED BY <3>1
  <2>2. CASE Look(f)
    <3>1. CASE first_trunk \notin {NoTrunk, r.trunk}
      <4>1. q = [r EXCEPT !.pc = "rebind", !.next = first_trunk]
        BY <1>0, <2>2, <3>1 DEF Look
      <4>2. q.pc = "rebind"
        BY <1>3, <4>1 DEF FollowerStates
      <4> QED BY <4>2
    <3>2. CASE first_trunk \in {NoTrunk, r.trunk}
      <4>1. q = [r EXCEPT !.pc = "looked"]
        BY <1>0, <2>2, <3>2 DEF Look
      <4>2. q.trunk = r.trunk
        BY <1>3, <4>1 DEF FollowerStates
      <4> QED BY <3>2, <4>2
    <3> QED BY <3>1, <3>2
  <2>3. CASE Await(f)
    <3>1. q = [r EXCEPT !.pc = "parked"] /\ r.pc = "looked"
      BY <1>0, <2>3 DEF Await
    <3>2. q.trunk = r.trunk /\ q.notified = r.notified
      BY <1>3, <3>1 DEF FollowerStates
    <3> QED BY <1>0, <3>1, <3>2 DEF LookStillHolds
  <2>4. CASE Woken(f)
    <3>1. q.pc = "begin"
      BY <1>0, <1>3, <2>4 DEF Woken, FollowerStates
    <3> QED BY <3>1
  <2>5. CASE Rebind(f)
    <3>1. q.pc = "begin"
      BY <1>0, <1>3, <2>5 DEF Rebind, FollowerStates
    <3> QED BY <3>1
  <2>6. CASE EgressEnds(f)
    <3>1. q.pc = "done"
      BY <1>0, <1>3, <2>6 DEF EgressEnds, FollowerStates
    <3> QED BY <3>1
  <2> QED BY <2>1, <2>2, <2>3, <2>4, <2>5, <2>6 DEF Follow
<1> HIDE DEF r, q
<1>5. ASSUME NEW g \in Followers, followers'[g].pc \in {"looked", "parked"}, ~followers'[g].notified
      PROVE  first_trunk' \in {NoTrunk, followers'[g].trunk}
  <2>1. CASE g = f
    BY <1>1, <1>4, <1>5, <2>1 DEF q
  <2>2. CASE g # f
    <3>1. followers'[g] = followers[g]
      BY <1>2, <2>2
    <3> QED BY <1>0, <1>1, <1>5, <3>1 DEF LookStillHolds
  <2> QED BY <2>1, <2>2
<1> QED BY <1>5 DEF LookStillHolds, NoTrunk

\* An output that waits unnotified is on the trunk the route serves: whatever is
\* published from its look on wakes it (await_trunk_other_than, publish_program).
THEOREM NoMissedRebindHolds == Spec => []NoMissedRebind
<1>1. Init => LookStillHolds
  BY DEF Init, LookStillHolds
<1>2. TypeOK /\ LookStillHolds /\ [Next]_vars => LookStillHolds'
  <2> SUFFICES ASSUME TypeOK, LookStillHolds, [Next]_vars PROVE LookStillHolds'
    OBVIOUS
  <2>0. RebindInv
    BY DEF RebindInv
  <2>1. CASE \E s \in DOMAIN sessions : Received(s) \/ Ends(s)
    <3>1. PICK s, announced, w, act : advance_route(s, announced, w, act)
      BY <2>1 DEF Received, Ends
    <3> QED BY <2>0, <3>1, TurnWakes, WakeLemma
  <2>2. CASE \E f \in Followers : Follow(f) \/ EgressEnds(f)
    BY <2>0, <2>2, LookLemma
  <2>3. CASE Admit \/ AttemptFails \/ SourceFinished \/ Retry \/ UNCHANGED vars
    <3>1. programs' = programs /\ followers' = followers
      BY <2>3 DEF Admit, AttemptFails, SourceFinished, Retry, vars, route
    <3> QED BY <2>0, <3>1, WakeLemma
  <2> QED BY <2>1, <2>2, <2>3 DEF Next
<1>3. SlotsInv => TypeOK
  BY DEF SlotsInv
<1>4. LookStillHolds => NoMissedRebind
  BY DEF LookStillHolds, NoMissedRebind
<1> QED BY <1>1, <1>2, <1>3, <1>4, SlotsInit, SlotsStep, PTL DEF Spec

-----------------------------------------------------------------------------
\* The supervisor's verdicts.

VerdictSet == {"live", "auth", "missing", "other"}

\* One more verdict: a counter that counts it grows by one, any other restarts.
LEMMA RunLemma ==
    ASSUME verdicts \in Seq(VerdictSet), NEW verdict \in VerdictSet,
           verdicts' = Append(verdicts, verdict),
           NEW error \in VerdictSet, NEW n \in Nat, CountsRun(error, n), NEW m \in Nat,
           m = IF verdict = error THEN n + 1 ELSE 0
    PROVE  /\ Len(verdicts') >= m
           /\ \A i \in Len(verdicts') - m + 1 .. Len(verdicts') : verdicts'[i] = error
           /\ m < Len(verdicts') => verdicts'[Len(verdicts') - m] # error
<1>1. /\ Len(verdicts) \in Nat /\ Len(verdicts') = Len(verdicts) + 1
      /\ \A i \in 1..Len(verdicts) : verdicts'[i] = verdicts[i]
      /\ verdicts'[Len(verdicts) + 1] = verdict
  BY AppendProperties, LenProperties
<1>2. CASE verdict = error
  BY <1>1, <1>2 DEF CountsRun, RefusedInARow
<1>3. CASE verdict # error
  BY <1>1, <1>3
<1> QED BY <1>2, <1>3

\* An attempt that returns keeps both counters exact.
LEMMA VerdictLemma ==
    ASSUME TypeOK, CountsExact, NEW error \in Errors, NEW healthy, AttemptReturned(error, healthy)
    PROVE  CountsExact'
<1> DEFINE verdict == IF healthy = "Live" THEN "live" ELSE error
           counts == Counts(verdict)
<1>1. verdict \in VerdictSet /\ verdicts \in Seq(VerdictSet) /\ verdicts' = Append(verdicts, verdict)
  BY DEF Errors, CountsExact, AttemptReturned, VerdictSet
<1>2. sup.auth \in Nat /\ sup.missing \in Nat
  BY PermanentAssumption DEF TypeOK
<1>3. /\ sup' = [pc |-> IF Permanent(counts) THEN "failed" ELSE "backoff",
                 auth |-> counts.auth, missing |-> counts.missing]
  BY DEF AttemptReturned
<1>4. /\ counts.auth = (IF verdict = "auth" THEN sup.auth + 1 ELSE 0)
      /\ counts.missing = (IF verdict = "missing" THEN sup.missing + 1 ELSE 0)
      /\ counts = [auth |-> counts.auth, missing |-> counts.missing]
  BY DEF Counts
<1> HIDE DEF counts, verdict
<1>5. sup'.auth = counts.auth /\ sup'.missing = counts.missing
  BY <1>3
<1>6. verdicts' \in Seq(VerdictSet)
  BY <1>1, AppendProperties
<1>7. CountsRun("auth", sup.auth)'
  <2>1. counts.auth \in Nat
    BY <1>2, <1>4
  <2>2. CountsRun("auth", sup.auth) /\ "auth" \in VerdictSet
    BY DEF CountsExact, VerdictSet
  <2>3. /\ Len(verdicts') >= counts.auth
        /\ \A i \in Len(verdicts') - counts.auth + 1 .. Len(verdicts') : verdicts'[i] = "auth"
        /\ counts.auth < Len(verdicts') => verdicts'[Len(verdicts') - counts.auth] # "auth"
    BY <1>1, <1>2, <1>4, <2>1, <2>2, RunLemma, SMTT(60)
  <2> QED BY <1>5, <2>1, <2>3 DEF CountsRun, RefusedInARow
<1>8. CountsRun("missing", sup.missing)'
  <2>1. counts.missing \in Nat
    BY <1>2, <1>4
  <2>2. CountsRun("missing", sup.missing) /\ "missing" \in VerdictSet
    BY DEF CountsExact, VerdictSet
  <2>3. /\ Len(verdicts') >= counts.missing
        /\ \A i \in Len(verdicts') - counts.missing + 1 .. Len(verdicts') : verdicts'[i] = "missing"
        /\ counts.missing < Len(verdicts') => verdicts'[Len(verdicts') - counts.missing] # "missing"
    BY <1>1, <1>2, <1>4, <2>1, <2>2, RunLemma, SMTT(60)
  <2> QED BY <1>5, <2>1, <2>3 DEF CountsRun, RefusedInARow
<1>9. sup'.pc = "failed" <=> Permanent([auth |-> sup'.auth, missing |-> sup'.missing])
  BY <1>3, <1>4, <1>5 DEF Permanent
<1> QED BY <1>6, <1>7, <1>8, <1>9 DEF CountsExact, VerdictSet, Permanent

\* An exact counter reaches n + 1 just when the last n + 1 verdicts were all its.
LEMMA ExactLemma ==
    ASSUME verdicts \in Seq(VerdictSet), NEW error, NEW n \in Nat, NEW limit \in Nat,
           CountsRun(error, n)
    PROVE  n > limit <=> RefusedInARow(error, limit + 1)
<1>1. Len(verdicts) \in Nat
  BY LenProperties
<1>2. ASSUME n > limit PROVE RefusedInARow(error, limit + 1)
  BY <1>1, <1>2 DEF CountsRun, RefusedInARow
<1>3. ASSUME n <= limit, RefusedInARow(error, limit + 1) PROVE FALSE
  <2>1. n < Len(verdicts) /\ Len(verdicts) - n \in Len(verdicts) - (limit + 1) + 1 .. Len(verdicts)
    BY <1>1, <1>3 DEF RefusedInARow
  <2>2. verdicts[Len(verdicts) - n] = error
    BY <1>3, <2>1 DEF RefusedInARow
  <2> QED BY <2>1, <2>2 DEF CountsRun
<1> QED BY <1>2, <1>3

\* supervise_driver gives a route up exactly when more than the allowed number of
\* attempts in a row were refused the same way, none of them going live.
THEOREM GivesUpExactlyHolds == Spec => []GivesUpExactly
<1>1. Init => CountsExact
  <2> SUFFICES ASSUME Init PROVE CountsExact
    OBVIOUS
  <2>1. verdicts = <<>> /\ Len(verdicts) = 0 /\ sup.auth = 0 /\ sup.missing = 0 /\ sup.pc = "attempt"
    BY DEF Init
  <2> QED BY <2>1 DEF CountsExact, CountsRun, RefusedInARow
<1>2. SlotsInv /\ CountsExact /\ [Next]_vars => CountsExact'
  <2> SUFFICES ASSUME SlotsInv, CountsExact, [Next]_vars PROVE CountsExact'
    OBVIOUS
  <2>0. TypeOK
    BY DEF SlotsInv
  <2>1. ASSUME NEW error \in Errors, AttemptReturned(error, health) PROVE CountsExact'
    BY <2>0, <2>1, VerdictLemma
  <2>2. CASE UNCHANGED <<sup, verdicts>>
    BY <2>2 DEF CountsExact, CountsRun, RefusedInARow, Permanent
  <2>3. ASSUME NEW pc \in {"attempt", "ended"}, sup' = [sup EXCEPT !.pc = pc], verdicts' = verdicts
        PROVE  CountsExact'
    <3>1. sup'.auth = sup.auth /\ sup'.missing = sup.missing /\ sup'.pc = pc
      BY <2>0, <2>3 DEF TypeOK
    <3> QED BY <2>3, <3>1 DEF CountsExact, CountsRun, RefusedInARow
  <2>4. CASE AttemptFails
    BY <2>1, <2>4 DEF AttemptFails, Errors
  <2>5. ASSUME NEW s \in DOMAIN sessions, Ends(s) PROVE CountsExact'
    BY <2>1, <2>2, <2>5 DEF Ends
  <2>6. CASE SourceFinished
    BY <2>3, <2>6 DEF SourceFinished
  <2>7. CASE Retry
    BY <2>3, <2>7 DEF Retry
  <2>8. ASSUME NEW s \in DOMAIN sessions, Received(s) PROVE CountsExact'
    BY <2>2, <2>8, Zenon DEF Received
  <2>9. CASE Admit \/ (\E f \in Followers : Follow(f) \/ EgressEnds(f)) \/ UNCHANGED vars
    BY <2>2, <2>9, Zenon DEF Admit, Follow, Enable, Look, Await, Woken, Rebind, EgressEnds, vars
  <2> QED BY <2>4, <2>5, <2>6, <2>7, <2>8, <2>9 DEF Next
<1>3. SlotsInv /\ CountsExact => GivesUpExactly
  <2> SUFFICES ASSUME SlotsInv, CountsExact, sup.pc \in {"failed", "backoff"}
               PROVE  sup.pc = "failed" <=>
                         \/ RefusedInARow("auth", MAX_AUTH_ATTEMPTS_BEFORE_PERMANENT + 1)
                         \/ RefusedInARow("missing", MAX_DESCRIBE_NOT_FOUND_BEFORE_PERMANENT + 1)
    BY DEF GivesUpExactly
  <2>1. sup.auth \in Nat /\ sup.missing \in Nat
    BY PermanentAssumption DEF SlotsInv, TypeOK
  <2>2. sup.auth > MAX_AUTH_ATTEMPTS_BEFORE_PERMANENT
           <=> RefusedInARow("auth", MAX_AUTH_ATTEMPTS_BEFORE_PERMANENT + 1)
    BY <2>1, ExactLemma, PermanentAssumption DEF CountsExact, VerdictSet
  <2>3. sup.missing > MAX_DESCRIBE_NOT_FOUND_BEFORE_PERMANENT
           <=> RefusedInARow("missing", MAX_DESCRIBE_NOT_FOUND_BEFORE_PERMANENT + 1)
    BY <2>1, ExactLemma, PermanentAssumption DEF CountsExact, VerdictSet
  <2>4. sup.pc = "failed" <=> Permanent([auth |-> sup.auth, missing |-> sup.missing])
    BY DEF CountsExact
  <2> QED BY <2>2, <2>3, <2>4 DEF Permanent
<1> QED BY <1>1, <1>2, <1>3, SlotsInit, SlotsStep, PTL DEF Spec

-----------------------------------------------------------------------------
\* The media sequence numbers players are shown.

\* What is shown of the bound programs, one by one.
LEMMA ShownLemma ==
    ASSUME NEW progs, NEW lgs, NEW x
    PROVE  x \in Shown(progs, lgs) <=>
              \E p \in Programs :
                 /\ progs[p] # Unpublished
                 /\ \E i \in 1..Reach(lgs[progs[p].trunk]) :
                       x = [program |-> p, msn |-> progs[p].offset + i, trunk |-> progs[p].trunk]
BY DEF Shown

\* Where a program stands after a turn: still bound as before, its trunk reaching
\* as far or farther, or newly bound past all its previous trunk had shown.
LEMMA TurnNumbers ==
    ASSUME SlotsInv, ShownWithinReach, NEW s \in DOMAIN sessions,
           NEW announced \in SUBSET Programs,
           NEW w \in Writes \cup {NoWrite}, w \in SessionWrites(s, announced),
           NEW act, advance_route(s, announced, w, act),
           NEW p \in Programs, programs'[p] # Unpublished
    PROVE  /\ programs'[p].trunk \in Trunks /\ programs'[p].offset \in Nat
           /\ programs'[p].offset >= archive_floor
           /\ Reach(logs'[programs'[p].trunk]) \in Nat
           /\ \/ /\ programs'[p] = programs[p]
                 /\ Reach(logs[programs[p].trunk]) \in Nat
                 /\ Reach(logs'[programs[p].trunk]) >= Reach(logs[programs[p].trunk])
              \/ programs[p] # Unpublished =>
                    /\ Reach(logs[programs[p].trunk]) \in Nat /\ programs[p].offset \in Nat
                    /\ programs'[p].offset >= programs[p].offset + Reach(logs[programs[p].trunk])
<1>1. TypeOK /\ SessionsListed /\ TrunksMatch
  BY DEF SlotsInv
<1>2. /\ programs' = ProgramsAfter(s, New(s, announced))
      /\ programs' \in [Programs -> Bindings]
      /\ logs' \in [Trunks -> LogStates]
      /\ \A t \in Trunks : Reach(logs[t]) \in Nat /\ Reach(logs[t]) <= Reach(logs'[t])
  BY AdvanceLemma
<1>3. programs'[p].offset \in Nat
  BY <1>2 DEF Bindings
<1>4. CASE p \in Bound(s, New(s, announced))
  <2>1. /\ programs'[p].trunk = Trunk(s, p)
        /\ programs'[p].offset = media_sequence_offset(p, logs)
    BY <1>2, <1>4 DEF ProgramsAfter
  <2>2. /\ programs'[p].trunk \in Trunks
        /\ programs'[p].offset >= archive_floor
    BY <2>1, <1>1, TrunkLemma, OffsetLemma
  <2>3. Reach(logs'[programs'[p].trunk]) \in Nat
    BY <2>2, <1>2, ReachLemma
  <2>4. ASSUME programs[p] # Unpublished
        PROVE  /\ Reach(logs[programs[p].trunk]) \in Nat /\ programs[p].offset \in Nat
               /\ programs'[p].offset >= programs[p].offset + Reach(logs[programs[p].trunk])
    <3>1. /\ programs[p].trunk \in Trunks
          /\ programs'[p].offset >= programs[p].offset + logs[programs[p].trunk].closed + 1
      BY <2>1, <2>4, <1>1, OffsetLemma
    <3>2. logs[programs[p].trunk] \in LogStates /\ programs[p].offset \in Nat
      BY <3>1, <1>1 DEF TypeOK, Bindings
    <3> QED BY <1>3, <3>1, <3>2, ReachLemma
  <2> QED BY <1>3, <2>2, <2>3, <2>4
<1>5. CASE p \notin Bound(s, New(s, announced))
  <2>1. programs'[p] = programs[p]
    BY <1>2, <1>5 DEF ProgramsAfter
  <2>2. PICK t \in DOMAIN sessions : programs[p].trunk = Trunk(t, p)
    BY <2>1, <1>1 DEF TrunksMatch
  <2>3. programs[p].trunk \in Trunks
    BY <2>2, <1>1, TrunkLemma
  <2>4. programs[p].offset >= archive_floor
    BY <2>1 DEF ShownWithinReach
  <2>5. /\ Reach(logs[programs[p].trunk]) \in Nat
        /\ Reach(logs'[programs[p].trunk]) \in Nat
        /\ Reach(logs'[programs[p].trunk]) >= Reach(logs[programs[p].trunk])
    BY <2>3, <1>2, ReachLemma
  <2> QED BY <1>3, <2>1, <2>3, <2>4, <2>5
<1> QED BY <1>4, <1>5

\* What a turn shows that was not shown before is above all that was.
LEMMA TurnGrows ==
    ASSUME SlotsInv, ShownWithinReach, NEW s \in DOMAIN sessions,
           NEW announced \in SUBSET Programs,
           NEW w \in Writes \cup {NoWrite}, w \in SessionWrites(s, announced),
           NEW act, advance_route(s, announced, w, act),
           NEW x \in shown' \ shown
    PROVE  /\ x.msn > archive_floor
           /\ \A y \in shown : y.program = x.program => y.msn < x.msn
<1>1. x \in Shown(programs', logs') /\ x \notin Shown(programs, logs)
  BY DEF advance_route, ShownWithinReach
<1>a. PICK p \in Programs :
          /\ programs'[p] # Unpublished
          /\ \E i \in 1..Reach(logs'[programs'[p].trunk]) :
                x = [program |-> p, msn |-> programs'[p].offset + i, trunk |-> programs'[p].trunk]
  BY <1>1, ShownLemma
<1>2. PICK i \in 1..Reach(logs'[programs'[p].trunk]) :
          /\ programs'[p] # Unpublished
          /\ x = [program |-> p, msn |-> programs'[p].offset + i, trunk |-> programs'[p].trunk]
  BY <1>a
<1>3. /\ programs'[p].trunk \in Trunks /\ programs'[p].offset \in Nat
      /\ programs'[p].offset >= archive_floor
      /\ Reach(logs'[programs'[p].trunk]) \in Nat
      /\ \/ /\ programs'[p] = programs[p]
            /\ Reach(logs[programs[p].trunk]) \in Nat
            /\ Reach(logs'[programs[p].trunk]) >= Reach(logs[programs[p].trunk])
         \/ programs[p] # Unpublished =>
               /\ Reach(logs[programs[p].trunk]) \in Nat /\ programs[p].offset \in Nat
               /\ programs'[p].offset >= programs[p].offset + Reach(logs[programs[p].trunk])
  BY <1>2, TurnNumbers
<1>4. i \in Nat /\ i >= 1 /\ x.msn = programs'[p].offset + i /\ x.program = p
  BY <1>2, <1>3
<1>5. x.msn > archive_floor
  BY <1>3, <1>4, FloorAssumption
<1>6. ASSUME NEW y \in shown, y.program = p PROVE y.msn < x.msn
  <2>1. /\ y.msn \in Nat /\ programs[p] # Unpublished
        /\ y.msn <= programs[p].offset + Reach(logs[programs[p].trunk])
    BY <1>6 DEF ShownWithinReach
  <2>2. CASE /\ programs'[p] = programs[p]
             /\ Reach(logs[programs[p].trunk]) \in Nat
    <3>1. i \notin 1..Reach(logs[programs[p].trunk])
      BY <1>1, <1>2, <2>1, <2>2, ShownLemma
    <3>2. i > Reach(logs[programs[p].trunk])
      BY <1>4, <2>2, <3>1
    <3> QED BY <1>3, <1>4, <2>1, <2>2, <3>2
  <2>3. CASE /\ Reach(logs[programs[p].trunk]) \in Nat /\ programs[p].offset \in Nat
             /\ programs'[p].offset >= programs[p].offset + Reach(logs[programs[p].trunk])
    BY <1>3, <1>4, <2>1, <2>3
  <2> QED BY <1>3, <2>1, <2>2, <2>3
<1> QED BY <1>4, <1>5, <1>6

\* A turn keeps what was shown within what the bound trunks reach.
LEMMA TurnShown ==
    ASSUME SlotsInv, ShownWithinReach, NEW s \in DOMAIN sessions,
           NEW announced \in SUBSET Programs,
           NEW w \in Writes \cup {NoWrite}, w \in SessionWrites(s, announced),
           NEW act, advance_route(s, announced, w, act)
    PROVE  ShownWithinReach'
<1>1. TypeOK /\ SessionsListed
  BY DEF SlotsInv
<1>2. shown' = shown \cup Shown(programs', logs') /\ programs' = ProgramsAfter(s, New(s, announced))
  BY DEF advance_route
<1>3. ASSUME NEW p \in Programs, programs[p] # Unpublished PROVE programs'[p] # Unpublished
  <2>1. Trunk(s, p) # NoTrunk
    BY <1>1, TrunkLemma
  <2> QED BY <1>2, <1>3, <2>1 DEF ProgramsAfter, Unpublished
<1>4. ASSUME NEW y \in shown'
      PROVE  /\ y.program \in Programs /\ y.msn \in Nat
             /\ programs'[y.program] # Unpublished
             /\ y.msn <= programs'[y.program].offset + Reach(logs'[programs'[y.program].trunk])
  <2>1. CASE y \in shown
    <3>1. /\ y.program \in Programs /\ y.msn \in Nat /\ programs[y.program] # Unpublished
          /\ y.msn <= programs[y.program].offset + Reach(logs[programs[y.program].trunk])
      BY <2>1 DEF ShownWithinReach
    <3> DEFINE p == y.program
    <3>2. programs'[p] # Unpublished /\ p \in Programs
      BY <1>3, <3>1
    <3> HIDE DEF p
    <3>3. /\ programs'[p].offset \in Nat /\ Reach(logs'[programs'[p].trunk]) \in Nat
          /\ \/ /\ programs'[p] = programs[p]
                /\ Reach(logs[programs[p].trunk]) \in Nat
                /\ Reach(logs'[programs[p].trunk]) >= Reach(logs[programs[p].trunk])
             \/ programs[p] # Unpublished =>
                   /\ Reach(logs[programs[p].trunk]) \in Nat /\ programs[p].offset \in Nat
                   /\ programs'[p].offset >= programs[p].offset + Reach(logs[programs[p].trunk])
      BY <3>2, TurnNumbers
    <3>4. /\ y.msn \in Nat /\ programs[p] # Unpublished
          /\ y.msn <= programs[p].offset + Reach(logs[programs[p].trunk])
      BY <3>1 DEF p
    <3>5. CASE /\ programs'[p] = programs[p]
               /\ Reach(logs[programs[p].trunk]) \in Nat
               /\ Reach(logs'[programs[p].trunk]) >= Reach(logs[programs[p].trunk])
      <4>1. y.msn <= programs'[p].offset + Reach(logs'[programs'[p].trunk])
        BY <3>3, <3>4, <3>5
      <4> QED BY <3>2, <3>4, <4>1 DEF p
    <3>6. CASE /\ Reach(logs[programs[p].trunk]) \in Nat /\ programs[p].offset \in Nat
               /\ programs'[p].offset >= programs[p].offset + Reach(logs[programs[p].trunk])
      <4>1. y.msn <= programs'[p].offset + Reach(logs'[programs'[p].trunk])
        BY <3>3, <3>4, <3>6
      <4> QED BY <3>2, <3>4, <4>1 DEF p
    <3> QED BY <3>3, <3>4, <3>5, <3>6
  <2>2. CASE y \in Shown(programs', logs')
    <3>a. PICK p \in Programs :
              /\ programs'[p] # Unpublished
              /\ \E i \in 1..Reach(logs'[programs'[p].trunk]) :
                    y = [program |-> p, msn |-> programs'[p].offset + i,
                         trunk |-> programs'[p].trunk]
      BY <2>2, ShownLemma
    <3>1. PICK i \in 1..Reach(logs'[programs'[p].trunk]) :
              /\ programs'[p] # Unpublished
              /\ y = [program |-> p, msn |-> programs'[p].offset + i, trunk |-> programs'[p].trunk]
      BY <3>a
    <3>2. programs'[p].offset \in Nat /\ Reach(logs'[programs'[p].trunk]) \in Nat
      BY <3>1, TurnNumbers
    <3>3. y.program = p /\ y.msn = programs'[p].offset + i
      BY <3>1
    <3> QED BY <3>1, <3>2, <3>3
  <2> QED BY <1>2, <2>1, <2>2
<1>5. ASSUME NEW p \in Programs, programs'[p] # Unpublished
      PROVE  programs'[p].offset >= archive_floor
  BY <1>5, TurnNumbers
<1> QED BY <1>2, <1>4, <1>5 DEF ShownWithinReach, Shown, Unpublished, NoTrunk

\* A number a player is newly shown is above the archive's and above every number
\* it was shown before, however often the source reconnects and whatever parts
\* its last, never closed, segment had out (media_sequence_offset).
THEOREM NumbersOnlyGrowHolds == Spec => NumbersOnlyGrow
<1> DEFINE Grow == \A x \in shown' \ shown :
                       /\ x.msn > archive_floor
                       /\ \A y \in shown : y.program = x.program => y.msn < x.msn
<1>1. Init => ShownWithinReach
  <2> SUFFICES ASSUME Init PROVE ShownWithinReach
    OBVIOUS
  <2>1. shown = {} /\ \A p \in Programs : programs[p] = Unpublished
    BY DEF Init
  <2>2. Shown(programs, logs) = {}
    BY <2>1 DEF Shown
  <2> QED BY <2>1, <2>2 DEF ShownWithinReach
<1>2. SlotsInv /\ ShownWithinReach /\ [Next]_vars => ShownWithinReach' /\ [Grow]_vars
  <2> SUFFICES ASSUME SlotsInv, ShownWithinReach, [Next]_vars PROVE ShownWithinReach' /\ [Grow]_vars
    OBVIOUS
  <2>1. CASE UNCHANGED <<programs, logs, shown>>
    BY <2>1 DEF ShownWithinReach, Shown
  <2>2. ASSUME NEW s \in DOMAIN sessions, Received(s) \/ Ends(s)
        PROVE  ShownWithinReach' /\ [Grow]_vars
    <3>1. \E announced \in SUBSET Programs, w \in Writes \cup {NoWrite}, act \in {active'} :
             w \in SessionWrites(s, announced) /\ advance_route(s, announced, w, act)
      BY <2>2 DEF Received, Ends, advance_route
    <3>2. ShownWithinReach'
      BY <3>1, TurnShown
    <3>3. Grow
      BY <3>1, TurnGrows
    <3> QED BY <3>2, <3>3
  <2>3. CASE \/ Admit \/ AttemptFails \/ SourceFinished \/ Retry \/ UNCHANGED vars
             \/ \E f \in Followers : Follow(f) \/ EgressEnds(f)
    <3>1. UNCHANGED <<programs, logs, shown>>
      BY <2>3, Zenon DEF Admit, AttemptFails, SourceFinished, Retry, Follow, Enable, Look, Await, Woken,
                  Rebind, EgressEnds, route, vars
    <3> QED BY <2>1, <3>1, Zenon
  <2> QED BY <2>2, <2>3 DEF Next
<1> QED BY <1>1, <1>2, SlotsInit, SlotsStep, PTL DEF Spec, NumbersOnlyGrow
=============================================================================
