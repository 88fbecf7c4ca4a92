--------------------------- MODULE MCRouteBinding ---------------------------
(* RouteBinding with two programs and a few sessions. *)
EXTENDS RouteBinding

\* The more attempts were refused, the fewer sessions.
SessionsOrRefusals ==
    Len(sessions) + Len(SelectSeq(verdicts, LAMBDA v : v # "live")) <= MaxSessions

\* Two programs matter to the outputs' choice of a trunk, a third session to the
\* publisher slot of one program.
ThirdSessionOrSecondProgram ==
    Len(sessions) > 2 => \A s \in DOMAIN sessions : sessions[s].published \subseteq {1}

\* Each program numbers its segments by itself.
MediaOnFirstProgram == \A t \in Trunks : t[2] # 1 => logs[t] = EmptyLog
=============================================================================
