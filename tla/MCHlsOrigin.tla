---------------------------- MODULE MCHlsOrigin ----------------------------
(* HlsOrigin with requests that are alike. *)
EXTENDS HlsOrigin

CONSTANTS r1, r2

Alike == Permutations(Requests)

\* A request that has copied the window, or asks for a part, changes nothing
\* another request reads and reads nothing another request changes: only what
\* it does against the segmenter, the others waiting, is explored.
ReadAlone ==
    \A p \in Requests : \A q \in Requests \ {p} :
        /\ pc[p] \in {"edge", "probe", "render"} => pc[q] \in {"idle", "view"}
        /\ pc[p] \in {"part", "closed?", "hinted?", "pending", "Ready", "NotFound"} =>
              pc[q] = "idle"

\* An init is only ever compared with the current one: two that take turns do.
InitsTakeTurns ==
    inits.current = IF inits.generation = 0 THEN NoInit ELSE 1 + (inits.generation % 2)

\* One request at a time, and a part in each segment.
Simple == open <= 1 /\ \A p, q \in Requests : p = q \/ "idle" \in {pc[p], pc[q]}

\* The init that makes the origin forget one, and a segment held up in the publish
\* queue, are traded against a second request and a second part.
LastInitSimple == inits.generation = MaxInits => Simple
HeldUpSimple == queued > 0 /\ ~Simple => <<segs, parts>>' # <<segs, parts>>
=============================================================================
