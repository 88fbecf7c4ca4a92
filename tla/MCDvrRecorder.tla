--------------------------- MODULE MCDvrRecorder ---------------------------
(* DvrRecorder on a small archive. *)
EXTENDS DvrRecorder

\* An entry found before retention starts is still listed when it does, so
\* requests are followed only across the eviction of the period they read.
ReadAcrossEviction ==
    reader # NoReader =>
        /\ pc.at = "evict" \/ (pc.at = "retain" /\ Evicts)
        /\ reader.num = Head(rec.periods).num

\* The overrun policies and an unlimited archive are explored with TS, whose
\* recorder has no init to track.
PoliciesWithTs == ext = ".m4s" => policy = "Stall" /\ retention_bytes > 0
=============================================================================
