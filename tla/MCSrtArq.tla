------------------------------ MODULE MCSrtArq ------------------------------
(* SrtArq on a few packets across the wrap of the sequence space. *)
EXTENDS SrtArq

\* A behaviour has a retransmission or a DROPREQ.
OneRepair == resends + Cardinality(dropreqs) <= 1

\* A behaviour has the last packet or the last unit of time.
NotBothLast == sent < MaxSent \/ now < MaxTime
=============================================================================
