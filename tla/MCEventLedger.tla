--------------------------- MODULE MCEventLedger ---------------------------
EXTENDS EventLedger, TLC

(* Deliveries, events and workers are interchangeable. *)
Symmetry == Permutations(Requests) \cup Permutations(Events) \cup Permutations(Workers)
=============================================================================
