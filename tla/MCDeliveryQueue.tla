--------------------------- MODULE MCDeliveryQueue ---------------------------
(* Instances of DeliveryQueue for TLC.  Workers, handlers and messages are   *)
(* interchangeable, so safety runs may use their permutations as symmetry.   *)
EXTENDS DeliveryQueue, TLC

WorkerSymmetry == Permutations(Workers)

Symmetry == Permutations(Workers) \cup Permutations(Handlers)

=============================================================================
