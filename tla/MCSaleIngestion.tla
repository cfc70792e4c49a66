--------------------------- MODULE MCSaleIngestion ---------------------------
(* Instances of SaleIngestion for TLC.  Requests and runs are                *)
(* interchangeable, so safety runs may use their permutations as symmetry.   *)
EXTENDS SaleIngestion

Symmetry == Permutations(Handlers) \cup Permutations(Workers)

=============================================================================
