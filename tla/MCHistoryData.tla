--------------------------- MODULE MCHistoryData ----------------------------
(* Instances of HistoryData for TLC. *)
EXTENDS HistoryData, TLC

Symmetry == Permutations(Keys) \cup Permutations(Uploads)
=============================================================================
