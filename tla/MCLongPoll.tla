----------------------------- MODULE MCLongPoll -----------------------------
(* Instances of LongPoll for TLC.                                          *)
EXTENDS LongPoll, TLC

Symmetry == Permutations(Ids) \cup Permutations(Gets)
=============================================================================
