----------------------------- MODULE MCFolders ------------------------------
(* Instances of Folders: few records, folders and requests.                *)
EXTENDS Folders, TLC

Symmetry == Permutations(Requests) \cup Permutations(Records) \cup Permutations(Names)
=============================================================================
