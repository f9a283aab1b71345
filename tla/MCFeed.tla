------------------------------- MODULE MCFeed -------------------------------
(* Instance of Feed for TLC.                                               *)
EXTENDS Feed

Trashed == [modified |-> 0, deleted |-> TRUE, starred |-> FALSE, pinned |-> FALSE,
            folder |-> FALSE]
Active == [Trashed EXCEPT !.deleted = FALSE, !.starred = TRUE, !.folder = TRUE]

(* The older record is in every view of active ones, the newer one is in    *)
(* the trash.                                                              *)
MCInitialTables == {<<Active, Trashed>>}

MCInitialFilters == {[view |-> "all", page |-> 2]}
=============================================================================
