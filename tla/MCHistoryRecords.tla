-------------------------- MODULE MCHistoryRecords --------------------------
(* Instances of HistoryRecords for TLC. *)
EXTENDS HistoryRecords, TLC

Patch(version, lastModified, stared, isDeleted) ==
  [version |-> version, lastModified |-> lastModified,
   stared |-> stared, isDeleted |-> isDeleted]

Post(version, lastModified, stared, isDeleted, content) ==
  [version |-> version, lastModified |-> lastModified, stared |-> stared,
   isDeleted |-> isDeleted, content |-> content]

(* The web UI: star, delete and restore, version and time left out.        *)
UiPatches == {Patch(Absent, Absent, TRUE, Absent), Patch(Absent, Absent, Absent, TRUE),
              Patch(Absent, Absent, Absent, FALSE)}
(* Official clients always send their own version and time.                *)
ClientPatches == {Patch(1, 1, TRUE, Absent), Patch(1, 2, Absent, TRUE)}

ClientPosts == {Post(0, 0, FALSE, FALSE, TRUE), Post(1, 2, TRUE, FALSE, FALSE)}
NoDtos == {}
AllPuts == {[hasData |-> FALSE, lookup |-> "exact"], [hasData |-> TRUE, lookup |-> "promoted"],
            [hasData |-> FALSE, lookup |-> "none"]}

OldRow(id, isDeleted, file) ==
  [id |-> id, version |-> 0, lastModified |-> 0, stared |-> FALSE,
   isDeleted |-> isDeleted, file |-> file, seen |-> {}]
OneStored == {OldRow(1, FALSE, TRUE), OldRow(1, TRUE, FALSE)}
TwoStored == {OldRow(1, FALSE, TRUE), OldRow(2, TRUE, FALSE)}
MCWriters == Requests \cup {Cleaner}
Symmetry == Permutations(Requests)
=============================================================================
