--------------------------- MODULE AtomicRecords ----------------------------
(***************************************************************************)
(* What the history table promises the writers that take part in its       *)
(* optimistic concurrency control: each PATCH that succeeds changes the    *)
(* record as it is at that moment, under the acceptance rule applied to    *)
(* that same record, in one indivisible step.  Soft deletion and the       *)
(* removal of rows are indivisible by themselves.  HistoryRecords, with    *)
(* its reads and writes of one request interleaved with those of others,   *)
(* implements this specification as long as every PATCH moves the version  *)
(* and no whole-row writer (POST, PUT) runs.                               *)
(***************************************************************************)
EXTENDS RecordRules

CONSTANTS
  Keys,       \* (Type, Hash) pairs
  PatchDtos,  \* PATCH bodies
  Times,      \* server times
  NoRow

VARIABLE row

Exists(k) == row[k] # NoRow

Init ==
  /\ row \in [Keys -> Rows \cup {NoRow}]
  /\ \A j, k \in Keys : Exists(j) /\ Exists(k) /\ row[j].id = row[k].id => j = k

Change(k) ==
  /\ Exists(k)
  /\ \E dto \in PatchDtos, t \in Times, by \in Writers :
       /\ PatchAccepted(row[k], dto, t)
       /\ row' = [row EXCEPT ![k] = Patched(row[k], dto, t, by)]

SoftDelete ==
  \E batch \in SUBSET {k \in Keys : Exists(k)}, t \in Times, by \in Writers :
    /\ \A k \in batch : ~row[k].isDeleted /\ ~row[k].stared
    /\ row' = [k \in Keys |-> IF k \in batch THEN SoftDeleted(row[k], t, by) ELSE row[k]]

Remove ==
  \E gone \in SUBSET Keys : row' = [k \in Keys |-> IF k \in gone THEN NoRow ELSE row[k]]

Next == (\E k \in Keys : Change(k)) \/ SoftDelete \/ Remove

Spec == Init /\ [][Next]_row
=============================================================================
