---------------------------- MODULE RecordRules ----------------------------
(***************************************************************************)
(* The pure rules of src/src/db.ts, profileHistory.ts and profileWrite.ts  *)
(* that decide whether an incoming change of a history record is accepted  *)
(* and what the stored record becomes.  They are shared by HistoryRecords, *)
(* which interleaves them at every `await`, and by AtomicRecords, where a  *)
(* change is one indivisible step.                                         *)
(*                                                                         *)
(* A record keeps the columns the rules read or write: the row id, the     *)
(* version, LastModified, Stared (which also stands for Pinned: either one *)
(* exempts the row from cleaning), IsDeleted and whether the row names a   *)
(* transfer-data file.  `seen` is a history variable: the  *)
(* writes, each a writer and the version it wrote, that the stored         *)
(* contents build upon.                                                    *)
(***************************************************************************)
EXTENDS Integers

CONSTANTS
  Threshold,   \* HISTORY_UPDATE_THRESHOLD_MS, in ticks of the model clock
  Writers,     \* whoever may change a record
  Absent       \* an optional field the request leaves out

ASSUME ThresholdAssumption == Threshold \in Nat

Rows == [id : Nat, version : Int, lastModified : Int, stared : BOOLEAN,
         isDeleted : BOOLEAN, file : BOOLEAN, seen : SUBSET (Writers \X Int)]

MaxOf(a, b) == IF a >= b THEN a ELSE b
Gap(a, b) == IF a >= b THEN a - b ELSE b - a
Given(field, default) == IF field = Absent THEN default ELSE field

(* shouldUpdate: within the threshold the versions decide, beyond it the   *)
(* modification times.                                                     *)
ShouldUpdate(old, newVersion, newLastModified) ==
  IF Gap(newLastModified, old.lastModified) <= Threshold
  THEN newVersion >= old.version
  ELSE newLastModified >= old.lastModified

(* updateHistory: a PATCH leaves out what it does not change; version and  *)
(* LastModified have monotone defaults.                                    *)
PatchVersion(old, dto) == Given(dto.version, old.version + 1)
PatchTime(old, dto, now) ==
  Given(dto.lastModified, MaxOf(now, old.lastModified + 1))

PatchAccepted(old, dto, now) ==
  ShouldUpdate(old, PatchVersion(old, dto), PatchTime(old, dto, now))

(* Column assignments made by one writer, who builds upon what it read.    *)
Signed(e, by) == [e EXCEPT !.seen = @ \cup {<<by, e.version>>}]

Patched(old, dto, now, by) == Signed(
  [old EXCEPT !.version      = PatchVersion(old, dto),
              !.lastModified = PatchTime(old, dto, now),
              !.stared       = Given(dto.stared, @),
              !.isDeleted    = Given(dto.isDeleted, @)], by)

(* UpdateExistingRecordDto: the uploaded metadata replaces the stored one, *)
(* the version moves past both; the content columns stay.                  *)
Uploaded(old, dto, by) == Signed(
  [old EXCEPT !.version      = MaxOf(dto.version, old.version + 1),
              !.lastModified = dto.lastModified,
              !.stared       = dto.stared,
              !.isDeleted    = dto.isDeleted], by)

(* The reuse branch of PUT /SyncClipboard.json, and mergeExistingProfile   *)
(* with persisted data when hasData: bump the record and make it active.   *)
Reused(old, hasData, now, by) == Signed(
  [old EXCEPT !.version      = @ + 1,
              !.lastModified = now,
              !.isDeleted    = FALSE,
              !.file         = @ \/ hasData], by)

(* The cleaning statement softDeleteOldest, applied to one row.            *)
SoftDeleted(old, now, by) == Signed(
  [old EXCEPT !.version      = @ + 1,
              !.lastModified = now,
              !.isDeleted    = TRUE], by)
=============================================================================
