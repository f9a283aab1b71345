------------------------- MODULE HistoryDataProofs --------------------------
(* Theorems about HistoryData, checked by TLAPS for every set of keys,     *)
(* uploads and sweeps and every grace period longer than an upload.        *)
EXTENDS HistoryData, TLAPS

(* The data of a key is uploaded once: no retry, no second client, no      *)
(* upload after a purge.  MCDataPurge shows what happens without it.       *)
Once == ~Reuploads

(* The request is about to create the record of a key for the first time.  *)
Creating(r) == kind[r] # "revive" /\ pc[r] \in {"read", "put", "lookup", "insert"}

(* A used key without a record that nobody is creating stays without one.  *)
Dead(k) ==
  /\ k \in used /\ row[k] = "none"
  /\ \A r \in Uploads : Creating(r) => key[r] # k

(* A creator is alone with its key until the row is there.                 *)
CreatorsAlone ==
  \A r \in Uploads : Creating(r) =>
    /\ key[r] \in used /\ row[key[r]] = "none" /\ key[r] \notin listing
    /\ \A q \in Uploads : Creating(q) /\ key[q] = key[r] => q = r

(* Its object is younger than the grace period.                            *)
CreatorsFresh ==
  \A r \in Uploads : Creating(r) =>
    IF pc[r] \in {"read", "put"} THEN age[key[r]] = NoObject ELSE age[key[r]] \in 0..MaxUpload

(* A request merges into a row that is there; one without data never puts  *)
(* and never inserts.  Nobody uploads what is in the recycle bin: its data *)
(* was uploaded before.                                                    *)
HoldersRight ==
  \A r \in Uploads :
    /\ held[r] => row[key[r]] # "none"
    /\ kind[r] = "revive" => pc[r] \notin {"put", "lookup", "insert"}
    /\ pc[r] # "renew"

(* What a sweep or the round is about to delete is dead.                   *)
SweepsDead ==
  \A p \in Sweeps :
    /\ \A k \in dirs[p] : Dead(k)
    /\ found[p] \subseteq dirs[p]
    /\ spc[p] = "idle" => dirs[p] = {}
    /\ spc[p] = "delete" => \A k \in dirs[p] : HasObject(k) => k \in found[p]

RoundDead == rpc \in {"list", "drop", "orphans"} => \A k \in doomed : Dead(k)

KnownKeys ==
  /\ \A k \in Keys : HasObject(k) \/ row[k] # "none" => k \in used
  /\ listing \subseteq used

Inv ==
  /\ TypeOK /\ RowHasData /\ PurgeReclaims
  /\ CreatorsAlone /\ CreatorsFresh /\ HoldersRight /\ SweepsDead /\ RoundDead /\ KnownKeys

----------------------------------------------------------------------------
(* Every action of the specification preserves the invariant.             *)

LEMMA StartInv == ASSUME Once, Inv, NEW r \in Uploads, Start(r) PROVE Inv'
<1>1. TypeOK' BY TimeAssumption DEF Inv, TypeOK, NoObject, Once, Start, Goto,
   sweepVars, roundVars
<1>2. CreatorsAlone' BY TimeAssumption DEF Inv, TypeOK, CreatorsAlone,
   CreatorsFresh, HoldersRight, SweepsDead, RoundDead, KnownKeys, Creating,
   Dead, HasObject, NoObject, Once, Start, Goto, sweepVars, roundVars
<1>3. CreatorsFresh' BY TimeAssumption DEF Inv, TypeOK, CreatorsAlone,
   CreatorsFresh, HoldersRight, SweepsDead, RoundDead, KnownKeys, Creating,
   Dead, HasObject, NoObject, Once, Start, Goto, sweepVars, roundVars
<1>4. HoldersRight' BY DEF Inv, HoldersRight, Once, Start, Goto, roundVars
<1>5. SweepsDead' BY TimeAssumption DEF Inv, TypeOK, CreatorsAlone,
   HoldersRight, SweepsDead, KnownKeys, Creating, Dead, HasObject, NoObject,
   Once, Start, Goto, sweepVars, roundVars
<1>6. RoundDead' BY DEF Inv, TypeOK, RoundDead, Creating, Dead, NoObject,
   Once, Start, Goto, sweepVars, roundVars
<1>7. KnownKeys' BY DEF Inv, KnownKeys, HasObject, NoObject, Once, Start,
   sweepVars, roundVars
<1>. QED  BY <1>1, <1>2, <1>3, <1>4, <1>5, <1>6, <1>7 DEF Inv, RowHasData,
   PurgeReclaims, HasObject, Start, sweepVars, roundVars

LEMMA ReadInv == ASSUME Once, Inv, NEW r \in Uploads, Read(r) PROVE Inv'
<1>1. TypeOK' BY TimeAssumption DEF Inv, TypeOK, NoObject, Read, Goto,
   sweepVars, roundVars
<1>2. CreatorsAlone' BY TimeAssumption DEF Inv, TypeOK, CreatorsAlone,
   CreatorsFresh, HoldersRight, SweepsDead, RoundDead, KnownKeys, Creating,
   Dead, HasObject, NoObject, Read, Goto, sweepVars, roundVars
<1>3. CreatorsFresh' BY TimeAssumption DEF Inv, TypeOK, CreatorsAlone,
   CreatorsFresh, HoldersRight, SweepsDead, RoundDead, KnownKeys, Creating,
   Dead, HasObject, NoObject, Read, Goto, sweepVars, roundVars
<1>4. HoldersRight' BY DEF Inv, TypeOK, CreatorsAlone, HoldersRight, Creating, Read, Goto, roundVars
<1>5. SweepsDead' BY TimeAssumption DEF Inv, TypeOK, CreatorsAlone,
   HoldersRight, SweepsDead, KnownKeys, Creating, Dead, HasObject, NoObject,
   Read, Goto, sweepVars, roundVars
<1>6. RoundDead' BY DEF Inv, TypeOK, RoundDead, Creating, Dead, NoObject,
   Read, Goto, sweepVars, roundVars
<1>. QED  BY <1>1, <1>2, <1>3, <1>4, <1>5, <1>6 DEF Inv, RowHasData,
   PurgeReclaims, KnownKeys, HasObject, Read, sweepVars, roundVars

LEMMA HeadInv == ASSUME Once, Inv, NEW r \in Uploads, Head(r) PROVE Inv'
<1>1. TypeOK' BY TimeAssumption DEF Inv, TypeOK, HasObject, NoObject, Head,
   Goto, sweepVars, roundVars
<1>2. CreatorsAlone' BY TimeAssumption DEF Inv, TypeOK, CreatorsAlone,
   CreatorsFresh, HoldersRight, SweepsDead, RoundDead, KnownKeys, Creating,
   Dead, HasObject, NoObject, Head, Goto, sweepVars, roundVars
<1>3. CreatorsFresh' BY TimeAssumption DEF Inv, TypeOK, CreatorsAlone,
   CreatorsFresh, HoldersRight, SweepsDead, RoundDead, KnownKeys, Creating,
   Dead, HasObject, NoObject, Head, Goto, sweepVars, roundVars
<1>4. HoldersRight' BY DEF Inv, HoldersRight, Head, Goto, roundVars
<1>5. SweepsDead' BY TimeAssumption DEF Inv, TypeOK, CreatorsAlone,
   HoldersRight, SweepsDead, KnownKeys, Creating, Dead, HasObject, NoObject,
   Head, Goto, sweepVars, roundVars
<1>6. RoundDead' BY DEF Inv, RoundDead, Creating, Dead, NoObject, Head, Goto,
   sweepVars, roundVars
<1>. QED  BY <1>1, <1>2, <1>3, <1>4, <1>5, <1>6 DEF Inv, RowHasData,
   PurgeReclaims, KnownKeys, HasObject, Head, sweepVars, roundVars

LEMMA PutInv == ASSUME Once, Inv, NEW r \in Uploads, Put(r) PROVE Inv'
<1>1. TypeOK' BY TimeAssumption DEF Inv, TypeOK, NoObject, Put, Goto,
   sweepVars, roundVars
<1>2. RowHasData' BY DEF Inv, RowHasData, HasObject, NoObject, Put, Goto,
   sweepVars, roundVars
<1>3. PurgeReclaims' BY DEF Inv, PurgeReclaims, HoldersRight, SweepsDead, Creating, Dead,
   HasObject, Put, sweepVars, roundVars
<1>4. CreatorsAlone' BY TimeAssumption DEF Inv, TypeOK, CreatorsAlone,
   CreatorsFresh, HoldersRight, SweepsDead, RoundDead, KnownKeys, Creating,
   Dead, HasObject, NoObject, Put, Goto, sweepVars, roundVars
<1>5. CreatorsFresh' BY TimeAssumption DEF Inv, TypeOK, CreatorsAlone,
   CreatorsFresh, HoldersRight, SweepsDead, RoundDead, KnownKeys, Creating,
   Dead, HasObject, NoObject, Put, Goto, sweepVars, roundVars
<1>6. HoldersRight' BY DEF Inv, TypeOK, HoldersRight, Put, Goto, roundVars
<1>7. SweepsDead' BY TimeAssumption DEF Inv, TypeOK, CreatorsAlone,
   HoldersRight, SweepsDead, KnownKeys, Creating, Dead, HasObject, NoObject,
   Put, Goto, sweepVars, roundVars
<1>8. RoundDead' BY DEF Inv, TypeOK, HoldersRight, RoundDead, Creating, Dead, NoObject, Put,
   Goto, sweepVars, roundVars
<1>9. KnownKeys' BY DEF Inv, CreatorsAlone, HoldersRight, KnownKeys, Creating, HasObject,
   NoObject, Put, sweepVars, roundVars
<1>. QED  BY <1>1, <1>2, <1>3, <1>4, <1>5, <1>6, <1>7, <1>8, <1>9 DEF Inv

LEMMA LookupInv == ASSUME Once, Inv, NEW r \in Uploads, Lookup(r) PROVE Inv'
<1>1. TypeOK' BY TimeAssumption DEF Inv, TypeOK, NoObject, Lookup, Goto,
   sweepVars, roundVars
<1>2. CreatorsAlone' BY TimeAssumption DEF Inv, TypeOK, CreatorsAlone,
   CreatorsFresh, HoldersRight, SweepsDead, RoundDead, KnownKeys, Creating,
   Dead, HasObject, NoObject, Lookup, Goto, sweepVars, roundVars
<1>3. CreatorsFresh' BY TimeAssumption DEF Inv, TypeOK, CreatorsAlone,
   CreatorsFresh, HoldersRight, SweepsDead, RoundDead, KnownKeys, Creating,
   Dead, HasObject, NoObject, Lookup, Goto, sweepVars, roundVars
<1>4. HoldersRight' BY DEF Inv, TypeOK, HoldersRight, Lookup, Goto, roundVars
<1>5. SweepsDead' BY TimeAssumption DEF Inv, TypeOK, CreatorsAlone,
   HoldersRight, SweepsDead, KnownKeys, Creating, Dead, HasObject, NoObject,
   Lookup, Goto, sweepVars, roundVars
<1>6. RoundDead' BY DEF Inv, TypeOK, RoundDead, Creating, Dead, NoObject,
   Lookup, Goto, sweepVars, roundVars
<1>. QED  BY <1>1, <1>2, <1>3, <1>4, <1>5, <1>6 DEF Inv, RowHasData,
   PurgeReclaims, KnownKeys, HasObject, Lookup, sweepVars, roundVars

LEMMA InsertInv == ASSUME Once, Inv, NEW r \in Uploads, Insert(r) PROVE Inv'
<1>1. TypeOK' BY TimeAssumption DEF Inv, TypeOK, NoObject, Insert, Goto,
   Written, sweepVars, roundVars
<1>2. RowHasData' BY DEF Inv, TypeOK, RowHasData, CreatorsFresh, HoldersRight,
   Creating, HasObject, NoObject, Insert, Goto, Written, sweepVars, roundVars
<1>3. CreatorsAlone' BY TimeAssumption DEF Inv, TypeOK, CreatorsAlone,
   CreatorsFresh, HoldersRight, SweepsDead, RoundDead, KnownKeys, Creating,
   Dead, HasObject, NoObject, Insert, Goto, Written, sweepVars, roundVars
<1>4. CreatorsFresh' BY TimeAssumption DEF Inv, TypeOK, CreatorsAlone,
   CreatorsFresh, HoldersRight, SweepsDead, RoundDead, KnownKeys, Creating,
   Dead, HasObject, NoObject, Insert, Goto, Written, sweepVars, roundVars
<1>5. HoldersRight' BY DEF Inv, TypeOK, HoldersRight, Insert, Goto, sweepVars,
   roundVars
<1>6. SweepsDead' BY TimeAssumption DEF Inv, TypeOK, CreatorsAlone,
   HoldersRight, SweepsDead, KnownKeys, Creating, Dead, HasObject, NoObject,
   Insert, Goto, Written, sweepVars, roundVars
<1>7. RoundDead' BY DEF Inv, TypeOK, HoldersRight, RoundDead, Creating, Dead,
   NoObject, Insert, Goto, Written, sweepVars, roundVars
<1>8. KnownKeys' BY DEF Inv, TypeOK, CreatorsAlone, HoldersRight, KnownKeys,
   Creating, HasObject, NoObject, Insert, Written, sweepVars, roundVars
<1>. QED  BY <1>1, <1>2, <1>3, <1>4, <1>5, <1>6, <1>7, <1>8 DEF Inv,
   PurgeReclaims, HasObject, Insert, sweepVars, roundVars

LEMMA MergeInv == ASSUME Once, Inv, NEW r \in Uploads, Merge(r) PROVE Inv'
<1>1. TypeOK' BY DEF Inv, TypeOK, Merge, Goto, MergeRow, Written, sweepVars,
   roundVars
<1>2. RowHasData' BY DEF Inv, TypeOK, RowHasData, HoldersRight, HasObject,
   NoObject, Merge, Goto, MergeRow, Written, sweepVars, roundVars
<1>3. CreatorsAlone' BY TimeAssumption DEF Inv, TypeOK, CreatorsAlone,
   CreatorsFresh, HoldersRight, SweepsDead, RoundDead, KnownKeys, Creating,
   Dead, HasObject, NoObject, Merge, Goto, MergeRow, Written, sweepVars,
   roundVars
<1>4. CreatorsFresh' BY TimeAssumption DEF Inv, TypeOK, CreatorsAlone,
   CreatorsFresh, HoldersRight, SweepsDead, RoundDead, KnownKeys, Creating,
   Dead, HasObject, NoObject, Merge, Goto, MergeRow, Written, sweepVars,
   roundVars
<1>5. HoldersRight' BY TimeAssumption DEF Inv, TypeOK, HoldersRight, Creating,
   Dead, HasObject, NoObject, Merge, Goto, MergeRow, Written, sweepVars,
   roundVars
<1>6. SweepsDead' BY TimeAssumption DEF Inv, TypeOK, CreatorsAlone,
   HoldersRight, SweepsDead, KnownKeys, Creating, Dead, HasObject, NoObject,
   Merge, Goto, MergeRow, Written, sweepVars, roundVars
<1>7. RoundDead' BY DEF Inv, TypeOK, HoldersRight, RoundDead, Creating, Dead,
   NoObject, Merge, Goto, MergeRow, Written, sweepVars, roundVars
<1>8. KnownKeys' BY DEF Inv, TypeOK, HoldersRight, KnownKeys, HasObject,
   NoObject, Merge, MergeRow, Written, sweepVars, roundVars
<1>. QED  BY <1>1, <1>2, <1>3, <1>4, <1>5, <1>6, <1>7, <1>8 DEF Inv,
   PurgeReclaims, HasObject, Merge, sweepVars, roundVars

LEMMA FailInv == ASSUME Once, Inv, NEW r \in Uploads, Fail(r) PROVE Inv'
<1>1. TypeOK' BY TimeAssumption DEF Inv, TypeOK, NoObject, Fail, Goto,
   sweepVars, roundVars
<1>2. CreatorsAlone' BY TimeAssumption DEF Inv, TypeOK, CreatorsAlone,
   CreatorsFresh, HoldersRight, SweepsDead, RoundDead, KnownKeys, Creating,
   Dead, HasObject, NoObject, Fail, Goto, sweepVars, roundVars
<1>3. CreatorsFresh' BY TimeAssumption DEF Inv, TypeOK, CreatorsAlone,
   CreatorsFresh, HoldersRight, SweepsDead, RoundDead, KnownKeys, Creating,
   Dead, HasObject, NoObject, Fail, Goto, sweepVars, roundVars
<1>4. HoldersRight' BY DEF Inv, HoldersRight, Fail, Goto, roundVars
<1>5. SweepsDead' BY TimeAssumption DEF Inv, TypeOK, CreatorsAlone,
   HoldersRight, SweepsDead, KnownKeys, Creating, Dead, HasObject, NoObject,
   Fail, Goto, sweepVars, roundVars
<1>6. RoundDead' BY DEF Inv, RoundDead, Creating, Dead, NoObject, Fail, Goto,
   sweepVars, roundVars
<1>. QED  BY <1>1, <1>2, <1>3, <1>4, <1>5, <1>6 DEF Inv, RowHasData,
   PurgeReclaims, KnownKeys, HasObject, Fail, sweepVars, roundVars

LEMMA MoveToTrashInv == ASSUME Once, Inv, NEW k \in Keys, MoveToTrash(k) PROVE Inv'
<1>1. TypeOK' BY TimeAssumption DEF Inv, TypeOK, NoObject, MoveToTrash,
   uploadVars, sweepVars, roundVars
<1>2. RowHasData' BY DEF Inv, RowHasData, HasObject, NoObject, MoveToTrash,
   uploadVars, sweepVars, roundVars
<1>3. CreatorsAlone' BY TimeAssumption DEF Inv, TypeOK, CreatorsAlone,
   CreatorsFresh, HoldersRight, SweepsDead, RoundDead, KnownKeys, Creating,
   Dead, HasObject, NoObject, MoveToTrash, uploadVars, sweepVars, roundVars
<1>4. HoldersRight' BY DEF Inv, HoldersRight, MoveToTrash, uploadVars,
   roundVars
<1>5. SweepsDead' BY TimeAssumption DEF Inv, TypeOK, CreatorsAlone,
   HoldersRight, SweepsDead, KnownKeys, Creating, Dead, HasObject, NoObject,
   MoveToTrash, uploadVars, sweepVars, roundVars
<1>6. RoundDead' BY DEF Inv, RoundDead, Creating, Dead, NoObject, MoveToTrash,
   uploadVars, sweepVars, roundVars
<1>7. KnownKeys' BY DEF Inv, KnownKeys, HasObject, MoveToTrash, uploadVars,
   sweepVars, roundVars
<1>. QED  BY <1>1, <1>2, <1>3, <1>4, <1>5, <1>6, <1>7 DEF Inv, PurgeReclaims,
   CreatorsFresh, Creating, HasObject, MoveToTrash, uploadVars, sweepVars,
   roundVars

LEMMA RestoreInv == ASSUME Once, Inv, NEW k \in Keys, Restore(k) PROVE Inv'
<1>1. TypeOK' BY TimeAssumption DEF Inv, TypeOK, NoObject, Restore,
   uploadVars, sweepVars, roundVars
<1>2. RowHasData' BY DEF Inv, RowHasData, HasObject, NoObject, Restore,
   uploadVars, sweepVars, roundVars
<1>3. CreatorsAlone' BY TimeAssumption DEF Inv, TypeOK, CreatorsAlone,
   CreatorsFresh, HoldersRight, SweepsDead, RoundDead, KnownKeys, Creating,
   Dead, HasObject, NoObject, Restore, uploadVars, sweepVars, roundVars
<1>4. HoldersRight' BY DEF Inv, HoldersRight, Restore, uploadVars, roundVars
<1>5. SweepsDead' BY TimeAssumption DEF Inv, TypeOK, CreatorsAlone,
   HoldersRight, SweepsDead, KnownKeys, Creating, Dead, HasObject, NoObject,
   Restore, uploadVars, sweepVars, roundVars
<1>6. RoundDead' BY DEF Inv, RoundDead, Creating, Dead, NoObject, Restore,
   uploadVars, sweepVars, roundVars
<1>7. KnownKeys' BY DEF Inv, KnownKeys, HasObject, Restore, uploadVars,
   sweepVars, roundVars
<1>. QED  BY <1>1, <1>2, <1>3, <1>4, <1>5, <1>6, <1>7 DEF Inv, PurgeReclaims,
   CreatorsFresh, Creating, HasObject, Restore, uploadVars, sweepVars,
   roundVars

LEMMA SweepRowsInv == ASSUME Once, Inv, NEW p \in Sweeps, SweepRows(p) PROVE Inv'
<1>1. TypeOK' BY DEF Inv, TypeOK, SweepRows, DeleteRows, roundVars
<1>2. RowHasData' BY DEF Inv, RowHasData, HasObject, NoObject, SweepRows,
   DeleteRows, roundVars
<1>3. PurgeReclaims' BY DEF Inv, PurgeReclaims, HasObject, SweepRows,
   roundVars
<1>4. CreatorsAlone' BY TimeAssumption DEF Inv, TypeOK, CreatorsAlone,
   CreatorsFresh, HoldersRight, SweepsDead, RoundDead, KnownKeys, Creating,
   Dead, HasObject, NoObject, SweepRows, DeleteRows, roundVars
<1>5. HoldersRight'
  <2>. SUFFICES ASSUME NEW r \in Uploads
              PROVE  /\ held'[r] => row'[key'[r]] # "none"
                     /\ kind'[r] = "revive" => pc'[r] \notin {"put", "lookup", "insert"}
                     /\ pc'[r] # "renew"
    BY DEF HoldersRight
  <2>1. held'[r] = (held[r] /\ key[r] \notin {k \in Keys : row'[k] # row[k]})
    BY DEF Inv, TypeOK, SweepRows, DeleteRows, HoldersRight
  <2>. QED  BY <2>1 DEF Inv, TypeOK, HoldersRight, SweepRows
<1>6. SweepsDead' BY TimeAssumption DEF Inv, TypeOK, CreatorsAlone,
   HoldersRight, SweepsDead, KnownKeys, Creating, Dead, HasObject, NoObject,
   SweepRows, DeleteRows, roundVars
<1>7. RoundDead' BY DEF Inv, TypeOK, RoundDead, Creating, Dead, NoObject,
   SweepRows, DeleteRows, roundVars
<1>8. KnownKeys' BY TimeAssumption DEF Inv, TypeOK, CreatorsAlone,
   HoldersRight, KnownKeys, Creating, Dead, HasObject, NoObject, SweepRows,
   DeleteRows, roundVars
<1>. QED  BY <1>1, <1>2, <1>3, <1>4, <1>5, <1>6, <1>7, <1>8 DEF Inv,
   CreatorsFresh, Creating, SweepRows, roundVars

LEMMA SweepListInv == ASSUME Once, Inv, NEW p \in Sweeps, SweepList(p) PROVE Inv'
<1>1. TypeOK' BY TimeAssumption DEF Inv, TypeOK, HasObject, NoObject,
   SweepList, Swept, uploadVars, roundVars
<1>2. PurgeReclaims' BY DEF Inv, PurgeReclaims, HasObject, SweepList,
   uploadVars, roundVars
<1>3. SweepsDead' BY TimeAssumption DEF Inv, TypeOK, CreatorsAlone,
   HoldersRight, SweepsDead, KnownKeys, Creating, Dead, HasObject, NoObject,
   SweepList, Swept, uploadVars, roundVars
<1>. QED  BY <1>1, <1>2, <1>3 DEF Inv, RowHasData, CreatorsAlone,
   CreatorsFresh, HoldersRight, RoundDead, KnownKeys, Creating, Dead,
   HasObject, SweepList, uploadVars, roundVars

LEMMA SweepDeleteInv == ASSUME Once, Inv, NEW p \in Sweeps, SweepDelete(p) PROVE Inv'
<1>1. TypeOK' BY TimeAssumption DEF Inv, TypeOK, HasObject, NoObject,
   SweepDelete, DeleteObjects, uploadVars, roundVars
<1>2. RowHasData' BY TimeAssumption DEF Inv, TypeOK, RowHasData,
   CreatorsFresh, HoldersRight, SweepsDead, RoundDead, Creating, Dead,
   HasObject, NoObject, SweepDelete, DeleteObjects, uploadVars, roundVars
<1>3. PurgeReclaims' BY DEF Inv, TypeOK, PurgeReclaims, SweepsDead, HasObject,
   SweepDelete, DeleteObjects, uploadVars, roundVars
<1>4. CreatorsFresh' BY TimeAssumption DEF Inv, TypeOK, CreatorsAlone,
   CreatorsFresh, HoldersRight, SweepsDead, RoundDead, KnownKeys, Creating,
   Dead, HasObject, NoObject, SweepDelete, DeleteObjects, uploadVars,
   roundVars
<1>5. SweepsDead' BY TimeAssumption DEF Inv, TypeOK, CreatorsAlone,
   HoldersRight, SweepsDead, KnownKeys, Creating, Dead, HasObject, NoObject,
   SweepDelete, DeleteObjects, uploadVars, roundVars
<1>6. KnownKeys' BY TimeAssumption DEF Inv, TypeOK, CreatorsAlone,
   HoldersRight, KnownKeys, Creating, Dead, HasObject, NoObject, SweepDelete,
   DeleteObjects, uploadVars, roundVars
<1>. QED  BY <1>1, <1>2, <1>3, <1>4, <1>5, <1>6 DEF Inv, CreatorsAlone,
   HoldersRight, RoundDead, Creating, Dead, SweepDelete, uploadVars, roundVars

LEMMA SweepFailInv == ASSUME Once, Inv, NEW p \in Sweeps, SweepFail(p) PROVE Inv'
<1>1. TypeOK' BY DEF Inv, TypeOK, SweepFail, uploadVars, roundVars
<1>2. PurgeReclaims' BY DEF Inv, PurgeReclaims, HasObject, SweepFail,
   roundVars
<1>3. SweepsDead' BY TimeAssumption DEF Inv, TypeOK, CreatorsAlone,
   HoldersRight, SweepsDead, KnownKeys, Creating, Dead, HasObject, NoObject,
   SweepFail, uploadVars, roundVars
<1>. QED  BY <1>1, <1>2, <1>3 DEF Inv, RowHasData, CreatorsAlone,
   CreatorsFresh, HoldersRight, RoundDead, KnownKeys, Creating, Dead,
   HasObject, SweepFail, uploadVars, roundVars

LEMMA RoundStartInv == ASSUME Once, Inv, RoundStart PROVE Inv'
<1>1. TypeOK' BY DEF Inv, TypeOK, RoundStart, uploadVars, sweepVars
<1>2. CreatorsAlone' BY TimeAssumption DEF Inv, TypeOK, CreatorsAlone,
   CreatorsFresh, HoldersRight, SweepsDead, RoundDead, KnownKeys, Creating,
   Dead, HasObject, NoObject, RoundStart, uploadVars, sweepVars
<1>3. RoundDead' BY DEF Inv, RoundDead, NoObject, RoundStart, uploadVars,
   sweepVars
<1>4. KnownKeys' BY DEF Inv, KnownKeys, HasObject, RoundStart, uploadVars,
   sweepVars
<1>. QED  BY <1>1, <1>2, <1>3, <1>4 DEF Inv, RowHasData, PurgeReclaims,
   CreatorsFresh, HoldersRight, SweepsDead, Creating, Dead, HasObject,
   RoundStart, uploadVars, sweepVars

LEMMA RoundHardInv == ASSUME Once, Inv, RoundHard PROVE Inv'
<1>1. TypeOK' BY DEF Inv, TypeOK, RoundHard, DeleteRows, sweepVars
<1>2. RowHasData' BY DEF Inv, RowHasData, HasObject, NoObject, RoundHard,
   DeleteRows, sweepVars
<1>3. CreatorsAlone' BY TimeAssumption DEF Inv, TypeOK, CreatorsAlone,
   CreatorsFresh, HoldersRight, SweepsDead, RoundDead, KnownKeys, Creating,
   Dead, HasObject, NoObject, RoundHard, DeleteRows, sweepVars
<1>4. HoldersRight'
  <2>. SUFFICES ASSUME NEW r \in Uploads
              PROVE  /\ held'[r] => row'[key'[r]] # "none"
                     /\ kind'[r] = "revive" => pc'[r] \notin {"put", "lookup", "insert"}
                     /\ pc'[r] # "renew"
    BY DEF HoldersRight
  <2>1. held'[r] = (held[r] /\ key[r] \notin {k \in Keys : row'[k] # row[k]})
    BY DEF Inv, TypeOK, RoundHard, DeleteRows, HoldersRight
  <2>. QED  BY <2>1 DEF Inv, TypeOK, HoldersRight, RoundHard
<1>5. SweepsDead' BY TimeAssumption DEF Inv, TypeOK, CreatorsAlone,
   HoldersRight, SweepsDead, KnownKeys, Creating, Dead, HasObject, NoObject,
   RoundHard, DeleteRows, sweepVars
<1>6. RoundDead' BY DEF Inv, CreatorsAlone, RoundDead, KnownKeys, Creating,
   Dead, NoObject, RoundHard, DeleteRows, sweepVars
<1>7. KnownKeys' BY TimeAssumption DEF Inv, TypeOK, CreatorsAlone,
   HoldersRight, KnownKeys, Creating, Dead, HasObject, NoObject, RoundHard,
   DeleteRows, sweepVars
<1>. QED  BY <1>1, <1>2, <1>3, <1>4, <1>5, <1>6, <1>7 DEF Inv, PurgeReclaims,
   CreatorsFresh, Creating, HasObject, RoundHard, sweepVars

LEMMA RoundListInv == ASSUME Once, Inv, RoundList PROVE Inv'
<1>1. TypeOK' BY TimeAssumption DEF Inv, TypeOK, HasObject, NoObject,
   RoundList, OldEnough, uploadVars, sweepVars
<1>2. CreatorsAlone' BY TimeAssumption DEF Inv, TypeOK, CreatorsAlone,
   CreatorsFresh, HoldersRight, SweepsDead, RoundDead, KnownKeys, Creating,
   Dead, HasObject, NoObject, RoundList, OldEnough, uploadVars, sweepVars
<1>3. RoundDead' BY DEF Inv, RoundDead, Creating, Dead, NoObject, RoundList,
   OldEnough, uploadVars, sweepVars
<1>4. KnownKeys' BY TimeAssumption DEF Inv, TypeOK, CreatorsAlone,
   HoldersRight, KnownKeys, Creating, Dead, HasObject, NoObject, RoundList,
   OldEnough, uploadVars, sweepVars
<1>. QED  BY <1>1, <1>2, <1>3, <1>4 DEF Inv, RowHasData, PurgeReclaims,
   CreatorsFresh, HoldersRight, SweepsDead, Creating, Dead, HasObject,
   RoundList, uploadVars, sweepVars

LEMMA RoundGiveUpInv == ASSUME Once, Inv, RoundGiveUp PROVE Inv'
<1>1. TypeOK' BY DEF Inv, TypeOK, RoundGiveUp, uploadVars, sweepVars
<1>2. RoundDead' BY DEF Inv, RoundDead, NoObject, RoundGiveUp, uploadVars,
   sweepVars
<1>. QED  BY <1>1, <1>2 DEF Inv, RowHasData, PurgeReclaims, CreatorsAlone,
   CreatorsFresh, HoldersRight, SweepsDead, KnownKeys, Creating, Dead,
   HasObject, RoundGiveUp, uploadVars, sweepVars

LEMMA RoundDropInv == ASSUME Once, Inv, RoundDrop PROVE Inv'
<1>1. TypeOK' BY TimeAssumption DEF Inv, TypeOK, HasObject, NoObject,
   RoundDrop, DeleteObjects, uploadVars, sweepVars
<1>2. RowHasData' BY TimeAssumption DEF Inv, TypeOK, RowHasData,
   CreatorsFresh, HoldersRight, SweepsDead, RoundDead, Creating, Dead,
   HasObject, NoObject, RoundDrop, DeleteObjects, uploadVars, sweepVars
<1>3. PurgeReclaims' BY DEF Inv, TypeOK, PurgeReclaims, HasObject, RoundDrop,
   DeleteObjects, uploadVars, sweepVars
<1>4. CreatorsAlone' BY TimeAssumption DEF Inv, TypeOK, CreatorsAlone,
   CreatorsFresh, HoldersRight, SweepsDead, RoundDead, KnownKeys, Creating,
   Dead, HasObject, NoObject, RoundDrop, DeleteObjects, uploadVars, sweepVars
<1>5. CreatorsFresh' BY TimeAssumption DEF Inv, TypeOK, CreatorsAlone,
   CreatorsFresh, HoldersRight, SweepsDead, RoundDead, KnownKeys, Creating,
   Dead, HasObject, NoObject, RoundDrop, DeleteObjects, uploadVars, sweepVars
<1>6. SweepsDead' BY TimeAssumption DEF Inv, TypeOK, CreatorsAlone,
   HoldersRight, SweepsDead, KnownKeys, Creating, Dead, HasObject, NoObject,
   RoundDrop, DeleteObjects, uploadVars, sweepVars
<1>7. RoundDead' BY DEF Inv, RoundDead, NoObject, RoundDrop, DeleteObjects,
   uploadVars, sweepVars
<1>8. KnownKeys' BY TimeAssumption DEF Inv, TypeOK, CreatorsAlone,
   HoldersRight, KnownKeys, Creating, Dead, HasObject, NoObject, RoundDrop,
   DeleteObjects, uploadVars, sweepVars
<1>. QED  BY <1>1, <1>2, <1>3, <1>4, <1>5, <1>6, <1>7, <1>8 DEF Inv,
   HoldersRight, RoundDrop, uploadVars, sweepVars

LEMMA RoundReferenceInv == ASSUME Once, Inv, RoundReference PROVE Inv'
<1>1. TypeOK' BY TimeAssumption DEF Inv, TypeOK, HasObject, NoObject,
   RoundReference, Referenced, uploadVars, sweepVars
<1>2. RoundDead' BY DEF Inv, CreatorsAlone, RoundDead, KnownKeys, Creating,
   Dead, NoObject, RoundReference, Referenced, uploadVars, sweepVars
<1>. QED  BY <1>1, <1>2 DEF Inv, RowHasData, PurgeReclaims, CreatorsAlone,
   CreatorsFresh, HoldersRight, SweepsDead, KnownKeys, Creating, Dead,
   HasObject, RoundReference, uploadVars, sweepVars

LEMMA RoundOrphansInv == ASSUME Once, Inv, RoundOrphans PROVE Inv'
<1>1. TypeOK' BY TimeAssumption DEF Inv, TypeOK, HasObject, NoObject,
   RoundOrphans, DeleteObjects, uploadVars, sweepVars
<1>2. RowHasData' BY TimeAssumption DEF Inv, TypeOK, RowHasData,
   CreatorsFresh, HoldersRight, SweepsDead, RoundDead, Creating, Dead,
   HasObject, NoObject, RoundOrphans, DeleteObjects, uploadVars, sweepVars
<1>3. PurgeReclaims' BY DEF Inv, TypeOK, PurgeReclaims, HasObject,
   RoundOrphans, DeleteObjects, uploadVars, sweepVars
<1>4. CreatorsFresh' BY TimeAssumption DEF Inv, TypeOK, CreatorsAlone,
   CreatorsFresh, HoldersRight, SweepsDead, RoundDead, KnownKeys, Creating,
   Dead, HasObject, NoObject, RoundOrphans, DeleteObjects, uploadVars,
   sweepVars
<1>5. SweepsDead' BY TimeAssumption DEF Inv, TypeOK, CreatorsAlone,
   HoldersRight, SweepsDead, KnownKeys, Creating, Dead, HasObject, NoObject,
   RoundOrphans, DeleteObjects, uploadVars, sweepVars
<1>6. RoundDead' BY DEF Inv, RoundDead, NoObject, RoundOrphans, DeleteObjects,
   uploadVars, sweepVars
<1>7. KnownKeys' BY TimeAssumption DEF Inv, TypeOK, CreatorsAlone,
   HoldersRight, KnownKeys, Creating, Dead, HasObject, NoObject, RoundOrphans,
   DeleteObjects, uploadVars, sweepVars
<1>. QED  BY <1>1, <1>2, <1>3, <1>4, <1>5, <1>6, <1>7 DEF Inv, CreatorsAlone,
   HoldersRight, Creating, RoundOrphans, uploadVars, sweepVars

LEMMA RoundFailInv == ASSUME Once, Inv, RoundFail PROVE Inv'
<1>1. TypeOK' BY DEF Inv, TypeOK, RoundFail, uploadVars, sweepVars
<1>2. RoundDead' BY DEF Inv, RoundDead, NoObject, RoundFail, uploadVars,
   sweepVars
<1>. QED  BY <1>1, <1>2 DEF Inv, RowHasData, PurgeReclaims, CreatorsAlone,
   CreatorsFresh, HoldersRight, SweepsDead, KnownKeys, Creating, Dead,
   HasObject, RoundFail, uploadVars, sweepVars

LEMMA TickInv == ASSUME Once, Inv, Tick PROVE Inv'
<1>1. TypeOK' BY TimeAssumption DEF Inv, TypeOK, NoObject, Tick, uploadVars,
   sweepVars, roundVars
<1>2. RowHasData' BY DEF Inv, RowHasData, HasObject, NoObject, Tick,
   uploadVars, sweepVars, roundVars
<1>3. PurgeReclaims' BY DEF Inv, TypeOK, PurgeReclaims, HasObject, NoObject,
   Tick, sweepVars, roundVars
<1>4. CreatorsFresh' BY TimeAssumption DEF Inv, TypeOK, CreatorsAlone,
   CreatorsFresh, HoldersRight, SweepsDead, RoundDead, KnownKeys, Creating,
   Dead, HasObject, NoObject, Tick, uploadVars, sweepVars, roundVars
<1>5. SweepsDead' BY TimeAssumption DEF Inv, TypeOK, CreatorsAlone,
   HoldersRight, SweepsDead, KnownKeys, Creating, Dead, HasObject, NoObject,
   Tick, uploadVars, sweepVars, roundVars
<1>6. KnownKeys' BY TimeAssumption DEF Inv, TypeOK, CreatorsAlone,
   HoldersRight, KnownKeys, Creating, Dead, HasObject, NoObject, Tick,
   uploadVars, sweepVars, roundVars
<1>. QED  BY <1>1, <1>2, <1>3, <1>4, <1>5, <1>6 DEF Inv, CreatorsAlone,
   HoldersRight, RoundDead, Creating, Dead, Tick, uploadVars, sweepVars,
   roundVars

----------------------------------------------------------------------------
(* The initial states satisfy the invariant.                               *)
LEMMA InitInv == Init => Inv
<1>. SUFFICES ASSUME Init PROVE Inv
  OBVIOUS
<1>1. TypeOK
  <2>1. age \in [Keys -> {NoObject} \cup 0..Grace]  BY TimeAssumption DEF Init, NoObject
  <2>2. used \subseteq Keys /\ listing \subseteq Keys /\ doomed \subseteq Keys
    BY DEF Init
  <2>3. held \in [Uploads -> BOOLEAN] /\ listed \in BOOLEAN  BY DEF Init
  <2>4. /\ pc \in [Uploads -> {"idle", "read", "head", "put", "renew", "lookup", "insert",
                              "clash", "merge", "done"}]
        /\ kind \in [Uploads -> {"post", "put", "revive"}]
    BY DEF Init
  <2>5. /\ spc \in [Sweeps -> {"idle", "list", "delete", "swept", "deferred"}]
        /\ dirs \in [Sweeps -> SUBSET Keys] /\ found \in [Sweeps -> SUBSET Keys]
    BY DEF Init
  <2>. QED  BY <2>1, <2>2, <2>3, <2>4, <2>5 DEF Init, TypeOK
<1>2. RowHasData  BY TimeAssumption DEF Init, RowHasData, HasObject, NoObject
<1>3. PurgeReclaims /\ SweepsDead  BY DEF Init, PurgeReclaims, SweepsDead
<1>4. CreatorsAlone /\ CreatorsFresh  BY DEF Init, CreatorsAlone, CreatorsFresh, Creating
<1>5. HoldersRight /\ RoundDead  BY DEF Init, HoldersRight, RoundDead
<1>6. KnownKeys  BY DEF Init, KnownKeys, HasObject, NoObject
<1>. QED  BY <1>1, <1>2, <1>3, <1>4, <1>5, <1>6 DEF Inv

(* Every step, and a step that changes nothing, preserves it.              *)
LEMMA NextInv == Once /\ Inv /\ [Next]_vars => Inv'
<1>. SUFFICES ASSUME Once, Inv, [Next]_vars PROVE Inv'
  OBVIOUS
<1>1. ASSUME NEW r \in Uploads, UploadStep(r) PROVE Inv'
  BY <1>1, StartInv, ReadInv, HeadInv, PutInv, LookupInv, InsertInv, MergeInv, FailInv
  DEF UploadStep
<1>2. ASSUME NEW p \in Sweeps, SweepStep(p) PROVE Inv'
  BY <1>2, SweepRowsInv, SweepListInv, SweepDeleteInv, SweepFailInv DEF SweepStep
<1>3. CASE RoundStep
  BY <1>3, RoundStartInv, RoundHardInv, RoundListInv, RoundGiveUpInv, RoundDropInv,
     RoundReferenceInv, RoundOrphansInv, RoundFailInv DEF RoundStep
<1>4. ASSUME NEW k \in Keys, MoveToTrash(k) \/ Restore(k) PROVE Inv'
  BY <1>4, MoveToTrashInv, RestoreInv
<1>5. CASE Tick  BY <1>5, TickInv
<1>6. CASE UNCHANGED vars
  BY <1>6 DEF Inv, TypeOK, RowHasData, PurgeReclaims, CreatorsAlone, CreatorsFresh,
     HoldersRight, SweepsDead, RoundDead, KnownKeys, Creating, Dead, HasObject,
     vars, uploadVars, sweepVars, roundVars
<1>. QED  BY <1>1, <1>2, <1>3, <1>4, <1>5, <1>6 DEF Next

LEMMA Invariance == ASSUME Once PROVE Spec => []Inv
<1>1. Inv /\ [Next]_vars => Inv'  BY NextInv
<1>. QED  BY <1>1, InitInv, PTL DEF Spec

(* While the data of a key is uploaded once, no interleaving of uploads,   *)
(* purges and cleaning rounds leaves a record without its transfer data.   *)
THEOREM RecordsKeepData == ASSUME Once PROVE Spec => []RowHasData
<1>1. Inv => RowHasData  BY DEF Inv
<1>. QED  BY <1>1, Invariance, PTL

(* A purge that says it has swept leaves none of its bytes behind.         *)
THEOREM PurgesReclaim == ASSUME Once PROVE Spec => []PurgeReclaims
<1>1. Inv => PurgeReclaims  BY DEF Inv
<1>. QED  BY <1>1, Invariance, PTL
=============================================================================
