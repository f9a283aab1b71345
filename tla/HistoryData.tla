---------------------------- MODULE HistoryData -----------------------------
(***************************************************************************)
(* The rows of D1 against the transfer data in R2.                         *)
(*                                                                         *)
(* The two stores share no transaction.  An upload puts the object first   *)
(* and writes the row afterwards; a purge deletes the rows first and       *)
(* sweeps their directories afterwards; the cleaning round does both on    *)
(* one listing of the bucket, taken once, and finally deletes every        *)
(* directory no row refers to.  Each call below is one atomic step, and    *)
(* any of the tasks may end between two of its calls.                      *)
(*                                                                         *)
(* A key stands for (Type, Hash) and for the object of its working         *)
(* directory.  Objects are told apart by their age only, which is counted  *)
(* in ticks and stops at Grace = ORPHAN_GRACE_MS.                          *)
(***************************************************************************)
EXTENDS Integers, FiniteSets

CONSTANTS
  Keys,       \* (Type, Hash) pairs whose records carry transfer data
  Uploads,    \* requests that write a record: POST and PUT
  Sweeps,     \* purge and clear requests
  Cron,       \* whether the scheduled cleaning runs
  Reuploads,  \* whether data of a key may be uploaded more than once
  MaxUpload,  \* the longest time, in ticks, between a put and its row
  Grace

ASSUME SwitchAssumption == Cron \in BOOLEAN /\ Reuploads \in BOOLEAN
ASSUME TimeAssumption == MaxUpload \in Nat /\ Grace \in Nat /\ MaxUpload < Grace

NoObject == -1

VARIABLES
  row,      \* "none", "active", or "trash" (IsDeleted)
  age,      \* of the object, or NoObject
  used,     \* keys whose data was uploaded before
  pc,       \* where each upload is
  key,      \* the key it writes
  kind,     \* "post" and "put" carry data, "revive" is a POST without
  held,     \* whether the row it has read is still in the table
  spc,      \* where each sweep is
  dirs,     \* the directories of the rows it has deleted
  found,    \* the objects its listing has returned
  rpc,      \* where the cleaning round is
  listed,   \* whether the round has its listing yet (CleanupRun.sweep)
  listing,  \* the old enough objects in it
  doomed    \* the directories the round is about to delete

uploadVars == <<pc, key, kind, held>>
sweepVars == <<spc, dirs, found>>
roundVars == <<rpc, listed, listing, doomed>>
vars == <<row, age, used, uploadVars, sweepVars, roundVars>>

HasObject(k) == age[k] # NoObject

(* Every variable has its type, and a purge lists only directories of rows *)
(* it has deleted itself (historyOps.ts:20-22).                            *)
TypeOK ==
  /\ row \in [Keys -> {"none", "active", "trash"}]
  /\ age \in [Keys -> {NoObject} \cup 0..Grace]
  /\ used \subseteq Keys
  /\ pc \in [Uploads -> {"idle", "read", "head", "put", "renew", "lookup", "insert",
                         "clash", "merge", "done"}]
  /\ key \in [Uploads -> Keys]
  /\ kind \in [Uploads -> {"post", "put", "revive"}]
  /\ held \in [Uploads -> BOOLEAN]
  /\ spc \in [Sweeps -> {"idle", "list", "delete", "swept", "deferred"}]
  /\ dirs \in [Sweeps -> SUBSET Keys]
  /\ found \in [Sweeps -> SUBSET Keys]
  /\ rpc \in {"idle", "hard", "list", "drop", "orphanList", "reference", "orphans"}
  /\ listed \in BOOLEAN
  /\ listing \subseteq Keys
  /\ doomed \subseteq Keys
  /\ \A p \in Sweeps : spc[p] = "delete" => found[p] \subseteq dirs[p]

(* Between rounds, with the data of every record in place.                 *)
Init ==
  /\ row \in [Keys -> {"none", "active", "trash"}]
  /\ age = [k \in Keys |-> IF row[k] = "none" THEN NoObject ELSE Grace]
  /\ used = {k \in Keys : row[k] # "none"}
  /\ pc = [r \in Uploads |-> "idle"]
  /\ key \in [Uploads -> Keys]
  /\ kind = [r \in Uploads |-> "post"]
  /\ held = [r \in Uploads |-> FALSE]
  /\ spc = [p \in Sweeps |-> "idle"]
  /\ dirs = [p \in Sweeps |-> {}]
  /\ found = [p \in Sweeps |-> {}]
  /\ rpc = "idle" /\ listed = FALSE /\ listing = {} /\ doomed = {}

----------------------------------------------------------------------------
(* Calls *)

Goto(r, label) == pc' = [pc EXCEPT ![r] = label]

(* DELETE ... RETURNING: the rows, and with them whatever a request holds. *)
DeleteRows(gone) ==
  /\ row' = [k \in Keys |-> IF k \in gone THEN "none" ELSE row[k]]
  /\ held' = [r \in Uploads |-> held[r] /\ key[r] \notin gone]

DeleteObjects(gone) == age' = [k \in Keys |-> IF k \in gone THEN NoObject ELSE age[k]]

----------------------------------------------------------------------------
(* Uploads: addRecordDto and putSyncProfile *)

Start(r) ==
  /\ pc[r] = "idle"
  /\ \E kd \in {"post", "put", "revive"} :
       /\ kd # "revive" /\ key[r] \in used => Reuploads
       /\ kind' = [kind EXCEPT ![r] = kd]
       /\ used' = IF kd = "revive" THEN used ELSE used \cup {key[r]}
  /\ Goto(r, "read")
  /\ UNCHANGED <<row, age, key, held, sweepVars, roundVars>>

(* The first read.  An active record needs no data; a deleted one needs    *)
(* it uploaded again, or already there (ensureExistingRecordData).  A PUT  *)
(* that leaves out the hash, or names another type than it is stored       *)
(* under, does not find an active record here.                             *)
Read(r) ==
  /\ pc[r] = "read"
  /\ held' = [held EXCEPT ![r] = row[key[r]] # "none"]
  /\ \/ row[key[r]] = "active" /\ Goto(r, "merge")
     \/ row[key[r]] = "active" /\ kind[r] # "put" /\ Goto(r, "done")    \* older
     \/ kind[r] = "put" /\ Goto(r, "put")
     \/ row[key[r]] = "none" /\ kind[r] = "post" /\ Goto(r, "put")
     \/ row[key[r]] = "trash" /\ kind[r] = "post" /\ Goto(r, "renew")
     \/ row[key[r]] = "trash" /\ kind[r] = "revive" /\ Goto(r, "head")
     \/ row[key[r]] = "none" /\ kind[r] = "revive" /\ Goto(r, "done")   \* 400
  /\ UNCHANGED <<row, age, used, key, kind, sweepVars, roundVars>>

Head(r) ==
  /\ pc[r] = "head"
  /\ Goto(r, IF HasObject(key[r]) THEN "merge" ELSE "done")
  /\ UNCHANGED <<row, age, used, key, kind, held, sweepVars, roundVars>>

(* putHistory, for a new record or for one a POST found in the recycle     *)
(* bin.  A POST may still be refused when the declared hash of the         *)
(* transfer data does not match; the object stays behind.                  *)
Put(r) ==
  /\ pc[r] \in {"put", "renew"}
  /\ age' = [age EXCEPT ![key[r]] = 0]
  /\ \/ kind[r] = "put" /\ Goto(r, "lookup")
     \/ kind[r] = "post" /\ Goto(r, IF pc[r] = "put" THEN "insert" ELSE "merge")
     \/ kind[r] = "post" /\ Goto(r, "done")                             \* 422
  /\ UNCHANGED <<row, used, key, kind, held, sweepVars, roundVars>>

(* addProfile reads the row again; so does an INSERT that hit the unique   *)
(* key, where a purged row is an error and an older POST changes nothing.  *)
Lookup(r) ==
  /\ pc[r] \in {"lookup", "clash"}
  /\ held' = [held EXCEPT ![r] = row[key[r]] # "none"]
  /\ \/ row[key[r]] # "none" /\ Goto(r, "merge")
     \/ row[key[r]] = "none" /\ Goto(r, IF pc[r] = "lookup" THEN "insert" ELSE "done")
     \/ row[key[r]] = "active" /\ pc[r] = "clash" /\ kind[r] = "post" /\ Goto(r, "done")
  /\ UNCHANGED <<row, age, used, key, kind, sweepVars, roundVars>>

(* What a client declares the record to be; a PUT makes it active.         *)
Written(r) == IF kind[r] = "put" THEN {"active"} ELSE {"active", "trash"}

Insert(r) ==
  /\ pc[r] = "insert"
  /\ \/ /\ row[key[r]] = "none"
        /\ \E state \in Written(r) : row' = [row EXCEPT ![key[r]] = state]
        /\ Goto(r, "done")
     \/ row[key[r]] # "none" /\ Goto(r, "clash") /\ UNCHANGED row
  /\ UNCHANGED <<age, used, key, kind, held, sweepVars, roundVars>>

(* UPDATE ... WHERE ID = ?: nothing happens when the row is gone.          *)
MergeRow(r) ==
  IF held[r] THEN \E state \in Written(r) : row' = [row EXCEPT ![key[r]] = state]
             ELSE UNCHANGED row

Merge(r) ==
  /\ pc[r] = "merge"
  /\ MergeRow(r)
  /\ Goto(r, "done")
  /\ UNCHANGED <<age, used, key, kind, held, sweepVars, roundVars>>

(* The request ends early: an error of a call, or the isolate is gone.     *)
Fail(r) ==
  /\ pc[r] \notin {"idle", "done"}
  /\ Goto(r, "done")
  /\ UNCHANGED <<row, age, used, key, kind, held, sweepVars, roundVars>>

----------------------------------------------------------------------------
(* PATCH isDelete, and the soft deletions of the cleaning round            *)

MoveToTrash(k) ==
  /\ row[k] = "active" /\ row' = [row EXCEPT ![k] = "trash"]
  /\ UNCHANGED <<age, used, uploadVars, sweepVars, roundVars>>

Restore(k) ==
  /\ row[k] = "trash" /\ row' = [row EXCEPT ![k] = "active"]
  /\ UNCHANGED <<age, used, uploadVars, sweepVars, roundVars>>

----------------------------------------------------------------------------
(* Purges: clearAllHistory, purgeTrash, batch-purge.  Rows first, then     *)
(* exactly their directories, whatever the age of the objects.             *)

SweepRows(p) ==
  /\ spc[p] = "idle"
  /\ \E gone \in SUBSET Keys :
       /\ gone # {}
       /\ (\A k \in gone : row[k] = "trash") \/ gone = {k \in Keys : row[k] # "none"}
       /\ DeleteRows(gone)
       /\ dirs' = [dirs EXCEPT ![p] = gone]
  /\ spc' = [spc EXCEPT ![p] = "list"]
  /\ UNCHANGED <<age, used, pc, key, kind, found, roundVars>>

OldOnes(k, p) == k \in dirs[p] /\ age[k] = Grace         \* a fault
Swept(k, p) == k \in dirs[p] /\ HasObject(k)

SweepList(p) ==
  /\ spc[p] = "list"
  /\ found' = [found EXCEPT ![p] = {k \in Keys : Swept(k, p)}]
  /\ spc' = [spc EXCEPT ![p] = "delete"]
  /\ UNCHANGED <<row, age, used, uploadVars, dirs, roundVars>>

SweepDelete(p) ==
  /\ spc[p] = "delete"
  /\ DeleteObjects(found[p])
  /\ spc' = [spc EXCEPT ![p] = "swept"]
  /\ UNCHANGED <<row, used, uploadVars, dirs, found, roundVars>>

(* The rows are gone, so the purge counts as done; what is left in R2 is   *)
(* for the orphan phase.                                                   *)
SweepFail(p) ==
  /\ spc[p] \in {"list", "delete"}
  /\ spc' = [spc EXCEPT ![p] = "deferred"]
  /\ UNCHANGED <<row, age, used, uploadVars, dirs, found, roundVars>>

----------------------------------------------------------------------------
(* The cleaning round: hard deletion and orphans                           *)

RoundStart ==
  /\ Cron /\ rpc = "idle"
  /\ rpc' = "hard" /\ listed' = FALSE /\ listing' = {} /\ doomed' = {}
  /\ UNCHANGED <<row, age, used, uploadVars, sweepVars>>

(* One batch of rows deleted more than 30 days ago; the phase ends with an *)
(* empty batch or with its limits.                                         *)
RoundHard ==
  /\ rpc = "hard"
  /\ \E gone \in SUBSET {k \in Keys : row[k] = "trash"} :
       /\ DeleteRows(gone)
       /\ doomed' = gone
       /\ rpc' = CASE gone # {} -> IF listed THEN "drop" ELSE "list"
                   [] OTHER -> IF listed THEN "reference" ELSE "orphanList"
  /\ UNCHANGED <<age, used, pc, key, kind, sweepVars, listed, listing>>

(* listHistoryObjectsByDir skips objects younger than the grace period.    *)
AnyAge(k) == HasObject(k)                                \* a fault
OldEnough(k) == age[k] = Grace

RoundList ==
  /\ rpc \in {"list", "orphanList"}
  /\ listed' = TRUE
  /\ listing' = {k \in Keys : OldEnough(k)}
  /\ rpc' = IF rpc = "list" THEN "drop" ELSE "reference"
  /\ UNCHANGED <<row, age, used, uploadVars, sweepVars, doomed>>

(* The listing is given up when the budget runs out within it: half a map  *)
(* is never used.  The hard deletion goes on without sweeping.             *)
RoundGiveUp ==
  /\ rpc \in {"list", "orphanList"}
  /\ rpc' = IF rpc = "list" THEN "hard" ELSE "idle"
  /\ UNCHANGED <<row, age, used, uploadVars, sweepVars, listed, listing, doomed>>

(* sweepWorkingDirs takes the directories out of the map before it deletes *)
(* them, so a failed deletion waits for the next round.                    *)
RoundDrop ==
  /\ rpc = "drop"
  /\ DeleteObjects(doomed \cap listing) \/ UNCHANGED age
  /\ listing' = listing \ doomed
  /\ rpc' = "hard"
  /\ UNCHANGED <<row, used, uploadVars, sweepVars, listed, doomed>>

(* listReferencedWorkingDirs counts the recycle bin as referenced.         *)
Unlisted(k) == row[k] # "trash"                          \* a fault
Referenced(k) == row[k] # "none"

RoundReference ==
  /\ rpc = "reference"
  /\ doomed' = {k \in listing : ~Referenced(k)}
  /\ rpc' = "orphans"
  /\ UNCHANGED <<row, age, used, uploadVars, sweepVars, listed, listing>>

RoundOrphans ==
  /\ rpc = "orphans"
  /\ DeleteObjects(doomed)
  /\ rpc' = "idle"
  /\ UNCHANGED <<row, used, uploadVars, sweepVars, listed, listing, doomed>>

(* The platform ends the round, or a call fails.                           *)
RoundFail ==
  /\ rpc # "idle"
  /\ rpc' = "idle"
  /\ UNCHANGED <<row, age, used, uploadVars, sweepVars, listed, listing, doomed>>

----------------------------------------------------------------------------
(* An upload between its put and its row takes at most MaxUpload ticks.    *)
Tick ==
  /\ \A r \in Uploads : pc[r] \in {"lookup", "insert", "clash", "merge"} =>
                          age[key[r]] < MaxUpload \/ kind[r] = "revive" \/ row[key[r]] # "none"
  /\ \E k \in Keys : age[k] \in 0..(Grace - 1)
  /\ age' = [k \in Keys |-> IF age[k] \in 0..(Grace - 1) THEN age[k] + 1 ELSE age[k]]
  /\ UNCHANGED <<row, used, uploadVars, sweepVars, roundVars>>

UploadStep(r) ==
  Start(r) \/ Read(r) \/ Head(r) \/ Put(r) \/ Lookup(r) \/ Insert(r) \/ Merge(r) \/ Fail(r)
SweepStep(p) == SweepRows(p) \/ SweepList(p) \/ SweepDelete(p) \/ SweepFail(p)
RoundStep == RoundStart \/ RoundHard \/ RoundList \/ RoundGiveUp \/ RoundDrop
             \/ RoundReference \/ RoundOrphans \/ RoundFail

Next ==
  \/ \E r \in Uploads : UploadStep(r)
  \/ \E p \in Sweeps : SweepStep(p)
  \/ RoundStep
  \/ \E k \in Keys : MoveToTrash(k) \/ Restore(k)
  \/ Tick

Spec == Init /\ [][Next]_vars

(* The clock runs, requests go on until they end, and cron starts round    *)
(* after round; a round may be killed, but not every round at the same     *)
(* call for ever.                                                          *)
Fairness ==
  /\ WF_vars(Tick)
  /\ \A r \in Uploads : WF_vars(pc[r] # "idle" /\ UploadStep(r))
  /\ WF_vars(RoundStart)
  /\ SF_vars(RoundHard) /\ SF_vars(RoundList) /\ SF_vars(RoundDrop)
  /\ SF_vars(RoundReference) /\ SF_vars(RoundOrphans)

FairSpec == Spec /\ Fairness

----------------------------------------------------------------------------
(* Properties *)

(* A record never loses its data: what is active can be downloaded, what   *)
(* is in the recycle bin can be restored (historyOps.ts:20-22, db.ts:780). *)
RowHasData == \A k \in Keys : row[k] # "none" => HasObject(k)

(* When a purge says it is done, and did not put its sweep off, the bytes  *)
(* of the records it purged are gone (history-mutations.ts:377).           *)
PurgeReclaims ==
  \A p \in Sweeps : spc[p] = "swept" => \A k \in dirs[p] : ~HasObject(k)

(* Whatever a failed upload, a deferred sweep or a killed round leaves     *)
(* behind in the bucket is found and deleted by some later round, unless a *)
(* record comes to refer to it (storage.ts:210-214).                       *)
OrphansReclaimed ==
  \A k \in Keys : HasObject(k) /\ row[k] = "none" ~> ~HasObject(k) \/ row[k] # "none"
=============================================================================
