--------------------------- MODULE HistoryRecords ---------------------------
(***************************************************************************)
(* The HistoryRecords table of D1 under concurrent requests.               *)
(*                                                                         *)
(* Every D1 statement is atomic, and every `await` between two statements  *)
(* of one request lets the statements of other requests in.  A request is  *)
(* one of                                                                  *)
(*   PATCH  updateHistory   (read, compare-and-set write, re-read on 409)  *)
(*   POST   addRecordDto    (read, store data, whole-row write or INSERT)  *)
(*   PUT    putSyncProfile  (read, whole-row write, or look up again and   *)
(*                           merge or INSERT)                              *)
(* and runs next to the one-statement writers: the cleaning task's soft    *)
(* delete, the purge of recycle-bin rows (by the user or by age), and the  *)
(* clearing of the table.  A request works on the row it has read: `snap`  *)
(* is that row, `draft` the entity it is about to write back.              *)
(***************************************************************************)
EXTENDS RecordRules, FiniteSets

CONSTANTS
  Keys,        \* (Type, Hash) pairs
  Requests,    \* concurrent requests; each serves one call
  Cleaner,     \* the scheduled cleaning task
  PatchDtos,   \* PATCH bodies a client may send
  PostDtos,    \* POST forms
  PutDtos,     \* PUT profiles
  Stored,      \* rows earlier sessions may have left behind
  FirstId,     \* the AUTOINCREMENT counter they left
  MaxTime,     \* bound of the model clock
  NoRow

OptInt == Int \cup {Absent}
OptBool == BOOLEAN \cup {Absent}

ASSUME WritersAssumption == Requests \cup {Cleaner} \subseteq Writers
ASSUME CleanerAssumption == Cleaner \notin Requests
ASSUME KeysAssumption == Keys # {}
ASSUME NoRowAssumption == NoRow \notin Rows
ASSUME DtoAssumption ==
  /\ \A d \in PatchDtos : /\ d.version \in OptInt /\ d.lastModified \in OptInt
                          /\ d.stared \in OptBool /\ d.isDeleted \in OptBool
  /\ \A d \in PostDtos : /\ d.version \in Int /\ d.lastModified \in Int
                         /\ d.stared \in BOOLEAN /\ d.isDeleted \in BOOLEAN
                         /\ d.content \in BOOLEAN
  /\ \A d \in PutDtos : d.hasData \in BOOLEAN /\ d.lookup \in {"exact", "promoted", "none"}
ASSUME StoredAssumption ==
  /\ FirstId \in Nat /\ MaxTime \in Nat
  /\ Stored \subseteq Rows
  /\ \A e \in Stored : e.id < FirstId /\ e.seen = {}

VARIABLES
  row,     \* the table: Keys -> row (ux_h_user_type_hash: one row per key)
  nextId,  \* AUTOINCREMENT
  now,     \* Date.now() of the isolates
  pc,      \* where each request is
  key,     \* the (Type, Hash) it names
  dto,     \* what it carries
  at,      \* a PUT reads Date.now() once, on entry
  snap,    \* the row it read
  draft    \* the entity it is about to write

vars == <<row, nextId, now, pc, key, dto, at, snap, draft>>
reqVars == <<pc, key, dto, at, snap, draft>>

Labels == {"idle", "patch.read", "patch.write", "patch.reread",
           "post.read", "post.file", "post.insert", "post.clash",
           "overwrite", "merge", "put.read", "put.add", "put.insert", "put.clash", "done"}

(* What a request knows and holds when it stands at a label.               *)
Fits(label, d, read, write) ==
  /\ label \in {"patch.read", "patch.write"} => d \in PatchDtos
  /\ label \in {"post.read", "post.file", "post.insert", "post.clash"} => d \in PostDtos
  /\ label \in {"put.read", "put.add", "put.insert", "put.clash"} => d \in PutDtos
  /\ label \in {"patch.write", "post.file"} => read \in Rows
  /\ label \in {"patch.write", "post.file", "post.insert", "put.insert",
                "overwrite", "merge"} => write \in Rows

(* Every variable has its type, and a request about to write has in hand   *)
(* a complete row: no default of a column is left open (db.ts:225-275).    *)
TypeOK ==
  /\ row \in [Keys -> Rows \cup {NoRow}]
  /\ nextId \in Nat
  /\ now \in 0..MaxTime
  /\ pc \in [Requests -> Labels]
  /\ key \in [Requests -> Keys]
  /\ dto \in [Requests -> PatchDtos \cup PostDtos \cup PutDtos \cup {Absent}]
  /\ at \in [Requests -> 0..MaxTime]
  /\ snap \in [Requests -> Rows \cup {NoRow}]
  /\ draft \in [Requests -> Rows \cup {NoRow}]
  /\ \A r \in Requests : Fits(pc[r], dto[r], snap[r], draft[r])

Exists(k) == row[k] # NoRow
Ids == {row[k].id : k \in {j \in Keys : Exists(j)}}

Init ==
  /\ row \in [Keys -> Stored \cup {NoRow}]
  /\ \A j, k \in Keys : Exists(j) /\ Exists(k) /\ row[j].id = row[k].id => j = k
  /\ nextId = FirstId
  /\ now = 0
  /\ pc = [r \in Requests |-> "idle"]
  /\ key = [r \in Requests |-> CHOOSE k \in Keys : TRUE]
  /\ dto = [r \in Requests |-> Absent]
  /\ at = [r \in Requests |-> 0]
  /\ snap = [r \in Requests |-> NoRow]
  /\ draft = [r \in Requests |-> NoRow]

----------------------------------------------------------------------------
(* Steps of a request *)

Goto(r, label) == pc' = [pc EXCEPT ![r] = label]

(* The request leaves with an answer, 200 or an error status.              *)
Leave(r) ==
  /\ Goto(r, "done")
  /\ snap' = [snap EXCEPT ![r] = NoRow]
  /\ draft' = [draft EXCEPT ![r] = NoRow]

Answer(r) == Leave(r) /\ UNCHANGED <<row, nextId, now, key, dto, at>>

(* The request has computed what it will write; no row has changed yet.    *)
Prepare(r, read, write, label) ==
  /\ Goto(r, label)
  /\ snap' = [snap EXCEPT ![r] = read]
  /\ draft' = [draft EXCEPT ![r] = write]
  /\ UNCHANGED <<row, nextId, now, key, dto, at>>

(* UPDATE ... WHERE ID = ?: a row that is gone is not written.             *)
Upsert(r) == row' = [row EXCEPT ![key[r]] = draft[r]]   \* a fault
WriteById(r) ==
  row' = [k \in Keys |->
            IF Exists(k) /\ row[k].id = draft[r].id THEN draft[r] ELSE row[k]]

(* AUTOINCREMENT never hands out an id twice; a plain INTEGER PRIMARY KEY  *)
(* would take the largest id in use plus one.                              *)
LargestPlusOne ==                                       \* a fault
  IF Ids = {} THEN 1 ELSE 1 + (CHOOSE i \in Ids : \A j \in Ids : i >= j)
FreshId == nextId

Start(r, label, dtos, time) ==
  /\ pc[r] = "idle"
  /\ \E k \in Keys, d \in dtos :
       /\ key' = [key EXCEPT ![r] = k]
       /\ dto' = [dto EXCEPT ![r] = d]
  /\ Goto(r, label)
  /\ at' = [at EXCEPT ![r] = time]
  /\ UNCHANGED <<row, nextId, now, snap, draft>>

StartPatch(r) == Start(r, "patch.read", PatchDtos, 0)
StartPost(r) == Start(r, "post.read", PostDtos, 0)
StartPut(r) == Start(r, "put.read", PutDtos, now)

Read(r) == row[key[r]]

----------------------------------------------------------------------------
(* PATCH: HistoryDb.updateHistory *)

PatchRead(r) ==
  /\ pc[r] = "patch.read"
  /\ \/ ~Exists(key[r]) /\ Answer(r)                               \* 404
     \/ /\ Exists(key[r])
        /\ ~PatchAccepted(Read(r), dto[r], now)
        /\ Answer(r)                                               \* 409
     \/ /\ Exists(key[r])
        /\ PatchAccepted(Read(r), dto[r], now)
        /\ Prepare(r, Read(r), Patched(Read(r), dto[r], now, r), "patch.write")

(* updateEntityIfVersion: WHERE ID = ? AND Version = ?                     *)
CasById(e, expected) == e.id = expected.id              \* a fault
CasAfterBump(e, expected) ==                            \* a fault
  e.id = expected.id /\ e.version = expected.version + 1
CasMatches(e, expected) == e.id = expected.id /\ e.version = expected.version

PatchWrite(r) ==
  /\ pc[r] = "patch.write"
  /\ IF Exists(key[r]) /\ CasMatches(Read(r), snap[r])
     THEN WriteById(r) /\ Leave(r)                          \* 200
     ELSE UNCHANGED <<row, snap, draft>> /\ Goto(r, "patch.reread")
  /\ UNCHANGED <<nextId, now, key, dto, at>>

(* The row is read again for the body of the 409.                          *)
PatchReread(r) == pc[r] = "patch.reread" /\ Answer(r)

----------------------------------------------------------------------------
(* POST: addRecordDto *)

NewRow(d, lastModified, file, by) ==
  [id |-> 0, version |-> d.version, lastModified |-> lastModified,
   stared |-> d.stared, isDeleted |-> d.isDeleted, file |-> file,
   seen |-> {<<by, d.version>>}]

PostNew(r) ==
  /\ ~Exists(key[r])
  /\ Prepare(r, NoRow, NewRow(dto[r], dto[r].lastModified, dto[r].content, r),
             "post.insert")

(* A deleted row needs its data first: uploaded now, or still in place.    *)
(* Data stored under a name the row does not know yet is written to the    *)
(* row before the metadata is.                                             *)
PostRevive(r) ==
  /\ Exists(key[r]) /\ Read(r).isDeleted
  /\ IF dto[r].content /\ ~Read(r).file
     THEN Prepare(r, Read(r),
                  Signed([Read(r) EXCEPT !.file = TRUE], r), "post.file")
     ELSE Prepare(r, Read(r), Uploaded(Read(r), dto[r], r), "overwrite")

PostUpdate(r) ==
  /\ Exists(key[r]) /\ ~Read(r).isDeleted
  /\ ShouldUpdate(Read(r), dto[r].version, dto[r].lastModified)
  /\ Prepare(r, Read(r), Uploaded(Read(r), dto[r], r), "overwrite")

PostOlder(r) ==
  /\ Exists(key[r]) /\ ~Read(r).isDeleted
  /\ ~ShouldUpdate(Read(r), dto[r].version, dto[r].lastModified)
  /\ Answer(r)

(* 400 or 422: the data is missing or does not match the declared hash.    *)
PostRejected(r) == (Exists(key[r]) => Read(r).isDeleted) /\ Answer(r)

PostRead(r) ==
  /\ pc[r] = "post.read"
  /\ PostNew(r) \/ PostRevive(r) \/ PostUpdate(r) \/ PostOlder(r) \/ PostRejected(r)

PostFile(r) ==
  /\ pc[r] = "post.file"
  /\ WriteById(r)
  /\ draft' = [draft EXCEPT ![r] = Uploaded(@, dto[r], r)]
  /\ Goto(r, "overwrite")
  /\ UNCHANGED <<nextId, now, key, dto, at, snap>>

(* updateEntity: the whole row, whatever it has become since it was read.  *)
Overwrite(r) ==
  /\ pc[r] \in {"overwrite", "merge"}
  /\ WriteById(r)
  /\ Leave(r)
  /\ UNCHANGED <<nextId, now, key, dto, at>>

(* HistoryDb.insert: a new row under a new id, or a unique-key conflict.   *)
Insert(r, label, clash) ==
  /\ pc[r] = label
  /\ IF Exists(key[r])
     THEN Goto(r, clash) /\ UNCHANGED <<row, nextId, snap, draft>>
     ELSE /\ row' = [row EXCEPT ![key[r]] = [draft[r] EXCEPT !.id = FreshId]]
          /\ nextId' = nextId + 1
          /\ Leave(r)
  /\ UNCHANGED <<now, key, dto, at>>

PostInsert(r) == Insert(r, "post.insert", "post.clash")

(* The default conflict handler of insert.  A row purged in between leaves *)
(* the conflict unexplained: the error is rethrown.                        *)
PostClash(r) ==
  /\ pc[r] = "post.clash"
  /\ \/ ~Exists(key[r]) /\ Answer(r)
     \/ PostOlder(r)
     \/ /\ Exists(key[r])
        /\ \/ Read(r).isDeleted
           \/ ShouldUpdate(Read(r), dto[r].version, dto[r].lastModified)
        /\ Prepare(r, Read(r), Uploaded(Read(r), dto[r], r), "merge")

----------------------------------------------------------------------------
(* PUT /SyncClipboard.json: putSyncProfile.  `now` is taken on entry.  A   *)
(* profile without a hash ("none") is never looked up, one whose type is   *)
(* promoted from File to Image ("promoted") only the second time.          *)

PutRead(r) ==
  /\ pc[r] = "put.read"
  /\ \/ /\ dto[r].lookup = "exact" /\ Exists(key[r]) /\ ~Read(r).isDeleted
        /\ Prepare(r, Read(r), Reused(Read(r), FALSE, at[r], r), "overwrite")
     \/ /\ dto[r].lookup = "exact" /\ Exists(key[r]) => Read(r).isDeleted
        /\ \/ Prepare(r, NoRow, NoRow, "put.add")     \* staged data stored
           \/ Answer(r)                                  \* 400, 404 or 413

(* addProfile looks the row up again.                                      *)
PutAdd(r) ==
  /\ pc[r] = "put.add"
  /\ IF dto[r].lookup # "none" /\ Exists(key[r])
     THEN Prepare(r, Read(r), Reused(Read(r), dto[r].hasData, at[r], r), "overwrite")
     ELSE Prepare(r, NoRow,
            NewRow([version |-> 0, stared |-> FALSE, isDeleted |-> FALSE],
                   at[r], dto[r].hasData, r), "put.insert")

PutInsert(r) == Insert(r, "put.insert", "put.clash")

(* The conflict handler addProfile passes to insert: mergeExistingProfile. *)
PutClash(r) ==
  /\ pc[r] = "put.clash"
  /\ \/ ~Exists(key[r]) /\ Answer(r)
     \/ /\ Exists(key[r])
        /\ Prepare(r, Read(r), Reused(Read(r), dto[r].hasData, at[r], r), "merge")

----------------------------------------------------------------------------
(* One-statement writers *)

(* softDeleteOldest: any batch of active rows that carry no exemption; the *)
(* order of the batch is the business of module Cleanup.                   *)
Cleanable(k) == Exists(k) /\ ~row[k].isDeleted /\ ~row[k].stared

SoftDelete ==
  /\ \E batch \in SUBSET {k \in Keys : Cleanable(k)} \ {{}} :
       row' = [k \in Keys |-> IF k \in batch THEN SoftDeleted(row[k], now, Cleaner)
                                             ELSE row[k]]
  /\ UNCHANGED <<nextId, now, reqVars>>

RemoveRows(gone) ==
  /\ gone # {}
  /\ row' = [k \in Keys |-> IF k \in gone THEN NoRow ELSE row[k]]
  /\ UNCHANGED <<nextId, now, reqVars>>

(* purgeDeletedRecord, purgeDeletedRecords, hardDeleteOldDeletedRecords    *)
Purge == \E gone \in SUBSET {k \in Keys : Exists(k) /\ row[k].isDeleted} : RemoveRows(gone)

ClearAll == RemoveRows({k \in Keys : Exists(k)})

Tick == now < MaxTime /\ now' = now + 1 /\ UNCHANGED <<row, nextId, reqVars>>

Terminated == (\A r \in Requests : pc[r] = "done") /\ UNCHANGED vars

Step(r) ==
  \/ StartPatch(r) \/ PatchRead(r) \/ PatchWrite(r) \/ PatchReread(r)
  \/ StartPost(r) \/ PostRead(r) \/ PostFile(r) \/ PostInsert(r) \/ PostClash(r)
  \/ StartPut(r) \/ PutRead(r) \/ PutAdd(r) \/ PutInsert(r) \/ PutClash(r)
  \/ Overwrite(r)

Next ==
  \/ \E r \in Requests : Step(r)
  \/ SoftDelete \/ Purge \/ ClearAll \/ Tick \/ Terminated

Spec == Init /\ [][Next]_vars

----------------------------------------------------------------------------
(* Properties *)

Writing(r) == pc[r] \in {"patch.write", "post.file", "overwrite", "merge"}

(* A whole-row UPDATE names its row by id only and rewrites every column,  *)
(* Type and Hash included: an id a request still holds after its row was   *)
(* purged must never have been given to another record.                    *)
IdsNameOneRecord ==
  /\ \A j, k \in Keys : Exists(j) /\ Exists(k) /\ row[j].id = row[k].id => j = k
  /\ \A r \in Requests : Writing(r) =>
       \A k \in Keys \ {key[r]} : Exists(k) => row[k].id # draft[r].id

SameRecord(k) == Exists(k) /\ row'[k] # NoRow /\ row'[k].id = row[k].id

(* A record that was purged stays purged: a late write of a request that   *)
(* had read it does not bring it back, only a new INSERT does, as another  *)
(* record (db.ts:260-275).                                                 *)
AppearsFresh(k) == row'[k].id = nextId /\ nextId' > nextId
RevivesNothing ==
  \A k \in Keys : row'[k] # NoRow /\ ~SameRecord(k) => AppearsFresh(k)
PurgeIsFinal == [][RevivesNothing]_vars

(* No acknowledged change of a record is overwritten by a request that had *)
(* not seen it (db.ts:267, db.ts:549).                                     *)
KeepsWrites == \A k \in Keys : SameRecord(k) => row[k].seen \subseteq row'[k].seen
NoLostWrite == [][KeepsWrites]_vars

(* Every change of a record moves its version forward: the clients decide  *)
(* by the version what is newer.                                           *)
MovesVersions ==
  \A k \in Keys : SameRecord(k) /\ row'[k] # row[k] => row'[k].version > row[k].version
VersionsGrow == [][MovesVersions]_vars

(* A PATCH that passed the acceptance rule and is still refused lost to    *)
(* another change, made by a writer it had not seen: a 409 is never        *)
(* spurious (db.ts:549-554).                                               *)
ConflictIsGenuine ==
  \A r \in Requests :
    pc[r] = "patch.reread" =>
      ~Exists(key[r]) \/ Read(r).id # snap[r].id \/ ~(Read(r).seen \subseteq snap[r].seen)

(* The table as the writers under optimistic concurrency control see it.   *)
Atomic == INSTANCE AtomicRecords WITH Times <- 0..MaxTime

(* Interleaved at every await, the requests still implement indivisible    *)
(* changes (design.md section 6).                                          *)
ImplementsAtomic == Atomic!Spec
=============================================================================
