------------------------------- MODULE Folders -------------------------------
(***************************************************************************)
(* The folders of the web interface: the Folders table and the FolderId    *)
(* column of HistoryRecords (src/src/db.ts, ui/routes/folders.ts).         *)
(*                                                                         *)
(* Creating a folder is a COUNT and an INSERT, deleting one is a check,    *)
(* an UPDATE that moves its records out and a DELETE, moving records is a  *)
(* check and one UPDATE for every Chunk of them.  D1 runs each statement   *)
(* atomically and nothing ties the statements of a request together.       *)
(* Folder 0 is no folder.                                                  *)
(***************************************************************************)
EXTENDS Integers, FiniteSets

CONSTANTS
  Records,    \* (Type, Hash) pairs
  Names,      \* folder names
  NoName,
  Requests,   \* concurrent requests; each serves one call after another
  FoldersMax, \* FOLDERS_MAX
  Chunk,      \* FOLDER_SET_CHUNK
  Overlap,    \* whether a folder may be deleted while records move into it
  MaxId       \* bound on the ids AUTOINCREMENT hands out

ASSUME ConstantsAssumption ==
  /\ NoName \notin Names
  /\ IsFiniteSet(Requests) /\ Requests # {}
  /\ FoldersMax \in Nat /\ Chunk \in Nat \ {0} /\ MaxId \in Nat /\ Overlap \in BOOLEAN

VARIABLES
  name,      \* of each folder, by id
  nextId,
  row,       \* "none", "active", or "trash" of each record
  folderOf,  \* HistoryRecords.FolderId
  pc,        \* the statement that each request issues next
  target,    \* the folder it is about
  todo       \* the records it has still to move

tables == <<name, nextId, row, folderOf>>
requests == <<pc, target, todo>>
vars == <<tables, requests>>

Ids == 1..MaxId
Exists(f) == name[f] # NoName
Existing == {f \in Ids : Exists(f)}

(* Every variable has its type, and no id has been handed out before its   *)
(* turn (schema.sql, Folders.Id AUTOINCREMENT).                            *)
TypeOK ==
  /\ name \in [Ids -> Names \cup {NoName}]
  /\ nextId \in 1..(MaxId + 1)
  /\ row \in [Records -> {"none", "active", "trash"}]
  /\ folderOf \in [Records -> 0..MaxId]
  /\ pc \in [Requests -> {"idle", "insert", "moveOut", "drop", "set"}]
  /\ target \in [Requests -> 0..MaxId]
  /\ todo \in [Requests -> SUBSET Records]
  /\ \A f \in Existing : f < nextId
  /\ \A r \in Requests : pc[r] # "idle" => target[r] < nextId

Init ==
  /\ name = [f \in Ids |-> NoName]
  /\ nextId = 1
  /\ row \in [Records -> {"none", "active", "trash"}]
  /\ folderOf = [k \in Records |-> 0]
  /\ pc = [r \in Requests |-> "idle"]
  /\ target = [r \in Requests |-> 0]
  /\ todo = [r \in Requests |-> {}]

Begin(r, label, f, records) ==
  /\ pc[r] = "idle"
  /\ pc' = [pc EXCEPT ![r] = label]
  /\ target' = [target EXCEPT ![r] = f]
  /\ todo' = [todo EXCEPT ![r] = records]
  /\ UNCHANGED tables

Goto(r, label) == pc' = [pc EXCEPT ![r] = label]

----------------------------------------------------------------------------
(* createFolder, renameFolder                                              *)

OnlyBeyond(n) == n > FoldersMax                          \* a fault
TooMany(n) == n >= FoldersMax

CountFolders(r) == ~TooMany(Cardinality(Existing)) /\ Begin(r, "insert", 0, {})

(* AUTOINCREMENT; a plain key would be the largest one in use plus one.    *)
LargestPlusOne ==                                        \* a fault
  IF Existing = {} THEN 1 ELSE 1 + (CHOOSE f \in Existing : \A g \in Existing : f >= g)
FreshId == nextId

InsertFolder(r) ==
  /\ pc[r] = "insert" /\ nextId <= MaxId
  /\ \E n \in Names :
       IF \E f \in Ids : name[f] = n
       THEN UNCHANGED <<name, nextId>>                   \* 409
       ELSE name' = [name EXCEPT ![FreshId] = n] /\ nextId' = nextId + 1
  /\ Goto(r, "idle")
  /\ UNCHANGED <<row, folderOf, target, todo>>

RenameFolder ==
  /\ \E f \in Existing, n \in Names :
       (\A g \in Ids : name[g] # n) /\ name' = [name EXCEPT ![f] = n]
  /\ UNCHANGED <<nextId, row, folderOf, requests>>

----------------------------------------------------------------------------
(* deleteFolder: check, move the records out, delete the row               *)

Moving(f) == {r \in Requests : pc[r] = "set" /\ target[r] = f}
Deleting(f) == {r \in Requests : pc[r] \in {"moveOut", "drop"} /\ target[r] = f}

CheckDelete(r) ==
  \E f \in Existing :
    /\ Overlap \/ Moving(f) = {}
    /\ Begin(r, "moveOut", f, {})

(* The members in the recycle bin move out as well.                        *)
ActiveMembers(f) == {k \in Records : folderOf[k] = f /\ row[k] = "active"}   \* a fault
Members(f) == {k \in Records : folderOf[k] = f}

MoveOut(r) ==
  /\ pc[r] = "moveOut"
  /\ folderOf' = [k \in Records |-> IF k \in Members(target[r]) THEN 0 ELSE folderOf[k]]
  /\ Goto(r, "drop")
  /\ UNCHANGED <<name, nextId, row, target, todo>>

DropFolder(r) ==
  /\ pc[r] = "drop"
  /\ name' = [name EXCEPT ![target[r]] = NoName]
  /\ Goto(r, "idle")
  /\ UNCHANGED <<nextId, row, folderOf, target, todo>>

----------------------------------------------------------------------------
(* batch-folder: check, then setFolder chunk by chunk; folder 0 needs no   *)
(* check.                                                                  *)

CheckMove(r) ==
  \E f \in Existing \cup {0}, records \in SUBSET Records \ {{}} :
    /\ Overlap \/ f = 0 \/ Deleting(f) = {}
    /\ Begin(r, "set", f, records)

SetChunk(r) ==
  /\ pc[r] = "set"
  /\ \E chunk \in SUBSET todo[r] :
       /\ Cardinality(chunk) = Chunk \/ (chunk = todo[r] /\ Cardinality(chunk) < Chunk)
       /\ folderOf' = [k \in Records |->
                         IF k \in chunk /\ row[k] # "none" THEN target[r] ELSE folderOf[k]]
       /\ todo' = [todo EXCEPT ![r] = @ \ chunk]
       /\ Goto(r, IF chunk = todo[r] THEN "idle" ELSE "set")
  /\ UNCHANGED <<name, nextId, row, target>>

(* A statement fails, or the isolate is gone.                              *)
Fail(r) ==
  /\ pc[r] # "idle"
  /\ Goto(r, "idle")
  /\ UNCHANGED <<tables, target, todo>>

----------------------------------------------------------------------------
(* What the rest of the system does to the records.  FolderId is in none   *)
(* of its column lists (db.ts:143-155): a new row starts outside of every  *)
(* folder, and a row keeps its folder through the recycle bin.             *)

InsertRecord(k) ==
  /\ row[k] = "none"
  /\ row' = [row EXCEPT ![k] = "active"]
  /\ UNCHANGED <<name, nextId, folderOf, requests>>

MoveToTrash(k) ==
  /\ row[k] = "active"
  /\ row' = [row EXCEPT ![k] = "trash"]
  /\ UNCHANGED <<name, nextId, folderOf, requests>>

Restore(k) ==
  /\ row[k] = "trash"
  /\ row' = [row EXCEPT ![k] = "active"]
  /\ UNCHANGED <<name, nextId, folderOf, requests>>

(* A purge of one record, of the recycle bin, or of everything.            *)
Remove(gone) ==
  /\ gone # {}
  /\ row' = [k \in Records |-> IF k \in gone THEN "none" ELSE row[k]]
  /\ folderOf' = [k \in Records |-> IF k \in gone THEN 0 ELSE folderOf[k]]
  /\ UNCHANGED <<name, nextId, requests>>

Purge == \E gone \in SUBSET {k \in Records : row[k] = "trash"} : Remove(gone)
ClearAll == Remove({k \in Records : row[k] # "none"})

Step(r) == CountFolders(r) \/ InsertFolder(r) \/ CheckDelete(r) \/ MoveOut(r)
           \/ DropFolder(r) \/ CheckMove(r) \/ SetChunk(r) \/ Fail(r)

Next ==
  \/ \E r \in Requests : Step(r)
  \/ RenameFolder
  \/ \E k \in Records : InsertRecord(k) \/ MoveToTrash(k) \/ Restore(k)
  \/ Purge \/ ClearAll

Spec == Init /\ [][Next]_vars

----------------------------------------------------------------------------
(* Properties *)

(* A record is in a folder that exists: with the id of a deleted one it    *)
(* would be exempt from cleaning for ever and nobody could see it          *)
(* (db.ts:681-683, folders.ts:138, ui.md:96 item 4).                       *)
FoldersOfRecordsExist ==
  \A k \in Records : folderOf[k] # 0 => Exists(folderOf[k])

(* What the COUNT before the INSERT does ensure: FOLDERS_MAX is exceeded   *)
(* by less than one folder for each request in flight (db.ts:644-650).     *)
FoldersNearlyBounded == Cardinality(Existing) < FoldersMax + Cardinality(Requests)

(* A new folder starts empty: no record still carries its id from an       *)
(* earlier life, and no request is on its way to put records under that    *)
(* id, checked when it was another folder's (schema.sql, Folders.Id).      *)
BornEmpty ==
  \A f \in Ids :
    ~Exists(f) /\ name'[f] # NoName =>
      /\ Members(f) = {}
      /\ Moving(f) = {} /\ Deleting(f) = {}
NewFoldersAreEmpty == [][BornEmpty]_vars
=============================================================================
