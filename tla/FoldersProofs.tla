---------------------------- MODULE FoldersProofs ----------------------------
(* Theorems about Folders, checked by TLAPS for every set of records and   *)
(* requests, every limit and every bound on the ids.                       *)
EXTENDS Folders, FiniteSetTheorems, TLAPS

----------------------------------------------------------------------------
(* Types and ids                                                           *)

(* No record carries an id that was never handed out.                      *)
IdInv == TypeOK /\ \A k \in Records : folderOf[k] < nextId

(* A new id is the next one, and it is one of Ids.                         *)
LEMMA NextIdType == ASSUME TypeOK PROVE nextId \in Nat /\ nextId + 1 \in Nat
  BY ConstantsAssumption DEF TypeOK

(* What begins a request keeps the invariant.                              *)
LEMMA BeginIds ==
  ASSUME IdInv, NEW r \in Requests, NEW f \in 0..MaxId, f < nextId, NEW records \in SUBSET Records,
         NEW label \in {"insert", "moveOut", "set"}, Begin(r, label, f, records)
  PROVE  IdInv'
  BY ConstantsAssumption DEF IdInv, TypeOK, Begin, tables, Existing, Exists, Ids

(* A step of a request keeps the invariant: only InsertFolder uses an id,  *)
(* and it moves nextId past it.                                            *)
LEMMA StepIds == ASSUME IdInv, NEW r \in Requests, Step(r) PROVE IdInv'
<1>1. CASE CountFolders(r)
  <2>1. 0 \in 0..MaxId /\ 0 < nextId BY ConstantsAssumption DEF IdInv, TypeOK
  <2> QED BY <1>1, <2>1, BeginIds DEF CountFolders
<1>2. CASE InsertFolder(r)
  BY <1>2, ConstantsAssumption
  DEF IdInv, TypeOK, InsertFolder, FreshId, Goto, Existing, Exists, Ids
<1>3. CASE CheckDelete(r)
  <2>1. PICK f \in Existing : Begin(r, "moveOut", f, {}) BY <1>3 DEF CheckDelete
  <2>2. f \in 0..MaxId /\ f < nextId BY ConstantsAssumption DEF IdInv, TypeOK, Existing, Ids
  <2> QED BY <2>1, <2>2, BeginIds
<1>4. CASE MoveOut(r)
  <2>1. folderOf' \in [Records -> 0..MaxId] /\ \A k \in Records : folderOf'[k] < nextId
    BY <1>4, ConstantsAssumption DEF IdInv, TypeOK, MoveOut
  <2> QED BY <1>4, <2>1, ConstantsAssumption DEF IdInv, TypeOK, MoveOut, Goto, Existing, Exists, Ids
<1>5. CASE DropFolder(r)
  BY <1>5, ConstantsAssumption DEF IdInv, TypeOK, DropFolder, Goto, Existing, Exists, Ids
<1>6. CASE CheckMove(r)
  <2>1. PICK f \in Existing \cup {0}, records \in SUBSET Records \ {{}} :
          Begin(r, "set", f, records)
    BY <1>6 DEF CheckMove
  <2>2. f \in 0..MaxId /\ f < nextId BY ConstantsAssumption DEF IdInv, TypeOK, Existing, Ids
  <2> QED BY <2>1, <2>2, BeginIds
<1>7. CASE SetChunk(r)
  <2>1. PICK chunk \in SUBSET todo[r] :
          /\ folderOf' = [k \in Records |->
                            IF k \in chunk /\ row[k] # "none" THEN target[r] ELSE folderOf[k]]
          /\ todo' = [todo EXCEPT ![r] = @ \ chunk]
          /\ Goto(r, IF chunk = todo[r] THEN "idle" ELSE "set")
    BY <1>7 DEF SetChunk
  <2>2. UNCHANGED <<name, nextId, row, target>> /\ target[r] < nextId
    BY <1>7 DEF SetChunk, IdInv, TypeOK
  <2>3. folderOf' \in [Records -> 0..MaxId] /\ \A k \in Records : folderOf'[k] < nextId
    BY <2>1, <2>2 DEF IdInv, TypeOK
  <2> QED BY <2>1, <2>2, <2>3, <1>7, ConstantsAssumption
          DEF SetChunk, IdInv, TypeOK, Goto, Existing, Exists, Ids
<1>8. CASE Fail(r)
  BY <1>8, ConstantsAssumption DEF IdInv, TypeOK, Fail, Goto, tables, Existing, Exists, Ids
<1> QED BY <1>1, <1>2, <1>3, <1>4, <1>5, <1>6, <1>7, <1>8 DEF Step

(* What happens to the records keeps it as well.                           *)
LEMMA RecordIds ==
  ASSUME IdInv,
         \/ \E k \in Records : InsertRecord(k) \/ MoveToTrash(k) \/ Restore(k)
         \/ Purge \/ ClearAll \/ RenameFolder
  PROVE  IdInv'
<1>1. ASSUME NEW k \in Records, InsertRecord(k) \/ MoveToTrash(k) \/ Restore(k) PROVE IdInv'
  BY <1>1 DEF IdInv, TypeOK, InsertRecord, MoveToTrash, Restore, requests, Existing, Exists, Ids
<1>2. ASSUME NEW gone \in SUBSET Records, Remove(gone) PROVE IdInv'
  BY <1>2, ConstantsAssumption DEF IdInv, TypeOK, Remove, requests, Existing, Exists, Ids
<1>3. ASSUME RenameFolder PROVE IdInv'
  BY <1>3 DEF IdInv, TypeOK, RenameFolder, requests, Existing, Exists, Ids
<1> QED BY <1>1, <1>2, <1>3 DEF Purge, ClearAll

(* The invariant of the ids is inductive.                                  *)
LEMMA IdInvHolds == Spec => []IdInv
<1>1. Init => IdInv
  BY ConstantsAssumption DEF Init, IdInv, TypeOK, Existing, Exists, Ids
<1>2. IdInv /\ [Next]_vars => IdInv'
  <2> SUFFICES ASSUME IdInv, [Next]_vars PROVE IdInv' OBVIOUS
  <2>1. CASE UNCHANGED vars
    BY <2>1 DEF vars, tables, requests, IdInv, TypeOK, Existing, Exists, Ids
  <2> QED BY <2>1, StepIds, RecordIds DEF Next
<1> QED BY <1>1, <1>2, PTL DEF Spec

(* Type correctness, for every value of the constants.                     *)
THEOREM Typing == Spec => []TypeOK
  BY IdInvHolds, PTL DEF IdInv

(* A new folder never inherits records, or a request checked for another   *)
(* folder of its id: whatever is in flight while folders come and go.      *)
THEOREM NewFoldersStartEmpty == Spec => NewFoldersAreEmpty
<1>1. IdInv /\ [Next]_vars => [BornEmpty]_vars
  <2> SUFFICES ASSUME IdInv, Next PROVE BornEmpty BY DEF vars
  <2> SUFFICES ASSUME NEW f \in Ids, ~Exists(f), name'[f] # NoName
               PROVE  Members(f) = {} /\ Moving(f) = {} /\ Deleting(f) = {}
    BY DEF BornEmpty
  <2>1. f = nextId
    <3>1. name' # name BY DEF Exists
    <3>2. CASE RenameFolder BY <3>2 DEF RenameFolder, Existing, Exists, IdInv, TypeOK
    <3>3. CASE \E r \in Requests : InsertFolder(r)
      BY <3>1, <3>3 DEF InsertFolder, FreshId, Exists, IdInv, TypeOK
    <3>4. CASE \E r \in Requests : DropFolder(r)
      BY <3>4 DEF DropFolder, Exists, IdInv, TypeOK
    <3> QED BY <3>1, <3>2, <3>3, <3>4
      DEF Next, Step, CountFolders, CheckDelete, CheckMove, MoveOut, SetChunk, Fail, Begin,
          tables, InsertRecord, MoveToTrash, Restore, Purge, ClearAll, Remove
  <2>2. Members(f) = {} BY <2>1 DEF Members, IdInv, TypeOK
  <2>3. Moving(f) = {} /\ Deleting(f) = {} BY <2>1 DEF Moving, Deleting, IdInv, TypeOK
  <2> QED BY <2>2, <2>3
<1> QED BY <1>1, IdInvHolds, PTL DEF Spec, NewFoldersAreEmpty

----------------------------------------------------------------------------
(* Deleting a folder, when no records move into it meanwhile               *)

Serial == ~Overlap

(* What a request has checked still holds, and between the UPDATE and the  *)
(* DELETE of a deletion the folder stays empty.                            *)
SerialInv ==
  /\ IdInv
  /\ FoldersOfRecordsExist
  /\ \A r \in Requests : pc[r] = "set" /\ target[r] # 0 => Exists(target[r])
  /\ \A r \in Requests : pc[r] \in {"moveOut", "drop"} =>
                           target[r] # 0 /\ Moving(target[r]) = {}
  /\ \A r \in Requests : pc[r] = "drop" => Members(target[r]) = {}

(* A step of a request keeps it.                                           *)
LEMMA StepSerial == ASSUME Serial, SerialInv, NEW r \in Requests, Step(r) PROVE SerialInv'
<1> USE ConstantsAssumption DEF SerialInv, IdInv, TypeOK
<1>0. IdInv' BY StepIds DEF SerialInv
<1>1. CASE CountFolders(r)
  BY <1>0, <1>1 DEF CountFolders, Begin, tables, FoldersOfRecordsExist, Exists, Moving, Members
<1>2. CASE InsertFolder(r)
  <2>1. \A f \in Ids : Exists(f) => name'[f] # NoName
    BY <1>2 DEF InsertFolder, FreshId, Exists, Existing, Ids
  <2>2. FoldersOfRecordsExist'
    BY <1>2, <2>1 DEF InsertFolder, FoldersOfRecordsExist, Exists, Ids
  <2>3. \A q \in Requests : pc'[q] # "idle" => pc'[q] = pc[q] /\ target'[q] = target[q]
    BY <1>2 DEF InsertFolder, Goto
  <2>4. \A q \in Requests : pc'[q] = "set" /\ target'[q] # 0 => name'[target'[q]] # NoName
    BY <2>1, <2>3 DEF Exists, Ids
  <2>5. UNCHANGED <<folderOf, target>> BY <1>2 DEF InsertFolder
  <2> QED BY <1>0, <2>2, <2>3, <2>4, <2>5 DEF Exists, Moving, Members
<1>3. CASE CheckDelete(r)
  <2>1. PICK f \in Existing : Moving(f) = {} /\ Begin(r, "moveOut", f, {})
    BY <1>3 DEF CheckDelete, Serial
  <2>2. f # 0 BY DEF Existing, Ids
  <2> QED BY <1>0, <2>1, <2>2
          DEF Begin, tables, FoldersOfRecordsExist, Exists, Moving, Members
<1>4. CASE MoveOut(r)
  <2>1. \A k \in Records : folderOf'[k] # target[r] BY <1>4 DEF MoveOut, Members
  <2>2. \A q \in Requests : pc[q] = "drop" => \A k \in Records : folderOf'[k] # target[q]
    BY <1>4 DEF MoveOut, Members
  <2>3. FoldersOfRecordsExist'
    BY <1>4 DEF MoveOut, FoldersOfRecordsExist, Exists, Members
  <2>4. UNCHANGED <<name, target>>
        /\ \A q \in Requests : IF q = r THEN pc'[q] = "drop" ELSE pc'[q] = pc[q]
    BY <1>4 DEF MoveOut, Goto
  <2>5. pc[r] = "moveOut" BY <1>4 DEF MoveOut
  <2> QED BY <1>0, <2>1, <2>2, <2>3, <2>4, <2>5 DEF Exists, Moving, Members
<1>5. CASE DropFolder(r)
  <2>1. FoldersOfRecordsExist'
    BY <1>5 DEF DropFolder, FoldersOfRecordsExist, Exists, Members
  <2>2. \A q \in Requests : pc'[q] = "set" /\ target'[q] # 0 => name'[target'[q]] # NoName
    BY <1>5 DEF DropFolder, Goto, Exists, Moving
  <2>3. \A q \in Requests : pc'[q] # "idle" => pc'[q] = pc[q]
    BY <1>5 DEF DropFolder, Goto
  <2>4. UNCHANGED <<folderOf, target>> BY <1>5 DEF DropFolder
  <2> QED BY <1>0, <2>1, <2>2, <2>3, <2>4 DEF Exists, Moving, Members
<1>6. CASE CheckMove(r)
  <2>1. PICK f \in Existing \cup {0}, records \in SUBSET Records \ {{}} :
          (f = 0 \/ Deleting(f) = {}) /\ Begin(r, "set", f, records)
    BY <1>6 DEF CheckMove, Serial
  <2>2. f # 0 => Exists(f) BY <2>1 DEF Existing
  <2>3. \A q \in Requests : pc'[q] \in {"moveOut", "drop"} =>
          /\ q # r /\ pc'[q] = pc[q] /\ target'[q] = target[q]
          /\ \A p \in Requests : ~(pc'[p] = "set" /\ target'[p] = target[q])
    BY <2>1 DEF Begin, Moving, Deleting
  <2> QED BY <1>0, <2>1, <2>2, <2>3
          DEF Begin, tables, FoldersOfRecordsExist, Exists, Moving, Members
<1>7. CASE SetChunk(r)
  <2>1. PICK chunk \in SUBSET todo[r] :
          /\ folderOf' = [k \in Records |->
                            IF k \in chunk /\ row[k] # "none" THEN target[r] ELSE folderOf[k]]
          /\ todo' = [todo EXCEPT ![r] = @ \ chunk]
          /\ Goto(r, IF chunk = todo[r] THEN "idle" ELSE "set")
    BY <1>7 DEF SetChunk
  <2>2. pc[r] = "set" /\ UNCHANGED <<name, nextId, row, target>> BY <1>7 DEF SetChunk
  <2>3. FoldersOfRecordsExist' BY <2>1, <2>2 DEF FoldersOfRecordsExist, Exists
  <2>4. \A q \in Requests : pc'[q] # "idle" => pc'[q] = pc[q] BY <2>1, <2>2 DEF Goto
  <2>5. \A q \in Requests : pc'[q] = "drop" => \A k \in Records : folderOf'[k] # target[q]
    BY <2>1, <2>2, <2>4 DEF Members, Moving
  <2> QED BY <1>0, <2>2, <2>3, <2>4, <2>5 DEF Exists, Moving, Members
<1>8. CASE Fail(r)
  BY <1>0, <1>8 DEF Fail, Goto, tables, FoldersOfRecordsExist, Exists, Moving, Members
<1> QED BY <1>1, <1>2, <1>3, <1>4, <1>5, <1>6, <1>7, <1>8 DEF Step

(* No record of a deleted folder is left behind, whatever fails between    *)
(* the statements, as long as moves into it do not overlap its deletion.   *)
THEOREM DeletionLeavesNoneBehind == ASSUME Serial PROVE Spec => []FoldersOfRecordsExist
<1>1. Init => SerialInv
  BY ConstantsAssumption
  DEF Init, SerialInv, IdInv, TypeOK, Existing, Exists, Ids, FoldersOfRecordsExist
<1>2. SerialInv /\ [Next]_vars => SerialInv'
  <2> SUFFICES ASSUME SerialInv, [Next]_vars PROVE SerialInv' OBVIOUS
  <2>1. CASE UNCHANGED vars
    BY <2>1 DEF vars, tables, requests, SerialInv, IdInv, TypeOK, FoldersOfRecordsExist,
                Existing, Exists, Ids, Moving, Members
  <2>2. ASSUME NEW r \in Requests, Step(r) PROVE SerialInv' BY <2>2, StepSerial
  <2>3. CASE \/ \E k \in Records : InsertRecord(k) \/ MoveToTrash(k) \/ Restore(k)
             \/ Purge \/ ClearAll \/ RenameFolder
    <3>1. IdInv' BY <2>3, RecordIds DEF SerialInv
    <3>2. UNCHANGED requests
      BY <2>3 DEF InsertRecord, MoveToTrash, Restore, Purge, ClearAll, Remove, RenameFolder
    <3>3. \A f \in Ids : name[f] # NoName => name'[f] # NoName
      <4>1. CASE RenameFolder
        BY <4>1, ConstantsAssumption DEF RenameFolder, SerialInv, IdInv, TypeOK
      <4>2. CASE UNCHANGED name BY <4>2
      <4> QED BY <2>3, <4>1, <4>2 DEF InsertRecord, MoveToTrash, Restore, Purge, ClearAll, Remove
    <3>4. \A k \in Records : folderOf'[k] \in {0, folderOf[k]}
      BY <2>3 DEF InsertRecord, MoveToTrash, Restore, Purge, ClearAll, Remove, RenameFolder,
                  SerialInv, IdInv, TypeOK
    <3>5. FoldersOfRecordsExist'
      BY <3>3, <3>4, ConstantsAssumption
      DEF FoldersOfRecordsExist, Exists, Ids, SerialInv, IdInv, TypeOK
    <3>6. \A r \in Requests : pc[r] = "set" /\ target[r] # 0 => name'[target[r]] # NoName
      BY <3>3, ConstantsAssumption DEF SerialInv, Exists, IdInv, TypeOK, Ids
    <3>7. \A r \in Requests : pc[r] = "drop" => \A k \in Records : folderOf'[k] # target[r]
      BY <3>4 DEF Members, SerialInv
    <3> QED BY <3>1, <3>2, <3>5, <3>6, <3>7 DEF SerialInv, requests, Exists, Moving, Members
  <2> QED BY <2>1, <2>2, <2>3 DEF Next
<1> QED BY <1>1, <1>2, PTL DEF Spec, SerialInv

----------------------------------------------------------------------------
(* The number of folders *)

Inserting == {r \in Requests : pc[r] = "insert"}

(* Each request past its COUNT may add one folder to what it counted.      *)
CountInv ==
  /\ IdInv
  /\ Cardinality(Existing) + Cardinality(Inserting) < FoldersMax + Cardinality(Requests)

(* The sets that are counted are finite.                                   *)
LEMMA Finite ==
  ASSUME TypeOK
  PROVE  /\ IsFiniteSet(Existing) /\ Cardinality(Existing) \in Nat
         /\ IsFiniteSet(Inserting) /\ Cardinality(Inserting) \in Nat
         /\ IsFiniteSet(Requests) /\ Cardinality(Requests) \in Nat
         /\ Cardinality(Inserting) <= Cardinality(Requests)
         /\ (\E r \in Requests : r \notin Inserting) =>
              Cardinality(Inserting) < Cardinality(Requests)
<1>1. IsFiniteSet(Ids) BY FS_Interval, ConstantsAssumption DEF Ids
<1>2. IsFiniteSet(Existing) BY <1>1, FS_Subset DEF Existing
<1>3. Inserting \subseteq Requests /\ IsFiniteSet(Requests)
  BY ConstantsAssumption DEF Inserting
<1>4. IsFiniteSet(Inserting) BY <1>3, FS_Subset
<1>5. Cardinality(Inserting) <= Cardinality(Requests) BY <1>3, FS_Subset
<1>6. (\E r \in Requests : r \notin Inserting) => Cardinality(Inserting) < Cardinality(Requests)
  <2> SUFFICES ASSUME NEW r \in Requests, r \notin Inserting
               PROVE  Cardinality(Inserting) < Cardinality(Requests)
    OBVIOUS
  <2>1. Cardinality(Inserting) # Cardinality(Requests) BY <1>3, FS_Subset
  <2> QED BY <1>3, <1>4, <1>5, <2>1, FS_CardinalityType
<1> QED BY <1>2, <1>3, <1>4, <1>5, <1>6, FS_CardinalityType

(* The overshoot stays below one folder for each request in flight.        *)
THEOREM Overshoot == Spec => []FoldersNearlyBounded
<1>1. Init => CountInv
  <2> SUFFICES ASSUME Init PROVE CountInv OBVIOUS
  <2>1. IdInv BY ConstantsAssumption DEF Init, IdInv, TypeOK, Existing, Exists, Ids
  <2>2. Existing = {} /\ Inserting = {} BY DEF Init, Existing, Exists, Inserting
  <2>3. Cardinality(Requests) \in Nat /\ Cardinality(Requests) # 0
    BY ConstantsAssumption, FS_CardinalityType, FS_EmptySet
  <2> QED BY <2>1, <2>2, <2>3, FS_EmptySet, ConstantsAssumption DEF CountInv
<1>2. CountInv /\ [Next]_vars => CountInv'
  <2> SUFFICES ASSUME CountInv, [Next]_vars PROVE CountInv' OBVIOUS
  <2>1. IdInv'
    <3>1. CASE UNCHANGED vars
      BY <3>1 DEF vars, tables, requests, CountInv, IdInv, TypeOK, Existing, Exists, Ids
    <3> QED BY <3>1, StepIds, RecordIds DEF Next, CountInv
  <2>2. TypeOK /\ TypeOK' /\ FoldersMax \in Nat
    BY <2>1, ConstantsAssumption DEF CountInv, IdInv
  <2>3. CASE Existing' \subseteq Existing /\ Inserting' \subseteq Inserting
    <3>1. Cardinality(Existing') <= Cardinality(Existing) /\ Cardinality(Existing') \in Nat
      BY <2>2, <2>3, Finite, FS_Subset, FS_CardinalityType
    <3>2. Cardinality(Inserting') <= Cardinality(Inserting) /\ Cardinality(Inserting') \in Nat
      BY <2>2, <2>3, Finite, FS_Subset, FS_CardinalityType
    <3> QED BY <2>1, <2>2, <3>1, <3>2, Finite DEF CountInv
  <2>4. ASSUME NEW r \in Requests, CountFolders(r) PROVE CountInv'
    <3>1. Existing' = Existing /\ Inserting' = Inserting \cup {r} /\ r \notin Inserting
      BY <2>2, <2>4 DEF CountFolders, Begin, tables, Existing, Exists, Inserting, TypeOK
    <3>2. Cardinality(Existing) < FoldersMax
      BY <2>2, <2>4, Finite DEF CountFolders, TooMany
    <3>3. Cardinality(Inserting') = Cardinality(Inserting) + 1
      BY <2>2, <3>1, Finite, FS_AddElement
    <3>4. Cardinality(Inserting) < Cardinality(Requests) BY <2>2, <3>1, Finite
    <3> QED BY <2>1, <2>2, <3>1, <3>2, <3>3, <3>4, Finite DEF CountInv
  <2>5. ASSUME NEW r \in Requests, InsertFolder(r) PROVE CountInv'
    <3>1. r \in Inserting /\ Inserting' = Inserting \ {r}
      BY <2>2, <2>5 DEF InsertFolder, Goto, Inserting, TypeOK
    <3>2. Existing' \subseteq Existing \cup {nextId}
      BY <2>2, <2>5 DEF InsertFolder, FreshId, Existing, Exists, TypeOK
    <3>3. Cardinality(Inserting') = Cardinality(Inserting) - 1
      BY <2>2, <3>1, Finite, FS_RemoveElement
    <3>4. /\ IsFiniteSet(Existing \cup {nextId})
          /\ Cardinality(Existing \cup {nextId}) <= Cardinality(Existing) + 1
      <4>1. IsFiniteSet(Existing) /\ Cardinality(Existing) \in Nat BY <2>2, Finite
      <4>2. /\ IsFiniteSet(Existing \cup {nextId})
            /\ Cardinality(Existing \cup {nextId}) =
                 IF nextId \in Existing THEN Cardinality(Existing) ELSE Cardinality(Existing) + 1
        BY <4>1, FS_AddElement
      <4> QED BY <4>1, <4>2
    <3>5. Cardinality(Existing') <= Cardinality(Existing) + 1 /\ Cardinality(Existing') \in Nat
      BY <2>2, <3>2, <3>4, Finite, FS_Subset, FS_CardinalityType
    <3> QED BY <2>1, <2>2, <3>3, <3>5, Finite DEF CountInv
  <2>6. CASE UNCHANGED vars
    BY <2>3, <2>6 DEF vars, tables, requests, Existing, Exists, Inserting
  <2>7. CASE RenameFolder
    BY <2>2, <2>3, <2>7 DEF RenameFolder, requests, Existing, Exists, Inserting, TypeOK
  <2>8. ASSUME NEW r \in Requests,
               CheckDelete(r) \/ MoveOut(r) \/ CheckMove(r) \/ SetChunk(r) \/ Fail(r)
        PROVE  CountInv'
    <3>1. UNCHANGED name
      BY <2>8 DEF CheckDelete, MoveOut, CheckMove, SetChunk, Fail, Begin, tables
    <3>2. \A q \in Requests : pc'[q] = "insert" => pc[q] = "insert"
      BY <2>2, <2>8 DEF CheckDelete, MoveOut, CheckMove, SetChunk, Fail, Begin, Goto, TypeOK
    <3> QED BY <2>3, <3>1, <3>2 DEF Existing, Exists, Inserting
  <2>9. ASSUME NEW r \in Requests, DropFolder(r) PROVE CountInv'
    BY <2>2, <2>3, <2>9 DEF DropFolder, Goto, Existing, Exists, Inserting, TypeOK
  <2>10. CASE \/ \E k \in Records : InsertRecord(k) \/ MoveToTrash(k) \/ Restore(k)
              \/ Purge \/ ClearAll
    <3>1. UNCHANGED <<name, pc>>
      BY <2>10 DEF InsertRecord, MoveToTrash, Restore, Purge, ClearAll, Remove, requests
    <3> QED BY <2>3, <3>1 DEF Existing, Exists, Inserting
  <2> QED BY <2>4, <2>5, <2>6, <2>7, <2>8, <2>9, <2>10 DEF Next, Step
<1>3. CountInv => FoldersNearlyBounded
  BY Finite, ConstantsAssumption DEF CountInv, IdInv, FoldersNearlyBounded
<1> QED BY <1>1, <1>2, <1>3, PTL DEF Spec
=============================================================================
