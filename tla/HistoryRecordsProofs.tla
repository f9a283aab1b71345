------------------------ MODULE HistoryRecordsProofs ------------------------
(* Theorems about HistoryRecords, checked by TLAPS for every value of its  *)
(* constants.                                                              *)
EXTENDS HistoryRecords, TLAPS

----------------------------------------------------------------------------
(* The rules map rows to rows *)

(* Signing a row keeps it a row.                                           *)
LEMMA SignedType ==
  ASSUME NEW e \in Rows, NEW by \in Writers
  PROVE  Signed(e, by) \in Rows
BY DEF Signed, Rows

(* A PATCH of a row yields a row with the same id.                         *)
LEMMA PatchedType ==
  ASSUME NEW e \in Rows, NEW d \in PatchDtos, NEW t \in 0..MaxTime, NEW by \in Writers
  PROVE  /\ Patched(e, d, t, by) \in Rows
         /\ Patched(e, d, t, by).id = e.id
         /\ Patched(e, d, t, by).version = PatchVersion(e, d)
         /\ Patched(e, d, t, by).seen = e.seen \cup {<<by, PatchVersion(e, d)>>}
<1>1. PatchVersion(e, d) \in Int
  BY DtoAssumption DEF PatchVersion, Given, Rows, OptInt
<1>2. PatchTime(e, d, t) \in Int
  BY DtoAssumption, StoredAssumption DEF PatchTime, Given, MaxOf, Rows, OptInt
<1>3. Given(d.stared, e.stared) \in BOOLEAN /\ Given(d.isDeleted, e.isDeleted) \in BOOLEAN
  BY DtoAssumption DEF Given, Rows, OptBool
<1> DEFINE p == [e EXCEPT !.version = PatchVersion(e, d), !.lastModified = PatchTime(e, d, t),
                          !.stared = Given(d.stared, @), !.isDeleted = Given(d.isDeleted, @)]
<1>4. p \in Rows /\ p.id = e.id /\ p.version = PatchVersion(e, d) /\ p.seen = e.seen
  BY <1>1, <1>2, <1>3 DEF Rows
<1>5. Patched(e, d, t, by) = Signed(p, by)
  BY DEF Patched
<1> HIDE DEF p
<1> QED BY <1>4, <1>5, SignedType DEF Signed, Rows

(* An uploaded record is a row with the id of the row it was merged into.  *)
LEMMA UploadedType ==
  ASSUME NEW e \in Rows, NEW d \in PostDtos, NEW by \in Writers
  PROVE  Uploaded(e, d, by) \in Rows /\ Uploaded(e, d, by).id = e.id
<1> DEFINE u == [e EXCEPT !.version = MaxOf(d.version, e.version + 1),
                          !.lastModified = d.lastModified,
                          !.stared = d.stared, !.isDeleted = d.isDeleted]
<1>1. MaxOf(d.version, e.version + 1) \in Int
  BY DtoAssumption DEF MaxOf, Rows
<1>2. u \in Rows /\ u.id = e.id
  BY <1>1, DtoAssumption DEF Rows
<1>3. Uploaded(e, d, by) = Signed(u, by)
  BY DEF Uploaded
<1> HIDE DEF u
<1> QED BY <1>2, <1>3, SignedType DEF Signed, Rows

(* So is a reused one.                                                     *)
LEMMA ReusedType ==
  ASSUME NEW e \in Rows, NEW h \in BOOLEAN, NEW t \in 0..MaxTime, NEW by \in Writers
  PROVE  Reused(e, h, t, by) \in Rows /\ Reused(e, h, t, by).id = e.id
<1> DEFINE f == e.file \/ h
           x == FALSE
           u == [e EXCEPT !.version = @ + 1, !.lastModified = t,
                          !.isDeleted = x, !.file = f]
<1>1. f \in BOOLEAN /\ x \in BOOLEAN
  BY Zenon DEF Rows
<1>2. Reused(e, h, t, by) = Signed(u, by)
  BY Zenon DEF Reused
<1> HIDE DEF f, x
<1>3. u \in Rows /\ u.id = e.id
  <2>1. e.version + 1 \in Int /\ t \in Int
    BY StoredAssumption DEF Rows
  <2> QED BY <1>1, <2>1 DEF Rows
<1> HIDE DEF u
<1> QED BY <1>2, <1>3, SignedType DEF Signed, Rows

(* A soft-deleted row is a row with the same id and the next version.      *)
LEMMA SoftDeletedType ==
  ASSUME NEW e \in Rows, NEW t \in 0..MaxTime, NEW by \in Writers
  PROVE  /\ SoftDeleted(e, t, by) \in Rows
         /\ SoftDeleted(e, t, by).id = e.id
         /\ SoftDeleted(e, t, by).version = e.version + 1
         /\ SoftDeleted(e, t, by).seen = e.seen \cup {<<by, e.version + 1>>}
<1> DEFINE x == TRUE
           u == [e EXCEPT !.version = @ + 1, !.lastModified = t, !.isDeleted = x]
<1>1. x \in BOOLEAN
  OBVIOUS
<1>2. SoftDeleted(e, t, by) = Signed(u, by)
  BY Zenon DEF SoftDeleted
<1> HIDE DEF x
<1>3. u \in Rows /\ u.id = e.id /\ u.version = e.version + 1 /\ u.seen = e.seen
  <2>1. e.version + 1 \in Int /\ t \in Int
    BY StoredAssumption DEF Rows
  <2> QED BY <1>1, <2>1 DEF Rows
<1> HIDE DEF u
<1> QED BY <1>2, <1>3, SignedType DEF Signed, Rows

(* A new row, once it has its id, is a row.                                *)
LEMMA NewRowType ==
  ASSUME NEW d, d.version \in Int, d.stared \in BOOLEAN, d.isDeleted \in BOOLEAN,
         NEW t \in Int, NEW f \in BOOLEAN, NEW by \in Writers
  PROVE  NewRow(d, t, f, by) \in Rows
BY DEF NewRow, Rows

----------------------------------------------------------------------------
(* Types *)

OptRow == Rows \cup {NoRow}

(* Leaving with an answer preserves the types.                             *)
LEMMA AnswerType ==
  ASSUME TypeOK, NEW r \in Requests, Answer(r)
  PROVE  TypeOK'
BY DEF TypeOK, Fits, Answer, Leave, Goto, Labels

(* So does preparing a write that fits the label it is prepared for.       *)
LEMMA PrepareType ==
  ASSUME TypeOK, NEW r \in Requests, NEW label \in Labels,
         NEW read \in OptRow, NEW write \in OptRow,
         Fits(label, dto[r], read, write),
         Prepare(r, read, write, label)
  PROVE  TypeOK'
BY DEF TypeOK, Fits, Prepare, Goto, OptRow

(* A request that starts has a body of its kind.                           *)
LEMMA StartType ==
  ASSUME TypeOK, NEW r \in Requests, NEW t \in 0..MaxTime, NEW dtos, NEW label \in Labels,
         <<label, dtos>> \in {<<"patch.read", PatchDtos>>, <<"post.read", PostDtos>>,
                              <<"put.read", PutDtos>>},
         Start(r, label, dtos, t)
  PROVE  TypeOK'
BY DEF TypeOK, Fits, Start, Goto

(* A whole-row write stores the row the request holds.                     *)
LEMMA WriteType ==
  ASSUME TypeOK, NEW r \in Requests, draft[r] \in Rows, WriteById(r)
  PROVE  row' \in [Keys -> OptRow]
BY DEF TypeOK, WriteById, OptRow

(* An INSERT stores the new row under a fresh id.                          *)
LEMMA InsertType ==
  ASSUME TypeOK, NEW r \in Requests, NEW label, NEW clash,
         <<label, clash>> \in {<<"post.insert", "post.clash">>, <<"put.insert", "put.clash">>},
         Insert(r, label, clash)
  PROVE  TypeOK'
<1>1. CASE Exists(key[r])
  BY <1>1 DEF Insert, TypeOK, Fits, Goto, Labels
<1>2. CASE ~Exists(key[r])
  <2> DEFINE e == [draft[r] EXCEPT !.id = FreshId]
  <2>1. e \in Rows
    BY DEF Insert, TypeOK, Fits, FreshId, Rows
  <2>2. row' = [row EXCEPT ![key[r]] = e] /\ nextId' = nextId + 1 /\ Leave(r)
    BY <1>2 DEF Insert
  <2> HIDE DEF e
  <2> QED BY <2>1, <2>2 DEF Insert, TypeOK, Fits, Leave, Goto, Labels
<1> QED BY <1>1, <1>2

(* The row a request reads is a row with the facts its key guarantees.     *)
LEMMA ReadType ==
  ASSUME TypeOK, NEW r \in Requests, Exists(key[r])
  PROVE  Read(r) \in Rows
BY DEF TypeOK, Exists, Read

(* Every step of one request preserves the types.                          *)
LEMMA StepType ==
  ASSUME TypeOK, NEW r \in Requests, Step(r)
  PROVE  TypeOK'
<1> r \in Writers
  BY WritersAssumption
<1>1. CASE StartPatch(r)
  BY <1>1, StartType, StoredAssumption DEF StartPatch, Labels
<1>2. CASE PatchRead(r)
  <2>1. CASE Answer(r)
    BY <2>1, AnswerType
  <2>2. CASE ~Answer(r)
    <3>1. /\ Exists(key[r]) /\ dto[r] \in PatchDtos /\ now \in 0..MaxTime
          /\ Prepare(r, Read(r), Patched(Read(r), dto[r], now, r), "patch.write")
      BY <1>2, <2>2 DEF PatchRead, TypeOK, Fits
    <3>2. Read(r) \in Rows /\ Patched(Read(r), dto[r], now, r) \in Rows
      BY <3>1, ReadType, PatchedType
    <3> QED BY <3>1, <3>2, PrepareType DEF Fits, OptRow, Labels
  <2> QED BY <2>1, <2>2
<1>3. CASE PatchWrite(r)
  <2>1. draft[r] \in Rows
    BY <1>3 DEF PatchWrite, TypeOK, Fits
  <2>2. row' \in [Keys -> OptRow]
    BY <1>3, <2>1, WriteType DEF PatchWrite, TypeOK, OptRow
  <2> QED BY <1>3, <2>2 DEF PatchWrite, TypeOK, Fits, Leave, Goto, Labels, OptRow
<1>4. CASE PatchReread(r)
  BY <1>4, AnswerType DEF PatchReread
<1>5. CASE StartPost(r)
  BY <1>5, StartType, StoredAssumption DEF StartPost, Labels
<1>6. CASE PostRead(r)
  <2>1. dto[r] \in PostDtos
    BY <1>6 DEF PostRead, TypeOK, Fits
  <2>2. CASE PostNew(r)
    <3>1. NewRow(dto[r], dto[r].lastModified, dto[r].content, r) \in Rows
      BY <2>1, DtoAssumption, NewRowType
    <3> QED BY <2>1, <2>2, <3>1, PrepareType DEF PostNew, Fits, OptRow, Labels
  <2>3. CASE PostRevive(r)
    <3>1. Read(r) \in Rows
      BY <2>3, ReadType DEF PostRevive
    <3>2. Uploaded(Read(r), dto[r], r) \in Rows
      BY <2>1, <3>1, UploadedType
    <3> DEFINE x == TRUE
               e == [Read(r) EXCEPT !.file = x]
    <3>3. x \in BOOLEAN
      OBVIOUS
    <3>4. \/ Prepare(r, Read(r), Signed(e, r), "post.file")
          \/ Prepare(r, Read(r), Uploaded(Read(r), dto[r], r), "overwrite")
      BY <2>3 DEF PostRevive
    <3> HIDE DEF x
    <3>5. e \in Rows
      BY <3>1, <3>3 DEF Rows
    <3> HIDE DEF e
    <3>6. Signed(e, r) \in Rows
      BY <3>5, SignedType
    <3> QED BY <2>1, <3>1, <3>2, <3>4, <3>6, PrepareType DEF Fits, OptRow, Labels
  <2>4. CASE PostUpdate(r)
    <3>1. Read(r) \in Rows /\ Uploaded(Read(r), dto[r], r) \in Rows
      BY <2>1, <2>4, ReadType, UploadedType DEF PostUpdate
    <3> QED BY <2>4, <3>1, PrepareType DEF PostUpdate, Fits, OptRow, Labels
  <2>5. CASE PostOlder(r) \/ PostRejected(r)
    BY <2>5, AnswerType DEF PostOlder, PostRejected
  <2> QED BY <1>6, <2>2, <2>3, <2>4, <2>5 DEF PostRead
<1>7. CASE PostFile(r)
  <2>1. draft[r] \in Rows /\ dto[r] \in PostDtos
    BY <1>7 DEF PostFile, TypeOK, Fits
  <2>2. row' \in [Keys -> OptRow]
    BY <1>7, <2>1, WriteType DEF PostFile
  <2>3. Uploaded(draft[r], dto[r], r) \in Rows
    BY <2>1, UploadedType
  <2>4. draft' = [draft EXCEPT ![r] = Uploaded(draft[r], dto[r], r)]
    BY <1>7 DEF PostFile
  <2> QED BY <1>7, <2>2, <2>3, <2>4 DEF PostFile, TypeOK, Fits, Goto, Labels, OptRow
<1>8. CASE PostInsert(r)
  BY <1>8, InsertType DEF PostInsert
<1>9. CASE PostClash(r)
  <2>1. dto[r] \in PostDtos
    BY <1>9 DEF PostClash, TypeOK, Fits
  <2>2. CASE Answer(r)
    BY <2>2, AnswerType
  <2>3. CASE ~Answer(r)
    <3>1. Exists(key[r]) /\ Prepare(r, Read(r), Uploaded(Read(r), dto[r], r), "merge")
      BY <1>9, <2>3 DEF PostClash, PostOlder
    <3>2. Read(r) \in Rows /\ Uploaded(Read(r), dto[r], r) \in Rows
      BY <2>1, <3>1, ReadType, UploadedType
    <3> QED BY <3>1, <3>2, PrepareType DEF Fits, OptRow, Labels
  <2> QED BY <2>2, <2>3
<1>10. CASE StartPut(r)
  BY <1>10, StartType DEF StartPut, Labels, TypeOK
<1>11. CASE PutRead(r)
  <2>1. dto[r] \in PutDtos
    BY <1>11 DEF PutRead, TypeOK, Fits
  <2>2. CASE Answer(r)
    BY <2>2, AnswerType
  <2>3. CASE Prepare(r, NoRow, NoRow, "put.add")
    BY <2>1, <2>3, PrepareType DEF Fits, OptRow, Labels
  <2>4. CASE Exists(key[r]) /\ Prepare(r, Read(r), Reused(Read(r), FALSE, at[r], r), "overwrite")
    <3>1. Read(r) \in Rows /\ Reused(Read(r), FALSE, at[r], r) \in Rows
      BY <2>4, ReadType, ReusedType DEF TypeOK
    <3> QED BY <2>4, <3>1, PrepareType DEF Fits, OptRow, Labels
  <2> QED BY <1>11, <2>2, <2>3, <2>4 DEF PutRead
<1>12. CASE PutAdd(r)
  <2>1. dto[r] \in PutDtos /\ dto[r].hasData \in BOOLEAN /\ at[r] \in 0..MaxTime
    BY <1>12, DtoAssumption DEF PutAdd, TypeOK, Fits
  <2>2. CASE dto[r].lookup # "none" /\ Exists(key[r])
    <3>1. Read(r) \in Rows /\ Reused(Read(r), dto[r].hasData, at[r], r) \in Rows
      BY <2>1, <2>2, ReadType, ReusedType
    <3> QED BY <1>12, <2>2, <3>1, PrepareType DEF PutAdd, Fits, OptRow, Labels
  <2>3. CASE ~(dto[r].lookup # "none" /\ Exists(key[r]))
    <3> DEFINE d == [version |-> 0, stared |-> FALSE, isDeleted |-> FALSE]
               e == NewRow(d, at[r], dto[r].hasData, r)
    <3>1. at[r] \in Int
      BY <2>1, StoredAssumption
    <3>2. d.version \in Int /\ d.stared \in BOOLEAN /\ d.isDeleted \in BOOLEAN
      OBVIOUS
    <3>3. Prepare(r, NoRow, e, "put.insert")
      BY <1>12, <2>3 DEF PutAdd
    <3> HIDE DEF d
    <3>4. e \in Rows
      BY <2>1, <3>1, <3>2, NewRowType
    <3> HIDE DEF e
    <3> QED BY <2>1, <3>3, <3>4, PrepareType DEF Fits, OptRow, Labels
  <2> QED BY <2>2, <2>3
<1>13. CASE PutInsert(r)
  BY <1>13, InsertType DEF PutInsert
<1>14. CASE PutClash(r)
  <2>1. dto[r].hasData \in BOOLEAN /\ at[r] \in 0..MaxTime
    BY <1>14, DtoAssumption DEF PutClash, TypeOK, Fits
  <2>2. CASE Answer(r)
    BY <2>2, AnswerType
  <2>3. CASE ~Answer(r)
    <3>1. /\ Exists(key[r])
          /\ Prepare(r, Read(r), Reused(Read(r), dto[r].hasData, at[r], r), "merge")
      BY <1>14, <2>3 DEF PutClash
    <3>2. Read(r) \in Rows /\ Reused(Read(r), dto[r].hasData, at[r], r) \in Rows
      BY <2>1, <3>1, ReadType, ReusedType
    <3> QED BY <3>1, <3>2, PrepareType DEF Fits, OptRow, Labels
  <2> QED BY <2>2, <2>3
<1>15. CASE Overwrite(r)
  <2>1. draft[r] \in Rows
    BY <1>15 DEF Overwrite, TypeOK, Fits
  <2>2. row' \in [Keys -> OptRow]
    BY <1>15, <2>1, WriteType DEF Overwrite
  <2> QED BY <1>15, <2>2 DEF Overwrite, TypeOK, Fits, Leave, Goto, Labels, OptRow
<1> QED BY <1>1, <1>2, <1>3, <1>4, <1>5, <1>6, <1>7, <1>8, <1>9, <1>10, <1>11, <1>12,
           <1>13, <1>14, <1>15 DEF Step

(* The writers of one statement preserve the types too.                    *)
LEMMA StatementType ==
  ASSUME TypeOK, SoftDelete \/ Purge \/ ClearAll
  PROVE  TypeOK'
<1>1. CASE SoftDelete
  <2>1. PICK batch \in SUBSET {k \in Keys : Cleanable(k)} :
          row' = [k \in Keys |-> IF k \in batch THEN SoftDeleted(row[k], now, Cleaner)
                                                ELSE row[k]]
    BY <1>1 DEF SoftDelete
  <2>2. \A k \in batch : SoftDeleted(row[k], now, Cleaner) \in Rows
    BY <2>1, SoftDeletedType, WritersAssumption DEF Cleanable, Exists, TypeOK
  <2>3. row' \in [Keys -> OptRow]
    BY <2>1, <2>2 DEF TypeOK, OptRow
  <2> QED BY <1>1, <2>3 DEF SoftDelete, reqVars, TypeOK, OptRow
<1>2. CASE Purge \/ ClearAll
  BY <1>2 DEF Purge, ClearAll, RemoveRows, reqVars, TypeOK
<1> QED BY <1>1, <1>2

(* The initial states are well typed.                                      *)
LEMMA InitType == Init => TypeOK
<1> SUFFICES ASSUME Init PROVE TypeOK
  OBVIOUS
<1>1. (CHOOSE k \in Keys : TRUE) \in Keys
  BY KeysAssumption
<1> QED BY <1>1, StoredAssumption DEF Init, TypeOK, Fits, Labels

(* So is every successor.                                                  *)
LEMMA NextType == TypeOK /\ [Next]_vars => TypeOK'
<1> SUFFICES ASSUME TypeOK, [Next]_vars PROVE TypeOK'
  OBVIOUS
<1>1. CASE \E r \in Requests : Step(r)
  BY <1>1, StepType
<1>2. CASE SoftDelete \/ Purge \/ ClearAll
  BY <1>2, StatementType
<1>3. CASE Tick
  BY <1>3, StoredAssumption DEF Tick, reqVars, TypeOK
<1>4. CASE UNCHANGED vars
  BY <1>4 DEF vars, TypeOK
<1> QED BY <1>1, <1>2, <1>3, <1>4 DEF Next, Terminated

(* Every reachable state is well typed: in particular a request about to   *)
(* write holds a complete row (db.ts:225-275).                             *)
THEOREM Typing == Spec => []TypeOK
BY InitType, NextType, PTL DEF Spec

----------------------------------------------------------------------------
(* Ids.  A step keeps the id of every row it leaves in the table, or it is *)
(* an INSERT under the next id; a request that comes to hold a row to      *)
(* write holds the id of the row its key names.                            *)

KeepsIds ==
  /\ nextId' = nextId
  /\ \A k \in Keys : row'[k] # NoRow => Exists(k) /\ row'[k].id = row[k].id

Inserts(j) ==
  /\ ~Exists(j) /\ row'[j].id = nextId /\ nextId' = nextId + 1
  /\ \A k \in Keys \ {j} : row'[k] = row[k]

HoldsId(r) ==
  Writing(r)' =>
    /\ key'[r] = key[r]
    /\ \/ Writing(r) /\ draft'[r].id = draft[r].id
       \/ Exists(key[r]) /\ draft'[r].id = Read(r).id /\ UNCHANGED <<row, nextId>>

(* A whole-row write keeps every id.                                       *)
LEMMA WriteKeepsIds ==
  ASSUME TypeOK, NEW r \in Requests, WriteById(r), nextId' = nextId
  PROVE  KeepsIds
BY DEF WriteById, KeepsIds, Exists

(* An INSERT keeps them or adds one.                                       *)
LEMMA InsertIds ==
  ASSUME TypeOK, NEW r \in Requests, NEW label, NEW clash,
         label \in {"post.insert", "put.insert"}, clash \in {"post.clash", "put.clash"},
         Insert(r, label, clash)
  PROVE  /\ KeepsIds \/ \E j \in Keys : Inserts(j)
         /\ \A q \in Requests : HoldsId(q)
<1>1. CASE Exists(key[r])
  BY <1>1 DEF Insert, KeepsIds, HoldsId, Writing, Goto, TypeOK, Exists
<1>2. CASE ~Exists(key[r])
  <2> DEFINE e == [draft[r] EXCEPT !.id = FreshId]
  <2>1. draft[r] \in Rows
    BY DEF Insert, TypeOK, Fits
  <2>2. e.id = nextId
    BY <2>1 DEF FreshId, Rows
  <2>3. row' = [row EXCEPT ![key[r]] = e] /\ nextId' = nextId + 1 /\ Leave(r) /\ key' = key
    BY <1>2 DEF Insert
  <2> HIDE DEF e
  <2>4. Inserts(key[r]) /\ key[r] \in Keys
    BY <1>2, <2>2, <2>3 DEF Inserts, TypeOK
  <2>5. \A q \in Requests : HoldsId(q)
    BY <2>3 DEF Leave, Goto, HoldsId, Writing, TypeOK
  <2> QED BY <2>4, <2>5
<1> QED BY <1>1, <1>2

(* Answering neither touches a row nor comes to hold one.                  *)
LEMMA AnswerIds ==
  ASSUME TypeOK, NEW r \in Requests, Answer(r)
  PROVE  KeepsIds /\ \A q \in Requests : HoldsId(q)
BY DEF Answer, Leave, Goto, KeepsIds, HoldsId, Writing, TypeOK, Exists

(* Preparing a write takes the id of the row that was read.                *)
LEMMA PrepareIds ==
  ASSUME TypeOK, NEW r \in Requests, NEW read, NEW write, NEW label \in Labels,
         Prepare(r, read, write, label),
         label \in {"patch.write", "post.file", "overwrite", "merge"}
           => Exists(key[r]) /\ write.id = Read(r).id
  PROVE  KeepsIds /\ \A q \in Requests : HoldsId(q)
BY DEF Prepare, Goto, KeepsIds, HoldsId, Writing, TypeOK, Exists, Read

(* A request that starts holds nothing yet.                                *)
LEMMA StartIds ==
  ASSUME TypeOK, NEW r \in Requests, NEW t, NEW dtos,
         NEW label \in {"patch.read", "post.read", "put.read"},
         Start(r, label, dtos, t)
  PROVE  KeepsIds /\ \A q \in Requests : HoldsId(q)
BY DEF Start, Goto, KeepsIds, HoldsId, Writing, TypeOK, Exists

(* Every step of one request keeps the ids or inserts one row, and holds   *)
(* only ids it has read.                                                   *)
LEMMA StepIds ==
  ASSUME TypeOK, NEW r \in Requests, Step(r)
  PROVE  /\ KeepsIds \/ \E j \in Keys : Inserts(j)
         /\ \A q \in Requests : HoldsId(q)
<1> r \in Writers
  BY WritersAssumption
<1>1. CASE StartPatch(r) \/ StartPost(r) \/ StartPut(r)
  BY <1>1, StartIds DEF StartPatch, StartPost, StartPut
<1>2. CASE Answer(r)
  BY <1>2, AnswerIds
<1>3. CASE PatchRead(r) /\ ~Answer(r)
  <2>1. /\ Exists(key[r]) /\ dto[r] \in PatchDtos /\ now \in 0..MaxTime
        /\ Prepare(r, Read(r), Patched(Read(r), dto[r], now, r), "patch.write")
    BY <1>3 DEF PatchRead, TypeOK, Fits
  <2> QED BY <2>1, ReadType, PatchedType, PrepareIds DEF Labels
<1>4. CASE PatchWrite(r)
  <2>1. KeepsIds
    BY <1>4, WriteKeepsIds DEF PatchWrite, KeepsIds, Exists
  <2> QED BY <1>4, <2>1 DEF PatchWrite, Leave, Goto, HoldsId, Writing, TypeOK
<1>5. CASE PatchReread(r)
  BY <1>5, AnswerIds DEF PatchReread
<1>6. CASE PostRead(r) /\ ~Answer(r)
  <2>1. dto[r] \in PostDtos
    BY <1>6 DEF PostRead, TypeOK, Fits
  <2>2. CASE PostNew(r)
    BY <2>2, PrepareIds DEF PostNew, Labels
  <2>3. CASE PostRevive(r)
    <3>1. Exists(key[r]) /\ Read(r) \in Rows
      BY <2>3, ReadType DEF PostRevive
    <3>2. Uploaded(Read(r), dto[r], r).id = Read(r).id
      BY <2>1, <3>1, UploadedType
    <3> DEFINE e == [Read(r) EXCEPT !.file = TRUE]
    <3>3. e.id = Read(r).id
      BY <3>1 DEF Rows
    <3>4. \/ Prepare(r, Read(r), Signed(e, r), "post.file")
          \/ Prepare(r, Read(r), Uploaded(Read(r), dto[r], r), "overwrite")
      BY <2>3 DEF PostRevive
    <3>5. Signed(e, r).id = e.id
      BY <3>1 DEF Signed, Rows
    <3> HIDE DEF e
    <3> QED BY <3>1, <3>2, <3>3, <3>4, <3>5, PrepareIds DEF Labels
  <2>4. CASE PostUpdate(r)
    BY <2>1, <2>4, ReadType, UploadedType, PrepareIds DEF PostUpdate, Labels
  <2> QED BY <1>6, <2>2, <2>3, <2>4 DEF PostRead, PostOlder, PostRejected
<1>7. CASE PostFile(r)
  <2>1. draft[r] \in Rows /\ dto[r] \in PostDtos /\ r \in Requests
    BY <1>7 DEF PostFile, TypeOK, Fits
  <2>2. KeepsIds
    BY <1>7, WriteKeepsIds DEF PostFile
  <2>3. Uploaded(draft[r], dto[r], r).id = draft[r].id
    BY <2>1, UploadedType
  <2>4. draft' = [draft EXCEPT ![r] = Uploaded(draft[r], dto[r], r)]
    BY <1>7 DEF PostFile
  <2> QED BY <1>7, <2>2, <2>3, <2>4 DEF PostFile, Goto, HoldsId, Writing, TypeOK
<1>8. CASE PostInsert(r) \/ PutInsert(r)
  BY <1>8, InsertIds DEF PostInsert, PutInsert
<1>9. CASE PostClash(r) /\ ~Answer(r)
  <2>1. /\ Exists(key[r]) /\ dto[r] \in PostDtos
        /\ Prepare(r, Read(r), Uploaded(Read(r), dto[r], r), "merge")
    BY <1>9 DEF PostClash, PostOlder, TypeOK, Fits
  <2> QED BY <2>1, ReadType, UploadedType, PrepareIds DEF Labels
<1>10. CASE PutRead(r) /\ ~Answer(r)
  <2>1. CASE Prepare(r, NoRow, NoRow, "put.add")
    BY <2>1, PrepareIds DEF Labels
  <2>2. CASE Exists(key[r]) /\ Prepare(r, Read(r), Reused(Read(r), FALSE, at[r], r), "overwrite")
    BY <2>2, ReadType, ReusedType, PrepareIds DEF TypeOK, Labels
  <2> QED BY <1>10, <2>1, <2>2 DEF PutRead
<1>11. CASE PutAdd(r)
  <2>1. dto[r].hasData \in BOOLEAN /\ at[r] \in 0..MaxTime
    BY <1>11, DtoAssumption DEF PutAdd, TypeOK, Fits
  <2>2. CASE dto[r].lookup # "none" /\ Exists(key[r])
    BY <1>11, <2>1, <2>2, ReadType, ReusedType, PrepareIds DEF PutAdd, Labels
  <2>3. CASE ~(dto[r].lookup # "none" /\ Exists(key[r]))
    BY <1>11, <2>3, PrepareIds DEF PutAdd, Labels
  <2> QED BY <2>2, <2>3
<1>12. CASE PutClash(r) /\ ~Answer(r)
  <2>1. dto[r].hasData \in BOOLEAN /\ at[r] \in 0..MaxTime
    BY <1>12, DtoAssumption DEF PutClash, TypeOK, Fits
  <2> QED BY <1>12, <2>1, ReadType, ReusedType, PrepareIds DEF PutClash, Labels
<1>13. CASE Overwrite(r)
  <2>1. KeepsIds
    BY <1>13, WriteKeepsIds DEF Overwrite
  <2> QED BY <1>13, <2>1 DEF Overwrite, Leave, Goto, HoldsId, Writing, TypeOK
<1> QED BY <1>1, <1>2, <1>3, <1>4, <1>5, <1>6, <1>7, <1>8, <1>9, <1>10, <1>11, <1>12,
           <1>13 DEF Step

(* So does every step of the system.                                       *)
LEMMA NextIds ==
  ASSUME TypeOK, [Next]_vars
  PROVE  /\ KeepsIds \/ \E j \in Keys : Inserts(j)
         /\ \A q \in Requests : HoldsId(q)
<1>1. CASE \E r \in Requests : Step(r)
  BY <1>1, StepIds
<1>2. CASE SoftDelete
  <2>1. PICK batch \in SUBSET {k \in Keys : Cleanable(k)} :
          row' = [k \in Keys |-> IF k \in batch THEN SoftDeleted(row[k], now, Cleaner)
                                                ELSE row[k]]
    BY <1>2 DEF SoftDelete
  <2>2. \A k \in batch : Exists(k) /\ SoftDeleted(row[k], now, Cleaner).id = row[k].id
    BY <2>1, SoftDeletedType, WritersAssumption DEF Cleanable, Exists, TypeOK
  <2>3. KeepsIds
    BY <1>2, <2>1, <2>2 DEF SoftDelete, KeepsIds, Exists
  <2> QED BY <1>2, <2>3 DEF SoftDelete, reqVars, HoldsId, Writing
<1>3. CASE Purge \/ ClearAll
  BY <1>3 DEF Purge, ClearAll, RemoveRows, reqVars, KeepsIds, HoldsId, Writing, Exists
<1>4. CASE Tick \/ UNCHANGED vars
  BY <1>4 DEF Tick, vars, reqVars, KeepsIds, HoldsId, Writing, Exists
<1> QED BY <1>1, <1>2, <1>3, <1>4 DEF Next, Terminated

IdInv ==
  /\ TypeOK
  /\ IdsNameOneRecord
  /\ \A k \in Keys : Exists(k) => row[k].id < nextId
  /\ \A r \in Requests : Writing(r) => draft[r].id < nextId

(* The strengthened invariant: all ids in the table and in the hands of    *)
(* requests were handed out before.                                        *)
LEMMA IdInvHolds == Spec => []IdInv
<1>1. Init => IdInv
  <2> SUFFICES ASSUME Init PROVE IdInv
    OBVIOUS
  <2> QED BY InitType, StoredAssumption DEF Init, IdInv, IdsNameOneRecord, Writing, Exists
<1>2. IdInv /\ [Next]_vars => IdInv'
  <2> SUFFICES ASSUME IdInv, [Next]_vars PROVE IdInv'
    OBVIOUS
  <2>1. TypeOK /\ TypeOK' /\ \A k \in Keys : Exists(k) => row[k].id \in Nat
    BY NextType DEF IdInv, TypeOK, Exists, Rows
  <2>2. \A q \in Requests : HoldsId(q)
    BY <2>1, NextIds
  <2>3. CASE KeepsIds
    <3>1. \A k \in Keys : Exists(k)' => Exists(k) /\ row'[k].id = row[k].id /\ row'[k].id < nextId'
      BY <2>3 DEF KeepsIds, IdInv, Exists
    <3>2. ASSUME NEW r \in Requests, Writing(r)'
          PROVE  /\ draft'[r].id < nextId'
                 /\ \A k \in Keys \ {key'[r]} : Exists(k)' => row'[k].id # draft'[r].id
      BY <2>1, <2>2, <2>3, <3>1, <3>2 DEF HoldsId, IdInv, IdsNameOneRecord, Exists, Read, TypeOK, KeepsIds
    <3> QED BY <2>1, <3>1, <3>2 DEF IdInv, IdsNameOneRecord
  <2>4. CASE \E j \in Keys : Inserts(j)
    <3>1. PICK j \in Keys : Inserts(j)
      BY <2>4
    <3>2. \A k \in Keys : Exists(k)' => row'[k].id < nextId'
      BY <2>1, <3>1 DEF Inserts, IdInv, Exists, TypeOK
    <3>3. \A k, i \in Keys : Exists(k)' /\ Exists(i)' /\ row'[k].id = row'[i].id => k = i
      BY <2>1, <3>1 DEF Inserts, IdInv, IdsNameOneRecord, Exists, TypeOK
    <3>4. ASSUME NEW r \in Requests, Writing(r)'
          PROVE  /\ draft'[r].id < nextId'
                 /\ \A k \in Keys \ {key'[r]} : Exists(k)' => row'[k].id # draft'[r].id
      <4>1. nextId' = nextId + 1 /\ nextId \in Nat
        BY <2>1, <3>1 DEF Inserts, TypeOK
      <4>2. Writing(r) /\ draft'[r].id = draft[r].id /\ key'[r] = key[r]
        BY <2>2, <3>4, <4>1 DEF HoldsId
      <4>3. draft[r] \in Rows
        BY <4>2 DEF IdInv, TypeOK, Fits, Writing
      <4>4. draft[r].id \in Nat
        BY <4>3 DEF Rows
      <4> QED BY <3>1, <4>1, <4>2, <4>4 DEF Inserts, IdInv, IdsNameOneRecord, Exists
    <3> QED BY <2>1, <3>2, <3>3, <3>4 DEF IdInv, IdsNameOneRecord
  <2> QED BY <2>1, <2>3, <2>4, NextIds
<1> QED BY <1>1, <1>2, PTL DEF Spec

(* The id a request holds while it waits for its write never names another *)
(* record, however many rows are purged and inserted meanwhile             *)
(* (db.ts:260-275, schema.sql AUTOINCREMENT).                              *)
THEOREM IdsStayUnique == Spec => []IdsNameOneRecord
BY IdInvHolds, PTL DEF IdInv

(* A purged record is never brought back by the late write of a request    *)
(* that had read it: a row appears only as a new record under the next id  *)
(* (db.ts:260-275).                                                        *)
THEOREM PurgedStaysPurged == Spec => PurgeIsFinal
<1>1. TypeOK /\ [Next]_vars => [RevivesNothing]_vars
  <2> SUFFICES ASSUME TypeOK, [Next]_vars, NEW k \in Keys,
                      row'[k] # NoRow, ~SameRecord(k)
               PROVE  AppearsFresh(k)
    BY DEF RevivesNothing
  <2>1. PICK j \in Keys : Inserts(j)
    BY NextIds DEF KeepsIds, SameRecord
  <2> QED BY <2>1 DEF Inserts, SameRecord, Exists, TypeOK, AppearsFresh
<1> QED BY <1>1, Typing, PTL DEF Spec, PurgeIsFinal

----------------------------------------------------------------------------
(* Optimistic concurrency control.  Where every writer of the table is a   *)
(* PATCH that leaves its version out, as those of the web UI do, a stale   *)
(* version is a sure sign of a stale read.                                 *)

OnlyUiPatches ==
  /\ PostDtos = {} /\ PutDtos = {}
  /\ \A d \in PatchDtos : d.version = Absent

Moved(old, new) == new.version > old.version /\ old.seen \subseteq new.seen

(* What a request may assume of the row it has read while it waits.        *)
CasInv ==
  /\ IdInv
  /\ \A r \in Requests :
       /\ pc[r] \in {"idle", "patch.read", "patch.write", "patch.reread", "done"}
       /\ pc[r] = "patch.write" =>
            /\ \E t \in 0..MaxTime : /\ PatchAccepted(snap[r], dto[r], t)
                                    /\ draft[r] = Patched(snap[r], dto[r], t, r)
            /\ Exists(key[r]) /\ Read(r).id = snap[r].id
                 => Read(r) = snap[r] \/ Read(r).version > snap[r].version

(* A PATCH that left its version out moves the record.                     *)
LEMMA PatchMoves ==
  ASSUME OnlyUiPatches, NEW e \in Rows, NEW d \in PatchDtos, NEW t \in 0..MaxTime,
         NEW by \in Writers
  PROVE  Moved(e, Patched(e, d, t, by))
<1>1. PatchVersion(e, d) = e.version + 1
  BY DEF OnlyUiPatches, PatchVersion, Given
<1>2. e.version \in Int
  BY DEF Rows
<1> QED BY <1>1, <1>2, PatchedType DEF Moved

(* The compare-and-set succeeds only on the row that was read, so what it  *)
(* writes is the PATCH applied to the row as it is.                        *)
LEMMA WriteIsAtomic ==
  ASSUME OnlyUiPatches, CasInv, NEW r \in Requests, PatchWrite(r), row' # row
  PROVE  /\ Exists(key[r]) /\ row[key[r]] \in Rows /\ dto[r] \in PatchDtos
         /\ \E t \in 0..MaxTime :
              /\ PatchAccepted(row[key[r]], dto[r], t)
              /\ row' = [row EXCEPT ![key[r]] = Patched(row[key[r]], dto[r], t, r)]
<1>1. /\ TypeOK /\ pc[r] = "patch.write" /\ key[r] \in Keys
      /\ Exists(key[r]) /\ CasMatches(Read(r), snap[r]) /\ WriteById(r)
  BY DEF PatchWrite, CasInv, IdInv, TypeOK
<1>2. Read(r) \in Rows /\ dto[r] \in PatchDtos
  BY <1>1, ReadType DEF TypeOK, Fits
<1>3. Read(r) = snap[r]
  BY <1>1, <1>2 DEF CasMatches, CasInv, Rows
<1>4. PICK t \in 0..MaxTime : /\ PatchAccepted(Read(r), dto[r], t)
                              /\ draft[r] = Patched(Read(r), dto[r], t, r)
  BY <1>1, <1>3 DEF CasInv
<1>5. draft[r].id = Read(r).id
  BY <1>2, <1>4, PatchedType, WritersAssumption
<1>6. row' = [row EXCEPT ![key[r]] = draft[r]]
  <2>1. \A k \in Keys \ {key[r]} : Exists(k) => row[k].id # draft[r].id
    BY <1>1 DEF CasInv, IdInv, IdsNameOneRecord, Writing
  <2>2. row \in [Keys -> OptRow]
    BY <1>1 DEF TypeOK, OptRow
  <2> QED BY <1>1, <1>5, <2>1, <2>2 DEF WriteById, Read
<1> QED BY <1>1, <1>2, <1>4, <1>6 DEF Read

(* No other step of a request touches the table.                           *)
LEMMA OthersKeepRows ==
  ASSUME OnlyUiPatches, CasInv, NEW r \in Requests, Step(r), ~PatchWrite(r)
  PROVE  row' = row /\ nextId' = nextId
BY DEF Step, CasInv, StartPatch, StartPost, StartPut, Start, PatchRead, PatchReread,
   PostRead, PostFile, PostInsert, PutInsert, Insert, PostClash, PutRead, PutAdd, PutClash,
   Overwrite, Answer, Prepare

(* And no step puts a new record into it.                                  *)
LEMMA NoInserts ==
  ASSUME OnlyUiPatches, CasInv, [Next]_vars, NEW k \in Keys, row'[k] # NoRow
  PROVE  SameRecord(k)
<1>1. TypeOK
  BY DEF CasInv, IdInv
<1>2. CASE \E j \in Keys : Inserts(j)
  <2>1. nextId' = nextId + 1 /\ nextId \in Nat
    BY <1>1, <1>2 DEF Inserts, TypeOK
  <2>2. nextId' = nextId
    BY OthersKeepRows DEF Next, PatchWrite, SoftDelete, Purge, ClearAll, RemoveRows,
       Tick, Terminated, vars
  <2> QED BY <2>1, <2>2
<1>3. CASE KeepsIds
  BY <1>3 DEF KeepsIds, SameRecord
<1> QED BY <1>1, <1>2, <1>3, NextIds

(* In one step a record stays as it is, moves, or goes.                    *)
LEMMA RowsMove ==
  ASSUME OnlyUiPatches, CasInv, [Next]_vars
  PROVE  \A k \in Keys : SameRecord(k) => row'[k] = row[k] \/ Moved(row[k], row'[k])
<1> TypeOK
  BY DEF CasInv, IdInv
<1>1. ASSUME NEW r \in Requests, PatchWrite(r)
      PROVE  \A k \in Keys : SameRecord(k) => row'[k] = row[k] \/ Moved(row[k], row'[k])
  BY <1>1, WriteIsAtomic, PatchMoves, WritersAssumption DEF TypeOK
<1>2. ASSUME NEW r \in Requests, Step(r), ~PatchWrite(r)
      PROVE  row' = row
  BY <1>2, OthersKeepRows
<1>3. CASE SoftDelete
  <2>1. PICK batch \in SUBSET {k \in Keys : Cleanable(k)} :
          row' = [k \in Keys |-> IF k \in batch THEN SoftDeleted(row[k], now, Cleaner)
                                                ELSE row[k]]
    BY <1>3 DEF SoftDelete
  <2>2. ASSUME NEW k \in batch
        PROVE  Moved(row[k], SoftDeleted(row[k], now, Cleaner))
    <3>1. row[k] \in Rows /\ now \in 0..MaxTime /\ Cleaner \in Writers
      BY <2>1, <2>2, WritersAssumption DEF Cleanable, Exists, TypeOK
    <3>2. row[k].version \in Int
      BY <3>1 DEF Rows
    <3> QED BY <3>1, <3>2, SoftDeletedType DEF Moved
  <2> QED BY <2>1, <2>2
<1>4. CASE Purge \/ ClearAll
  BY <1>4 DEF Purge, ClearAll, RemoveRows, SameRecord
<1>5. CASE Tick \/ UNCHANGED vars
  BY <1>5 DEF Tick, vars
<1> QED BY <1>1, <1>2, <1>3, <1>4, <1>5 DEF Next, Terminated

(* CasInv is inductive: a request's snapshot is the row itself until the   *)
(* row moves past the version that was read, or goes.                      *)
LEMMA CasInvHolds == OnlyUiPatches => (Spec => []CasInv)
<1> SUFFICES ASSUME OnlyUiPatches PROVE Spec => []CasInv
  OBVIOUS
<1>1. IdInv /\ Init => CasInv
  BY DEF Init, CasInv
<1>2. CasInv /\ IdInv' /\ [Next]_vars => CasInv'
  <2> SUFFICES ASSUME CasInv, IdInv', [Next]_vars, NEW r \in Requests
               PROVE  /\ pc'[r] \in {"idle", "patch.read", "patch.write", "patch.reread", "done"}
                      /\ pc'[r] = "patch.write" =>
                           /\ \E t \in 0..MaxTime :
                                /\ PatchAccepted(snap'[r], dto'[r], t)
                                /\ draft'[r] = Patched(snap'[r], dto'[r], t, r)
                           /\ Exists(key[r])' /\ Read(r)'.id = snap'[r].id
                                => Read(r)' = snap'[r] \/ Read(r)'.version > snap'[r].version
    BY DEF CasInv
  <2> TypeOK
    BY DEF CasInv, IdInv
  <2>1. CASE PatchRead(r)
    <3>1. CASE Answer(r)
      BY <3>1 DEF Answer, Leave, Goto, TypeOK
    <3>2. CASE ~Answer(r)
      <4>1. /\ now \in 0..MaxTime /\ PatchAccepted(Read(r), dto[r], now)
            /\ Prepare(r, Read(r), Patched(Read(r), dto[r], now, r), "patch.write")
        BY <2>1, <3>2 DEF PatchRead, TypeOK
      <4>2. pc'[r] = "patch.write" /\ snap'[r] = Read(r) /\ dto' = dto /\ row' = row /\ key' = key
            /\ draft'[r] = Patched(Read(r), dto[r], now, r)
        BY <4>1 DEF Prepare, Goto, TypeOK
      <4> QED BY <4>1, <4>2 DEF Read
    <3> QED BY <3>1, <3>2
  <2>2. CASE PatchWrite(r) \/ PatchReread(r) \/ StartPatch(r)
    BY <2>2 DEF PatchWrite, PatchReread, StartPatch, Start, Answer, Leave, Goto, TypeOK
  <2>3. CASE /\ pc'[r] = pc[r] /\ key'[r] = key[r] /\ dto'[r] = dto[r]
             /\ snap'[r] = snap[r] /\ draft'[r] = draft[r]
    <3>1. ASSUME pc[r] = "patch.write", Exists(key[r])', Read(r)'.id = snap[r].id
          PROVE  Read(r)' = snap[r] \/ Read(r)'.version > snap[r].version
      <4>1. key[r] \in Keys /\ snap[r] \in Rows
        BY <3>1 DEF TypeOK, Fits
      <4>2. SameRecord(key[r]) /\ row'[key[r]].id = snap[r].id
        BY <2>3, <3>1, <4>1, NoInserts DEF SameRecord, Read, Exists
      <4>3. row'[key[r]] = row[key[r]] \/ Moved(row[key[r]], row'[key[r]])
        BY <4>1, <4>2, RowsMove
      <4>4. row[key[r]] = snap[r] \/ row[key[r]].version > snap[r].version
        BY <3>1, <4>2 DEF CasInv, Read, SameRecord
      <4>5. /\ row[key[r]].version \in Int /\ snap[r].version \in Int
            /\ row'[key[r]].version \in Int
        BY <4>1, <4>2 DEF TypeOK, IdInv, SameRecord, Exists, Rows
      <4> QED BY <2>3, <4>3, <4>4, <4>5 DEF Moved, Read
    <3> QED BY <2>3, <3>1 DEF CasInv
  <2>4. ASSUME NEW q \in Requests \ {r}, Step(q)
        PROVE  /\ pc'[r] = pc[r] /\ key'[r] = key[r] /\ dto'[r] = dto[r]
               /\ snap'[r] = snap[r] /\ draft'[r] = draft[r]
    BY <2>4 DEF Step, StartPatch, StartPost, StartPut, Start, PatchRead, PatchWrite,
       PatchReread, PostRead, PostNew, PostRevive, PostUpdate, PostOlder, PostRejected,
       PostFile, PostInsert, PutInsert, Insert, PostClash, PutRead, PutAdd, PutClash,
       Overwrite, Answer, Prepare, Leave, Goto, TypeOK
  <2>5. Step(r) => PatchRead(r) \/ PatchWrite(r) \/ PatchReread(r) \/ StartPatch(r)
    BY DEF Step, CasInv, OnlyUiPatches, StartPost, StartPut, Start, PostRead, PostFile, PostInsert,
       PutInsert, Insert, PostClash, PutRead, PutAdd, PutClash, Overwrite
  <2>6. CASE SoftDelete \/ Purge \/ ClearAll \/ Tick \/ UNCHANGED vars
    BY <2>3, <2>6 DEF SoftDelete, Purge, ClearAll, RemoveRows, Tick, reqVars, vars
  <2> QED BY <2>1, <2>2, <2>3, <2>4, <2>5, <2>6 DEF Next, Terminated
<1> QED BY <1>1, <1>2, IdInvHolds, PTL DEF Spec

(* Where only the web UI changes records, no acknowledged change is        *)
(* overwritten unseen (db.ts:267, db.ts:549).                              *)
THEOREM UiWritesNeverLost == OnlyUiPatches => (Spec => NoLostWrite)
<1> SUFFICES ASSUME OnlyUiPatches PROVE Spec => NoLostWrite
  OBVIOUS
<1>1. CasInv /\ [Next]_vars => [KeepsWrites]_vars
  BY RowsMove DEF KeepsWrites, Moved
<1> QED BY <1>1, CasInvHolds, PTL DEF Spec, NoLostWrite

(* And every change moves the version of its record forward.               *)
THEOREM UiVersionsGrow == OnlyUiPatches => (Spec => VersionsGrow)
<1> SUFFICES ASSUME OnlyUiPatches PROVE Spec => VersionsGrow
  OBVIOUS
<1>1. CasInv /\ [Next]_vars => [MovesVersions]_vars
  BY RowsMove DEF MovesVersions, Moved
<1> QED BY <1>1, CasInvHolds, PTL DEF Spec, VersionsGrow

(* A change adds what its writer wrote, under the version it gave.         *)
Stamped(old, new) ==
  /\ new.version > old.version
  /\ \E by \in Writers : new.seen = old.seen \cup {<<by, new.version>>}

LEMMA RowsStamped ==
  ASSUME OnlyUiPatches, CasInv, [Next]_vars
  PROVE  \A k \in Keys : SameRecord(k) => row'[k] = row[k] \/ Stamped(row[k], row'[k])
<1> TypeOK
  BY DEF CasInv, IdInv
<1>1. ASSUME NEW r \in Requests, PatchWrite(r), row' # row
      PROVE  \A k \in Keys : SameRecord(k) => row'[k] = row[k] \/ Stamped(row[k], row'[k])
  <2> DEFINE e == row[key[r]]
  <2>1. e \in Rows /\ dto[r] \in PatchDtos /\ r \in Writers /\ key[r] \in Keys
    BY <1>1, WriteIsAtomic, WritersAssumption DEF TypeOK
  <2>2. PICK t \in 0..MaxTime : row' = [row EXCEPT ![key[r]] = Patched(e, dto[r], t, r)]
    BY <1>1, WriteIsAtomic
  <2>3. Stamped(e, Patched(e, dto[r], t, r))
    BY <2>1, PatchMoves, PatchedType DEF Stamped, Moved
  <2> HIDE DEF e
  <2>4. ASSUME NEW k \in Keys
        PROVE  row'[k] = row[k] \/ Stamped(row[k], row'[k])
    <3>1. CASE k = key[r]
      BY <2>1, <2>2, <2>3, <3>1 DEF TypeOK, e
    <3>2. CASE k # key[r]
      BY <2>2, <3>2 DEF TypeOK
    <3> QED BY <3>1, <3>2
  <2> QED BY <2>4
<1>2. ASSUME NEW r \in Requests, Step(r), ~PatchWrite(r)
      PROVE  row' = row
  BY <1>2, OthersKeepRows
<1>3. CASE SoftDelete
  <2>1. PICK batch \in SUBSET {k \in Keys : Cleanable(k)} :
          row' = [k \in Keys |-> IF k \in batch THEN SoftDeleted(row[k], now, Cleaner)
                                                ELSE row[k]]
    BY <1>3 DEF SoftDelete
  <2>2. ASSUME NEW k \in batch
        PROVE  Stamped(row[k], SoftDeleted(row[k], now, Cleaner))
    <3>1. row[k] \in Rows /\ now \in 0..MaxTime /\ Cleaner \in Writers
      BY <2>1, <2>2, WritersAssumption DEF Cleanable, Exists, TypeOK
    <3>2. row[k].version \in Int
      BY <3>1 DEF Rows
    <3> QED BY <3>1, <3>2, SoftDeletedType DEF Stamped
  <2> QED BY <2>1, <2>2
<1>4. CASE Purge \/ ClearAll
  BY <1>4 DEF Purge, ClearAll, RemoveRows, SameRecord
<1>5. CASE Tick \/ UNCHANGED vars
  BY <1>5 DEF Tick, vars
<1> QED BY <1>1, <1>2, <1>3, <1>4, <1>5 DEF Next, Terminated

(* What a row builds upon bears versions up to its own; and the row a      *)
(* PATCH has read is the row itself or has been changed, under a version   *)
(* the PATCH has not seen.                                                 *)
UpToDate(e) == \A w \in e.seen : w[2] <= e.version
Overtaken(e, read) == \E w \in e.seen : w[2] > read.version

ConflictInv ==
  /\ CasInv
  /\ \A k \in Keys : Exists(k) => UpToDate(row[k])
  /\ \A r \in Requests : pc[r] \in {"patch.write", "patch.reread"} =>
       /\ snap[r] \in Rows /\ UpToDate(snap[r])
       /\ Exists(key[r]) /\ Read(r).id = snap[r].id =>
            (pc[r] = "patch.write" /\ Read(r) = snap[r]) \/ Overtaken(Read(r), snap[r])

LEMMA StampedIsUpToDate ==
  ASSUME NEW old \in Rows, NEW new \in Rows, Stamped(old, new), UpToDate(old)
  PROVE  /\ UpToDate(new)
         /\ \A read \in Rows : old.version >= read.version \/ Overtaken(old, read)
                                 => Overtaken(new, read)
<1>1. PICK by \in Writers : new.seen = old.seen \cup {<<by, new.version>>}
  BY DEF Stamped
<1>2. old.version \in Int /\ new.version \in Int /\ old.version < new.version
  BY DEF Stamped, Rows
<1>3. \A w \in old.seen : w[2] \in Int
  BY DEF Rows
<1>4. UpToDate(new)
  BY <1>1, <1>2, <1>3 DEF UpToDate
<1>5. ASSUME NEW read \in Rows, old.version >= read.version \/ Overtaken(old, read)
      PROVE  Overtaken(new, read)
  <2>1. read.version \in Int
    BY DEF Rows
  <2>2. CASE Overtaken(old, read)
    BY <1>1, <2>2 DEF Overtaken
  <2>3. CASE old.version >= read.version
    <3>1. <<by, new.version>> \in new.seen /\ <<by, new.version>>[2] > read.version
      BY <1>1, <1>2, <2>1, <2>3
    <3> QED BY <3>1 DEF Overtaken
  <2> QED BY <1>5, <2>2, <2>3
<1> QED BY <1>4, <1>5

LEMMA ConflictStep ==
  ASSUME OnlyUiPatches, ConflictInv, CasInv', [Next]_vars
  PROVE  ConflictInv'
<1> TypeOK /\ TypeOK'
  BY DEF ConflictInv, CasInv, IdInv
<1>1. \A k \in Keys : SameRecord(k) => row'[k] = row[k] \/ Stamped(row[k], row'[k])
  BY RowsStamped DEF ConflictInv
<1>2. ASSUME NEW k \in Keys, row'[k] # NoRow
      PROVE  /\ Exists(k) /\ row[k] \in Rows /\ row'[k] \in Rows
             /\ row'[k].id = row[k].id /\ UpToDate(row[k]) /\ UpToDate(row'[k])
             /\ row'[k] = row[k] \/ Stamped(row[k], row'[k])
  <2>1. SameRecord(k)
    BY <1>2, NoInserts DEF ConflictInv
  <2>2. row[k] \in Rows /\ row'[k] \in Rows /\ UpToDate(row[k])
    BY <1>2, <2>1 DEF SameRecord, Exists, TypeOK, ConflictInv
  <2> QED BY <1>1, <2>1, <2>2, StampedIsUpToDate DEF SameRecord
<1>3. ASSUME NEW r \in Requests, pc'[r] \in {"patch.write", "patch.reread"}
      PROVE  /\ snap'[r] \in Rows /\ UpToDate(snap'[r])
             /\ row'[key'[r]] # NoRow /\ row'[key'[r]].id = snap'[r].id =>
                  \/ pc'[r] = "patch.write" /\ row'[key'[r]] = snap'[r]
                  \/ Overtaken(row'[key'[r]], snap'[r])
  <2>0. key[r] \in Keys /\ key'[r] \in Keys
    BY DEF TypeOK
  <2>1. CASE PatchRead(r)
    <3>1. CASE Answer(r)
      BY <1>3, <3>1 DEF Answer, Leave, Goto, TypeOK
    <3>2. CASE ~Answer(r)
      <4>1. Exists(key[r]) /\ Prepare(r, Read(r), Patched(Read(r), dto[r], now, r), "patch.write")
        BY <2>1, <3>2 DEF PatchRead
      <4>2. /\ pc'[r] = "patch.write" /\ snap'[r] = row[key[r]] /\ row' = row /\ key' = key
        BY <4>1 DEF Prepare, Goto, Read, TypeOK
      <4> QED BY <1>2, <2>0, <4>1, <4>2 DEF Exists
    <3> QED BY <3>1, <3>2
  <2>2. CASE PatchWrite(r)
    <3>1. /\ pc[r] = "patch.write" /\ pc'[r] = "patch.reread"
          /\ ~(Exists(key[r]) /\ CasMatches(Read(r), snap[r]))
          /\ UNCHANGED <<row, snap, key>>
      BY <1>3, <2>2 DEF PatchWrite, Leave, Goto, TypeOK
    <3>2. Exists(key[r]) /\ Read(r).id = snap[r].id => Read(r) # snap[r]
      BY <3>1 DEF CasMatches
    <3> QED BY <3>1, <3>2 DEF ConflictInv, Exists, Read
  <2>3. CASE PatchReread(r) \/ StartPatch(r)
    BY <1>3, <2>3 DEF PatchReread, StartPatch, Start, Answer, Leave, Goto, TypeOK
  <2>4. CASE pc'[r] = pc[r] /\ key'[r] = key[r] /\ snap'[r] = snap[r]
    <3>1. snap[r] \in Rows /\ UpToDate(snap[r])
      BY <1>3, <2>4 DEF ConflictInv
    <3>2. ASSUME row'[key[r]] # NoRow, row'[key[r]].id = snap[r].id
          PROVE  \/ pc[r] = "patch.write" /\ row'[key[r]] = snap[r]
                 \/ Overtaken(row'[key[r]], snap[r])
      <4>1. /\ row[key[r]] \in Rows /\ row'[key[r]] \in Rows /\ UpToDate(row[key[r]])
            /\ row'[key[r]] = row[key[r]] \/ Stamped(row[key[r]], row'[key[r]])
            /\ Exists(key[r]) /\ row[key[r]].id = snap[r].id
        BY <1>2, <2>0, <3>2
      <4>2. (pc[r] = "patch.write" /\ row[key[r]] = snap[r]) \/ Overtaken(row[key[r]], snap[r])
        BY <1>3, <2>4, <4>1 DEF ConflictInv, Read
      <4>3. row[key[r]] = snap[r] => row[key[r]].version >= snap[r].version
        BY <4>1 DEF Rows
      <4> QED BY <3>1, <4>1, <4>2, <4>3, StampedIsUpToDate
    <3> QED BY <2>4, <3>1, <3>2
  <2>5. ASSUME NEW q \in Requests \ {r}, Step(q)
        PROVE  pc'[r] = pc[r] /\ key'[r] = key[r] /\ snap'[r] = snap[r]
    BY <2>5 DEF Step, StartPatch, StartPost, StartPut, Start, PatchRead, PatchWrite,
       PatchReread, PostRead, PostNew, PostRevive, PostUpdate, PostOlder, PostRejected,
       PostFile, PostInsert, PutInsert, Insert, PostClash, PutRead, PutAdd, PutClash,
       Overwrite, Answer, Prepare, Leave, Goto, TypeOK
  <2>6. Step(r) => PatchRead(r) \/ PatchWrite(r) \/ PatchReread(r) \/ StartPatch(r)
    BY DEF Step, ConflictInv, CasInv, OnlyUiPatches, StartPost, StartPut, Start, PostRead, PostFile,
       PostInsert, PutInsert, Insert, PostClash, PutRead, PutAdd, PutClash, Overwrite
  <2>7. CASE SoftDelete \/ Purge \/ ClearAll \/ Tick \/ UNCHANGED vars
    BY <2>4, <2>7 DEF SoftDelete, Purge, ClearAll, RemoveRows, Tick, reqVars, vars
  <2> QED BY <2>1, <2>2, <2>3, <2>4, <2>5, <2>6, <2>7 DEF Next, Terminated
<1> QED BY <1>2, <1>3 DEF ConflictInv, Exists, Read, UpToDate, Overtaken

(* ConflictIsGenuine where only the web UI changes records: the PATCH that *)
(* is answered 409 after it passed the acceptance rule lost to a change it *)
(* had not seen, or the row it read is gone (db.ts:549-554).               *)
THEOREM UiConflictsAreGenuine == OnlyUiPatches => (Spec => []ConflictIsGenuine)
<1> SUFFICES ASSUME OnlyUiPatches PROVE Spec => []ConflictIsGenuine
  OBVIOUS
<1>1. Init /\ CasInv => ConflictInv
  BY StoredAssumption DEF Init, ConflictInv, UpToDate, Exists
<1>2. ConflictInv /\ CasInv' /\ [Next]_vars => ConflictInv'
  BY ConflictStep
<1>3. ConflictInv => ConflictIsGenuine
  <2> SUFFICES ASSUME ConflictInv, NEW r \in Requests, pc[r] = "patch.reread",
                      Exists(key[r]), Read(r).id = snap[r].id
               PROVE  ~(Read(r).seen \subseteq snap[r].seen)
    BY DEF ConflictIsGenuine
  <2>1. Overtaken(Read(r), snap[r]) /\ UpToDate(snap[r]) /\ snap[r] \in Rows
    BY DEF ConflictInv
  <2>2. snap[r].version \in Int /\ \A w \in snap[r].seen : w[2] \in Int
    BY <2>1 DEF Rows
  <2> QED BY <2>1, <2>2 DEF Overtaken, UpToDate
<1> QED BY <1>1, <1>2, <1>3, CasInvHolds, PTL DEF Spec

(* The rules AtomicRecords sees are the rules used here.                   *)
LEMMA SameRules ==
  /\ Atomic!Rows = Rows
  /\ \A e, d, t : Atomic!PatchAccepted(e, d, t) <=> PatchAccepted(e, d, t)
  /\ \A e, d, t, by : Atomic!Patched(e, d, t, by) = Patched(e, d, t, by)
  /\ \A e, t, by : Atomic!SoftDeleted(e, t, by) = SoftDeleted(e, t, by)
BY DEF Atomic!Rows, Rows, Atomic!PatchAccepted, PatchAccepted, Atomic!Patched, Patched,
   Atomic!SoftDeleted, SoftDeleted, Atomic!Signed, Signed, Atomic!PatchVersion, PatchVersion,
   Atomic!PatchTime, PatchTime, Atomic!Given, Given, Atomic!MaxOf, MaxOf, Atomic!Gap, Gap,
   Atomic!ShouldUpdate, ShouldUpdate

(* Interleaved at every await, the requests implement indivisible changes: *)
(* the PATCH that was computed from a row read earlier is the PATCH of the *)
(* row as it is when the write takes place.                                *)
THEOREM UiImplementsAtomic == OnlyUiPatches => (Spec => ImplementsAtomic)
<1> SUFFICES ASSUME OnlyUiPatches PROVE Spec => Atomic!Spec
  BY DEF ImplementsAtomic
<1>1. Init => Atomic!Init
  BY SameRules, StoredAssumption DEF Init, Atomic!Init, Exists, Atomic!Exists
<1>2. CasInv /\ [Next]_vars => [Atomic!Next]_row
  <2> SUFFICES ASSUME CasInv, [Next]_vars, row' # row
               PROVE  Atomic!Next
    OBVIOUS
  <2> TypeOK
    BY DEF CasInv, IdInv
  <2>1. ASSUME NEW r \in Requests, PatchWrite(r)
        PROVE  Atomic!Change(key[r]) /\ key[r] \in Keys
    BY <2>1, SameRules, WriteIsAtomic, WritersAssumption DEF Atomic!Change, Atomic!Exists, Exists, TypeOK
  <2>2. ASSUME NEW r \in Requests, Step(r)
        PROVE  PatchWrite(r)
    BY <2>2, OthersKeepRows
  <2>3. CASE SoftDelete
    <3>1. PICK batch \in SUBSET {k \in Keys : Cleanable(k)} :
            row' = [k \in Keys |-> IF k \in batch THEN SoftDeleted(row[k], now, Cleaner)
                                                  ELSE row[k]]
      BY <2>3 DEF SoftDelete
    <3>2. Cleaner \in Writers /\ now \in 0..MaxTime
      BY WritersAssumption DEF TypeOK
    <3>3. /\ batch \in SUBSET {k \in Keys : Atomic!Exists(k)}
          /\ \A k \in batch : ~row[k].isDeleted /\ ~row[k].stared
      BY <3>1 DEF Cleanable, Exists, Atomic!Exists
    <3>4. row' = [k \in Keys |-> IF k \in batch THEN Atomic!SoftDeleted(row[k], now, Cleaner)
                                                ELSE row[k]]
      BY <3>1, SameRules
    <3> QED BY <3>2, <3>3, <3>4 DEF Atomic!SoftDelete, Atomic!Next
  <2>4. CASE Purge \/ ClearAll
    BY <2>4 DEF Purge, ClearAll, RemoveRows, Atomic!Remove, Atomic!Next
  <2>5. CASE Tick \/ UNCHANGED vars
    BY <2>5 DEF Tick, vars
  <2> QED BY <2>1, <2>2, <2>3, <2>4, <2>5 DEF Next, Terminated, Atomic!Next
<1> QED BY <1>1, <1>2, CasInvHolds, PTL DEF Spec, Atomic!Spec
=============================================================================
