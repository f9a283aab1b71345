--------------------------- MODULE StagingProofs ----------------------------
(***************************************************************************)
(* Proofs about Staging: for any number of PUTs, names, contents, archives *)
(* and offers.                                                             *)
(***************************************************************************)
EXTENDS Staging, TLAPS

----------------------------------------------------------------------------
(* The inductive invariants *)

(* Whatever lies under a key has the hash in the key, whole is a row whose *)
(* data lie where it says, and the object of a row is never taken away.    *)
HashesMatch ==
  \A k \in Keys, n \in Names :
    object[<<k, n>>] # None => k[2] = ProfileHash(k[1], n, object[<<k, n>>])

Whole(entity) ==
  IF entity.name = None THEN entity.key[1] = "Text"
  ELSE object[<<entity.key, entity.name>>] # None

(* The bytes a PUT has read are those it has checked, and what it is about *)
(* to write over is the row of the key it will write.                      *)
BytesAreChecked(r) ==
  /\ pc[r] \in {"persist", "consume"} => content[r] # None
  /\ pc[r] \in {"lookup", "reuse", "take", "drop", "done"} => content[r] = None
  /\ content[r] # None => DataValid(offer[r], content[r])
  /\ pc[r] \in {"find", "insert", "merge"} =>
       IF content[r] = None THEN InlineValid(offer[r])
       ELSE object[<<Key(r), offer[r].name>>] # None
  /\ pc[r] = "consume" => object[<<Key(r), offer[r].name>>] # None

HeldIsDeclared(r) ==
  /\ held[r] # None => Whole(held[r]) /\ row[held[r].key] # None
  /\ pc[r] = "merge" => held[r].key = Key(r)
  /\ pc[r] \in {"reuse", "set", "announce"} =>
       /\ offer[r].hash \in {None, held[r].key[2]}
       /\ held[r].key[1] \in {offer[r].type, ResolveCreateType(offer[r])}

WholeInv ==
  /\ HashesMatch
  /\ \A k \in Keys : row[k] # None => Whole(row[k])
  /\ \A r \in Puts : BytesAreChecked(r) /\ HeldIsDeclared(r)

(* What the other requests are about to write is whole as well.            *)
DraftsInv == \A o \in Others : stage[o] # "idle" => Whole(draft[o])

(* A PUT that is alone finds what its client has staged, and there is no   *)
(* answer other than 200 for it.                                           *)
AllIsWell(r) ==
  /\ pc[r] = "lookup" => Ready(offer[r])
  /\ pc[r] = "take" => offer[r].data /\ Ready(offer[r])
  /\ pc[r] # "drop"
  /\ pc[r] \in {"reuse", "set", "announce"} => ~held[r].deleted
  /\ pc[r] = "done" => answer[r] = 200

AloneInv ==
  \A r \in Puts : alone[r] =>
    /\ InFlight(r) => \A q \in Puts \ {r} : ~InFlight(q)
    /\ AllIsWell(r)

(* If nobody has set the current profile over another PUT, every PUT that  *)
(* is left to announce announces it.                                       *)
NewsInv ==
  /\ news = "pending" => \E r \in Puts : pc[r] = "announce" /\ ProfileOf(held[r]) = current
  /\ sole => \A r \in Puts : pc[r] = "announce" => ProfileOf(held[r]) = current
  /\ sole /\ news = "told" => told = current

(* No PUT has given a row a time in the future; one that is alone has the  *)
(* latest of all, and its row is the only one that was given it.           *)
Latest(r) ==
  /\ stamp[r] = clock
  /\ \A k \in Keys : row[k] # None =>
       row[k].put < clock \/ (pc[r] \in {"set", "announce"} /\ k = held[r].key)
  /\ pc[r] = "set" => row[held[r].key] # None /\ row[held[r].key].put = clock

TimesInv ==
  /\ \A k \in Keys : row[k] # None => row[k].put <= clock
  /\ \A r \in Puts : stamp[r] <= clock
  /\ \A r \in Puts : alone[r] /\ InFlight(r) => Latest(r)

(* Unless a PUT has written its row and not yet set the current profile,   *)
(* a PUT has written the row of the current profile after every other,     *)
(* whatever times other requests have given them since.                    *)
Foremost ==
  /\ row[current.key] # None /\ row[current.key].put >= 0
  /\ \A k \in Keys : row[k] # None =>
       k = current.key \/ row[k].put < row[current.key].put

Settled == sole /\ current # None /\ (\A r \in Puts : pc[r] # "set")

ForemostInv == Settled => Foremost

----------------------------------------------------------------------------
(* What offers and keys are *)

LEMMA OfferIsProfile ==
  ASSUME NEW o \in Offers
  PROVE  /\ o.type \in Types /\ o.name \in Names /\ o.bytes \in Bytes /\ o.data \in BOOLEAN
         /\ o.hash \in Hashes \cup {None} /\ o.digest \in Bytes \cup {None}
         /\ ResolveCreateType(o) \in Types
         /\ (o.type = "Text" <=> ResolveCreateType(o) = "Text")
<1>1. o \in ProfileDtos
  BY OffersAssumption
<1>2. QED
  BY <1>1 DEF ProfileDtos, Types, ResolveCreateType

LEMMA HashIsHash ==
  ASSUME NEW type \in Types, NEW name \in Names, NEW bytes \in Bytes
  PROVE  ProfileHash(type, name, bytes) \in Hashes
BY DEF Hashes

(* The type and the hash of a record to be, whatever they are made of.     *)
LEMMA KeyIsKey ==
  ASSUME TypeOK, NEW r \in Puts, offer[r] \in Offers
  PROVE  /\ Key(r) \in Keys
         /\ Key(r)[1] = ResolveCreateType(offer[r])
         /\ content[r] = None /\ offer[r].hash # None => Key(r)[2] = offer[r].hash
         /\ content[r] # None =>
              Key(r)[2] = ProfileHash(ResolveCreateType(offer[r]), offer[r].name, content[r])
<1> DEFINE o == offer[r]
           type == ResolveCreateType(o)
           bytes == IF content[r] = None THEN o.bytes ELSE content[r]
           hash == IF content[r] # None \/ o.hash = None
                   THEN ProfileHash(type, o.name, bytes) ELSE o.hash
<1>1. bytes \in Bytes /\ type \in Types /\ o.name \in Names /\ o.hash \in Hashes \cup {None}
  BY OfferIsProfile DEF TypeOK
<1>2. ProfileHash(type, o.name, bytes) \in Hashes
  BY <1>1, HashIsHash
<1>3. Key(r) = <<type, hash>>
  BY DEF Key
<1>4. hash \in Hashes
  BY <1>1, <1>2
<1>5. <<type, hash>> \in Types \X Hashes
  BY <1>1, <1>4
<1>6. Key(r) \in Keys /\ Key(r)[1] = type /\ Key(r)[2] = hash
  <2> HIDE DEF type, hash
  <2> QED  BY <1>3, <1>5 DEF Keys
<1>7. QED
  BY <1>6

(* Both checks bind the declared hash to the key of the record to be.      *)
LEMMA KeyIsDeclared ==
  ASSUME TypeOK, NEW r \in Puts, offer[r] \in Offers,
         content[r] # None => DataValid(offer[r], content[r])
  PROVE  offer[r].hash \in {None, Key(r)[2]}
BY KeyIsKey DEF DataValid

LEMMA RowIsRow ==
  ASSUME NEW entity \in Rows
  PROVE  /\ entity # None
         /\ entity.key \in Keys /\ entity.deleted \in BOOLEAN
         /\ entity.name \in Names \cup {None} /\ entity.digest \in Bytes \cup {None}
         /\ entity.at \in 0..MaxPuts /\ entity.put \in -1..MaxPuts
         /\ ProfileOf(entity) \in Profiles
         /\ ProfileOf(entity).key = entity.key /\ ProfileOf(entity).name = entity.name
<1>1. entity # None
  BY NoneAssumption
<1>2. QED
  BY <1>1 DEF Rows, ProfileOf, Profiles

(* What a deletion leaves of the rows.                                     *)
LEMMA SoftDeleteLeaves ==
  ASSUME TypeOK, NEW k \in Keys, SoftDelete(k)
  PROVE  /\ row' \in [Keys -> Rows \cup {None}]
         /\ row' = [row EXCEPT ![k] = row'[k]]
         /\ \A j \in Keys : /\ (row[j] # None <=> row'[j] # None)
                            /\ row[j] # None => /\ row'[j].key = j
                                                /\ row'[j].name = row[j].name
                                                /\ row'[j].put = row[j].put
<1> DEFINE binned == [row[k] EXCEPT !.deleted = TRUE]
<1>1. row[k] \in Rows /\ row[k] # None /\ row[k].key = k /\ row' = [row EXCEPT ![k] = binned]
  BY DEF SoftDelete, TypeOK
<1>2. binned \in Rows /\ binned.key = k /\ binned.name = row[k].name /\ binned.put = row[k].put
  BY <1>1 DEF Rows
<1> HIDE DEF binned
<1>3. binned # None
  BY <1>2, NoneAssumption
<1>4. row' \in [Keys -> Rows \cup {None}] /\ row'[k] = binned
  BY <1>1, <1>2 DEF TypeOK
<1>5. \A j \in Keys \ {k} : row'[j] = row[j]
  BY <1>1 DEF TypeOK
<1>6. row' = [row EXCEPT ![k] = row'[k]]
  BY <1>1, <1>4
<1>7. QED
  BY <1>1, <1>2, <1>3, <1>4, <1>5, <1>6 DEF TypeOK

(* The three rows a PUT may write.                                         *)
LEMMA WrittenRows ==
  ASSUME TypeOK, NEW r \in Puts, offer[r] \in Offers
  PROVE  /\ Fresh(r) \in Rows /\ Fresh(r).key = Key(r) /\ Fresh(r).put = stamp[r]
         /\ Fresh(r).name = (IF content[r] = None THEN None ELSE offer[r].name)
         /\ ~Fresh(r).deleted
         /\ held[r] # None =>
              /\ Touched(r) \in Rows /\ Touched(r).key = held[r].key
              /\ Touched(r).name = held[r].name /\ Touched(r).put = stamp[r]
              /\ Touched(r).deleted = held[r].deleted
              /\ Merged(r) \in Rows /\ Merged(r).key = held[r].key /\ Merged(r).put = stamp[r]
              /\ Merged(r).name = (IF content[r] = None THEN held[r].name ELSE offer[r].name)
              /\ ~Merged(r).deleted
<1>1. /\ Key(r) \in Keys /\ offer[r].name \in Names /\ content[r] \in Bytes \cup {None}
      /\ stamp[r] \in 0..MaxPuts /\ stamp[r] \in -1..MaxPuts /\ held[r] \in Rows \cup {None}
  BY KeyIsKey, OfferIsProfile, BoundAssumption DEF TypeOK
<1>2. /\ Fresh(r) \in Rows /\ Fresh(r).key = Key(r) /\ Fresh(r).put = stamp[r]
      /\ Fresh(r).name = (IF content[r] = None THEN None ELSE offer[r].name)
      /\ ~Fresh(r).deleted
  BY <1>1 DEF Fresh, Data, Rows
<1>3. ASSUME held[r] # None
      PROVE  /\ Touched(r) \in Rows /\ Touched(r).key = held[r].key
             /\ Touched(r).name = held[r].name /\ Touched(r).put = stamp[r]
             /\ Touched(r).deleted = held[r].deleted
  BY <1>1, <1>3 DEF Touched, Rows
<1>4. ASSUME held[r] # None
      PROVE  /\ Merged(r) \in Rows /\ Merged(r).key = held[r].key /\ Merged(r).put = stamp[r]
             /\ Merged(r).name = (IF content[r] = None THEN held[r].name ELSE offer[r].name)
             /\ ~Merged(r).deleted
  BY <1>1, <1>2, <1>4 DEF Merged, Fresh, Data, Rows
<1>5. QED
  BY <1>2, <1>3, <1>4

(* What the other requests write: the row that was there or a new one.     *)
LEMMA RevisedRows ==
  ASSUME TypeOK, NEW o \in Others, Create(o) \/ Update(o)
  PROVE  /\ draft[o] \in Rows /\ draft[o].key \in Keys
         /\ row' = [row EXCEPT ![draft[o].key] = row'[draft[o].key]]
         /\ row'[draft[o].key] \in Rows /\ row'[draft[o].key].key = draft[o].key
         /\ \/ row'[draft[o].key] = row[draft[o].key]
            \/ row'[draft[o].key].name = draft[o].name
         /\ row[draft[o].key] # None => row'[draft[o].key].put = row[draft[o].key].put
         /\ row[draft[o].key] = None => row'[draft[o].key].put = -1
<1> DEFINE k == draft[o].key
<1>1. draft[o] \in Rows /\ k \in Keys
  BY RowIsRow DEF Create, Update, TypeOK
<1>2. row \in [Keys -> Rows \cup {None}] /\ (row[k] # None => row[k] \in Rows /\ row[k].key = k)
  BY <1>1 DEF TypeOK
<1>3. CASE Create(o) /\ row[k] = None
  <2>1. PICK at \in 0..MaxPuts, deleted \in BOOLEAN :
          row' = [row EXCEPT ![k] = [draft[o] EXCEPT !.at = at, !.deleted = deleted]]
    BY <1>3 DEF Create
  <2>2. draft[o].put = -1
    BY <1>3 DEF Create, TypeOK
  <2> DEFINE entity == [draft[o] EXCEPT !.at = at, !.deleted = deleted]
  <2>3. entity \in Rows /\ entity.key = k /\ entity.name = draft[o].name /\ entity.put = -1
    BY <1>1, <2>2 DEF Rows
  <2> HIDE DEF entity
  <2>4. row' = [row EXCEPT ![k] = entity] /\ row'[k] = entity
    BY <1>1, <1>2, <2>1 DEF entity
  <2> HIDE DEF k
  <2>5. QED
    BY <1>1, <1>3, <2>3, <2>4 DEF k
<1>4. CASE Create(o) /\ row[k] # None
  <2>1. row' = row
    BY <1>4 DEF Create
  <2>2. row' = [row EXCEPT ![k] = row'[k]]
    BY <1>2, <2>1
  <2>3. QED
    BY <1>1, <1>2, <1>4, <2>1, <2>2
<1>5. CASE Update(o)
  <2>1. PICK at \in 0..MaxPuts, deleted \in BOOLEAN :
          row' = [row EXCEPT ![k] = [draft[o] EXCEPT !.at = at, !.deleted = deleted,
                                                     !.put = row[k].put]]
    BY <1>5 DEF Update
  <2>2. row[k] # None /\ row[k].put \in -1..MaxPuts
    BY <1>2, <1>5, RowIsRow DEF Update, TypeOK
  <2> DEFINE entity == [draft[o] EXCEPT !.at = at, !.deleted = deleted, !.put = row[k].put]
  <2>3. /\ entity \in Rows /\ entity.key = k /\ entity.name = draft[o].name
        /\ entity.put = row[k].put
    BY <1>1, <2>2 DEF Rows
  <2> HIDE DEF entity
  <2>4. row' = [row EXCEPT ![k] = entity] /\ row'[k] = entity
    BY <1>1, <1>2, <2>1 DEF entity
  <2> HIDE DEF k
  <2>5. QED
    BY <1>1, <2>2, <2>3, <2>4 DEF k
<1>6. QED
  BY <1>3, <1>4, <1>5

----------------------------------------------------------------------------
(* Types *)

LEMMA FirstRecord ==
  ASSUME NEW o \in Offers
  PROVE  /\ Record(o) \in Rows
         /\ Record(o).key[1] = ResolveCreateType(o)
         /\ Record(o).key[2] = ProfileHash(ResolveCreateType(o), o.name, o.bytes)
         /\ Record(o).name = (IF o.data THEN o.name ELSE None)
         /\ Record(o).put = 0
<1>1. ProfileHash(ResolveCreateType(o), o.name, o.bytes) \in Hashes
  BY OfferIsProfile, HashIsHash
<1>2. QED
  BY <1>1, OfferIsProfile, BoundAssumption DEF Record, Rows, Keys

LEMMA FirstTypes == Init => TypeOK
<1> SUFFICES ASSUME Init PROVE TypeOK
  OBVIOUS
<1>1. /\ object \in [Keys \X Names -> Bytes \cup {None}]
      /\ row \in [Keys -> Rows \cup {None}]
      /\ \A k \in Keys : row[k] # None => row[k].key = k
      /\ current \in Profiles \cup {None} /\ told \in Profiles \cup {None}
  <2>1. CASE Empty
    BY <2>1 DEF Empty
  <2>2. ASSUME NEW o \in Offers, After(o)
        PROVE  <1>1!:
    <3>1. Record(o) \in Rows /\ o.bytes \in Bytes /\ Record(o) # None
      BY FirstRecord, OfferIsProfile, RowIsRow
    <3>2. ProfileOf(Record(o)) \in Profiles
      BY <3>1, RowIsRow
    <3>3. QED
      BY <2>2, <3>1, <3>2 DEF After
  <2>3. QED
    BY <2>1, <2>2 DEF Init
<1>2. QED
  BY <1>1, BoundAssumption DEF Init, Idle, TypeOK, InFlight

(* What an answered handler leaves behind.                                 *)
Forgotten(r, status) ==
  /\ pc' \in [Puts -> {"lookup", "reuse", "take", "drop", "persist", "consume",
                       "find", "insert", "merge", "set", "announce", "done"}]
  /\ offer' \in [Puts -> Offers \cup {None}]
  /\ stamp' \in [Puts -> 0..MaxPuts]
  /\ content' \in [Puts -> Bytes \cup {None}]
  /\ held' \in [Puts -> Rows \cup {None}]
  /\ answer' \in [Puts -> {None, 200, 400, 404, 413, 500}]
  /\ pc'[r] = "done" /\ offer'[r] = None /\ stamp'[r] = 0 /\ content'[r] = None
  /\ held'[r] = None /\ answer'[r] = status
  /\ \A q \in Puts \ {r} :
       /\ pc'[q] = pc[q] /\ offer'[q] = offer[q] /\ stamp'[q] = stamp[q]
       /\ content'[q] = content[q] /\ held'[q] = held[q] /\ answer'[q] = answer[q]

LEMMA FinishForgets ==
  ASSUME TypeOK, NEW r \in Puts, NEW status \in {200, 400, 404, 413, 500}, Finish(r, status)
  PROVE  Forgotten(r, status)
BY BoundAssumption DEF TypeOK, Finish, Forgotten

LEMMA FinishTypes ==
  ASSUME TypeOK, NEW r \in Puts, NEW status, Forgotten(r, status)
  PROVE  /\ \A q \in Puts : pc'[q] # "done" => offer'[q] \in Offers
         /\ \A q \in Puts : pc'[q] \in {"reuse", "merge", "set", "announce"}
                             => held'[q] \in Rows
BY DEF TypeOK, InFlight, Forgotten

(* No step takes a row away.                                               *)
LEMMA RowsStay ==
  ASSUME TypeOK, [Next]_vars
  PROVE  \A k \in Keys : row[k] # None => row'[k] # None
<1>1. CASE UNCHANGED row
  BY <1>1
<1>2. ASSUME NEW k \in Keys, NEW entity \in Rows, row' = [row EXCEPT ![k] = entity]
      PROVE  \A j \in Keys : row[j] # None => row'[j] # None
  BY <1>2, RowIsRow DEF TypeOK
<1>3. ASSUME NEW r \in Puts, Reuse(r) \/ Insert(r) \/ Merge(r)
      PROVE  \A k \in Keys : row[k] # None => row'[k] # None
  <2>1. /\ offer[r] \in Offers /\ Key(r) \in Keys
        /\ pc[r] \in {"reuse", "merge"} => held[r] # None /\ held[r].key \in Keys
    BY <1>3, KeyIsKey, RowIsRow DEF Reuse, Insert, Merge, InFlight, TypeOK
  <2>2. \/ UNCHANGED row
        \/ \E k \in Keys, entity \in Rows : row' = [row EXCEPT ![k] = entity]
    BY <1>3, <2>1, WrittenRows DEF Reuse, Insert, Merge
  <2>3. QED
    BY <1>2, <2>2
<1>4. ASSUME NEW o \in Others, Create(o) \/ Update(o)
      PROVE  \A k \in Keys : row[k] # None => row'[k] # None
  BY <1>2, <1>4, RevisedRows
<1>5. ASSUME NEW k \in Keys, SoftDelete(k)
      PROVE  \A j \in Keys : row[j] # None => row'[j] # None
  BY <1>5, SoftDeleteLeaves
<1>6. ASSUME NEW r \in Puts,
             Start(r) \/ Lookup(r) \/ Take(r) \/ Drop(r) \/ Persist(r) \/ Consume(r) \/ Find(r)
             \/ SetCurrent(r) \/ Announce(r) \/ Fail(r)
      PROVE  UNCHANGED row
  BY <1>6 DEF Start, Lookup, Take, Drop, Persist, Consume, Find, SetCurrent, Announce, Fail, store
<1>7. ASSUME NEW o \in Others, (\E k \in Keys : Read(o, k)) \/ (\E u \in Uploads : Upload(o, u))
                               \/ GiveUp(o)
      PROVE  UNCHANGED row
  BY <1>7 DEF Read, Upload, GiveUp, store
<1>8. ASSUME NEW n \in Names, Unstage(n) \/ \E bytes \in Bytes : Stage(n, bytes)
      PROVE  UNCHANGED row
  BY <1>8 DEF Unstage, Stage
<1>9. CASE ClearStaging \/ UNCHANGED vars
  BY <1>1, <1>9 DEF ClearStaging, vars, store
<1>10. QED
  BY <1>1, <1>3, <1>4, <1>5, <1>6, <1>7, <1>8, <1>9 DEF Next, PutStep, OtherStep

OthersOK ==
  /\ stage \in [Others -> {"idle", "insert", "update"}]
  /\ draft \in [Others -> Rows \cup {None}]
  /\ \A o \in Others : stage[o] # "idle" => draft[o] \in Rows
  /\ \A o \in Others : stage[o] = "insert" => draft[o].put = -1
  /\ \A o \in Others : stage[o] = "update" => row[draft[o].key] # None
  /\ revisions \in 0..MaxRevisions

(* The rows posted.                                                        *)
LEMMA UploadedRow ==
  ASSUME TypeOK, NEW o \in Others, NEW u \in Uploads, Upload(o, u)
  PROVE  /\ stage' = [stage EXCEPT ![o] = "insert"] /\ draft' = [draft EXCEPT ![o] = draft'[o]]
         /\ draft'[o] \in Rows /\ draft'[o].put = -1
         /\ draft'[o].key = <<u.type, ProfileHash(u.type, u.name, u.bytes)>>
         /\ draft'[o].name = (IF u.data THEN u.name ELSE None)
         /\ u.name \in Names /\ u.bytes \in Bytes
<1> DEFINE k == <<u.type, ProfileHash(u.type, u.name, u.bytes)>>
           name == IF u.data THEN u.name ELSE None
           digest == IF u.data THEN u.bytes ELSE None
           entity == [key |-> k, deleted |-> FALSE, name |-> name, digest |-> digest,
                      at |-> 0, put |-> -1]
<1>1. u.type \in Types /\ u.name \in Names /\ u.bytes \in Bytes
  BY UploadsAssumption
<1>2. k \in Keys
  BY <1>1, HashIsHash DEF Keys
<1>3. name \in Names \cup {None} /\ digest \in Bytes \cup {None}
  BY <1>1
<1> HIDE DEF k, name, digest
<1>4. entity \in Rows
  BY <1>2, <1>3, BoundAssumption DEF Rows
<1>5. stage' = [stage EXCEPT ![o] = "insert"] /\ draft' = [draft EXCEPT ![o] = entity]
  BY DEF Upload, Begin, k, name, digest
<1>6. entity.key = k /\ entity.name = name /\ entity.put = -1
  OBVIOUS
<1> HIDE DEF entity
<1>7. draft'[o] = entity
  BY <1>5 DEF TypeOK
<1>8. QED
  BY <1>1, <1>4, <1>5, <1>6, <1>7 DEF k, name

LEMMA OthersStep == TypeOK /\ [Next]_vars => OthersOK'
<1> SUFFICES ASSUME TypeOK, [Next]_vars PROVE OthersOK'
  OBVIOUS
<1>1. \A k \in Keys : row[k] # None => row'[k] # None
  BY RowsStay
<1>2. \A o \in Others : stage[o] = "update" => draft[o].key \in Keys
  BY RowIsRow DEF TypeOK
<1>3. CASE UNCHANGED others
  BY <1>1, <1>2, <1>3 DEF TypeOK, OthersOK, others
(* A request that begins or goes on has a row that it will write.          *)
<1>4. ASSUME NEW o \in Others, NEW label \in {"insert", "update"}, NEW entity \in Rows,
             stage' = [stage EXCEPT ![o] = label], draft' = [draft EXCEPT ![o] = entity],
             revisions' \in 0..MaxRevisions,
             IF label = "insert" THEN entity.put = -1 ELSE row'[entity.key] # None
      PROVE  OthersOK'
  BY <1>1, <1>2, <1>4 DEF TypeOK, OthersOK
<1>5. ASSUME NEW o \in Others, End(o)
      PROVE  OthersOK'
  BY <1>1, <1>2, <1>5 DEF TypeOK, OthersOK, End
<1>6. ASSUME NEW o \in Others, NEW k \in Keys, Read(o, k)
      PROVE  OthersOK'
  <2>1. row[k] \in Rows /\ row[k].key = k /\ row[k] # None
    BY <1>6 DEF Read, TypeOK
  <2>2. revisions' \in 0..MaxRevisions
    BY <1>6, BoundAssumption DEF Read, Begin, TypeOK
  <2>3. stage' = [stage EXCEPT ![o] = "update"] /\ draft' = [draft EXCEPT ![o] = row[k]]
    BY <1>6 DEF Read, Begin
  <2>4. QED
    BY <1>1, <1>4, <2>1, <2>2, <2>3
<1>7. ASSUME NEW o \in Others, NEW u \in Uploads, Upload(o, u)
      PROVE  OthersOK'
  <2>1. revisions' \in 0..MaxRevisions
    BY <1>7, BoundAssumption DEF Upload, Begin, TypeOK
  <2>2. QED
    BY <1>4, <1>7, <2>1, UploadedRow
<1>8. ASSUME NEW o \in Others, Create(o)
      PROVE  OthersOK'
  <2> DEFINE k == draft[o].key
  <2>1. k \in Keys
    BY <1>8, RevisedRows
  <2>2. CASE End(o)
    BY <1>5, <2>2
  <2>3. CASE /\ row[k] # None /\ stage' = [stage EXCEPT ![o] = "update"]
             /\ draft' = [draft EXCEPT ![o] = row[k]] /\ UNCHANGED revisions
    <3>1. row[k] \in Rows /\ row[k].key = k /\ revisions' \in 0..MaxRevisions
      BY <2>1, <2>3 DEF TypeOK
    <3>2. QED
      BY <1>1, <1>4, <2>1, <2>3, <3>1
  <2>4. QED
    BY <1>8, <2>2, <2>3 DEF Create
<1>9. ASSUME NEW o \in Others, Update(o) \/ GiveUp(o)
      PROVE  OthersOK'
  BY <1>5, <1>9 DEF Update, GiveUp
<1>10. ASSUME NEW r \in Puts, PutStep(r)
       PROVE  UNCHANGED others
  BY <1>10 DEF PutStep, Start, Lookup, Reuse, Take, Drop, Persist, Consume, Find, Insert, Merge,
               SetCurrent, Announce, Fail
<1>11. ASSUME NEW n \in Names, Unstage(n) \/ \E bytes \in Bytes : Stage(n, bytes)
       PROVE  UNCHANGED others
  BY <1>11 DEF Unstage, Stage
<1>12. CASE ClearStaging \/ (\E k \in Keys : SoftDelete(k)) \/ UNCHANGED vars
  BY <1>3, <1>12 DEF ClearStaging, SoftDelete, vars
<1>13. QED
  BY <1>3, <1>6, <1>7, <1>8, <1>9, <1>10, <1>11, <1>12 DEF Next, OtherStep

LEMMA TypeStep == TypeOK /\ [Next]_vars => TypeOK'
<1> SUFFICES ASSUME TypeOK, [Next]_vars PROVE TypeOK'
  OBVIOUS
<1>0. OthersOK'
  BY OthersStep
<1> USE <1>0 DEF OthersOK
<1>1. ASSUME NEW r \in Puts, Start(r) PROVE TypeOK'
  <2>1. PICK o \in Offers :
          /\ alone' = [q \in Puts |-> IF q = r THEN Quiet /\ Ready(o)
                                               ELSE alone[q] /\ ~InFlight(q)]
          /\ \/ Finish(r, 400)
             \/ /\ pc' = [pc EXCEPT ![r] = "lookup"]
                /\ offer' = [offer EXCEPT ![r] = o]
                /\ stamp' = [stamp EXCEPT ![r] = clock + 1]
                /\ answer' = [answer EXCEPT ![r] = None]
                /\ UNCHANGED <<content, held>>
    BY <1>1 DEF Start
  <2>3. alone' \in [Puts -> BOOLEAN]
    BY <2>1, Zenon DEF Quiet, Ready, InFlight
  <2>4. clock' = clock + 1 /\ clock < MaxPuts /\ UNCHANGED <<store, profile>>
    BY <1>1 DEF Start
  <2>5. CASE Finish(r, 400)
    BY <2>3, <2>4, <2>5, BoundAssumption, FinishForgets, FinishTypes
    DEF InFlight, TypeOK, Forgotten, store, profile
  <2>6. CASE /\ pc' = [pc EXCEPT ![r] = "lookup"]
             /\ offer' = [offer EXCEPT ![r] = o]
             /\ stamp' = [stamp EXCEPT ![r] = clock + 1]
             /\ answer' = [answer EXCEPT ![r] = None]
             /\ UNCHANGED <<content, held>>
    BY <2>3, <2>4, <2>6, BoundAssumption DEF InFlight, TypeOK, store, profile
  <2>7. QED
    BY <2>1, <2>5, <2>6
<1>2. ASSUME NEW r \in Puts, Lookup(r) PROVE TypeOK'
  <2> DEFINE o == offer[r]
             asked == IF o.hash = None THEN None ELSE row[<<o.type, o.hash>>]
  <2>1. offer[r] \in Offers /\ pc[r] = "lookup"
    BY <1>2 DEF Lookup, TypeOK, InFlight
  <2>2. offer[r].hash # None => <<offer[r].type, offer[r].hash>> \in Keys
    BY <2>1, OfferIsProfile DEF Keys
  <2>3. asked \in Rows \cup {None}
    BY <2>2 DEF TypeOK
  <2>4. CASE asked # None /\ Goto(r, "reuse") /\ held' = [held EXCEPT ![r] = asked]
             /\ UNCHANGED <<offer, stamp, content>>
    <3> HIDE DEF asked
    <3> QED  BY <1>2, <2>1, <2>3, <2>4 DEF Lookup, Goto, InFlight, TypeOK, store, profile
  <2>5. CASE Goto(r, IF o.data THEN "take" ELSE "find") /\ UNCHANGED request
    BY <1>2, <2>1, <2>5 DEF Lookup, Goto, InFlight, TypeOK, store, profile, request
  <2>6. CASE Finish(r, 400)
    BY <1>2, <2>1, <2>6, BoundAssumption DEF Lookup, Finish, InFlight, TypeOK, store, profile
  <2>7. QED
    BY <1>2, <2>4, <2>5, <2>6 DEF Lookup
<1>3. ASSUME NEW r \in Puts, Reuse(r) PROVE TypeOK'
  <2>1. /\ offer[r] \in Offers /\ held[r] \in Rows /\ Touched(r) \in Rows
        /\ Touched(r).key = held[r].key /\ held[r].key \in Keys
    BY <1>3, WrittenRows, RowIsRow DEF Reuse, TypeOK, InFlight
  <2>2. QED
    BY <1>3, <2>1 DEF Reuse, Goto, InFlight, TypeOK, profile
<1>4. ASSUME NEW r \in Puts, Take(r) PROVE TypeOK'
  <2>1. UNCHANGED <<store, profile, clock, alone>> /\ pc[r] = "take"
    BY <1>4 DEF Take
  <2>2. ASSUME NEW status \in {200, 400, 404, 413, 500}, Finish(r, status) PROVE TypeOK'
    <3>1. Forgotten(r, status)
      BY <2>2, FinishForgets
    <3>2. /\ \A q \in Puts : pc'[q] # "done" => offer'[q] \in Offers
          /\ \A q \in Puts : pc'[q] \in {"reuse", "merge", "set", "announce"}
                              => held'[q] \in Rows
      BY <3>1, FinishTypes
    <3>3. QED
      BY <2>1, <3>1, <3>2 DEF InFlight, TypeOK, Forgotten, store, profile
  <2>3. CASE Goto(r, "drop") /\ UNCHANGED request
    BY <2>1, <2>3 DEF Goto, InFlight, TypeOK, store, profile, request
  <2>4. ASSUME NEW bytes \in Bytes, Goto(r, "persist"), content' = [content EXCEPT ![r] = bytes],
               UNCHANGED <<offer, stamp, held>>
        PROVE  TypeOK'
    BY <2>1, <2>4 DEF Goto, InFlight, TypeOK, store, profile
  <2>5. QED
    BY <1>4, <2>2, <2>3, <2>4 DEF Take
<1>5. ASSUME NEW r \in Puts, Drop(r) PROVE TypeOK'
  <2>1. Forgotten(r, 413) /\ UNCHANGED <<object, row, profile, clock, alone>>
    BY <1>5, FinishForgets DEF Drop
  <2>2. staged' \in [Names -> Bytes \cup {None}]
    BY <1>5 DEF Drop, TypeOK
  <2>3. QED
    BY <2>1, <2>2, FinishTypes DEF InFlight, TypeOK, Forgotten, profile
<1>6. ASSUME NEW r \in Puts, Persist(r) PROVE TypeOK'
  <2>1. content[r] \in Bytes \cup {None}
    BY DEF TypeOK
  <2>2. object' \in [Keys \X Names -> Bytes \cup {None}]
    BY <1>6, <2>1 DEF Persist, TypeOK
  <2>3. QED
    BY <1>6, <2>2 DEF Persist, Goto, InFlight, TypeOK, profile, request
<1>7. ASSUME NEW r \in Puts, Consume(r) PROVE TypeOK'
  <2>1. staged' \in [Names -> Bytes \cup {None}]
    BY <1>7 DEF Consume, TypeOK
  <2>2. QED
    BY <1>7, <2>1 DEF Consume, Goto, InFlight, TypeOK, profile, request
<1>8. ASSUME NEW r \in Puts, Find(r) PROVE TypeOK'
  <2> DEFINE declared == <<ResolveCreateType(offer[r]), offer[r].hash>>
             found == IF offer[r].hash = None THEN None ELSE row[declared]
  <2>1. offer[r] \in Offers
    BY <1>8 DEF Find, TypeOK, InFlight
  <2>2. offer[r].hash # None => declared \in Keys
    BY <2>1, OfferIsProfile DEF Keys
  <2>3. found \in Rows \cup {None}
    BY <2>2 DEF TypeOK
  <2>4. /\ held' = [held EXCEPT ![r] = found]
        /\ pc' = [pc EXCEPT ![r] = IF found # None THEN "merge" ELSE "insert"]
        /\ UNCHANGED <<answer, store, profile, clock, offer, stamp, content, alone>>
    BY <1>8 DEF Find, Goto
  <2>5. QED
    <3> HIDE DEF found
    <3> QED  BY <2>1, <2>3, <2>4 DEF InFlight, TypeOK, store, profile
<1>9. ASSUME NEW r \in Puts, Insert(r) PROVE TypeOK'
  <2>1. /\ offer[r] \in Offers /\ Key(r) \in Keys
        /\ Fresh(r) \in Rows /\ Fresh(r).key = Key(r)
    BY <1>9, WrittenRows, KeyIsKey DEF Insert, TypeOK, InFlight
  <2>2. PICK entity \in Rows :
          /\ held' = [held EXCEPT ![r] = entity]
          /\ \/ row' = [row EXCEPT ![Key(r)] = entity] /\ entity.key = Key(r)
                /\ pc' = [pc EXCEPT ![r] = "set"]
             \/ row' = row /\ pc' = [pc EXCEPT ![r] = "merge"]
    <3>1. CASE row[Key(r)] = None
      BY <1>9, <2>1, <3>1 DEF Insert, Goto
    <3>2. CASE row[Key(r)] # None
      <4>1. row[Key(r)] \in Rows
        BY <2>1, <3>2 DEF TypeOK
      <4>2. QED
        BY <1>9, <3>2, <4>1 DEF Insert, Goto
    <3>3. QED
      BY <3>1, <3>2
  <2>3. /\ row' \in [Keys -> Rows \cup {None}]
        /\ \A k \in Keys : row'[k] # None => row'[k].key = k
    BY <2>1, <2>2 DEF TypeOK
  <2>4. /\ held' \in [Puts -> Rows \cup {None}]
        /\ pc' \in [Puts -> {"lookup", "reuse", "take", "drop", "persist", "consume",
                             "find", "insert", "merge", "set", "announce", "done"}]
        /\ \A q \in Puts : pc'[q] \in {"reuse", "merge", "set", "announce"} => held'[q] \in Rows
        /\ \A q \in Puts : pc'[q] # "done" => pc[q] # "done"
    BY <1>9, <2>2 DEF Insert, TypeOK
  <2>5. UNCHANGED <<staged, object, profile, clock, offer, stamp, content, alone, answer>>
    BY <1>9 DEF Insert, Goto
  <2>6. QED
    BY <2>3, <2>4, <2>5 DEF InFlight, TypeOK, profile
<1>10. ASSUME NEW r \in Puts, Merge(r) PROVE TypeOK'
  <2>1. /\ offer[r] \in Offers /\ held[r] \in Rows /\ Merged(r) \in Rows
        /\ Merged(r).key = held[r].key /\ held[r].key \in Keys
    BY <1>10, WrittenRows, RowIsRow DEF Merge, TypeOK, InFlight
  <2>2. QED
    BY <1>10, <2>1 DEF Merge, Goto, InFlight, TypeOK, profile
<1>11. ASSUME NEW r \in Puts, SetCurrent(r) PROVE TypeOK'
  <2>1. held[r] \in Rows /\ ProfileOf(held[r]) \in Profiles
    BY <1>11, RowIsRow DEF SetCurrent, TypeOK
  <2>2. QED
    BY <1>11, <2>1 DEF SetCurrent, Goto, InFlight, TypeOK, store, request
<1>12. ASSUME NEW r \in Puts, Announce(r) PROVE TypeOK'
  <2>1. held[r] \in Rows /\ Announced(r) \in Profiles
    BY <1>12, RowIsRow DEF Announce, Announced, TypeOK
  <2>2. QED
    BY <1>12, <2>1, BoundAssumption DEF Announce, Finish, InFlight, TypeOK, store
<1>13. ASSUME NEW r \in Puts, Fail(r) PROVE TypeOK'
  <2>1. ASSUME NEW status \in {400, 500}, Finish(r, status) PROVE TypeOK'
    <3>1. Forgotten(r, status)
      BY <2>1, FinishForgets
    <3>2. alone' \in [Puts -> BOOLEAN] /\ sole' = FALSE /\ news' \in {"told", "pending", "lost"}
      BY <1>13 DEF Fail, TypeOK
    <3>3. UNCHANGED <<staged, object, row, current, told, clock>>
      BY <1>13 DEF Fail, store
    <3>4. /\ \A q \in Puts : pc'[q] # "done" => offer'[q] \in Offers
          /\ \A q \in Puts : pc'[q] \in {"reuse", "merge", "set", "announce"}
                              => held'[q] \in Rows
      BY <3>1, FinishTypes
    <3>5. sole' \in BOOLEAN
      BY <3>2
    <3>6. QED
      BY <3>1, <3>2, <3>3, <3>4, <3>5 DEF InFlight, TypeOK, Forgotten
  <2>2. QED
    BY <1>13, <2>1 DEF Fail
<1>14. ASSUME NEW n \in Names, Unstage(n) \/ \E bytes \in Bytes : Stage(n, bytes) PROVE TypeOK'
  <2>1. PICK bytes \in Bytes \cup {None} : staged' = [staged EXCEPT ![n] = bytes]
    BY <1>14 DEF Unstage, Stage
  <2>2. Disturb /\ UNCHANGED <<object, row, profile, clock, pc, request, answer>>
    BY <1>14 DEF Unstage, Stage
  <2>3. QED
    BY <2>1, <2>2 DEF Disturb, InFlight, TypeOK, profile, request
<1>15. CASE ClearStaging
  BY <1>15 DEF ClearStaging, Disturb, InFlight, TypeOK, profile, request
<1>16. ASSUME NEW k \in Keys, SoftDelete(k) PROVE TypeOK'
  <2>1. UNCHANGED <<staged, object, profile, clock, pc, request, answer, alone>>
    BY <1>16 DEF SoftDelete
  <2>2. QED
    BY <1>16, <2>1, SoftDeleteLeaves DEF InFlight, TypeOK, profile, request
<1>17. ASSUME NEW o \in Others, OtherStep(o) PROVE TypeOK'
  <2>1. UNCHANGED <<staged, profile, clock, pc, request, answer, alone>>
    BY <1>17 DEF OtherStep, Read, Upload, Create, Update, GiveUp, store
  <2>2. object' \in [Keys \X Names -> Bytes \cup {None}]
    <3>1. ASSUME NEW at, NEW bytes \in Bytes, object' = [object EXCEPT ![at] = bytes]
          PROVE  object' \in [Keys \X Names -> Bytes \cup {None}]
      BY <3>1 DEF TypeOK
    <3>2. CASE UNCHANGED object
      BY <3>2 DEF TypeOK
    <3>3. ASSUME NEW k \in Keys, Read(o, k)
          PROVE  object' \in [Keys \X Names -> Bytes \cup {None}]
      BY <3>1, <3>2, <3>3 DEF Read
    <3>4. ASSUME NEW u \in Uploads, Upload(o, u)
          PROVE  object' \in [Keys \X Names -> Bytes \cup {None}]
      BY <3>1, <3>2, <3>4, UploadsAssumption DEF Upload
    <3>5. QED
      BY <1>17, <3>2, <3>3, <3>4 DEF OtherStep, Create, Update, GiveUp, store
  <2>3. /\ row' \in [Keys -> Rows \cup {None}]
        /\ \A k \in Keys : row'[k] # None => row'[k].key = k
    <3>1. CASE Create(o) \/ Update(o)
      BY <3>1, RevisedRows DEF TypeOK
    <3>2. CASE UNCHANGED row
      BY <3>2 DEF TypeOK
    <3>3. QED
      BY <1>17, <3>1, <3>2 DEF OtherStep, Read, Upload, GiveUp, store
  <2>4. QED
    BY <2>1, <2>2, <2>3 DEF InFlight, TypeOK, profile, request
<1>18. CASE UNCHANGED vars
  BY <1>18 DEF vars, store, profile, request, TypeOK, InFlight
<1>19. QED
  BY <1>1, <1>2, <1>3, <1>4, <1>5, <1>6, <1>7, <1>8, <1>9, <1>10, <1>11, <1>12, <1>13,
     <1>14, <1>15, <1>16, <1>17, <1>18 DEF Next, PutStep

(* Every variable has its type, whoever stages, consumes or clears.        *)
THEOREM Typing == Spec => []TypeOK
BY FirstTypes, TypeStep, PTL DEF Spec

----------------------------------------------------------------------------
(* What is stored is whole *)

(* A step that takes neither a row nor an object away.                     *)
Kept ==
  /\ \A k \in Keys, n \in Names : object[<<k, n>>] # None => object'[<<k, n>>] # None
  /\ \A k \in Keys : row[k] # None => row'[k] # None

Untroubled(r) ==
  pc'[r] = pc[r] /\ offer'[r] = offer[r] /\ content'[r] = content[r] /\ held'[r] = held[r]

LEMMA UntroubledStays ==
  ASSUME TypeOK, Kept, NEW r \in Puts, Untroubled(r), BytesAreChecked(r), HeldIsDeclared(r)
  PROVE  BytesAreChecked(r)' /\ HeldIsDeclared(r)'
<1>1. Key(r)' = Key(r)
  BY DEF Key, Untroubled
<1>2. offer[r] \in Offers \/ pc[r] = "done"
  BY DEF TypeOK, InFlight
<1>3. offer[r] \in Offers => Key(r) \in Keys /\ offer[r].name \in Names
  BY KeyIsKey, OfferIsProfile
<1>4. offer[r] \in Offers /\ object[<<Key(r), offer[r].name>>] # None
        => object'[<<Key(r), offer[r].name>>] # None
  BY <1>3 DEF Kept
<1>5. BytesAreChecked(r)'
  BY <1>1, <1>2, <1>4 DEF BytesAreChecked, Untroubled, InlineValid, DataValid
<1>6. held[r] # None => Whole(held[r])' /\ row'[held[r].key] # None
  <2>1. CASE held[r] # None
    <3>1. held[r] \in Rows /\ held[r].key \in Keys
      BY <2>1, RowIsRow DEF TypeOK
    <3>2. Whole(held[r]) /\ row[held[r].key] # None
      BY <2>1 DEF HeldIsDeclared
    <3>3. Whole(held[r])'
      BY <3>1, <3>2, RowIsRow DEF Kept, Whole, Untroubled
    <3>4. QED
      BY <3>1, <3>2, <3>3 DEF Kept
  <2>2. QED
    BY <2>1
<1>7. QED
  BY <1>1, <1>5, <1>6 DEF HeldIsDeclared, Untroubled

(* A step that writes at most one row and no object: the row is to be      *)
(* whole, and so is what the handler keeps of it.                          *)
LEMMA RowsStayWhole ==
  ASSUME TypeOK, TypeOK', WholeInv, UNCHANGED object, NEW k \in Keys,
         row' = [row EXCEPT ![k] = row'[k]],
         row'[k] # None /\ row'[k].name = None => k[1] = "Text",
         row'[k] # None /\ row'[k].name # None => object[<<k, row'[k].name>>] # None,
         row[k] # None => row'[k] # None
  PROVE  /\ Kept
         /\ HashesMatch'
         /\ \A j \in Keys : row'[j] # None => Whole(row[j])'
<1>1. Kept
  BY DEF Kept, TypeOK
<1>2. HashesMatch'
  BY DEF WholeInv, HashesMatch
<1>3. ASSUME NEW j \in Keys, row'[j] # None
      PROVE  Whole(row[j])'
  <2>1. row'[j].key = j
    BY <1>3 DEF TypeOK
  <2>2. CASE j = k
    BY <1>3, <2>1, <2>2 DEF Whole
  <2>3. CASE j # k
    <3>1. row'[j] = row[j]
      BY <2>3 DEF TypeOK
    <3>2. QED
      BY <1>3, <3>1 DEF WholeInv, Whole
  <2>4. QED
    BY <2>2, <2>3
<1>4. QED
  BY <1>1, <1>2, <1>3

LEMMA FirstWhole == Init => WholeInv
<1> SUFFICES ASSUME Init PROVE WholeInv
  OBVIOUS
<1>1. \A r \in Puts : BytesAreChecked(r) /\ HeldIsDeclared(r)
  BY DEF Init, Idle, BytesAreChecked, HeldIsDeclared
<1>2. CASE Empty
  BY <1>1, <1>2 DEF Empty, WholeInv, HashesMatch
<1>3. ASSUME NEW o \in Offers, After(o)
      PROVE  WholeInv
  <2> DEFINE first == Record(o)
  <2>1. /\ first \in Rows /\ first.key \in Keys /\ first # None
        /\ first.key[1] = ResolveCreateType(o)
        /\ first.key[2] = ProfileHash(ResolveCreateType(o), o.name, o.bytes)
        /\ first.name = (IF o.data THEN o.name ELSE None)
        /\ o.name \in Names /\ o.bytes \in Bytes /\ o.name # None /\ o.bytes # None
    BY FirstRecord, OfferIsProfile, RowIsRow, BytesAssumption
  <2>2. /\ object = [at \in Keys \X Names |->
                      IF o.data /\ at = <<first.key, o.name>> THEN o.bytes ELSE None]
        /\ row = [k \in Keys |-> IF k = first.key THEN first ELSE None]
        /\ ~o.data => o.type = "Text"
    BY <1>3 DEF After, InlineValid
  <2> HIDE DEF first
  <2>3. ASSUME NEW k \in Keys, NEW n \in Names, object[<<k, n>>] # None
        PROVE  k[2] = ProfileHash(k[1], n, object[<<k, n>>])
    <3>1. k = first.key /\ n = o.name /\ object[<<k, n>>] = o.bytes
      BY <2>2, <2>3
    <3>2. QED
      BY <2>1, <3>1
  <2>4. ASSUME NEW k \in Keys, row[k] # None
        PROVE  Whole(row[k])
    <3>1. k = first.key /\ row[k] = first
      BY <2>2, <2>4
    <3>2. CASE o.data
      <4>1. object[<<first.key, o.name>>] = o.bytes
        BY <2>1, <2>2, <3>2
      <4>2. QED
        BY <2>1, <3>1, <3>2, <4>1 DEF Whole
    <3>3. CASE ~o.data
      BY <2>1, <2>2, <3>1, <3>3 DEF Whole, ResolveCreateType
    <3>4. QED
      BY <3>2, <3>3
  <2>5. QED
    BY <1>1, <2>3, <2>4 DEF WholeInv, HashesMatch
<1>4. QED
  BY <1>2, <1>3 DEF Init

(* A handler that has answered holds nothing that could be wrong.          *)
LEMMA ForgottenIsWhole ==
  ASSUME NEW r \in Puts, NEW status, Forgotten(r, status)
  PROVE  BytesAreChecked(r)' /\ HeldIsDeclared(r)'
BY DEF Forgotten, BytesAreChecked, HeldIsDeclared

(* Of a step of one handler there is only that handler to look at.         *)
LEMMA OthersAreUntroubled ==
  ASSUME TypeOK, WholeInv, Kept, NEW r \in Puts,
         \A q \in Puts \ {r} : Untroubled(q),
         BytesAreChecked(r)' /\ HeldIsDeclared(r)'
  PROVE  \A q \in Puts : BytesAreChecked(q)' /\ HeldIsDeclared(q)'
<1>1. ASSUME NEW q \in Puts, q # r
      PROVE  BytesAreChecked(q)' /\ HeldIsDeclared(q)'
  <2>1. Untroubled(q) /\ BytesAreChecked(q) /\ HeldIsDeclared(q)
    BY <1>1 DEF WholeInv
  <2>2. QED
    BY <2>1, UntroubledStays
<1>2. QED
  BY <1>1

(* A step that stores nothing.                                             *)
LEMMA NothingStored ==
  ASSUME TypeOK, WholeInv, UNCHANGED <<object, row>>,
         \A q \in Puts : BytesAreChecked(q)' /\ HeldIsDeclared(q)'
  PROVE  WholeInv'
<1>1. \A k \in Keys : row'[k] # None => Whole(row[k])'
  BY DEF WholeInv, Whole
<1>2. HashesMatch'
  BY DEF WholeInv, HashesMatch
<1>3. QED
  BY <1>1, <1>2 DEF WholeInv

LEMMA FinishIsWhole ==
  ASSUME TypeOK, WholeInv, NEW r \in Puts, NEW status \in {200, 400, 404, 413, 500},
         Finish(r, status), UNCHANGED <<object, row>>
  PROVE  WholeInv'
<1>1. Forgotten(r, status)
  BY FinishForgets
<1>2. Kept /\ \A q \in Puts \ {r} : Untroubled(q)
  BY <1>1 DEF Kept, Untroubled, Forgotten
<1>3. QED
  BY <1>1, <1>2, ForgottenIsWhole, OthersAreUntroubled, NothingStored

LEMMA ReuseIsWhole ==
  ASSUME TypeOK, TypeOK', WholeInv, NEW r \in Puts, Reuse(r)
  PROVE  WholeInv'
<1> DEFINE k == held[r].key
<1>1. /\ offer[r] \in Offers /\ held[r] \in Rows /\ held[r] # None /\ k \in Keys
      /\ Touched(r) \in Rows /\ Touched(r).key = k /\ Touched(r).name = held[r].name
      /\ Touched(r) # None
  BY WrittenRows, RowIsRow DEF Reuse, TypeOK, InFlight
<1>2. /\ row' = [row EXCEPT ![k] = Touched(r)] /\ row'[k] = Touched(r)
      /\ held'[r] = Touched(r) /\ pc'[r] = "set" /\ pc[r] = "reuse"
      /\ offer'[r] = offer[r] /\ content'[r] = content[r]
      /\ \A q \in Puts \ {r} : Untroubled(q)
      /\ UNCHANGED object
  BY <1>1 DEF Reuse, Goto, TypeOK, Untroubled
<1>3. Whole(held[r]) /\ BytesAreChecked(r) /\ HeldIsDeclared(r)
  BY <1>1 DEF WholeInv, HeldIsDeclared
<1>4. Kept /\ HashesMatch' /\ \A j \in Keys : row'[j] # None => Whole(row[j])'
  BY <1>1, <1>2, <1>3, RowsStayWhole DEF Whole
<1>5. BytesAreChecked(r)'
  BY <1>2, <1>3 DEF BytesAreChecked
<1>6. HeldIsDeclared(r)'
  <2>1. Whole(held[r])'
    BY <1>1, <1>2, <1>3 DEF Whole
  <2>2. QED
    BY <1>1, <1>2, <1>3, <2>1 DEF HeldIsDeclared
<1>7. QED
  BY <1>2, <1>4, <1>5, <1>6, OthersAreUntroubled DEF WholeInv

LEMMA InsertIsWhole ==
  ASSUME TypeOK, TypeOK', WholeInv, NEW r \in Puts, Insert(r)
  PROVE  WholeInv'
<1> DEFINE k == Key(r)
<1>1. /\ offer[r] \in Offers /\ k \in Keys /\ k[1] = ResolveCreateType(offer[r])
      /\ Fresh(r) \in Rows /\ Fresh(r).key = k /\ Fresh(r) # None
      /\ Fresh(r).name = (IF content[r] = None THEN None ELSE offer[r].name)
      /\ offer[r].name \in Names /\ offer[r].name # None
  BY WrittenRows, KeyIsKey, RowIsRow, OfferIsProfile, BytesAssumption
  DEF Insert, TypeOK, InFlight
<1>2. /\ pc[r] = "insert" /\ offer'[r] = offer[r] /\ content'[r] = content[r]
      /\ \A q \in Puts \ {r} : Untroubled(q)
      /\ UNCHANGED object
  BY DEF Insert, Goto, TypeOK, Untroubled
<1>3. BytesAreChecked(r) /\ k' = k
  BY <1>2 DEF WholeInv, Key
<1>4. offer[r].hash \in {None, k[2]}
  BY <1>1, <1>3, KeyIsDeclared DEF BytesAreChecked
<1>5. IF content[r] = None THEN k[1] = "Text" ELSE object[<<k, offer[r].name>>] # None
  BY <1>1, <1>2, <1>3 DEF BytesAreChecked, InlineValid, ResolveCreateType
<1> HIDE DEF k
<1>6. CASE row[k] = None
  <2>1. /\ row' = [row EXCEPT ![k] = Fresh(r)] /\ row'[k] = Fresh(r)
        /\ held'[r] = Fresh(r) /\ pc'[r] = "set"
    BY <1>1, <1>6 DEF Insert, Goto, TypeOK, k
  <2>2. Kept /\ HashesMatch' /\ \A j \in Keys : row'[j] # None => Whole(row[j])'
    BY <1>1, <1>2, <1>5, <1>6, <2>1, RowsStayWhole
  <2>3. BytesAreChecked(r)'
    BY <1>2, <1>3, <2>1 DEF BytesAreChecked
  <2>4. Whole(held[r])'
    BY <1>1, <1>2, <1>5, <2>1 DEF Whole
  <2>5. HeldIsDeclared(r)'
    BY <1>1, <1>2, <1>4, <2>1, <2>4 DEF HeldIsDeclared
  <2>6. QED
    BY <1>2, <2>2, <2>3, <2>5, OthersAreUntroubled DEF WholeInv
<1>7. CASE row[k] # None
  <2>1. /\ UNCHANGED row /\ held'[r] = row[k] /\ pc'[r] = "merge" /\ row[k].key = k
    BY <1>1, <1>7 DEF Insert, Goto, TypeOK, k
  <2>2. Kept
    BY <1>2, <2>1 DEF Kept
  <2>3. BytesAreChecked(r)'
    BY <1>2, <1>3, <2>1 DEF BytesAreChecked, k
  <2>4. Whole(row[k])
    BY <1>1, <1>7 DEF WholeInv
  <2>5. Whole(held[r])'
    BY <1>2, <2>1, <2>4 DEF Whole
  <2>6. HeldIsDeclared(r)'
    BY <1>1, <1>2, <1>3, <1>7, <2>1, <2>5 DEF HeldIsDeclared, k
  <2>7. QED
    BY <1>2, <2>1, <2>2, <2>3, <2>6, OthersAreUntroubled, NothingStored
<1>8. QED
  BY <1>6, <1>7

LEMMA MergeIsWhole ==
  ASSUME TypeOK, TypeOK', WholeInv, NEW r \in Puts, Merge(r)
  PROVE  WholeInv'
<1> DEFINE k == Key(r)
<1>1. /\ offer[r] \in Offers /\ k \in Keys /\ k[1] = ResolveCreateType(offer[r])
      /\ held[r] \in Rows /\ held[r] # None /\ held[r].key = k
      /\ Merged(r) \in Rows /\ Merged(r).key = k /\ Merged(r) # None
      /\ Merged(r).name = (IF content[r] = None THEN held[r].name ELSE offer[r].name)
      /\ offer[r].name \in Names /\ offer[r].name # None
  BY WrittenRows, KeyIsKey, RowIsRow, OfferIsProfile, BytesAssumption
  DEF Merge, TypeOK, InFlight, WholeInv, HeldIsDeclared
<1>2. /\ pc[r] = "merge" /\ pc'[r] = "set" /\ offer'[r] = offer[r] /\ content'[r] = content[r]
      /\ row' = [row EXCEPT ![k] = Merged(r)] /\ row'[k] = Merged(r) /\ held'[r] = Merged(r)
      /\ \A q \in Puts \ {r} : Untroubled(q)
      /\ UNCHANGED object
  BY <1>1 DEF Merge, Goto, TypeOK, Untroubled
<1>3. BytesAreChecked(r) /\ HeldIsDeclared(r)
  BY DEF WholeInv
<1>4. offer[r].hash \in {None, k[2]}
  BY <1>1, <1>3, KeyIsDeclared DEF BytesAreChecked
<1>5. IF content[r] = None THEN Whole(held[r]) ELSE object[<<k, offer[r].name>>] # None
  BY <1>1, <1>2, <1>3 DEF BytesAreChecked, HeldIsDeclared
<1> HIDE DEF k
<1>6. /\ Merged(r).name = None => k[1] = "Text"
      /\ Merged(r).name # None => object[<<k, Merged(r).name>>] # None
  BY <1>1, <1>5 DEF Whole
<1>7. Kept /\ HashesMatch' /\ \A j \in Keys : row'[j] # None => Whole(row[j])'
  BY <1>1, <1>2, <1>6, RowsStayWhole
<1>8. BytesAreChecked(r)'
  BY <1>2, <1>3 DEF BytesAreChecked
<1>9. Whole(held[r])'
  BY <1>1, <1>2, <1>6 DEF Whole
<1>10. HeldIsDeclared(r)'
  BY <1>1, <1>2, <1>4, <1>9 DEF HeldIsDeclared
<1>11. QED
  BY <1>2, <1>7, <1>8, <1>10, OthersAreUntroubled DEF WholeInv

LEMMA PersistIsWhole ==
  ASSUME TypeOK, WholeInv, NEW r \in Puts, Persist(r)
  PROVE  WholeInv'
<1> DEFINE k == Key(r)
           n == offer[r].name
<1>1. /\ offer[r] \in Offers /\ k \in Keys /\ n \in Names /\ pc[r] = "persist"
      /\ content[r] # None
  BY KeyIsKey, OfferIsProfile DEF Persist, TypeOK, InFlight, WholeInv, BytesAreChecked
<1>2. k[2] = ProfileHash(k[1], n, content[r])
  BY <1>1, KeyIsKey
<1>3. /\ object' = [object EXCEPT ![<<k, n>>] = content[r]] /\ UNCHANGED row
      /\ pc'[r] = "consume" /\ Key(r)' = k
      /\ \A q \in Puts \ {r} : Untroubled(q)
      /\ offer' = offer /\ content' = content /\ held' = held
  BY DEF Persist, Goto, TypeOK, Untroubled, request, Key
<1>4. BytesAreChecked(r) /\ HeldIsDeclared(r)
  BY DEF WholeInv
<1> HIDE DEF k, n
<1>5. /\ object'[<<k, n>>] = content[r]
      /\ \A j \in Keys, m \in Names : j # k \/ m # n => object'[<<j, m>>] = object[<<j, m>>]
  BY <1>1, <1>3 DEF TypeOK
<1>6. HashesMatch'
  <2> SUFFICES ASSUME NEW j \in Keys, NEW m \in Names, object'[<<j, m>>] # None
               PROVE  j[2] = ProfileHash(j[1], m, object'[<<j, m>>])
    BY DEF HashesMatch
  <2>1. CASE j = k /\ m = n
    BY <1>2, <1>5, <2>1
  <2>2. CASE j # k \/ m # n
    BY <1>5, <2>2 DEF WholeInv, HashesMatch
  <2>3. QED
    BY <2>1, <2>2
<1>7. Kept
  BY <1>1, <1>3, <1>5 DEF Kept
<1>8. BytesAreChecked(r)'
  BY <1>1, <1>3, <1>4, <1>5 DEF BytesAreChecked, n
<1>9. \A j \in Keys : row[j] # None => Whole(row[j])'
  <2> SUFFICES ASSUME NEW j \in Keys, row[j] # None PROVE Whole(row[j])'
    OBVIOUS
  <2>1. Whole(row[j]) /\ row[j] \in Rows
    BY DEF WholeInv, TypeOK
  <2>2. QED
    BY <1>3, <1>7, <2>1, RowIsRow DEF Whole, Kept
<1>10. HeldIsDeclared(r)'
  <2>1. held[r] # None => Whole(held[r])'
    <3>1. held[r] # None => Whole(held[r]) /\ held[r] \in Rows
      BY <1>4 DEF HeldIsDeclared, TypeOK
    <3>2. QED
      BY <1>3, <1>7, <3>1, RowIsRow DEF Whole, Kept
  <2>2. QED
    BY <1>3, <1>4, <2>1 DEF HeldIsDeclared
<1>11. QED
  BY <1>3, <1>6, <1>7, <1>8, <1>9, <1>10, OthersAreUntroubled DEF WholeInv

LEMMA LookupIsWhole ==
  ASSUME TypeOK, WholeInv, NEW r \in Puts, Lookup(r)
  PROVE  WholeInv'
<1> DEFINE o == offer[r]
           declared == <<o.type, o.hash>>
           asked == IF o.hash = None THEN None ELSE row[declared]
<1>1. o \in Offers /\ pc[r] = "lookup" /\ UNCHANGED <<object, row>>
  BY DEF Lookup, TypeOK, InFlight, store
<1>2. o.hash # None => declared \in Keys
  BY <1>1, OfferIsProfile DEF Keys
<1>3. BytesAreChecked(r) /\ HeldIsDeclared(r)
  BY DEF WholeInv
<1>4. CASE asked # None /\ Goto(r, "reuse") /\ held' = [held EXCEPT ![r] = asked]
           /\ UNCHANGED <<offer, stamp, content>>
  <2>1. /\ o.hash # None /\ row[declared] # None /\ asked = row[declared]
        /\ asked.key = declared /\ Whole(asked) /\ asked.key[2] = o.hash /\ asked.key[1] = o.type
    BY <1>2, <1>4 DEF TypeOK, WholeInv
  <2>2. pc'[r] = "reuse" /\ held'[r] = asked /\ offer'[r] = o /\ content'[r] = content[r]
    BY <1>4 DEF Goto, TypeOK
  <2> HIDE DEF asked
  <2>3. Whole(held[r])'
    BY <1>1, <2>1, <2>2 DEF Whole
  <2>4. HeldIsDeclared(r)'
    BY <1>1, <1>4, <2>1, <2>2, <2>3 DEF HeldIsDeclared
  <2>5. BytesAreChecked(r)'
    BY <1>1, <1>3, <2>2 DEF BytesAreChecked
  <2>6. Kept /\ \A q \in Puts \ {r} : Untroubled(q)
    BY <1>1, <1>4 DEF Kept, Untroubled, Goto, TypeOK
  <2>7. QED
    BY <1>1, <2>4, <2>5, <2>6, OthersAreUntroubled, NothingStored
<1>5. CASE (o.data \/ InlineValid(o)) /\ Goto(r, IF o.data THEN "take" ELSE "find")
           /\ UNCHANGED request
  <2>1. Kept /\ \A q \in Puts \ {r} : Untroubled(q)
    BY <1>1, <1>5 DEF Kept, Untroubled, Goto, TypeOK, request
  <2>2. /\ pc'[r] = (IF o.data THEN "take" ELSE "find") /\ offer'[r] = o
        /\ content'[r] = None /\ held'[r] = held[r]
    BY <1>1, <1>3, <1>5 DEF Goto, TypeOK, request, BytesAreChecked
  <2>3. BytesAreChecked(r)'
    BY <1>5, <2>2 DEF BytesAreChecked
  <2>4. HeldIsDeclared(r)'
    BY <1>1, <1>3, <2>2 DEF HeldIsDeclared, Whole
  <2>5. QED
    BY <1>1, <2>1, <2>3, <2>4, OthersAreUntroubled, NothingStored
<1>6. CASE Finish(r, 400)
  BY <1>1, <1>6, FinishIsWhole
<1>7. QED
  BY <1>4, <1>5, <1>6 DEF Lookup

LEMMA TakeIsWhole ==
  ASSUME TypeOK, WholeInv, NEW r \in Puts, Take(r)
  PROVE  WholeInv'
<1>1. UNCHANGED <<object, row>> /\ pc[r] = "take" /\ BytesAreChecked(r) /\ HeldIsDeclared(r)
  BY DEF Take, store, WholeInv
<1>2. ASSUME NEW status \in {200, 400, 404, 413, 500}, Finish(r, status) PROVE WholeInv'
  BY <1>1, <1>2, FinishIsWhole
<1>3. CASE Goto(r, "drop") /\ UNCHANGED request
  <2>1. Kept /\ \A q \in Puts \ {r} : Untroubled(q)
    BY <1>1, <1>3 DEF Kept, Untroubled, Goto, TypeOK, request
  <2>2. pc'[r] = "drop" /\ content'[r] = None /\ held'[r] = held[r]
    BY <1>1, <1>3 DEF Goto, TypeOK, request, BytesAreChecked
  <2>3. BytesAreChecked(r)' /\ HeldIsDeclared(r)'
    BY <1>1, <2>2 DEF BytesAreChecked, HeldIsDeclared, Whole
  <2>4. QED
    BY <1>1, <2>1, <2>3, OthersAreUntroubled, NothingStored
<1>4. ASSUME NEW bytes \in Bytes, DataValid(offer[r], bytes), Goto(r, "persist"),
             content' = [content EXCEPT ![r] = bytes], UNCHANGED <<offer, stamp, held>>
      PROVE  WholeInv'
  <2>1. Kept /\ \A q \in Puts \ {r} : Untroubled(q)
    BY <1>1, <1>4 DEF Kept, Untroubled, Goto, TypeOK
  <2>2. /\ pc'[r] = "persist" /\ content'[r] = bytes /\ held'[r] = held[r]
        /\ offer'[r] = offer[r] /\ bytes # None
    BY <1>1, <1>4, BytesAssumption DEF Goto, TypeOK
  <2>3. DataValid(offer[r], content[r])'
    BY <1>4, <2>2 DEF DataValid
  <2>4. BytesAreChecked(r)' /\ HeldIsDeclared(r)'
    BY <1>1, <2>2, <2>3 DEF BytesAreChecked, HeldIsDeclared, Whole
  <2>5. QED
    BY <1>1, <2>1, <2>4, OthersAreUntroubled, NothingStored
<1>5. QED
  BY <1>2, <1>3, <1>4 DEF Take

LEMMA FindIsWhole ==
  ASSUME TypeOK, WholeInv, NEW r \in Puts, Find(r)
  PROVE  WholeInv'
<1> DEFINE o == offer[r]
           declared == <<ResolveCreateType(o), o.hash>>
           found == IF o.hash = None THEN None ELSE row[declared]
<1>1. /\ o \in Offers /\ pc[r] = "find" /\ UNCHANGED <<object, row>>
      /\ offer' = offer /\ content' = content /\ held' = [held EXCEPT ![r] = found]
      /\ pc' = [pc EXCEPT ![r] = IF found # None THEN "merge" ELSE "insert"]
  BY DEF Find, Goto, TypeOK, InFlight, store
<1>2. o.hash # None => declared \in Keys
  BY <1>1, OfferIsProfile DEF Keys
<1>3. BytesAreChecked(r) /\ HeldIsDeclared(r) /\ Key(r)' = Key(r)
  BY <1>1 DEF WholeInv, Key
<1>4. o.hash # None => Key(r) = declared
  <2>1. Key(r)[1] = ResolveCreateType(o) /\ o.hash \in {None, Key(r)[2]} /\ Key(r) \in Keys
    BY <1>1, <1>3, KeyIsKey, KeyIsDeclared DEF BytesAreChecked
  <2>2. QED
    BY <2>1 DEF Keys
<1>5. found # None => found.key = Key(r) /\ Whole(found) /\ row[found.key] # None
  BY <1>2, <1>4 DEF TypeOK, WholeInv
<1>6. /\ pc'[r] = (IF found # None THEN "merge" ELSE "insert") /\ held'[r] = found
      /\ \A q \in Puts \ {r} : Untroubled(q)
  <2> HIDE DEF found
  <2> QED  BY <1>1 DEF TypeOK, Untroubled
<1> HIDE DEF found, o
<1>7. Kept
  BY <1>1 DEF Kept
<1>8. BytesAreChecked(r)'
  BY <1>1, <1>3, <1>6 DEF BytesAreChecked
<1>9. found # None => Whole(held[r])'
  BY <1>1, <1>5, <1>6 DEF Whole
<1>10. HeldIsDeclared(r)'
  BY <1>1, <1>3, <1>5, <1>6, <1>9 DEF HeldIsDeclared
<1>11. QED
  BY <1>1, <1>6, <1>7, <1>8, <1>10, OthersAreUntroubled, NothingStored

(* Bytes another request stores have the hash of the key they get.         *)
LEMMA StoredByOthersIsWhole ==
  ASSUME TypeOK, WholeInv, UNCHANGED <<row, pc, request>>,
         NEW k \in Keys, NEW n \in Names, NEW bytes \in Bytes,
         k[2] = ProfileHash(k[1], n, bytes), object' = [object EXCEPT ![<<k, n>>] = bytes]
  PROVE  WholeInv' /\ Kept /\ object'[<<k, n>>] # None
<1>1. /\ object'[<<k, n>>] = bytes
      /\ \A j \in Keys, m \in Names : j # k \/ m # n => object'[<<j, m>>] = object[<<j, m>>]
  BY DEF TypeOK
<1>2. Kept /\ object'[<<k, n>>] # None
  BY <1>1, BytesAssumption DEF Kept
<1>3. HashesMatch'
  <2> SUFFICES ASSUME NEW j \in Keys, NEW m \in Names, object'[<<j, m>>] # None
               PROVE  j[2] = ProfileHash(j[1], m, object'[<<j, m>>])
    BY DEF HashesMatch
  <2>1. CASE j = k /\ m = n
    BY <1>1, <2>1
  <2>2. CASE j # k \/ m # n
    BY <1>1, <2>2 DEF WholeInv, HashesMatch
  <2>3. QED
    BY <2>1, <2>2
<1>4. \A j \in Keys : row[j] # None => Whole(row[j])'
  <2> SUFFICES ASSUME NEW j \in Keys, row[j] # None PROVE Whole(row[j])'
    OBVIOUS
  <2>1. Whole(row[j]) /\ row[j] \in Rows
    BY DEF WholeInv, TypeOK
  <2>2. QED
    BY <1>2, <2>1, RowIsRow DEF Whole, Kept
<1>5. \A r \in Puts : Untroubled(r)
  BY DEF Untroubled, request
<1>6. QED
  BY <1>2, <1>3, <1>4, <1>5, UntroubledStays DEF WholeInv

LEMMA UploadIsWhole ==
  ASSUME TypeOK, WholeInv, NEW o \in Others, NEW u \in Uploads, Upload(o, u)
  PROVE  WholeInv' /\ Kept /\ Whole(draft[o])'
<1> DEFINE k == <<u.type, ProfileHash(u.type, u.name, u.bytes)>>
<1>1. /\ draft'[o] \in Rows /\ draft'[o].key = k
      /\ draft'[o].name = (IF u.data THEN u.name ELSE None)
      /\ u.name \in Names /\ u.bytes \in Bytes /\ u.name # None
  BY UploadedRow, BytesAssumption
<1>2. k \in Keys /\ k[1] = u.type /\ k[2] = ProfileHash(k[1], u.name, u.bytes)
  BY <1>1, RowIsRow
<1>3. /\ u.data \/ u.type = "Text"
      /\ IF u.data THEN object' = [object EXCEPT ![<<k, u.name>>] = u.bytes]
                   ELSE UNCHANGED object
      /\ UNCHANGED <<row, pc, request>>
  BY DEF Upload
<1> HIDE DEF k
<1>4. CASE u.data
  BY <1>1, <1>2, <1>3, <1>4, StoredByOthersIsWhole DEF Whole
<1>5. CASE ~u.data
  <2>1. Kept /\ \A r \in Puts : Untroubled(r)
    BY <1>3, <1>5 DEF Kept, Untroubled, request
  <2>2. WholeInv'
    BY <1>3, <1>5, <2>1, UntroubledStays, NothingStored DEF WholeInv
  <2>3. QED
    BY <1>1, <1>2, <1>3, <1>5, <2>1, <2>2 DEF Whole
<1>6. QED
  BY <1>4, <1>5

LEMMA ReadIsWhole ==
  ASSUME TypeOK, WholeInv, NEW o \in Others, NEW k \in Keys, Read(o, k)
  PROVE  WholeInv' /\ Kept /\ Whole(draft[o])'
<1>1. /\ row[k] # None /\ row[k] \in Rows /\ draft'[o] = row[k]
      /\ UNCHANGED <<row, pc, request>>
  BY DEF Read, Begin, TypeOK
<1>2. WholeInv' /\ Kept
  <2>1. CASE UNCHANGED object
    <3>1. Kept /\ \A r \in Puts : Untroubled(r)
      BY <1>1, <2>1 DEF Kept, Untroubled, request
    <3>2. QED
      BY <1>1, <2>1, <3>1, UntroubledStays, NothingStored DEF WholeInv
  <2>2. ASSUME row[k].name # None, NEW bytes \in Bytes \ TooLarge,
               ProfileHash(k[1], row[k].name, bytes) = k[2],
               object' = [object EXCEPT ![<<k, row[k].name>>] = bytes]
        PROVE  WholeInv' /\ Kept
    <3>1. row[k].name \in Names /\ bytes \in Bytes
      BY <1>1, <2>2, RowIsRow
    <3>2. QED
      BY <1>1, <2>2, <3>1, StoredByOthersIsWhole
  <2>3. QED
    BY <2>1, <2>2 DEF Read
<1>3. Whole(row[k])
  BY <1>1 DEF WholeInv
<1>4. QED
  BY <1>1, <1>2, <1>3, RowIsRow DEF Whole, Kept

(* What another request writes is the row that was there or what it was    *)
(* about to write.                                                         *)
LEMMA RevisionIsWhole ==
  ASSUME TypeOK, TypeOK', WholeInv, DraftsInv, NEW o \in Others, Create(o) \/ Update(o)
  PROVE  WholeInv' /\ Kept
<1> DEFINE k == draft[o].key
<1>1. /\ draft[o] \in Rows /\ k \in Keys /\ row' = [row EXCEPT ![k] = row'[k]]
      /\ row'[k] \in Rows /\ row'[k].key = k /\ row'[k] # None
      /\ row'[k] = row[k] \/ row'[k].name = draft[o].name
  BY RevisedRows, RowIsRow
<1>2. /\ UNCHANGED <<object, pc, request>> /\ Whole(draft[o])
      /\ row[k] # None => Whole(row[k]) /\ row[k].key = k
  BY <1>1 DEF Create, Update, DraftsInv, WholeInv, TypeOK
<1> HIDE DEF k
<1>3. /\ row'[k].name = None => k[1] = "Text"
      /\ row'[k].name # None => object[<<k, row'[k].name>>] # None
  BY <1>1, <1>2 DEF Whole, k
<1>4. Kept /\ HashesMatch' /\ \A j \in Keys : row'[j] # None => Whole(row[j])'
  BY <1>1, <1>2, <1>3, RowsStayWhole
<1>5. \A r \in Puts : Untroubled(r)
  BY <1>2 DEF Untroubled, request
<1>6. QED
  BY <1>4, <1>5, UntroubledStays DEF WholeInv

LEMMA WholeStep == TypeOK /\ TypeOK' /\ WholeInv /\ DraftsInv /\ [Next]_vars => WholeInv'
<1> SUFFICES ASSUME TypeOK, TypeOK', WholeInv, DraftsInv, [Next]_vars PROVE WholeInv'
  OBVIOUS
<1>1. ASSUME NEW r \in Puts, Start(r) PROVE WholeInv'
  <2>1. UNCHANGED <<object, row>> /\ pc[r] = "done" /\ BytesAreChecked(r) /\ HeldIsDeclared(r)
    BY <1>1 DEF Start, store, WholeInv, InFlight
  <2>2. CASE Finish(r, 400)
    BY <2>1, <2>2, FinishIsWhole
  <2>3. ASSUME NEW o \in Offers, pc' = [pc EXCEPT ![r] = "lookup"],
               offer' = [offer EXCEPT ![r] = o], UNCHANGED <<content, held>>
        PROVE  WholeInv'
    <3>1. Kept /\ \A q \in Puts \ {r} : Untroubled(q)
      BY <2>1, <2>3 DEF Kept, Untroubled, TypeOK
    <3>2. pc'[r] = "lookup" /\ content'[r] = None /\ held'[r] = held[r]
      BY <2>1, <2>3 DEF TypeOK, BytesAreChecked
    <3>3. BytesAreChecked(r)' /\ HeldIsDeclared(r)'
      BY <2>1, <3>2 DEF BytesAreChecked, HeldIsDeclared, Whole
    <3>4. QED
      BY <2>1, <3>1, <3>3, OthersAreUntroubled, NothingStored
  <2>4. QED
    BY <1>1, <2>2, <2>3 DEF Start
<1>2. ASSUME NEW r \in Puts, Lookup(r) \/ Reuse(r) \/ Take(r) \/ Persist(r) \/ Find(r)
                              \/ Insert(r) \/ Merge(r)
      PROVE  WholeInv'
  BY <1>2, LookupIsWhole, ReuseIsWhole, TakeIsWhole, PersistIsWhole, FindIsWhole,
     InsertIsWhole, MergeIsWhole
<1>3. ASSUME NEW r \in Puts, Drop(r) \/ Announce(r) \/ Fail(r) PROVE WholeInv'
  <2>1. PICK status \in {200, 400, 404, 413, 500} : Finish(r, status)
    BY <1>3 DEF Drop, Announce, Fail
  <2>2. UNCHANGED <<object, row>>
    BY <1>3 DEF Drop, Announce, Fail, store
  <2>3. QED
    BY <2>1, <2>2, FinishIsWhole
<1>4. ASSUME NEW r \in Puts, Consume(r) \/ SetCurrent(r) PROVE WholeInv'
  <2>1. UNCHANGED <<object, row, offer, content, held>> /\ BytesAreChecked(r) /\ HeldIsDeclared(r)
    BY <1>4 DEF Consume, SetCurrent, store, request, WholeInv
  <2>2. \/ pc[r] = "consume" /\ pc' = [pc EXCEPT ![r] = "find"]
        \/ pc[r] = "set" /\ pc' = [pc EXCEPT ![r] = "announce"]
    BY <1>4 DEF Consume, SetCurrent, Goto
  <2>3. Kept /\ \A q \in Puts \ {r} : Untroubled(q)
    BY <2>1, <2>2 DEF Kept, Untroubled, TypeOK
  <2>4. /\ Key(r)' = Key(r)
        /\ \/ pc[r] = "consume" /\ pc'[r] = "find"
           \/ pc[r] = "set" /\ pc'[r] = "announce"
    BY <2>1, <2>2 DEF Key, TypeOK
  <2>5. BytesAreChecked(r)'
    BY <2>1, <2>4 DEF BytesAreChecked
  <2>6. HeldIsDeclared(r)'
    BY <2>1, <2>4 DEF HeldIsDeclared, Whole
  <2>7. QED
    BY <2>1, <2>3, <2>5, <2>6, OthersAreUntroubled, NothingStored
<1>5. ASSUME NEW k \in Keys, SoftDelete(k) PROVE WholeInv'
  <2>1. row[k] # None /\ row[k].key = k /\ Whole(row[k]) /\ UNCHANGED <<object, pc, request>>
    BY <1>5 DEF SoftDelete, TypeOK, WholeInv
  <2>2. Kept /\ HashesMatch' /\ \A j \in Keys : row'[j] # None => Whole(row[j])'
    BY <1>5, <2>1, SoftDeleteLeaves, RowsStayWhole DEF Whole
  <2>3. \A q \in Puts : Untroubled(q)
    BY <2>1 DEF Untroubled, request
  <2>4. QED
    BY <2>2, <2>3, UntroubledStays DEF WholeInv
<1>6. CASE UNCHANGED <<object, row, pc, request>>
  <2>1. Kept /\ \A q \in Puts : Untroubled(q)
    BY <1>6 DEF Kept, Untroubled, request
  <2>2. QED
    BY <1>6, <2>1, UntroubledStays, NothingStored DEF WholeInv
<1>7. ASSUME NEW n \in Names, Unstage(n) \/ \E bytes \in Bytes : Stage(n, bytes) PROVE WholeInv'
  BY <1>6, <1>7 DEF Unstage, Stage
<1>8. CASE ClearStaging
  BY <1>6, <1>8 DEF ClearStaging
<1>9. ASSUME NEW o \in Others, OtherStep(o) PROVE WholeInv'
  <2>1. GiveUp(o) => UNCHANGED <<object, row, pc, request>>
    BY DEF GiveUp, store
  <2>2. QED
    BY <1>6, <1>9, <2>1, ReadIsWhole, UploadIsWhole, RevisionIsWhole DEF OtherStep
<1>10. CASE UNCHANGED vars
  BY <1>6, <1>10 DEF vars, store
<1>11. QED
  BY <1>1, <1>2, <1>3, <1>4, <1>5, <1>7, <1>8, <1>9, <1>10 DEF Next, PutStep

(* Nothing is taken away that anyone is about to write a row for.          *)
LEMMA AllIsKept == TypeOK /\ WholeInv /\ [Next]_vars => Kept
<1> SUFFICES ASSUME TypeOK, WholeInv, [Next]_vars PROVE Kept
  OBVIOUS
<1>1. \A k \in Keys : row[k] # None => row'[k] # None
  BY RowsStay
<1>2. CASE UNCHANGED object
  BY <1>1, <1>2 DEF Kept
<1>3. ASSUME NEW r \in Puts, Persist(r) PROVE Kept
  <2>1. content[r] # None /\ object' = [object EXCEPT ![<<Key(r), offer[r].name>>] = content[r]]
    BY <1>3 DEF Persist, WholeInv, BytesAreChecked
  <2>2. QED
    BY <1>1, <2>1 DEF Kept, TypeOK
<1>4. ASSUME NEW o \in Others, OtherStep(o) PROVE Kept
  <2>1. CASE Create(o) \/ Update(o) \/ GiveUp(o)
    BY <1>2, <2>1 DEF Create, Update, GiveUp, store
  <2>2. QED
    BY <1>4, <2>1, ReadIsWhole, UploadIsWhole DEF OtherStep
<1>5. ASSUME NEW r \in Puts, PutStep(r), ~Persist(r) PROVE UNCHANGED object
  BY <1>5 DEF PutStep, Start, Lookup, Reuse, Take, Drop, Consume, Find, Insert, Merge,
              SetCurrent, Announce, Fail, store
<1>6. ASSUME NEW n \in Names, Unstage(n) \/ \E bytes \in Bytes : Stage(n, bytes)
      PROVE  UNCHANGED object
  BY <1>6 DEF Unstage, Stage
<1>7. CASE ClearStaging \/ (\E k \in Keys : SoftDelete(k)) \/ UNCHANGED vars
  BY <1>2, <1>7 DEF ClearStaging, SoftDelete, vars, store
<1>8. QED
  BY <1>2, <1>3, <1>4, <1>5, <1>6, <1>7 DEF Next

LEMMA DraftsStep == TypeOK /\ WholeInv /\ DraftsInv /\ [Next]_vars => DraftsInv'
<1> SUFFICES ASSUME TypeOK, WholeInv, DraftsInv, [Next]_vars,
                    NEW o \in Others, stage'[o] # "idle"
             PROVE  Whole(draft[o])'
  BY DEF DraftsInv
<1>1. Kept
  BY AllIsKept
<1>2. CASE stage[o] # "idle" /\ draft'[o] = draft[o]
  <2>1. draft[o] \in Rows /\ Whole(draft[o])
    BY <1>2 DEF TypeOK, DraftsInv
  <2>2. QED
    BY <1>1, <1>2, <2>1, RowIsRow DEF Whole, Kept
<1>3. ASSUME NEW k \in Keys, Read(o, k) PROVE Whole(draft[o])'
  BY <1>3, ReadIsWhole
<1>4. ASSUME NEW u \in Uploads, Upload(o, u) PROVE Whole(draft[o])'
  BY <1>4, UploadIsWhole
<1>5. CASE Create(o)
  <2>1. draft[o].key \in Keys /\ UNCHANGED object
    BY <1>5, RevisedRows DEF Create
  <2>2. ~End(o)
    BY DEF End, TypeOK
  <2>3. row[draft[o].key] # None /\ draft'[o] = row[draft[o].key]
    BY <1>5, <2>2 DEF Create, TypeOK
  <2>4. QED
    BY <2>1, <2>3 DEF WholeInv, Whole
<1>6. CASE Update(o) \/ GiveUp(o)
  BY <1>6 DEF Update, GiveUp, End, TypeOK
<1>7. ASSUME NEW q \in Others, q # o, OtherStep(q)
      PROVE  stage'[o] = stage[o] /\ draft'[o] = draft[o]
  <2>1. ASSUME NEW label, NEW entity, stage' = [stage EXCEPT ![q] = label],
               draft' = [draft EXCEPT ![q] = entity]
        PROVE  stage'[o] = stage[o] /\ draft'[o] = draft[o]
    BY <1>7, <2>1 DEF TypeOK
  <2>2. ASSUME NEW k \in Keys, Read(q, k)
        PROVE  stage'[o] = stage[o] /\ draft'[o] = draft[o]
    BY <2>1, <2>2 DEF Read, Begin
  <2>3. ASSUME NEW u \in Uploads, Upload(q, u)
        PROVE  stage'[o] = stage[o] /\ draft'[o] = draft[o]
    BY <2>1, <2>3, UploadedRow
  <2>4. CASE End(q)
    BY <2>1, <2>4 DEF End
  <2>5. CASE Create(q)
    BY <2>1, <2>4, <2>5 DEF Create
  <2>6. QED
    BY <1>7, <2>2, <2>3, <2>4, <2>5 DEF OtherStep, Update, GiveUp
<1>8. CASE UNCHANGED others
  BY <1>2, <1>8 DEF others
<1>9. ASSUME NEW r \in Puts, PutStep(r) PROVE UNCHANGED others
  BY <1>9 DEF PutStep, Start, Lookup, Reuse, Take, Drop, Persist, Consume, Find, Insert, Merge,
              SetCurrent, Announce, Fail
<1>10. ASSUME NEW n \in Names, Unstage(n) \/ \E bytes \in Bytes : Stage(n, bytes)
       PROVE  UNCHANGED others
  BY <1>10 DEF Unstage, Stage
<1>11. CASE ClearStaging \/ (\E k \in Keys : SoftDelete(k)) \/ UNCHANGED vars
  BY <1>8, <1>11 DEF ClearStaging, SoftDelete, vars
<1>12. QED
  BY <1>2, <1>3, <1>4, <1>5, <1>6, <1>7, <1>8, <1>9, <1>10, <1>11 DEF Next, OtherStep

LEMMA WholeAlways == Spec => [](TypeOK /\ WholeInv)
<1>1. Init => DraftsInv
  BY DEF Init, Idle, DraftsInv
<1>2. QED
  BY <1>1, FirstTypes, TypeStep, FirstWhole, WholeStep, DraftsStep, PTL DEF Spec

(* Two PUTs of one name, a PUT of the staging area between the checks and  *)
(* the write, a file consumed by another: the record stored is of the      *)
(* bytes stored under it (profileWrite.ts:196).                            *)
THEOREM StoredIsWhole == Spec => []RowsAreWhole
<1>1. TypeOK /\ WholeInv => RowsAreWhole
  <2> SUFFICES ASSUME TypeOK, WholeInv, NEW k \in Keys, row[k] # None
               PROVE  /\ row[k].name = None => k[1] = "Text"
                      /\ row[k].name # None =>
                           LET bytes == object[<<k, row[k].name>>]
                           IN bytes # None /\ k[2] = ProfileHash(k[1], row[k].name, bytes)
    BY DEF RowsAreWhole
  <2>1. row[k].key = k /\ Whole(row[k]) /\ row[k].name \in Names \cup {None}
    BY RowIsRow DEF TypeOK, WholeInv
  <2>2. QED
    BY <2>1 DEF Whole, WholeInv, HashesMatch
<1>2. QED
  BY <1>1, WholeAlways, PTL

(* Nothing a PUT is accepted for is missing when it answers: its record is *)
(* there, under the declared hash and type (profileWrite.ts:149-152).      *)
THEOREM AcceptedRecordsExist == Spec => []AcceptedIsRecorded
<1>1. TypeOK /\ WholeInv => AcceptedIsRecorded
  BY RowIsRow DEF AcceptedIsRecorded, TypeOK, WholeInv, HeldIsDeclared
<1>2. QED
  BY <1>1, WholeAlways, PTL

----------------------------------------------------------------------------
(* A PUT nobody disturbs succeeds *)

(* A step of a handler on its way: every other PUT that was alone is done. *)
LEMMA StepOfOne ==
  ASSUME TypeOK, AloneInv, NEW r \in Puts, InFlight(r),
         \A q \in Puts \ {r} : pc'[q] = pc[q] /\ answer'[q] = answer[q] /\ alone'[q] = alone[q],
         alone'[r] => alone[r] /\ AllIsWell(r)'
  PROVE  AloneInv'
<1> SUFFICES ASSUME NEW q \in Puts, alone'[q]
             PROVE  /\ InFlight(q)' => \A p \in Puts \ {q} : ~InFlight(p)'
                    /\ AllIsWell(q)'
  BY DEF AloneInv
<1>1. CASE q = r
  BY <1>1 DEF AloneInv, InFlight
<1>2. CASE q # r
  <2>1. pc'[q] = "done" /\ answer'[q] = 200
    BY <1>2 DEF AloneInv, AllIsWell, InFlight
  <2>2. QED
    BY <2>1 DEF AllIsWell, InFlight
<1>3. QED
  BY <1>1, <1>2

LEMMA ReadyStays ==
  ASSUME NEW r \in Puts, UNCHANGED staged, offer'[r] = offer[r], Ready(offer[r])
  PROVE  Ready(offer[r])'
BY DEF Ready, DataValid, InlineValid, ResolveCreateType

(* Whatever touches the staging area leaves only the finished alone.       *)
LEMMA DisturbedAreDone ==
  ASSUME TypeOK, AloneInv, Disturb, UNCHANGED <<pc, answer>>
  PROVE  AloneInv'
<1> SUFFICES ASSUME NEW q \in Puts, alone'[q]
             PROVE  /\ InFlight(q)' => \A p \in Puts \ {q} : ~InFlight(p)'
                    /\ AllIsWell(q)'
  BY DEF AloneInv
<1>1. alone[q] /\ pc[q] = "done"
  BY DEF Disturb, InFlight
<1>2. pc'[q] = "done" /\ answer'[q] = 200
  BY <1>1 DEF AloneInv, AllIsWell
<1>3. QED
  BY <1>2 DEF AllIsWell, InFlight

LEMMA AloneStep == TypeOK /\ AloneInv /\ [Next]_vars => AloneInv'
<1> SUFFICES ASSUME TypeOK, AloneInv, [Next]_vars PROVE AloneInv'
  OBVIOUS
<1>1. ASSUME NEW r \in Puts, Start(r) PROVE AloneInv'
  <2>1. PICK o \in Offers :
          /\ alone' = [q \in Puts |-> IF q = r THEN Quiet /\ Ready(o)
                                               ELSE alone[q] /\ ~InFlight(q)]
          /\ \/ ~o.data /\ o.digest # None /\ Finish(r, 400)
             \/ /\ pc' = [pc EXCEPT ![r] = "lookup"]
                /\ offer' = [offer EXCEPT ![r] = o]
                /\ answer' = [answer EXCEPT ![r] = None]
    BY <1>1 DEF Start
  <2>2. \A q \in Puts \ {r} : pc'[q] = pc[q] /\ answer'[q] = answer[q]
    BY <2>1 DEF Finish, TypeOK
  <2>3. ASSUME NEW q \in Puts, q # r, alone'[q]
        PROVE  pc'[q] = "done" /\ answer'[q] = 200
    <3>1. alone[q] /\ pc[q] = "done"
      BY <2>1, <2>3, Zenon DEF InFlight
    <3>2. QED
      BY <2>2, <2>3, <3>1 DEF AloneInv, AllIsWell
  <2>4. ASSUME alone'[r]
        PROVE  /\ pc'[r] = "lookup" /\ Ready(offer[r])'
               /\ \A q \in Puts \ {r} : pc'[q] = "done"
    <3>1. Quiet /\ Ready(o)
      BY <2>1, <2>4, Zenon
    <3>2. pc'[r] = "lookup" /\ offer'[r] = o
      BY <2>1, <3>1 DEF Ready, TypeOK
    <3>3. UNCHANGED staged
      BY <1>1 DEF Start, store
    <3>4. Ready(offer[r])'
      BY <3>1, <3>2, <3>3 DEF Ready, DataValid, InlineValid, ResolveCreateType
    <3>5. QED
      BY <2>2, <3>1, <3>2, <3>4 DEF Quiet, InFlight
  <2>5. QED
    BY <2>3, <2>4 DEF AloneInv, AllIsWell, InFlight
<1>2. ASSUME NEW r \in Puts, Lookup(r) PROVE AloneInv'
  <2> DEFINE o == offer[r]
             asked == IF o.hash = None THEN None ELSE row[<<o.type, o.hash>>]
  <2>1. pc[r] = "lookup" /\ UNCHANGED <<staged, alone>> /\ InFlight(r)
    BY <1>2 DEF Lookup, store, InFlight
  <2>2. \A q \in Puts \ {r} : pc'[q] = pc[q] /\ answer'[q] = answer[q]
    BY <1>2 DEF Lookup, Goto, Finish, TypeOK
  <2>3. ASSUME alone[r] PROVE AllIsWell(r)'
    <3>1. Ready(o)
      BY <2>1, <2>3 DEF AloneInv, AllIsWell
    <3>2. CASE ~asked.deleted /\ Goto(r, "reuse") /\ held' = [held EXCEPT ![r] = asked]
      BY <3>2 DEF Goto, TypeOK, AllIsWell
    <3>3. CASE Goto(r, IF o.data THEN "take" ELSE "find") /\ UNCHANGED request
      <4>1. pc'[r] = (IF o.data THEN "take" ELSE "find") /\ offer'[r] = o
        BY <3>3 DEF Goto, TypeOK, request
      <4>2. Ready(offer[r])'
        BY <2>1, <3>1, <4>1, ReadyStays
      <4>3. QED
        BY <4>1, <4>2 DEF AllIsWell
    <3>4. IF o.data THEN o.named ELSE InlineValid(o)
      BY <3>1 DEF Ready
    <3>5. QED
      BY <1>2, <3>2, <3>3, <3>4 DEF Lookup
  <2>4. QED
    BY <2>1, <2>2, <2>3, StepOfOne
<1>3. ASSUME NEW r \in Puts, Take(r) PROVE AloneInv'
  <2>1. pc[r] = "take" /\ UNCHANGED alone /\ InFlight(r)
    BY <1>3 DEF Take, InFlight
  <2>2. \A q \in Puts \ {r} : pc'[q] = pc[q] /\ answer'[q] = answer[q]
    BY <1>3 DEF Take, Goto, Finish, TypeOK
  <2>3. ASSUME alone[r] PROVE AllIsWell(r)'
    <3>1. staged[offer[r].name] \in Bytes \ TooLarge /\ DataValid(offer[r], staged[offer[r].name])
      BY <2>1, <2>3 DEF AloneInv, AllIsWell, Ready
    <3>2. Goto(r, "persist")
      BY <1>3, <3>1, BytesAssumption DEF Take
    <3>3. pc'[r] = "persist"
      BY <3>2 DEF Goto, TypeOK
    <3>4. QED
      BY <3>3 DEF AllIsWell
  <2>4. QED
    BY <2>1, <2>2, <2>3, StepOfOne
<1>4. ASSUME NEW r \in Puts, Drop(r) PROVE AloneInv'
  <2>1. pc[r] = "drop" /\ UNCHANGED alone /\ InFlight(r) /\ ~alone[r]
    BY <1>4 DEF Drop, InFlight, AloneInv, AllIsWell
  <2>2. \A q \in Puts \ {r} : pc'[q] = pc[q] /\ answer'[q] = answer[q]
    BY <1>4 DEF Drop, Finish, TypeOK
  <2>3. QED
    BY <2>1, <2>2, StepOfOne
<1>5. ASSUME NEW r \in Puts, Persist(r) \/ Consume(r) \/ Find(r) PROVE AloneInv'
  <2>1. UNCHANGED <<alone, answer>> /\ InFlight(r)
    BY <1>5 DEF Persist, Consume, Find, Goto, InFlight
  <2>2. /\ pc'[r] \in {"consume", "find", "merge", "insert"}
        /\ \A q \in Puts \ {r} : pc'[q] = pc[q]
    BY <1>5 DEF Persist, Consume, Find, Goto, TypeOK
  <2>3. QED
    BY <2>1, <2>2, StepOfOne DEF AllIsWell
<1>6. ASSUME NEW r \in Puts, Reuse(r) \/ Insert(r) \/ Merge(r) PROVE AloneInv'
  <2>1. UNCHANGED <<alone, answer>> /\ InFlight(r)
    BY <1>6 DEF Reuse, Insert, Merge, Goto, InFlight
  <2>2. \A q \in Puts \ {r} : pc'[q] = pc[q]
    BY <1>6 DEF Reuse, Insert, Merge, Goto, TypeOK
  <2>3. offer[r] \in Offers /\ (pc[r] \in {"reuse", "merge"} => held[r] # None)
    BY <2>1, RowIsRow DEF TypeOK, InFlight
  <2>4. ASSUME alone[r] PROVE AllIsWell(r)'
    <3>1. pc[r] = "reuse" => ~held[r].deleted
      BY <2>4 DEF AloneInv, AllIsWell
    <3>2. pc'[r] = "merge" \/ (pc'[r] = "set" /\ ~held'[r].deleted)
      <4>1. CASE Reuse(r)
        BY <2>3, <3>1, <4>1, WrittenRows DEF Reuse, Goto, TypeOK
      <4>2. CASE Insert(r)
        BY <2>3, <4>2, WrittenRows DEF Insert, Goto, TypeOK
      <4>3. CASE Merge(r)
        BY <2>3, <4>3, WrittenRows DEF Merge, Goto, TypeOK
      <4>4. QED
        BY <1>6, <4>1, <4>2, <4>3
    <3>3. QED
      BY <3>2 DEF AllIsWell
  <2>5. QED
    BY <2>1, <2>2, <2>4, StepOfOne
<1>7. ASSUME NEW r \in Puts, SetCurrent(r) PROVE AloneInv'
  <2>1. /\ pc[r] = "set" /\ UNCHANGED <<alone, answer, held>> /\ InFlight(r)
        /\ pc'[r] = "announce" /\ \A q \in Puts \ {r} : pc'[q] = pc[q]
    BY <1>7 DEF SetCurrent, Goto, InFlight, TypeOK, request
  <2>2. QED
    BY <2>1, StepOfOne DEF AllIsWell, AloneInv
<1>8. ASSUME NEW r \in Puts, Announce(r) PROVE AloneInv'
  <2>1. /\ UNCHANGED alone /\ InFlight(r) /\ pc'[r] = "done" /\ answer'[r] = 200
        /\ \A q \in Puts \ {r} : pc'[q] = pc[q] /\ answer'[q] = answer[q]
    BY <1>8 DEF Announce, Finish, InFlight, TypeOK
  <2>2. QED
    BY <2>1, StepOfOne DEF AllIsWell
<1>9. ASSUME NEW r \in Puts, Fail(r) PROVE AloneInv'
  <2>1. InFlight(r) /\ alone' = [alone EXCEPT ![r] = FALSE]
    BY <1>9 DEF Fail
  <2>2. \A q \in Puts \ {r} : pc'[q] = pc[q] /\ answer'[q] = answer[q]
    BY <1>9 DEF Fail, Finish, TypeOK
  <2>3. ~alone'[r] /\ \A q \in Puts \ {r} : alone'[q] = alone[q]
    BY <2>1 DEF TypeOK
  <2>4. QED
    BY <2>1, <2>2, <2>3, StepOfOne
<1>10. ASSUME NEW n \in Names, Unstage(n) \/ \E bytes \in Bytes : Stage(n, bytes) PROVE AloneInv'
  BY <1>10, DisturbedAreDone DEF Unstage, Stage
<1>11. CASE ClearStaging
  BY <1>11, DisturbedAreDone DEF ClearStaging
<1>12. CASE UNCHANGED <<staged, pc, request, answer, alone>>
  BY <1>12, ReadyStays DEF AloneInv, AllIsWell, InFlight, request
<1>13. ASSUME NEW k \in Keys, SoftDelete(k) PROVE AloneInv'
  BY <1>12, <1>13 DEF SoftDelete
<1>14. ASSUME NEW o \in Others, OtherStep(o) PROVE AloneInv'
  BY <1>12, <1>14 DEF OtherStep, Read, Upload, Create, Update, GiveUp, store
<1>15. CASE UNCHANGED vars
  BY <1>12, <1>15 DEF vars, store
<1>16. QED
  BY <1>1, <1>2, <1>3, <1>4, <1>5, <1>6, <1>7, <1>8, <1>9, <1>10, <1>11, <1>13, <1>14, <1>15
  DEF Next, PutStep

LEMMA AloneAlways == Spec => [](TypeOK /\ AloneInv)
<1>1. Init => AloneInv
  BY DEF Init, Idle, AloneInv
<1>2. QED
  BY <1>1, FirstTypes, TypeStep, AloneStep, PTL DEF Spec

(* What the client of an undisturbed PUT relies on: no order of the dozen  *)
(* calls ends in anything but 200, and with its record out of the recycle  *)
(* bin (profileWrite.ts:50, 175-184).                                      *)
THEOREM UndisturbedPutsSucceed == Spec => []UndisturbedSucceeds
<1>1. AloneInv => UndisturbedSucceeds
  BY DEF AloneInv, AllIsWell, UndisturbedSucceeds
<1>2. QED
  BY <1>1, AloneAlways, PTL

----------------------------------------------------------------------------
(* The current profile is announced *)

LEMMA NewsStep == TypeOK /\ AloneInv /\ NewsInv /\ [Next]_vars => NewsInv'
<1> SUFFICES ASSUME TypeOK, AloneInv, NewsInv, [Next]_vars PROVE NewsInv'
  OBVIOUS
<1>1. ASSUME NEW r \in Puts, SetCurrent(r) PROVE NewsInv'
  <2>1. /\ pc[r] = "set" /\ pc'[r] = "announce" /\ held' = held /\ news' = "pending"
        /\ current' = ProfileOf(held[r]) /\ sole' = alone[r]
        /\ \A q \in Puts \ {r} : pc'[q] = pc[q]
    BY <1>1 DEF SetCurrent, Goto, TypeOK, request
  <2>2. pc'[r] = "announce" /\ ProfileOf(held[r])' = current'
    BY <2>1 DEF ProfileOf
  <2>3. sole' => \A q \in Puts : pc'[q] = "announce" => q = r
    BY <2>1 DEF AloneInv, InFlight
  <2>4. QED
    BY <2>1, <2>2, <2>3 DEF NewsInv
<1>2. ASSUME NEW r \in Puts, Announce(r) PROVE NewsInv'
  <2>1. /\ pc[r] = "announce" /\ pc'[r] = "done" /\ current' = current /\ sole' = sole
        /\ \A q \in Puts \ {r} : pc'[q] = pc[q] /\ held'[q] = held[q]
        /\ \/ /\ told' = ProfileOf(held[r])
              /\ news' = IF ProfileOf(held[r]) = current THEN "told" ELSE news
           \/ /\ news' = IF ProfileOf(held[r]) = current THEN "lost" ELSE news
              /\ told' = told
    BY <1>2 DEF Announce, Announced, Finish, TypeOK
  <2>2. \A q \in Puts \ {r} : ProfileOf(held[q])' = ProfileOf(held[q])
    BY <2>1 DEF ProfileOf
  <2>3. news' = "pending" => \E q \in Puts : pc'[q] = "announce" /\ ProfileOf(held[q])' = current'
    <3> SUFFICES ASSUME news' = "pending"
                 PROVE  \E q \in Puts : pc'[q] = "announce" /\ ProfileOf(held[q])' = current'
      OBVIOUS
    <3>1. news = "pending" /\ ProfileOf(held[r]) # current
      BY <2>1
    <3>2. PICK q \in Puts : pc[q] = "announce" /\ ProfileOf(held[q]) = current
      BY <3>1 DEF NewsInv
    <3>3. QED
      BY <2>1, <2>2, <3>1, <3>2
  <2>4. sole' => \A q \in Puts : pc'[q] = "announce" => ProfileOf(held[q])' = current'
    BY <2>1, <2>2 DEF NewsInv
  <2>5. sole' /\ news' = "told" => told' = current'
    BY <2>1 DEF NewsInv
  <2>6. QED
    BY <2>3, <2>4, <2>5 DEF NewsInv
<1>3. ASSUME NEW r \in Puts, Fail(r) PROVE NewsInv'
  <2>1. /\ pc'[r] = "done" /\ current' = current /\ sole' = FALSE
        /\ news' = IF pc[r] = "announce" /\ ProfileOf(held[r]) = current THEN "lost" ELSE news
        /\ \A q \in Puts \ {r} : pc'[q] = pc[q] /\ held'[q] = held[q]
    BY <1>3 DEF Fail, Finish, TypeOK
  <2>2. \A q \in Puts \ {r} : ProfileOf(held[q])' = ProfileOf(held[q])
    BY <2>1 DEF ProfileOf
  <2>3. ASSUME news' = "pending"
        PROVE  \E q \in Puts : pc'[q] = "announce" /\ ProfileOf(held[q])' = current'
    <3>1. news = "pending" /\ ~(pc[r] = "announce" /\ ProfileOf(held[r]) = current)
      BY <2>1, <2>3
    <3>2. PICK q \in Puts : pc[q] = "announce" /\ ProfileOf(held[q]) = current
      BY <3>1 DEF NewsInv
    <3>3. QED
      BY <2>1, <2>2, <3>1, <3>2
  <2>4. QED
    BY <2>1, <2>3 DEF NewsInv
(* Every other step leaves whoever is to announce where it is.             *)
<1>4. ASSUME UNCHANGED profile,
             \A q \in Puts : IF pc[q] = "announce" THEN pc'[q] = pc[q] /\ held'[q] = held[q]
                                                  ELSE pc'[q] # "announce"
      PROVE  NewsInv'
  <2>1. \A q \in Puts : pc[q] = "announce" => ProfileOf(held[q])' = ProfileOf(held[q])
    BY <1>4 DEF ProfileOf
  <2>2. QED
    BY <1>4, <2>1 DEF NewsInv, profile
<1>5. ASSUME NEW r \in Puts,
             Start(r) \/ Lookup(r) \/ Reuse(r) \/ Take(r) \/ Drop(r) \/ Persist(r) \/ Consume(r)
             \/ Find(r) \/ Insert(r) \/ Merge(r)
      PROVE  NewsInv'
  <2>1. UNCHANGED profile
    BY <1>5 DEF Start, Lookup, Reuse, Take, Drop, Persist, Consume, Find, Insert, Merge
  <2>2. pc[r] # "announce"
    BY <1>5 DEF Start, Lookup, Reuse, Take, Drop, Persist, Consume, Find, Insert, Merge, InFlight
  <2>3. pc'[r] # "announce"
    BY <1>5 DEF Start, Lookup, Reuse, Take, Drop, Persist, Consume, Find, Insert, Merge,
                Goto, Finish, TypeOK
  <2>4. \A q \in Puts \ {r} : pc'[q] = pc[q] /\ held'[q] = held[q]
    <3>1. CASE Start(r) \/ Lookup(r) \/ Take(r)
      BY <3>1 DEF Start, Lookup, Take, Goto, Finish, TypeOK, request
    <3>2. CASE Reuse(r) \/ Drop(r) \/ Persist(r) \/ Consume(r) \/ Find(r) \/ Insert(r) \/ Merge(r)
      BY <3>2 DEF Reuse, Drop, Persist, Consume, Find, Insert, Merge, Goto, Finish, TypeOK, request
    <3>3. QED
      BY <1>5, <3>1, <3>2
  <2>5. QED
    BY <1>4, <2>1, <2>2, <2>3, <2>4
<1>6. CASE UNCHANGED <<profile, pc, request>>
  BY <1>4, <1>6 DEF request
<1>7. ASSUME NEW n \in Names, Unstage(n) \/ \E bytes \in Bytes : Stage(n, bytes) PROVE NewsInv'
  BY <1>6, <1>7 DEF Unstage, Stage
<1>8. CASE ClearStaging
  BY <1>6, <1>8 DEF ClearStaging
<1>9. ASSUME NEW k \in Keys, SoftDelete(k) PROVE NewsInv'
  BY <1>6, <1>9 DEF SoftDelete
<1>10. ASSUME NEW o \in Others, OtherStep(o) PROVE NewsInv'
  BY <1>6, <1>10 DEF OtherStep, Read, Upload, Create, Update, GiveUp
<1>11. CASE UNCHANGED vars
  BY <1>6, <1>11 DEF vars
<1>12. QED
  BY <1>1, <1>2, <1>3, <1>5, <1>7, <1>8, <1>9, <1>10, <1>11 DEF Next, PutStep

(* No order of overlapping PUTs leaves the current profile set and nobody  *)
(* about to announce it, unless the broadcast was lost; and after PUTs one *)
(* at a time what was announced last is what is current                    *)
(* (profileWrite.ts:40-48).                                                *)
THEOREM CurrentProfilesAreAnnounced == Spec => []CurrentIsAnnounced
<1>1. Init => NewsInv
  BY DEF Init, Idle, Empty, After, NewsInv
<1>2. NewsInv => CurrentIsAnnounced
  BY DEF NewsInv, CurrentIsAnnounced
<1>3. QED
  BY <1>1, <1>2, FirstTypes, TypeStep, AloneAlways, NewsStep, PTL DEF Spec

----------------------------------------------------------------------------
(* The data of the current profile are what its name leads to *)

(* What a deletion and the other requests do to the times PUTs have given. *)
TimesKept ==
  \A k \in Keys : IF row[k] = None THEN row'[k] # None => row'[k].put = -1
                                   ELSE row'[k] # None /\ row'[k].put = row[k].put

LEMMA TimesAreKept ==
  ASSUME TypeOK,
         \/ \E k \in Keys : SoftDelete(k)
         \/ \E o \in Others : OtherStep(o)
  PROVE  TimesKept /\ UNCHANGED <<profile, clock, pc, request, alone>>
<1>1. ASSUME NEW k \in Keys, SoftDelete(k)
      PROVE  TimesKept /\ UNCHANGED <<profile, clock, pc, request, alone>>
  BY <1>1, SoftDeleteLeaves DEF TimesKept, SoftDelete
<1>2. ASSUME NEW o \in Others, OtherStep(o)
      PROVE  TimesKept /\ UNCHANGED <<profile, clock, pc, request, alone>>
  <2>1. UNCHANGED <<profile, clock, pc, request, alone>>
    BY <1>2 DEF OtherStep, Read, Upload, Create, Update, GiveUp
  <2>2. CASE Create(o) \/ Update(o)
    <3> DEFINE k == draft[o].key
    <3>1. /\ k \in Keys /\ row' = [row EXCEPT ![k] = row'[k]] /\ row'[k] # None
          /\ row'[k].put = IF row[k] = None THEN -1 ELSE row[k].put
      BY <2>2, RevisedRows, RowIsRow
    <3> HIDE DEF k
    <3>2. \A j \in Keys \ {k} : row'[j] = row[j]
      BY <3>1 DEF TypeOK
    <3>3. QED
      BY <2>1, <3>1, <3>2 DEF TimesKept
  <2>3. CASE UNCHANGED row
    BY <2>1, <2>3 DEF TimesKept
  <2>4. QED
    BY <1>2, <2>2, <2>3 DEF OtherStep, Read, Upload, GiveUp, store
<1>3. QED
  BY <1>1, <1>2

(* A step of a handler on its way that writes no row: for every PUT that   *)
(* is alone nothing changes but the place it is at.                        *)
LEMMA TimesWithoutWrite ==
  ASSUME TypeOK, AloneInv, TimesInv, NEW r \in Puts, InFlight(r), UNCHANGED <<row, clock>>,
         \A q \in Puts \ {r} : pc'[q] = pc[q] /\ alone'[q] = alone[q] /\ stamp'[q] = stamp[q],
         alone'[r] => alone[r],
         \/ pc'[r] = "done" /\ stamp'[r] = 0
         \/ /\ stamp'[r] = stamp[r] /\ pc[r] \notin {"set", "announce"}
            /\ pc'[r] \notin {"set", "announce"}
         \/ /\ stamp'[r] = stamp[r] /\ held'[r] = held[r]
            /\ pc[r] = "set" /\ pc'[r] = "announce"
  PROVE  TimesInv'
<1>1. \A q \in Puts : stamp'[q] <= clock'
  BY DEF TypeOK, TimesInv
<1>2. ASSUME NEW q \in Puts, alone'[q], pc'[q] # "done" PROVE Latest(q)'
  <2>1. q = r
    BY <1>2 DEF AloneInv, InFlight
  <2>2. alone[r] /\ Latest(r)
    BY <1>2, <2>1 DEF TimesInv
  <2>3. QED
    BY <1>2, <2>1, <2>2 DEF Latest
<1>3. QED
  BY <1>1, <1>2 DEF TimesInv, InFlight

(* One that writes a row: it gets the time of its PUT.                     *)
LEMMA TimesOfWrite ==
  ASSUME TypeOK, AloneInv, TimesInv, NEW r \in Puts, InFlight(r), NEW k \in Keys,
         pc[r] \notin {"set", "announce"}, pc'[r] = "set", UNCHANGED <<clock, stamp, alone>>,
         row'[k] = held'[r], held'[r] # None, held'[r].key = k, held'[r].put = stamp[r],
         \A j \in Keys \ {k} : row'[j] = row[j],
         \A q \in Puts \ {r} : pc'[q] = pc[q]
  PROVE  TimesInv'
<1>1. /\ \A j \in Keys : row'[j] # None => row'[j].put <= clock'
      /\ \A q \in Puts : stamp'[q] <= clock'
  BY DEF TimesInv
<1>2. ASSUME NEW q \in Puts, alone'[q], pc'[q] # "done" PROVE Latest(q)'
  <2>1. q = r
    BY <1>2 DEF AloneInv, InFlight
  <2>2. Latest(r)
    BY <1>2, <2>1 DEF TimesInv
  <2>3. QED
    BY <2>1, <2>2 DEF Latest
<1>3. QED
  BY <1>1, <1>2 DEF TimesInv, InFlight

LEMMA TimesStep == TypeOK /\ TypeOK' /\ AloneInv /\ TimesInv /\ [Next]_vars => TimesInv'
<1> SUFFICES ASSUME TypeOK, TypeOK', AloneInv, TimesInv, [Next]_vars PROVE TimesInv'
  OBVIOUS
<1>1. ASSUME NEW r \in Puts, Start(r) PROVE TimesInv'
  <2>1. PICK o \in Offers :
          /\ alone' = [q \in Puts |-> IF q = r THEN Quiet /\ Ready(o)
                                               ELSE alone[q] /\ ~InFlight(q)]
          /\ \/ Finish(r, 400)
             \/ /\ pc' = [pc EXCEPT ![r] = "lookup"]
                /\ stamp' = [stamp EXCEPT ![r] = clock + 1]
    BY <1>1 DEF Start
  <2>2. clock' = clock + 1 /\ clock \in Nat /\ UNCHANGED row
    BY <1>1, BoundAssumption DEF Start, store, TypeOK
  <2>3. \A q \in Puts \ {r} : pc'[q] = pc[q] /\ stamp'[q] = stamp[q]
    BY <2>1 DEF Finish, TypeOK
  <2>4. \/ pc'[r] = "done" /\ stamp'[r] = 0
        \/ pc'[r] = "lookup" /\ stamp'[r] = clock'
    BY <2>1, <2>2 DEF Finish, TypeOK
  <2>5. \A k \in Keys : row[k] # None => row[k].put < clock'
    BY <2>2, RowIsRow DEF TimesInv, TypeOK
  <2>6. \A q \in Puts : stamp[q] \in Nat /\ stamp[q] <= clock
    BY BoundAssumption DEF TimesInv, TypeOK
  <2>7. \A q \in Puts : stamp'[q] <= clock'
    BY <2>2, <2>3, <2>4, <2>6
  <2>8. ASSUME NEW q \in Puts, alone'[q], pc'[q] # "done" PROVE Latest(q)'
    <3>1. q = r
      <4>1. q # r => pc[q] = "done"
        BY <2>1, <2>8, Zenon DEF InFlight
      <4>2. QED
        BY <2>3, <2>8, <4>1
    <3>2. QED
      BY <2>2, <2>4, <2>5, <2>8, <3>1 DEF Latest
  <2>9. QED
    BY <2>2, <2>5, <2>7, <2>8, RowIsRow DEF TimesInv, InFlight, TypeOK
<1>2. ASSUME NEW r \in Puts, Lookup(r) \/ Take(r) \/ Drop(r) \/ Persist(r) \/ Consume(r) \/ Find(r)
      PROVE  TimesInv'
  <2>1. InFlight(r) /\ UNCHANGED <<row, clock, alone>> /\ pc[r] \notin {"set", "announce"}
    BY <1>2 DEF Lookup, Take, Drop, Persist, Consume, Find, InFlight, store
  <2>2. PICK label : \/ pc' = [pc EXCEPT ![r] = label] /\ UNCHANGED stamp
                            /\ label \notin {"set", "announce"}
                     \/ pc' = [pc EXCEPT ![r] = "done"] /\ stamp' = [stamp EXCEPT ![r] = 0]
    BY <1>2 DEF Lookup, Take, Drop, Persist, Consume, Find, Goto, Finish, request
  <2>3. QED
    BY <2>1, <2>2, TimesWithoutWrite DEF TypeOK
<1>3. ASSUME NEW r \in Puts, Reuse(r) \/ Insert(r) \/ Merge(r) PROVE TimesInv'
  <2>1. /\ InFlight(r) /\ UNCHANGED <<clock, stamp, alone>> /\ pc[r] \notin {"set", "announce"}
        /\ offer[r] \in Offers /\ (pc[r] \in {"reuse", "merge"} => held[r] # None)
    BY <1>3, RowIsRow DEF Reuse, Insert, Merge, InFlight, TypeOK
  <2>2. \A q \in Puts \ {r} : pc'[q] = pc[q]
    BY <1>3 DEF Reuse, Insert, Merge, Goto, TypeOK
  <2>3. CASE Reuse(r)
    <3>1. /\ Touched(r) # None /\ Touched(r).key = held[r].key /\ Touched(r).put = stamp[r]
          /\ held[r].key \in Keys
      BY <2>1, <2>3, WrittenRows, RowIsRow DEF Reuse, TypeOK
    <3>2. /\ row' = [row EXCEPT ![held[r].key] = Touched(r)] /\ held'[r] = Touched(r)
          /\ pc'[r] = "set"
      BY <2>3 DEF Reuse, Goto, TypeOK
    <3>3. /\ row'[held[r].key] = held'[r]
          /\ \A j \in Keys \ {held[r].key} : row'[j] = row[j]
      BY <3>1, <3>2 DEF TypeOK
    <3>4. QED
      BY <2>1, <2>2, <3>1, <3>2, <3>3, TimesOfWrite
  <2>4. CASE Insert(r)
    <3>1. Fresh(r) # None /\ Fresh(r).key = Key(r) /\ Fresh(r).put = stamp[r] /\ Key(r) \in Keys
      BY <2>1, WrittenRows, RowIsRow, KeyIsKey
    <3>2. CASE row[Key(r)] = None
      <4>1. row' = [row EXCEPT ![Key(r)] = Fresh(r)] /\ held'[r] = Fresh(r) /\ pc'[r] = "set"
        BY <2>4, <3>2 DEF Insert, Goto, TypeOK
      <4>2. row'[Key(r)] = held'[r] /\ \A j \in Keys \ {Key(r)} : row'[j] = row[j]
        BY <3>1, <4>1 DEF TypeOK
      <4>3. QED
        BY <2>1, <2>2, <3>1, <4>1, <4>2, TimesOfWrite
    <3>3. CASE row[Key(r)] # None
      <4>1. UNCHANGED row /\ pc'[r] = "merge"
        BY <2>4, <3>3 DEF Insert, Goto, TypeOK
      <4>2. QED
        BY <2>1, <2>2, <4>1, TimesWithoutWrite
    <3>4. QED
      BY <3>2, <3>3
  <2>5. CASE Merge(r)
    <3>1. /\ Merged(r) # None /\ Merged(r).key = held[r].key /\ Merged(r).put = stamp[r]
          /\ held[r].key \in Keys
      BY <2>1, <2>5, WrittenRows, RowIsRow DEF Merge, TypeOK
    <3>2. /\ row' = [row EXCEPT ![held[r].key] = Merged(r)] /\ held'[r] = Merged(r)
          /\ pc'[r] = "set"
      BY <2>5 DEF Merge, Goto, TypeOK
    <3>3. /\ row'[held[r].key] = held'[r]
          /\ \A j \in Keys \ {held[r].key} : row'[j] = row[j]
      BY <3>1, <3>2 DEF TypeOK
    <3>4. QED
      BY <2>1, <2>2, <3>1, <3>2, <3>3, TimesOfWrite
  <2>6. QED
    BY <1>3, <2>3, <2>4, <2>5
<1>4. ASSUME NEW r \in Puts, SetCurrent(r) \/ Announce(r) \/ Fail(r) PROVE TimesInv'
  <2>1. InFlight(r) /\ UNCHANGED <<row, clock>> /\ (alone'[r] => alone[r])
    BY <1>4 DEF SetCurrent, Announce, Fail, InFlight, store, TypeOK
  <2>2. \A q \in Puts \ {r} : pc'[q] = pc[q] /\ alone'[q] = alone[q] /\ stamp'[q] = stamp[q]
    BY <1>4 DEF SetCurrent, Announce, Fail, Goto, Finish, TypeOK, request
  <2>3. \/ pc'[r] = "done" /\ stamp'[r] = 0
        \/ stamp'[r] = stamp[r] /\ held'[r] = held[r] /\ pc[r] = "set" /\ pc'[r] = "announce"
    BY <1>4 DEF SetCurrent, Announce, Fail, Goto, Finish, TypeOK, request
  <2>4. QED
    BY <2>1, <2>2, <2>3, TimesWithoutWrite
<1>5. CASE (\E k \in Keys : SoftDelete(k)) \/ (\E o \in Others : OtherStep(o))
  <2>1. TimesKept /\ UNCHANGED <<clock, pc, request, alone>>
    BY <1>5, TimesAreKept
  <2>2. \A r \in Puts : pc[r] = "set" => held[r].key \in Keys
    BY RowIsRow DEF TypeOK
  <2>3. clock \in Nat
    BY BoundAssumption DEF TypeOK
  <2>4. \A k \in Keys : row'[k] # None =>
          /\ row'[k].put <= clock'
          /\ row[k] = None => row'[k].put < clock'
    BY <2>1, <2>3 DEF TimesKept, TimesInv
  <2>5. ASSUME NEW r \in Puts, Latest(r) PROVE Latest(r)'
    <3>1. stamp' = stamp /\ held' = held /\ pc' = pc /\ clock' = clock
      BY <2>1 DEF request
    <3>2. pc[r] = "set" => row'[held[r].key] # None /\ row'[held[r].key].put = clock
      BY <2>1, <2>2, <2>5 DEF Latest, TimesKept
    <3>3. QED
      BY <2>1, <2>4, <2>5, <3>1, <3>2 DEF Latest, TimesKept
  <2>6. QED
    BY <2>1, <2>4, <2>5 DEF TimesInv, InFlight, request
<1>6. ASSUME Disturb, UNCHANGED <<row, clock, pc, request>> PROVE TimesInv'
  <2>1. \A q \in Puts : alone'[q] => pc[q] = "done"
    BY <1>6, Zenon DEF Disturb, InFlight
  <2>2. QED
    BY <1>6, <2>1 DEF TimesInv, InFlight, request
<1>7. ASSUME NEW n \in Names, Unstage(n) \/ \E bytes \in Bytes : Stage(n, bytes) PROVE TimesInv'
  BY <1>6, <1>7 DEF Unstage, Stage
<1>8. CASE ClearStaging
  BY <1>6, <1>8 DEF ClearStaging
<1>9. CASE UNCHANGED vars
  BY <1>9 DEF vars, store, request, TimesInv, Latest, InFlight
<1>10. QED
  BY <1>1, <1>2, <1>3, <1>4, <1>5, <1>7, <1>8, <1>9 DEF Next, PutStep

LEMMA FirstForemost == Init => ForemostInv
<1> SUFFICES ASSUME Init PROVE ForemostInv
  OBVIOUS
<1>1. CASE Empty
  BY <1>1 DEF Empty, ForemostInv, Settled
<1>2. ASSUME NEW o \in Offers, After(o) PROVE ForemostInv
  <2>1. /\ Record(o) \in Rows /\ Record(o) # None /\ Record(o).key \in Keys
        /\ Record(o).put = 0
    BY FirstRecord, RowIsRow
  <2>2. /\ row = [k \in Keys |-> IF k = Record(o).key THEN Record(o) ELSE None]
        /\ current.key = Record(o).key /\ current.name = Record(o).name
    BY <1>2, <2>1, RowIsRow DEF After
  <2>3. QED
    BY <2>1, <2>2 DEF ForemostInv, Foremost
<1>3. QED
  BY <1>1, <1>2 DEF Init

LEMMA ForemostStep ==
  TypeOK /\ AloneInv /\ TimesInv /\ ForemostInv /\ [Next]_vars => ForemostInv'
<1> SUFFICES ASSUME TypeOK, AloneInv, TimesInv, ForemostInv, [Next]_vars, Settled'
             PROVE  Foremost'
  BY DEF ForemostInv
<1>1. ASSUME NEW r \in Puts, SetCurrent(r) PROVE Foremost'
  <2>1. /\ pc[r] = "set" /\ alone[r] /\ UNCHANGED row /\ current' = ProfileOf(held[r])
        /\ held[r] \in Rows /\ held[r].key \in Keys
    BY <1>1, RowIsRow DEF SetCurrent, Settled, store, TypeOK
  <2>2. Latest(r) /\ clock \in Nat
    BY <2>1, BoundAssumption DEF TimesInv, InFlight, TypeOK
  <2>3. current'.key = held[r].key /\ current'.name = held[r].name
    BY <2>1, RowIsRow
  <2>4. QED
    BY <2>1, <2>2, <2>3 DEF Foremost, Latest
(* Most steps leave the rows and the current profile where they are.       *)
<1>2. ASSUME UNCHANGED <<row, current, sole>>, \A q \in Puts : pc[q] = "set" => pc'[q] = "set"
      PROVE  Foremost'
  BY <1>2 DEF ForemostInv, Foremost, Settled
<1>3. ASSUME NEW r \in Puts,
             Start(r) \/ Lookup(r) \/ Take(r) \/ Drop(r) \/ Persist(r) \/ Consume(r)
             \/ Find(r) \/ Announce(r)
      PROVE  Foremost'
  <2>1. UNCHANGED <<row, current, sole>> /\ pc[r] # "set"
    BY <1>3 DEF Start, Lookup, Take, Drop, Persist, Consume, Find, Announce, store, profile, InFlight
  <2>2. \A q \in Puts \ {r} : pc'[q] = pc[q]
    BY <1>3 DEF Start, Lookup, Take, Drop, Persist, Consume, Find, Announce, Goto, Finish, TypeOK
  <2>3. QED
    BY <1>2, <2>1, <2>2
<1>4. ASSUME NEW r \in Puts, Reuse(r) \/ Insert(r) \/ Merge(r) PROVE Foremost'
  <2>1. UNCHANGED <<current, sole>> /\ pc[r] # "set"
    BY <1>4 DEF Reuse, Insert, Merge, profile
  <2>2. pc'[r] = "set" \/ UNCHANGED row
    BY <1>4 DEF Reuse, Insert, Merge, Goto, TypeOK
  <2>3. \A q \in Puts \ {r} : pc'[q] = pc[q]
    BY <1>4 DEF Reuse, Insert, Merge, Goto, TypeOK
  <2>4. QED
    BY <1>2, <2>1, <2>2, <2>3 DEF Settled
<1>5. ASSUME NEW r \in Puts, Fail(r) PROVE Foremost'
  BY <1>5 DEF Fail, Settled
<1>6. CASE (\E k \in Keys : SoftDelete(k)) \/ (\E o \in Others : OtherStep(o))
  <2>1. TimesKept /\ UNCHANGED <<profile, pc>>
    BY <1>6, TimesAreKept
  <2>2. Settled /\ current' = current
    BY <2>1 DEF Settled, profile
  <2>3. current.key \in Keys /\ Foremost
    BY <2>2 DEF Settled, TypeOK, Profiles, ForemostInv
  <2>4. row[current.key].put \in Nat
    BY <2>3, BoundAssumption, RowIsRow DEF Foremost, TypeOK
  <2>5. QED
    BY <2>1, <2>2, <2>3, <2>4 DEF Foremost, TimesKept
<1>7. CASE UNCHANGED <<row, profile, pc>>
  BY <1>2, <1>7 DEF profile
<1>8. ASSUME NEW n \in Names, Unstage(n) \/ \E bytes \in Bytes : Stage(n, bytes) PROVE Foremost'
  BY <1>7, <1>8 DEF Unstage, Stage
<1>9. CASE ClearStaging
  BY <1>7, <1>9 DEF ClearStaging
<1>10. CASE UNCHANGED vars
  BY <1>7, <1>10 DEF vars, store
<1>11. QED
  BY <1>1, <1>3, <1>4, <1>5, <1>6, <1>8, <1>9, <1>10 DEF Next, PutStep

(* After PUTs one at a time, whatever was staged, posted, touched and      *)
(* deleted before, between and during them, the name of the current        *)
(* profile leads to its own data, unless an older state of its row was     *)
(* written back or a client has given another record its time              *)
(* (webdav.ts:159-168, db.ts:546, profileWrite.ts:140).                    *)
THEOREM CurrentDataAreServed == Spec => []CurrentIsServed
<1>1. Init => TimesInv
  <2> SUFFICES ASSUME Init PROVE TimesInv
    OBVIOUS
  <2>1. \A k \in Keys : row[k] # None => row[k].put <= clock
    BY FirstRecord DEF Init, Idle, Empty, After
  <2>2. QED
    BY <2>1 DEF Init, Idle, TimesInv
<1>2. TypeOK /\ WholeInv /\ ForemostInv => CurrentIsServed
  <2> DEFINE k == current.key
             n == current.name
  <2> SUFFICES ASSUME TypeOK, WholeInv, ForemostInv, Quiet, sole, current # None,
                      n # None, row[k].name = n, row[k].at >= row[k].put
               PROVE  /\ Candidates(n) # {}
                      /\ \A j \in Newest(n) :
                           \/ k[2] = ProfileHash(k[1], n, object[<<j, n>>])
                           \/ row[j].at > row[j].put
    BY DEF CurrentIsServed
  <2>1. k \in Keys /\ n \in Names /\ Foremost
    <3>1. \A r \in Puts : pc[r] # "set"
      BY DEF Quiet, InFlight
    <3>2. QED
      BY <3>1 DEF ForemostInv, Settled, TypeOK, Profiles
  <2>2. k \in Candidates(n)
    BY <2>1, RowIsRow DEF Candidates, Foremost, WholeInv, Whole, TypeOK
  <2>3. \A j \in Candidates(n) : row[j].at \in 0..MaxPuts /\ row[j].put \in Int
    BY RowIsRow DEF Candidates, TypeOK
  <2>4. ASSUME NEW j \in Newest(n)
        PROVE  \/ k[2] = ProfileHash(k[1], n, object[<<j, n>>])
               \/ row[j].at > row[j].put
    <3>1. j \in Candidates(n) /\ row[k].at <= row[j].at
      BY <2>2, <2>4 DEF Newest
    <3>2. CASE j = k
      BY <2>1, <2>2, <3>2 DEF Candidates, WholeInv, HashesMatch
    <3>3. CASE j # k
      <4>1. row[j].put < row[k].put
        BY <2>1, <3>1, <3>3 DEF Candidates, Foremost
      <4>2. QED
        BY <2>2, <2>3, <3>1, <4>1
    <3>4. QED
      BY <3>2, <3>3
  <2>5. QED
    BY <2>2, <2>4
<1>3. QED
  BY <1>1, <1>2, WholeAlways, AloneAlways, FirstTypes, TypeStep, TimesStep, FirstForemost,
     ForemostStep, PTL DEF Spec
=============================================================================
