------------------------------ MODULE Staging -------------------------------
(***************************************************************************)
(* The staging area (file/<name> in R2), the PUT of SyncClipboard.json     *)
(* that turns what is staged into a record, and the current profile.       *)
(*                                                                         *)
(* A client stages the bytes under their plain name and then PUTs the      *)
(* profile that names them.  Names are shared by all devices, the PUT is a *)
(* dozen calls to D1, R2 and the hub with nothing held across them, and    *)
(* each call below is one step, so that PUTs overlap with one another and  *)
(* with whatever happens in the staging area, and may end anywhere.        *)
(*                                                                         *)
(* Every other request that writes a record - POST /api/history, PATCH and *)
(* the changes of the web interface, the touch after a copy or a download  *)
(* among them - is here for what it does to the rows: it may give any of   *)
(* them a LastAccessed of its own, on which GET /file/<name> goes.  How    *)
(* these requests agree among themselves is the subject of HistoryRecords. *)
(*                                                                         *)
(* Bytes stand for their own SHA-256.  A record is never purged here: what *)
(* purges do to rows and objects is the subject of HistoryData.            *)
(***************************************************************************)
EXTENDS Integers

CONSTANTS
  Puts,        \* handlers of a PUT of SyncClipboard.json, one PUT at a time
  MaxPuts,     \* bounds the PUTs of a run
  Others,      \* handlers of the other requests that write records
  MaxRevisions, \* bounds their requests
  MaxBeside,   \* bounds the PUTs of a run that has such requests
  Names,       \* file names
  ImageNames,  \* those with one of IMAGE_EXTENSIONS
  Bytes,       \* contents
  TooLarge,    \* those above maxDataBytes
  Entries,     \* the entries of each zip archive; None is no archive, or empty
  Offers,      \* the profiles clients may put
  Uploads,     \* the records clients may post
  None

ASSUME NamesAssumption == ImageNames \subseteq Names
ASSUME BoundAssumption == MaxPuts \in Nat /\ MaxRevisions \in Nat /\ MaxBeside \in Nat
ASSUME BytesAssumption == TooLarge \subseteq Bytes /\ None \notin Bytes \cup Names

Types == {"Text", "File", "Image", "Group"}

(* textProfileHash, fileProfileHashFromContentHash, groupHashFromEntries.  *)
ProfileHash(type, name, bytes) ==
  CASE type = "Text" -> <<"text", bytes>>
    [] type \in {"File", "Image"} -> <<name, bytes>>
    [] type = "Group" -> <<"entries", Entries[bytes]>>

Hashes == {ProfileHash(t, n, b) : t \in Types, n \in Names, b \in Bytes}
Keys == Types \X Hashes

(* What parseProfileDto lets through; bytes are the inline text or what    *)
(* the client believes to have staged, hash and digest what it declares;   *)
(* named is FALSE if dataName is missing or too long for a key of R2.      *)
ProfileDtos ==
  [type : Types, name : Names, named : BOOLEAN, bytes : Bytes, data : BOOLEAN,
   hash : Hashes \cup {None}, digest : Bytes \cup {None}]
ASSUME OffersAssumption == Offers \subseteq ProfileDtos

(* The name is that of the file, or the one the server makes up.           *)
ASSUME UploadsAssumption ==
  Uploads \subseteq [type : Types, name : Names, bytes : Bytes \ TooLarge, data : BOOLEAN]

VARIABLES
  staged,   \* file/<name>
  object,   \* history/<Type>_<hash>/<name>, by key and name
  row,      \* HistoryRecords
  current,  \* Meta.currentProfile: key and data name, or None
  told,     \* the last profile the hub has broadcast, or None
  news,     \* whether the current one was broadcast since it was set
  clock,    \* Date.now(), as far as LastAccessed needs it
  pc, offer, stamp,
  content,  \* the staged bytes a PUT has read, or None
  held,     \* the row it has read and will write, or None
  answer,   \* its status, or None
  stage,    \* where each of the other requests is
  draft,    \* the row it has read or made, and will write, or None
  revisions, \* their number so far
  alone,    \* (history) its data was staged and nobody interfered so far
  sole      \* (history) the current profile is of a PUT that ran alone

store == <<staged, object, row>>
profile == <<current, told, news, sole>>
request == <<offer, stamp, content, held>>
others == <<stage, draft, revisions>>
vars == <<store, profile, clock, pc, request, answer, alone, others>>

InFlight(r) == pc[r] # "done"
Quiet == \A r \in Puts : ~InFlight(r)

(* at is LastAccessed; put (history) is the time the last PUT gave the     *)
(* row, before every other where there was none.                           *)
Rows == [key : Keys, deleted : BOOLEAN, name : Names \cup {None},
         digest : Bytes \cup {None}, at : 0..MaxPuts, put : -1..MaxPuts]
Profiles == [key : Keys, name : Names \cup {None}]

(* No row, no profile and no declared hash is there where None stands.     *)
ASSUME NoneAssumption == None \notin Rows /\ None \notin Profiles /\ None \notin Hashes

TypeOK ==
  /\ staged \in [Names -> Bytes \cup {None}]
  /\ object \in [Keys \X Names -> Bytes \cup {None}]
  /\ row \in [Keys -> Rows \cup {None}]
  /\ \A k \in Keys : row[k] # None => row[k].key = k
  /\ {current, told} \subseteq Profiles \cup {None}
  /\ news \in {"told", "pending", "lost"} /\ sole \in BOOLEAN
  /\ clock \in 0..MaxPuts
  /\ pc \in [Puts -> {"lookup", "reuse", "take", "drop", "persist", "consume",
                      "find", "insert", "merge", "set", "announce", "done"}]
  /\ offer \in [Puts -> Offers \cup {None}]
  /\ \A r \in Puts : InFlight(r) => offer[r] \in Offers
  /\ stamp \in [Puts -> 0..MaxPuts]
  /\ content \in [Puts -> Bytes \cup {None}]
  /\ held \in [Puts -> Rows \cup {None}]
  /\ \A r \in Puts : pc[r] \in {"reuse", "merge", "set", "announce"} => held[r] \in Rows
  /\ answer \in [Puts -> {None, 200, 400, 404, 413, 500}]
  /\ alone \in [Puts -> BOOLEAN]
  /\ stage \in [Others -> {"idle", "insert", "update"}]
  /\ draft \in [Others -> Rows \cup {None}]
  /\ \A o \in Others : stage[o] # "idle" => draft[o] \in Rows
  /\ \A o \in Others : stage[o] = "insert" => draft[o].put = -1
  /\ \A o \in Others : stage[o] = "update" => row[draft[o].key] # None
  /\ revisions \in 0..MaxRevisions

----------------------------------------------------------------------------
(* What a PUT computes *)

(* resolveCreateProfileType: a File with the name of an image is an Image, *)
(* but only where a record is created.                                     *)
ResolveCreateType(o) ==
  IF o.type = "File" /\ o.name \in ImageNames THEN "Image" ELSE o.type

(* The checks of putSyncProfile and of validateAndPersistData on the bytes *)
(* it has read, with the type of the record to be.                         *)
DataUnchecked(o, bytes) == o.digest \in {None, bytes}                \* a fault
DataValid(o, bytes) ==
  LET type == ResolveCreateType(o)
  IN /\ o.digest \in {None, bytes}
     /\ type = "Group" => Entries[bytes] # None
     /\ o.hash \in {None, ProfileHash(type, o.name, bytes)}

(* isInlineDataValid: only a text can do without a file.                   *)
InlineValid(o) ==
  o.type = "Text" /\ o.hash \in {None, ProfileHash("Text", o.name, o.bytes)}

(* The key of the record to be; a text without a declared hash gets the    *)
(* computed one.                                                           *)
Key(r) ==
  LET o == offer[r]
      type == ResolveCreateType(o)
  IN <<type, IF content[r] # None \/ o.hash = None
             THEN ProfileHash(type, o.name, IF content[r] = None THEN o.bytes ELSE content[r])
             ELSE o.hash>>

(* entityToProfileDto                                                      *)
ProfileOf(entity) == [key |-> entity.key, name |-> entity.name]

Ready(o) ==
  IF o.data THEN o.named /\ staged[o.name] \in Bytes \ TooLarge /\ DataValid(o, staged[o.name])
            ELSE InlineValid(o) /\ o.digest = None

----------------------------------------------------------------------------
(* The record of a PUT that has come to its end.                           *)
Record(o) ==
  LET type == ResolveCreateType(o)
  IN [key |-> <<type, ProfileHash(type, o.name, o.bytes)>>, deleted |-> FALSE,
      name |-> IF o.data THEN o.name ELSE None,
      digest |-> IF o.data THEN o.bytes ELSE None, at |-> 0, put |-> 0]

Idle ==
  /\ staged = [n \in Names |-> None]
  /\ news = "told" /\ sole = TRUE /\ clock = 0
  /\ pc = [r \in Puts |-> "done"] /\ offer = [r \in Puts |-> None]
  /\ stamp = [r \in Puts |-> 0]
  /\ content = [r \in Puts |-> None] /\ held = [r \in Puts |-> None]
  /\ answer = [r \in Puts |-> None] /\ alone = [r \in Puts |-> FALSE]
  /\ stage = [o \in Others |-> "idle"] /\ draft = [o \in Others |-> None]
  /\ revisions = 0

Empty ==
  /\ object = [at \in Keys \X Names |-> None]
  /\ row = [k \in Keys |-> None]
  /\ current = None /\ told = None

After(o) ==
  /\ IF o.data THEN o.named /\ o.bytes \notin TooLarge /\ DataValid(o, o.bytes) ELSE InlineValid(o)
  /\ object = [at \in Keys \X Names |->
                 IF o.data /\ at = <<Record(o).key, o.name>> THEN o.bytes ELSE None]
  /\ row = [k \in Keys |-> IF k = Record(o).key THEN Record(o) ELSE None]
  /\ current = ProfileOf(Record(o)) /\ told = current

(* An empty server, or one that has taken one PUT.                         *)
Init == Idle /\ (Empty \/ \E o \in Offers : After(o))

----------------------------------------------------------------------------
(* The staging area: PUT /file/<name>, DELETE /file/<name>, DELETE /file.  *)

Disturb == alone' = [r \in Puts |-> alone[r] /\ ~InFlight(r)]

Stage(n, bytes) ==
  /\ staged' = [staged EXCEPT ![n] = bytes]
  /\ Disturb
  /\ UNCHANGED <<object, row, profile, clock, pc, request, answer, others>>

Unstage(n) ==
  /\ staged[n] # None
  /\ staged' = [staged EXCEPT ![n] = None]
  /\ Disturb
  /\ UNCHANGED <<object, row, profile, clock, pc, request, answer, others>>

(* clearTempFolder lists and deletes page by page and swallows every       *)
(* error: any part of the area may be left, and the answer is 200.         *)
ClearStaging ==
  /\ \E kept \in SUBSET Names :
       staged' = [n \in Names |-> IF n \in kept THEN staged[n] ELSE None]
  /\ Disturb
  /\ UNCHANGED <<object, row, profile, clock, pc, request, answer, others>>

(* A cleaning round, between any two calls of a PUT.                       *)
SoftDelete(k) ==
  /\ row[k] # None /\ ~row[k].deleted
  /\ row' = [row EXCEPT ![k].deleted = TRUE]
  /\ UNCHANGED <<staged, object, profile, clock, pc, request, answer, alone, others>>

----------------------------------------------------------------------------
(* PUT /SyncClipboard.json *)

Goto(r, label) == pc' = [pc EXCEPT ![r] = label] /\ UNCHANGED answer

(* The answer; with it the handler forgets all it held.                    *)
Finish(r, status) ==
  /\ pc' = [pc EXCEPT ![r] = "done"]
  /\ answer' = [answer EXCEPT ![r] = status]
  /\ offer' = [offer EXCEPT ![r] = None]
  /\ stamp' = [stamp EXCEPT ![r] = 0]
  /\ content' = [content EXCEPT ![r] = None]
  /\ held' = [held EXCEPT ![r] = None]

(* The request is parsed and takes its time stamp; a digest without data   *)
(* contradicts itself.                                                     *)
Start(r) ==
  /\ ~InFlight(r) /\ clock < MaxPuts /\ (revisions > 0 => clock < MaxBeside)
  /\ \E o \in Offers :
       /\ alone' = [q \in Puts |-> IF q = r THEN Quiet /\ Ready(o)
                                            ELSE alone[q] /\ ~InFlight(q)]
       /\ \/ ~o.data /\ o.digest # None /\ Finish(r, 400)
          \/ /\ o.data \/ o.digest = None
             /\ pc' = [pc EXCEPT ![r] = "lookup"]
             /\ offer' = [offer EXCEPT ![r] = o]
             /\ stamp' = [stamp EXCEPT ![r] = clock + 1]
             /\ answer' = [answer EXCEPT ![r] = None]
             /\ UNCHANGED <<content, held>>
  /\ clock' = clock + 1
  /\ UNCHANGED <<store, profile, others>>

(* getByTypeAndHash with the declared hash and the declared type; a record *)
(* in the recycle bin does not count.                                      *)
Lookup(r) ==
  LET o == offer[r]
      asked == IF o.hash = None THEN None ELSE row[<<o.type, o.hash>>]
      known == asked # None /\ ~asked.deleted
  IN /\ pc[r] = "lookup"
     /\ \/ /\ known /\ Goto(r, "reuse")
           /\ held' = [held EXCEPT ![r] = asked]
           /\ UNCHANGED <<offer, stamp, content>>
        \/ /\ ~known /\ (IF o.data THEN o.named ELSE InlineValid(o))
           /\ Goto(r, IF o.data THEN "take" ELSE "find")
           /\ UNCHANGED request
        \/ ~known /\ ~(IF o.data THEN o.named ELSE InlineValid(o)) /\ Finish(r, 400)
     /\ UNCHANGED <<store, profile, clock, alone, others>>

(* updateEntity writes the whole row as it was read, with a new time.      *)
Untouched(r) == held[r]                                              \* a fault
Touched(r) == [held[r] EXCEPT !.at = stamp[r], !.put = stamp[r]]

Reuse(r) ==
  /\ pc[r] = "reuse"
  /\ row' = [row EXCEPT ![held[r].key] = Touched(r)]
  /\ held' = [held EXCEPT ![r] = Touched(r)]
  /\ Goto(r, "set")
  /\ UNCHANGED <<staged, object, profile, clock, offer, stamp, content, alone, others>>

(* getTemp, its size, and the checks of the bytes it returns.              *)
Take(r) ==
  LET bytes == staged[offer[r].name]
  IN /\ pc[r] = "take"
     /\ \/ bytes = None /\ Finish(r, 404)
        \/ bytes \in TooLarge /\ Goto(r, "drop") /\ UNCHANGED request
        \/ bytes \in Bytes \ TooLarge /\ ~DataValid(offer[r], bytes) /\ Finish(r, 400)
        \/ /\ bytes \in Bytes \ TooLarge /\ DataValid(offer[r], bytes)
           /\ Goto(r, "persist")
           /\ content' = [content EXCEPT ![r] = bytes]
           /\ UNCHANGED <<offer, stamp, held>>
     /\ UNCHANGED <<store, profile, clock, alone, others>>

Drop(r) ==
  /\ pc[r] = "drop"
  /\ staged' = [staged EXCEPT ![offer[r].name] = None]
  /\ Finish(r, 413)
  /\ UNCHANGED <<object, row, profile, clock, alone, others>>

(* putHistory                                                              *)
Persist(r) ==
  /\ pc[r] = "persist"
  /\ object' = [object EXCEPT ![<<Key(r), offer[r].name>>] = content[r]]
  /\ Goto(r, "consume")
  /\ UNCHANGED <<staged, row, profile, clock, request, alone, others>>

(* deleteTemp takes whatever is staged under the name by now.              *)
Consume(r) ==
  /\ pc[r] = "consume"
  /\ staged' = [staged EXCEPT ![offer[r].name] = None]
  /\ Goto(r, "find")
  /\ UNCHANGED <<object, row, profile, clock, request, alone, others>>

(* addProfile reads the row by the new type; without a declared hash it    *)
(* inserts at once and reads only when that fails.                         *)
Find(r) ==
  /\ pc[r] = "find"
  /\ LET declared == <<ResolveCreateType(offer[r]), offer[r].hash>>
         found == IF offer[r].hash = None THEN None ELSE row[declared]
     IN /\ held' = [held EXCEPT ![r] = found]
        /\ Goto(r, IF found # None THEN "merge" ELSE "insert")
  /\ UNCHANGED <<store, profile, clock, offer, stamp, content, alone, others>>

NamedData(r) == [name |-> offer[r].name, digest |-> content[r]]      \* a fault
Data(r) == [name |-> IF content[r] = None THEN None ELSE offer[r].name,
            digest |-> content[r]]
Fresh(r) == [key |-> Key(r), deleted |-> FALSE, name |-> Data(r).name,
             digest |-> Data(r).digest, at |-> stamp[r], put |-> stamp[r]]

(* INSERT; a conflict reads the row there is and merges into it.           *)
Insert(r) ==
  /\ pc[r] = "insert"
  /\ IF row[Key(r)] = None
     THEN /\ row' = [row EXCEPT ![Key(r)] = Fresh(r)]
          /\ held' = [held EXCEPT ![r] = Fresh(r)]
          /\ Goto(r, "set")
     ELSE /\ held' = [held EXCEPT ![r] = row[Key(r)]]
          /\ Goto(r, "merge")
          /\ UNCHANGED row
  /\ UNCHANGED <<staged, object, profile, clock, offer, stamp, content, alone, others>>

(* mergeExistingProfile: alive again, with the data of this PUT if it has  *)
(* any, and with those of the row as it was read otherwise.                *)
StillDeleted(r) == [Fresh(r) EXCEPT !.deleted = held[r].deleted]     \* a fault
Merged(r) ==
  IF content[r] # None THEN [Fresh(r) EXCEPT !.key = held[r].key]
  ELSE [Fresh(r) EXCEPT !.key = held[r].key, !.name = held[r].name, !.digest = held[r].digest]

Merge(r) ==
  /\ pc[r] = "merge"
  /\ row' = [row EXCEPT ![held[r].key] = Merged(r)]
  /\ held' = [held EXCEPT ![r] = Merged(r)]
  /\ Goto(r, "set")
  /\ UNCHANGED <<staged, object, profile, clock, offer, stamp, content, alone, others>>

(* setCurrentProfileJson                                                   *)
SetCurrent(r) ==
  /\ pc[r] = "set"
  /\ current' = ProfileOf(held[r])
  /\ news' = "pending"
  /\ sole' = alone[r]
  /\ Goto(r, "announce")
  /\ UNCHANGED <<store, told, clock, request, alone, others>>

(* notifyProfile; broadcast swallows its errors.                           *)
AsOffered(r) ==                                                      \* a fault
  [key |-> <<offer[r].type, held[r].key[2]>>, name |-> held[r].name]
Announced(r) == ProfileOf(held[r])

Announce(r) ==
  /\ pc[r] = "announce"
  /\ \/ /\ told' = Announced(r)
        /\ news' = IF Announced(r) = current THEN "told" ELSE news
     \/ /\ news' = IF ProfileOf(held[r]) = current THEN "lost" ELSE news
        /\ UNCHANGED told
  /\ Finish(r, 200)
  /\ UNCHANGED <<store, current, sole, clock, alone, others>>

(* A call fails, or the isolate is gone.  What goes wrong while the data   *)
(* are checked and stored is answered with 400, like data that do not      *)
(* match; everything else is 500.                                          *)
Fail(r) ==
  /\ InFlight(r)
  /\ Finish(r, IF pc[r] = "persist" THEN 400 ELSE 500)
  /\ alone' = [alone EXCEPT ![r] = FALSE]
  /\ sole' = FALSE
  /\ news' = IF pc[r] = "announce" /\ ProfileOf(held[r]) = current THEN "lost" ELSE news
  /\ UNCHANGED <<store, current, told, clock, others>>

PutStep(r) ==
  Start(r) \/ Lookup(r) \/ Reuse(r) \/ Take(r) \/ Drop(r) \/ Persist(r) \/ Consume(r)
  \/ Find(r) \/ Insert(r) \/ Merge(r) \/ SetCurrent(r) \/ Announce(r) \/ Fail(r)

----------------------------------------------------------------------------
(* The other requests that write records *)

Begin(o, label, entity) ==
  /\ stage[o] = "idle" /\ revisions < MaxRevisions /\ clock <= MaxBeside
  /\ stage' = [stage EXCEPT ![o] = label]
  /\ draft' = [draft EXCEPT ![o] = entity]
  /\ revisions' = revisions + 1

End(o) ==
  /\ stage' = [stage EXCEPT ![o] = "idle"]
  /\ draft' = [draft EXCEPT ![o] = None]
  /\ UNCHANGED revisions

(* PATCH, POST and the web interface read the row they are to change.  A   *)
(* POST may find it in the recycle bin and bring its data again, which are *)
(* stored under the name of the row, having its hash.                      *)
Read(o, k) ==
  /\ row[k] # None
  /\ Begin(o, "update", row[k])
  /\ \/ UNCHANGED object
     \/ /\ row[k].deleted /\ row[k].name # None
        /\ \E bytes \in Bytes \ TooLarge :
             /\ ProfileHash(k[1], row[k].name, bytes) = k[2]
             /\ object' = [object EXCEPT ![<<k, row[k].name>>] = bytes]
  /\ UNCHANGED <<staged, row, profile, clock, pc, request, answer, alone>>

(* A POST finds no row and stores its data: those of an archive have       *)
(* entries, and only a text can do without.                                *)
Upload(o, u) ==
  LET k == <<u.type, ProfileHash(u.type, u.name, u.bytes)>>
  IN /\ row[k] = None
     /\ u.data \/ u.type = "Text"
     /\ u.type = "Group" => Entries[u.bytes] # None
     /\ Begin(o, "insert", [key |-> k, deleted |-> FALSE,
                           name |-> IF u.data THEN u.name ELSE None,
                           digest |-> IF u.data THEN u.bytes ELSE None,
                           at |-> 0, put |-> -1])
     /\ IF u.data THEN object' = [object EXCEPT ![<<k, u.name>>] = u.bytes]
                  ELSE UNCHANGED object
     /\ UNCHANGED <<staged, row, profile, clock, pc, request, answer, alone>>

(* It INSERTs the row with the times and the flags of the client; if there *)
(* is one by now, that is read and gets no more than these.                *)
Create(o) ==
  LET k == draft[o].key
  IN /\ stage[o] = "insert"
     /\ \/ /\ row[k] = None
           /\ \E at \in 0..MaxPuts, deleted \in BOOLEAN :
                row' = [row EXCEPT ![k] = [draft[o] EXCEPT !.at = at, !.deleted = deleted]]
           /\ End(o)
        \/ /\ row[k] # None
           /\ stage' = [stage EXCEPT ![o] = "update"]
           /\ draft' = [draft EXCEPT ![o] = row[k]]
           /\ UNCHANGED <<row, revisions>>
     /\ UNCHANGED <<staged, object, profile, clock, pc, request, answer, alone>>

(* updateEntity: all columns, as they were read, but for the times and the *)
(* flags that came with the request.                                       *)
Update(o) ==
  LET k == draft[o].key
  IN /\ stage[o] = "update"
     /\ \E at \in 0..MaxPuts, deleted \in BOOLEAN :
          row' = [row EXCEPT ![k] = [draft[o] EXCEPT !.at = at, !.deleted = deleted,
                                                     !.put = row[k].put]]
     /\ End(o)
     /\ UNCHANGED <<staged, object, profile, clock, pc, request, answer, alone>>

(* 400, 409, 422, an older version, a call that fails: nothing is written. *)
GiveUp(o) ==
  /\ stage[o] # "idle"
  /\ End(o)
  /\ UNCHANGED <<store, profile, clock, pc, request, answer, alone>>

OtherStep(o) ==
  \/ \E k \in Keys : Read(o, k)
  \/ \E u \in Uploads : Upload(o, u)
  \/ Create(o) \/ Update(o) \/ GiveUp(o)

Next ==
  \/ \E r \in Puts : PutStep(r)
  \/ \E o \in Others : OtherStep(o)
  \/ \E n \in Names : Unstage(n) \/ \E bytes \in Bytes : Stage(n, bytes)
  \/ ClearStaging
  \/ \E k \in Keys : SoftDelete(k)

Spec == Init /\ [][Next]_vars

----------------------------------------------------------------------------
(* GET /file/<name>: the newest record of that name whose object exists,   *)
(* in the recycle bin or not; of several equally new ones any.             *)
Candidates(n) == {k \in Keys : row[k] # None /\ row[k].name = n /\ object[<<k, n>>] # None}
Newest(n) == {k \in Candidates(n) : \A other \in Candidates(n) : row[other].at <= row[k].at}

----------------------------------------------------------------------------
(* Properties *)

(* Whoever staged what under its name in the meantime, a record is never   *)
(* stored with other bytes than its hash is of, nor without the bytes it   *)
(* cannot do without (profile.ts:87-92, profileWrite.ts:196).              *)
RowsAreWhole ==
  \A k \in Keys : row[k] # None =>
    /\ row[k].name = None => k[1] = "Text"
    /\ row[k].name # None =>
         LET bytes == object[<<k, row[k].name>>]
         IN bytes # None /\ k[2] = ProfileHash(k[1], row[k].name, bytes)

(* A PUT about to be answered 200 is not answered for nothing: the record  *)
(* it declares exists under the hash its client knows it by and under its  *)
(* type, or as an image (profileWrite.ts:149-152).                         *)
AcceptedIsRecorded ==
  \A r \in Puts : pc[r] = "announce" =>
    /\ row[held[r].key] # None
    /\ offer[r].hash \in {None, held[r].key[2]}
    /\ held[r].key[1] \in {offer[r].type, ResolveCreateType(offer[r])}

(* A client that has staged its data, with nobody else at work and no call *)
(* failing, gets its profile accepted, and its record is not left in the   *)
(* recycle bin (profileWrite.ts:50, 175-184).                              *)
UndisturbedSucceeds ==
  \A r \in Puts : alone[r] =>
    /\ pc[r] = "done" => answer[r] = 200
    /\ pc[r] = "announce" => ~held[r].deleted

(* The current profile has been announced since it was set, or is about to *)
(* be, unless the broadcast was lost; and without overlapping PUTs it is   *)
(* the last one announced (profileWrite.ts:40-48).                         *)
CurrentIsAnnounced ==
  /\ news = "pending" => \E r \in Puts : pc[r] = "announce" /\ ProfileOf(held[r]) = current
  /\ Quiet /\ sole /\ news = "told" => told = current

(* A client that downloads the data of the current profile by their name   *)
(* alone gets these data, if PUTs have not overlapped.  Other requests may *)
(* keep it from them, whenever they come and whatever they overlap, in two *)
(* ways only: an older state of the row of the current profile is written  *)
(* back, or another record of the same name was given its LastAccessed by  *)
(* a client - a touch is enough (webdav.ts:159-168, db.ts:546,             *)
(* profileWrite.ts:140).                                                   *)
CurrentIsServed ==
  LET k == current.key
      n == current.name
  IN Quiet /\ sole /\ current # None /\ n # None
     /\ row[k].name = n /\ row[k].at >= row[k].put
     => /\ Candidates(n) # {}
        /\ \A j \in Newest(n) : \/ k[2] = ProfileHash(k[1], n, object[<<j, n>>])
                                 \/ row[j].at > row[j].put
============================================================================
