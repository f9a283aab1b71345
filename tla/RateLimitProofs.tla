-------------------------- MODULE RateLimitProofs --------------------------
(***************************************************************************)
(* What the limit on failed logins is good for, whatever the number of     *)
(* addresses, isolates and messages: blocks outlive the memory they were   *)
(* counted in, and the failures that do not are recent ones; nobody is     *)
(* blocked who has not failed often enough; and an isolate compares no     *)
(* more than its own table lets through.                                   *)
(***************************************************************************)
EXTENDS RateLimit, FiniteSetTheorems, TLAPS

USE DEF Times, Deadlines

(* Types of what belongs to the object.                                    *)
HubTypes ==
  /\ now \in PersistInterval..MaxTime
  /\ loaded \in BOOLEAN
  /\ table \in Limits
  /\ unsaved \in Nat /\ savedAt \in Times
  /\ saved \in [Keys -> Deadlines]
  /\ disk \in Snapshot \cup {None}
  /\ faults \in Nat
  /\ missing \in Times

(* While it is awake, the object knows when it last wrote and which blocks *)
(* it wrote, and it has written every block that has not ended.            *)
Baselines ==
  loaded => /\ savedAt = IF disk = None THEN 0 ELSE disk.at
            /\ saved = IF disk = None THEN Blocks(Empty) ELSE Blocks(disk.limits)
            /\ \A k \in Keys : Blocks(table)[k] > now => saved[k] >= Blocks(table)[k]

(* No block ends later than one that begins now.                           *)
EndsSoon(limits) == \A k \in Keys : Blocks(limits)[k] <= now + Block
Ends == EndsSoon(table) /\ (disk # None => EndsSoon(disk.limits))

Asleep == ~loaded => table = Empty /\ savedAt = 0 /\ saved = Blocks(Empty)

HubInv == HubTypes /\ Asleep /\ Ends /\ (faults = 0 => Baselines) /\ ForgottenAreRecent

(* All the keys fit into the table: nothing is evicted for want of room.   *)
Roomy == Cardinality(Keys) <= MaxTracked

(* Pruning drops whole entries, and none that blocks.                      *)
LEMMA PruningKeepsBlocks ==
  ASSUME Roomy, NEW limits \in Limits, NEW kept \in Pruned(limits),
         now \in Nat, MaxTracked \in Nat
  PROVE  /\ kept \in Limits
         /\ \A k \in Keys : kept[k] \in {limits[k], None}
         /\ \A k \in Keys : Blocks(limits)[k] > now => kept[k] = limits[k]
<1> DEFINE live == {k \in Tracked(limits) : ~Expired(limits[k])}
<1>1. Cardinality(live) <= MaxTracked
  <2>1. live \subseteq Keys
    BY DEF Tracked
  <2>2. IsFiniteSet(Keys)
    BY ConstantsAssumption
  <2>3. Cardinality(live) <= Cardinality(Keys) /\ IsFiniteSet(live)
    BY <2>1, <2>2, FS_Subset
  <2>4. Cardinality(live) \in Nat /\ Cardinality(Keys) \in Nat
    BY <2>2, <2>3, FS_CardinalityType
  <2> QED
    BY <2>3, <2>4 DEF Roomy
<1>2. kept = limits \/ kept = Only(limits, live)
  BY <1>1 DEF Pruned
<1>3. ASSUME NEW k \in Keys, Blocks(limits)[k] > now
      PROVE  k \in live
  BY <1>3 DEF Blocks, Tracked, Expired, Blocked
<1> QED
  BY <1>2, <1>3 DEF Only, Limits

(* A failure gives an entry whose block is no shorter.                     *)
LEMMA FailureExtends ==
  ASSUME now \in Times, NEW entry \in Entry \cup {None}, MaxFailures \in Nat \ {0}, Block \in Nat,
         entry # None => entry.until <= now + Block, now + Block \in Deadlines
  PROVE  /\ AfterFailure(entry) \in Entry
         /\ entry # None => AfterFailure(entry).until >= entry.until
<1>1. NextCount(entry) \in 1..MaxFailures
  BY DEF NextCount, SameWindow, Smaller, Entry
<1> DEFINE start == IF SameWindow(entry) THEN entry.start ELSE now
           until == IF Reaches(entry) THEN now + Block
                    ELSE IF entry = None THEN 0 ELSE entry.until
<1>2. start \in Times
  BY DEF SameWindow, Entry
<1>3. until \in Deadlines /\ (entry # None => until >= entry.until)
  BY ConstantsAssumption DEF Entry
<1>4. AfterFailure(entry) = [start |-> start, count |-> NextCount(entry), until |-> until]
  BY DEF AfterFailure
<1> HIDE DEF start, until
<1> QED
  BY <1>1, <1>2, <1>3, <1>4 DEF Entry

(* What a step does to the object.                                         *)
Untouched == UNCHANGED <<now, memory, storage>>
Counts(k) == CountFailure(k) /\ UNCHANGED <<now, loaded>> /\ loaded
Deletes(k) == DeleteCount(k) /\ UNCHANGED <<now, loaded>> /\ loaded
Sanctioned(k) == ~Blocked(table[k]) \/ \E i \in Isolates : HandleClear(i, k)

LEMMA Effects ==
  ASSUME [Next]_vars
  PROVE  \/ Untouched \/ Load \/ Forget \/ Tick
         \/ \E k \in Keys : Counts(k)
         \/ \E k \in Keys : Deletes(k) /\ Sanctioned(k)
<1>1. ASSUME NEW i \in Isolates, NEW k \in Keys, Fails(i, k)
      PROVE  Untouched
  BY <1>1 DEF Fails, Untouched
<1>2. ASSUME NEW i \in Isolates, NEW k \in Keys, Succeeds(i, k)
      PROVE  Untouched
  BY <1>2 DEF Succeeds, Untouched
<1>3. ASSUME NEW i \in Isolates, NEW k \in Keys, NEW until \in Deadlines, Learns(i, k, until)
      PROVE  Untouched
  BY <1>3 DEF Learns, Untouched
<1>4. ASSUME NEW i \in Isolates, NEW k \in Keys, HandleReport(i, k)
      PROVE  Counts(k)
  BY <1>4 DEF HandleReport, Counts
<1>5. ASSUME NEW i \in Isolates, NEW k \in Keys, HandleSnapshot(i, k)
      PROVE  Untouched
  BY <1>5 DEF HandleSnapshot, Untouched
<1>6. ASSUME NEW i \in Isolates, NEW k \in Keys, HandleClear(i, k)
      PROVE  Deletes(k) /\ Sanctioned(k)
  BY <1>6 DEF HandleClear, Deletes, Sanctioned
<1>7. ASSUME NEW m \in DOMAIN mail, Lose(m)
      PROVE  Untouched
  BY <1>7 DEF Lose, Untouched
<1>8. ASSUME NEW k \in Keys, ConnectFails(k)
      PROVE  Counts(k)
  BY <1>8 DEF ConnectFails, Counts
<1>9. ASSUME NEW k \in Keys, ConnectSucceeds(k)
      PROVE  Deletes(k) /\ Sanctioned(k)
  BY <1>9 DEF ConnectSucceeds, Deletes, Sanctioned
<1>10. CASE UNCHANGED vars
  BY <1>10 DEF vars, Untouched
<1> QED
  BY <1>1, <1>2, <1>3, <1>4, <1>5, <1>6, <1>7, <1>8, <1>9, <1>10 DEF Next

LEMMA InitHub == Init => HubInv
<1> SUFFICES ASSUME Init PROVE HubInv
  OBVIOUS
<1>1. Empty \in Limits /\ Blocks(Empty) = [k \in Keys |-> 0]
  BY DEF Empty, Limits, Blocks
<1>2. HubTypes
  <2>1. PersistInterval \in PersistInterval..MaxTime /\ 0 \in Times /\ 0 \in Deadlines
    BY ConstantsAssumption
  <2>2. [k \in Keys |-> 0] \in [Keys -> Deadlines]
    BY <2>1
  <2> QED
    BY <1>1, <2>1, <2>2 DEF Init, HubTypes
<1>3. Ends
  BY <1>1, ConstantsAssumption DEF Init, Ends, EndsSoon
<1> QED
  BY <1>1, <1>2, <1>3 DEF Init, HubInv, Asleep, Baselines, ForgottenAreRecent

LEMMA BlocksType ==
  ASSUME NEW limits \in Limits
  PROVE  Blocks(limits) \in [Keys -> Deadlines]
<1>1. \A k \in Keys : limits[k] \in Entry \cup {None}
  BY DEF Limits
<1>2. \A k \in Keys : limits[k] # None => limits[k].until \in Deadlines
  BY <1>1 DEF Entry
<1>3. 0 \in Deadlines
  BY ConstantsAssumption
<1> QED
  BY <1>2, <1>3 DEF Blocks

(* A write keeps everything that the invariant asks for.                   *)
LEMMA WriteKeeps ==
  ASSUME HubInv, loaded, UNCHANGED <<now, loaded>>, NEW limits \in Limits, EndsSoon(limits),
         Write(limits)
  PROVE  HubInv'
<1>1. HubTypes'
  <2>1. Blocks(limits) \in [Keys -> Deadlines]
    BY BlocksType
  <2>2. [at |-> now, limits |-> limits] \in Snapshot
    BY ConstantsAssumption DEF HubInv, HubTypes, Snapshot
  <2> QED
    BY <2>1, <2>2, ConstantsAssumption DEF HubInv, HubTypes, Write
<1>2. Ends'
  BY DEF HubInv, Ends, EndsSoon, Write, Blocks
<1>3. faults' = 0 => disk' = [at |-> now, limits |-> limits] /\ disk' # None /\ missing' = 0
  <2>1. [at |-> now, limits |-> limits] \in Snapshot
    BY ConstantsAssumption DEF HubInv, HubTypes, Snapshot
  <2>2. faults' = 0 => disk' = [at |-> now, limits |-> limits] /\ missing' = 0
    BY DEF HubInv, HubTypes, Write
  <2> QED
    BY <2>1, <2>2, NoneAssumption
<1>4. faults' = 0 => Baselines'
  BY <1>3, BlocksType DEF Baselines, Write, HubInv, HubTypes, Blocks
<1>5. ForgottenAreRecent'
  BY <1>3 DEF ForgottenAreRecent, Write, HubInv, HubTypes
<1> QED
  BY <1>1, <1>2, <1>4, <1>5 DEF HubInv, Asleep

LEMMA CountKeeps ==
  ASSUME HubInv, Roomy, NEW k \in Keys, Counts(k)
  PROVE  /\ HubInv'
         /\ \A l \in Keys : Blocks(table)[l] > now => Blocks(table')[l] >= Blocks(table)[l]
<1> DEFINE counted == [table EXCEPT ![k] = AfterFailure(@)]
<1>1. table[k] \in Entry \cup {None} /\ (table[k] # None => table[k].until <= now + Block)
  BY DEF HubInv, HubTypes, Limits, Ends, EndsSoon, Blocks
<1>2. /\ AfterFailure(table[k]) \in Entry
      /\ table[k] # None => AfterFailure(table[k]).until >= table[k].until
  <2>1. now \in Times /\ now + Block \in Deadlines
    BY ConstantsAssumption DEF HubInv, HubTypes
  <2> QED
    BY <1>1, <2>1, FailureExtends, ConstantsAssumption
<1>3. counted \in Limits
  BY <1>2 DEF HubInv, HubTypes, Limits
<1>4. PICK limits \in Pruned(counted) :
        IF Changed(limits) THEN Write(limits)
        ELSE /\ table' = limits
             /\ unsaved' = unsaved + 1 /\ missing' = now
             /\ UNCHANGED <<savedAt, saved, disk, faults>>
  BY DEF Counts, CountFailure
<1>5. /\ limits \in Limits
      /\ \A l \in Keys : limits[l] \in {counted[l], None}
      /\ \A l \in Keys : Blocks(counted)[l] > now => limits[l] = counted[l]
  <2>1. now \in Nat /\ MaxTracked \in Nat
    BY ConstantsAssumption DEF HubInv, HubTypes
  <2> HIDE DEF counted
  <2> QED
    BY <1>3, <1>4, <2>1, PruningKeepsBlocks
<1>6. AfterFailure(table[k]).until <= now + Block
  BY <1>1, <1>2, ConstantsAssumption, NoneAssumption DEF AfterFailure, HubInv, HubTypes, Entry
<1>7. EndsSoon(limits)
  <2> SUFFICES ASSUME NEW l \in Keys PROVE Blocks(limits)[l] <= now + Block
    BY DEF EndsSoon
  <2>1. counted[l] = IF l = k THEN AfterFailure(table[k]) ELSE table[l]
    BY DEF HubInv, HubTypes, Limits
  <2>2. Blocks(table)[l] <= now + Block /\ now + Block >= 0
    BY ConstantsAssumption DEF HubInv, HubTypes, Ends, EndsSoon
  <2> QED
    BY <1>5, <1>6, <2>1, <2>2 DEF Blocks
<1>8. \A l \in Keys : Blocks(table)[l] > now => Blocks(limits)[l] >= Blocks(table)[l]
  <2> SUFFICES ASSUME NEW l \in Keys, Blocks(table)[l] > now
               PROVE  Blocks(limits)[l] >= Blocks(table)[l]
    OBVIOUS
  <2>1. counted[l] = IF l = k THEN AfterFailure(table[k]) ELSE table[l]
    BY DEF HubInv, HubTypes, Limits
  <2>2. table[l] # None /\ Blocks(table)[l] = table[l].until /\ now \in Nat
    BY ConstantsAssumption DEF Blocks, HubInv, HubTypes
  <2>3. /\ counted[l] # None /\ counted[l] \in Entry
        /\ counted[l].until >= table[l].until
    BY <1>2, <2>1, <2>2, <1>3, NoneAssumption DEF Limits, HubInv, HubTypes, Entry
  <2>4. Blocks(counted)[l] = counted[l].until
    BY <2>3 DEF Blocks
  <2>5. table[l].until \in Int /\ counted[l].until \in Int
    BY <2>2, <2>3, ConstantsAssumption DEF Entry, HubInv, HubTypes, Limits
  <2>6. Blocks(counted)[l] > now
    BY <2>2, <2>3, <2>4, <2>5
  <2> QED
    BY <1>5, <2>6, <2>2, <2>3 DEF Blocks
<1>9. CASE Changed(limits)
  BY <1>4, <1>5, <1>7, <1>8, <1>9, WriteKeeps DEF Counts, Write
<1>10. CASE ~Changed(limits)
  <2>1. /\ table' = limits /\ unsaved' = unsaved + 1 /\ missing' = now
        /\ UNCHANGED <<savedAt, saved, disk, faults, now, loaded>>
    BY <1>4, <1>10 DEF Counts
  <2>2. HubTypes'
    BY <1>5, <2>1, ConstantsAssumption DEF HubInv, HubTypes
  <2>3. Ends'
    BY <1>7, <2>1 DEF HubInv, Ends, EndsSoon, Blocks
  <2>4. ASSUME NEW l \in Keys, Blocks(limits)[l] > now
        PROVE  saved[l] >= Blocks(limits)[l]
    BY <1>5, <1>10, <2>4, BlocksType, ConstantsAssumption
    DEF Changed, BlockBegan, Blocked, Blocks, HubInv, HubTypes
  <2>5. faults' = 0 => Baselines'
    BY <2>1, <2>4 DEF HubInv, Baselines, Blocks
  <2>6. ASSUME faults' = 0
        PROVE  disk' # None /\ now < disk'.at + PersistInterval
    <3>1. now - savedAt < PersistInterval /\ Baselines
      BY <1>10, <2>1, <2>6, ConstantsAssumption DEF Changed, HubInv, HubTypes
    <3> QED
      BY <3>1, <2>1, ConstantsAssumption DEF Baselines, Counts, HubInv, HubTypes, Snapshot
  <2>7. ForgottenAreRecent'
    BY <2>1, <2>6 DEF ForgottenAreRecent
  <2> QED
    BY <1>8, <2>1, <2>2, <2>3, <2>5, <2>7 DEF HubInv, Asleep, Counts
<1> QED
  BY <1>9, <1>10

LEMMA DeleteKeeps ==
  ASSUME HubInv, NEW k \in Keys, Deletes(k)
  PROVE  HubInv' /\ \A l \in Keys \ {k} : Blocks(table')[l] = Blocks(table)[l]
<1>1. CASE table[k] = None
  <2>1. UNCHANGED <<now, loaded, table, unsaved, savedAt, saved, disk, faults, missing>>
    BY <1>1 DEF Deletes, DeleteCount, storage
  <2> QED
    BY <2>1 DEF HubInv, HubTypes, Asleep, Ends, EndsSoon, Baselines, ForgottenAreRecent, Blocks, Empty
<1>2. CASE table[k] # None
  <2> DEFINE limits == [table EXCEPT ![k] = None]
  <2>1. limits \in Limits /\ Write(limits)
    BY <1>2 DEF Deletes, DeleteCount, HubInv, HubTypes, Limits
  <2>2. EndsSoon(limits)
    BY ConstantsAssumption DEF EndsSoon, Blocks, HubInv, HubTypes, Ends, Limits
  <2>3. \A l \in Keys \ {k} : Blocks(limits)[l] = Blocks(table)[l]
    BY DEF Blocks, HubInv, HubTypes, Limits
  <2> QED
    BY <2>1, <2>2, <2>3, WriteKeeps DEF Deletes, Write
<1> QED
  BY <1>1, <1>2

LEMMA TickKeeps ==
  ASSUME HubInv, Tick
  PROVE  HubInv'
<1>1. now' = now + 1 /\ now' \in PersistInterval..MaxTime /\ UNCHANGED <<memory, storage>>
  BY ConstantsAssumption DEF Tick, HubInv, HubTypes
<1>2. HubTypes'
  BY <1>1 DEF HubInv, HubTypes, memory, storage
<1>3. ASSUME NEW limits \in Limits, EndsSoon(limits)
      PROVE  \A k \in Keys : Blocks(limits)[k] <= now' + Block
  BY <1>1, <1>3, BlocksType, ConstantsAssumption DEF EndsSoon, HubInv, HubTypes
<1>4. Ends'
  BY <1>1, <1>3 DEF HubInv, HubTypes, Ends, EndsSoon, memory, storage, Snapshot, Blocks
<1>5. faults' = 0 => Baselines'
  <2> SUFFICES ASSUME faults' = 0 PROVE Baselines'
    OBVIOUS
  <2>1. Baselines
    BY <1>1 DEF HubInv, storage
  <2>2. \A k \in Keys : Blocks(table)[k] > now' => Blocks(table)[k] > now
    BY <1>1, BlocksType, ConstantsAssumption DEF HubInv, HubTypes
  <2> QED
    BY <1>1, <2>1, <2>2 DEF Baselines, memory, storage, Blocks
<1>6. ForgottenAreRecent'
  BY <1>1 DEF HubInv, ForgottenAreRecent, storage
<1>7. Asleep'
  BY <1>1 DEF HubInv, Asleep, memory, Blocks, Empty
<1> QED
  BY <1>2, <1>4, <1>5, <1>6, <1>7 DEF HubInv

LEMMA LoadKeeps ==
  ASSUME HubInv, Load
  PROVE  HubInv' /\ (faults' = 0 => table' = IF disk = None THEN Empty ELSE disk.limits)
<1>1. UNCHANGED <<now, disk, missing>> /\ loaded' = TRUE /\ unsaved' = 0
  BY DEF Load
<1>2. table = Empty /\ savedAt = 0 /\ saved = Blocks(Empty)
  BY DEF HubInv, Asleep, Load
<1>3. CASE /\ disk # None /\ faults' = faults
           /\ table' = disk.limits /\ savedAt' = disk.at /\ saved' = Blocks(disk.limits)
  <2>1. disk.at \in Times /\ disk.limits \in Limits
    BY <1>3 DEF HubInv, HubTypes, Snapshot
  <2>2. saved' \in [Keys -> Deadlines]
    BY <1>3, <2>1, BlocksType
  <2>3. HubTypes'
    BY <1>1, <1>3, <2>1, <2>2 DEF HubInv, HubTypes
  <2>4. Ends'
    BY <1>1, <1>3 DEF HubInv, Ends, EndsSoon, Blocks
  <2>5. \A k \in Keys : saved'[k] >= Blocks(table)'[k]
    BY <1>3, <2>2, ConstantsAssumption DEF Blocks
  <2>6. Baselines'
    BY <1>1, <1>3, <2>5 DEF Baselines, Blocks
  <2> QED
    BY <1>1, <1>3, <2>3, <2>4, <2>6 DEF HubInv, Asleep, ForgottenAreRecent
<1>4. CASE UNCHANGED <<table, savedAt, saved>> /\ (faults' = 0 => disk = None /\ faults' = faults)
           /\ faults' \in Nat
  <2>1. HubTypes'
    BY <1>1, <1>4 DEF HubInv, HubTypes
  <2>2. Ends'
    BY <1>1, <1>4 DEF HubInv, Ends, EndsSoon, Blocks
  <2>3. faults' = 0 => Baselines'
    BY <1>1, <1>2, <1>4 DEF Baselines, Blocks, Empty, HubInv, HubTypes
  <2>4. ForgottenAreRecent'
    BY <1>1, <1>4 DEF HubInv, ForgottenAreRecent
  <2> QED
    BY <1>1, <1>2, <1>4, <2>1, <2>2, <2>3, <2>4 DEF HubInv, Asleep
<1> QED
  <2>1. CASE faults' = faults + 1
    BY <1>4, <2>1 DEF Load, HubInv, HubTypes
  <2>2. CASE UNCHANGED faults
    BY <1>3, <1>4, <2>2 DEF Load, Baseline, HubInv, HubTypes
  <2> QED
    BY <2>1, <2>2 DEF Load

LEMMA ForgetKeeps ==
  ASSUME HubInv, Forget
  PROVE  HubInv'
<1>1. /\ loaded' = FALSE /\ table' = Empty /\ unsaved' = 0
      /\ savedAt' = 0 /\ saved' = Blocks(Empty)
      /\ UNCHANGED <<now, disk, faults, missing>>
  BY DEF Forget, storage
<1>2. Empty \in Limits
  BY DEF Empty, Limits
<1>3. HubTypes'
  <2>1. saved' \in [Keys -> Deadlines] /\ savedAt' \in Times
    BY <1>1, <1>2, BlocksType, ConstantsAssumption
  <2> QED
    BY <1>1, <1>2, <2>1 DEF HubInv, HubTypes
<1>4. EndsSoon(Empty)
  BY ConstantsAssumption DEF EndsSoon, Blocks, Empty, HubInv, HubTypes
<1>5. Ends'
  BY <1>1, <1>4 DEF HubInv, Ends, EndsSoon, Blocks, Empty
<1> QED
  BY <1>1, <1>3, <1>5 DEF HubInv, Baselines, ForgottenAreRecent, Asleep, Blocks, Empty

(* The invariant, and what a step may do to a block.                       *)
LEMMA StepKeeps ==
  ASSUME HubInv, Roomy, [Next]_vars
  PROVE  HubInv'
<1>1. CASE Untouched
  BY <1>1 DEF Untouched, memory, storage, HubInv, HubTypes, Asleep, Ends, EndsSoon, Baselines,
              ForgottenAreRecent, Blocks, Empty
<1> QED
  BY <1>1, Effects, LoadKeeps, ForgetKeeps, TickKeeps, CountKeeps, DeleteKeeps

(* A block outlives the memory it was counted in.                          *)
LEMMA StepSpares ==
  ASSUME HubInv, Roomy, [Next]_vars, NEW k \in Keys, Judged(k) > now, faults' = 0
  PROVE  Judged(k)' >= Judged(k) \/ \E i \in Isolates : HandleClear(i, k)
<1>1. Judged(k) \in Nat /\ now \in Nat
  BY BlocksType, ConstantsAssumption DEF Judged, HubInv, HubTypes, Snapshot
<1>2. loaded => Blocks(table)[k] = Judged(k)
  BY DEF Judged
<1>3. CASE Untouched
  BY <1>1, <1>3 DEF Untouched, memory, storage, Judged, Blocks
<1>4. CASE Load
  BY <1>1, <1>4, LoadKeeps DEF Load, Judged, Blocks, Empty
<1>5. CASE Forget
  <2>1. faults = 0 /\ loaded /\ ~loaded' /\ disk' = disk
    BY <1>5 DEF Forget, storage
  <2>2. disk # None /\ Blocks(disk.limits)[k] >= Judged(k)
    BY <1>1, <1>2, <2>1, ConstantsAssumption DEF HubInv, Baselines, Blocks, Empty
  <2> QED
    BY <2>1, <2>2 DEF Judged, Blocks
<1>6. CASE Tick
  BY <1>1, <1>6 DEF Tick, memory, storage, Judged, Blocks
<1>7. ASSUME NEW l \in Keys, Counts(l)
      PROVE  Judged(k)' >= Judged(k)
  BY <1>2, <1>7, CountKeeps DEF Counts, Judged, Blocks
<1>8. ASSUME NEW l \in Keys, Deletes(l), Sanctioned(l), ~\E i \in Isolates : HandleClear(i, k)
      PROVE  Judged(k)' >= Judged(k)
  <2>1. l # k
    <3>1. Blocked(table[k])
      BY <1>1, <1>2, <1>8 DEF Blocked, Blocks, Deletes
    <3> QED
      BY <1>8, <3>1, Zenon DEF Sanctioned
  <2> QED
    BY <1>1, <1>2, <1>8, <2>1, DeleteKeeps DEF Deletes, Judged, Blocks
<1> QED
  BY <1>3, <1>4, <1>5, <1>6, <1>7, <1>8, Effects

(* The invariant holds for ever.                                           *)
THEOREM HubInvariant == Roomy /\ Spec => []HubInv
<1> SUFFICES ASSUME Roomy PROVE Spec => []HubInv
  OBVIOUS
<1>1. HubInv /\ [Next]_vars => HubInv'
  BY StepKeeps
<1> QED
  BY <1>1, InitHub, PTL DEF Spec

(* ForgottenAreRecent, whenever the table has room for every address: what *)
(* hibernation of the object may forget came less than the interval of the *)
(* throttle after the last write.                                          *)
THEOREM RecentForgotten == Roomy /\ Spec => []ForgottenAreRecent
<1>1. HubInv => ForgottenAreRecent
  BY DEF HubInv
<1> QED
  BY <1>1, HubInvariant, PTL

(* BlocksSurvive, under the same condition: no hibernation, restart or     *)
(* message shortens a block that the object has begun.                     *)
THEOREM BlocksOutliveMemory == Roomy /\ Spec => BlocksSurvive
<1> SUFFICES ASSUME Roomy PROVE Spec => BlocksSurvive
  OBVIOUS
<1>1. HubInv /\ [Next]_vars =>
        [\A k \in Keys : Judged(k) > now /\ faults' = 0 =>
           Judged(k)' >= Judged(k) \/ \E i \in Isolates : HandleClear(i, k)]_vars
  BY StepSpares
<1> QED
  BY <1>1, HubInvariant, PTL DEF Spec, BlocksSurvive

----------------------------------------------------------------------------
(* BlocksHaveCause: what an address has failed pays for everything that is *)
(* counted against it, wherever the messages are.                          *)

CauseTypes ==
  /\ now \in PersistInterval..MaxTime
  /\ local \in [Isolates -> Limits]
  /\ mail \in [Ops \X Isolates \X Keys -> 0..MaxMail]
  /\ answers \in [Isolates \X Keys \X Deadlines -> Nat]
  /\ table \in Limits
  /\ disk \in Snapshot \cup {None}
  /\ failed \in [Keys -> 0..MaxFailures]

Count(entry) == IF entry = None THEN 0 ELSE entry.count

(* The reports of failures of an address that have not arrived, numbered   *)
(* in each isolate.                                                        *)
Outstanding(k) == {x \in Isolates \X (1..MaxMail) : x[2] <= mail[<<"report", x[1], k>>]}
Due(k) == Cardinality(Outstanding(k))

(* An entry that cost no more than n failures and blocks nothing.          *)
Paid(entry, n) == Count(entry) <= n /\ (entry # None => entry.until = 0)

PaidByObject(k) ==
  /\ Paid(table[k], failed[k] - Due(k))
  /\ disk # None => Paid(disk.limits[k], failed[k] - Due(k))
PaidByIsolates(k) == \A i \in Isolates : Paid(local[i][k], failed[k])
NoAnswer(k) == \A i \in Isolates, until \in Deadlines : answers[<<i, k, until>>] = 0

CauseInv ==
  /\ CauseTypes
  /\ \A k \in Keys :
       /\ IsFiniteSet(Outstanding(k))
       /\ failed[k] < MaxFailures => PaidByObject(k) /\ PaidByIsolates(k) /\ NoAnswer(k)

(* Pruning drops whole entries.                                            *)
LEMMA PruningDrops ==
  ASSUME NEW limits \in Limits, NEW kept \in Pruned(limits)
  PROVE  kept \in Limits /\ \A k \in Keys : kept[k] \in {limits[k], None}
BY DEF Pruned, Only, Limits

(* A failure adds one to a count, and a block only at MaxFailures.         *)
LEMMA FailureCounts ==
  ASSUME now \in PersistInterval..MaxTime, NEW entry \in Entry \cup {None}
  PROVE  /\ AfterFailure(entry) \in Entry
         /\ \A n \in Int : n + 1 < MaxFailures /\ Paid(entry, n) => Paid(AfterFailure(entry), n + 1)
<1>1. /\ NextCount(entry) \in 1..MaxFailures
      /\ Count(entry) \in Nat /\ NextCount(entry) <= Count(entry) + 1
  BY ConstantsAssumption DEF NextCount, SameWindow, Smaller, Entry, Count
<1> DEFINE start == IF SameWindow(entry) THEN entry.start ELSE now
           until == IF Reaches(entry) THEN now + Block
                    ELSE IF entry = None THEN 0 ELSE entry.until
<1>2. start \in Times
  BY ConstantsAssumption DEF SameWindow, Entry
<1>3. until \in Deadlines
  BY ConstantsAssumption DEF Entry
<1>4. AfterFailure(entry) = [start |-> start, count |-> NextCount(entry), until |-> until]
  BY DEF AfterFailure
<1>5. ASSUME NEW n \in Int, n + 1 < MaxFailures, Paid(entry, n)
      PROVE  until = 0
  BY <1>1, <1>5, ConstantsAssumption DEF Paid, Reaches
<1> HIDE DEF start, until
<1>6. AfterFailure(entry) \in Entry
  BY <1>1, <1>2, <1>3, <1>4 DEF Entry
<1>7. ASSUME NEW n \in Int, n + 1 < MaxFailures, Paid(entry, n)
      PROVE  Paid(AfterFailure(entry), n + 1)
  <2>1. Count(AfterFailure(entry)) = NextCount(entry) /\ AfterFailure(entry).until = 0
    BY <1>4, <1>5, <1>6, <1>7, NoneAssumption DEF Count
  <2> QED
    BY <1>1, <1>7, <2>1 DEF Paid
<1> QED
  BY <1>6, <1>7

(* A report on its way is due; a message that is taken is due no longer.   *)
LEMMA PostedIsDue ==
  ASSUME CauseInv, NEW i \in Isolates, NEW k \in Keys, NEW others,
         \A m \in others : m \in DOMAIN mail /\ m[1] # "report",
         \A m \in DOMAIN mail : mail[m] < MaxMail,
         mail' = Post(mail, others \cup {<<"report", i, k>>})
  PROVE  /\ mail' \in [Ops \X Isolates \X Keys -> 0..MaxMail]
         /\ \A l \in Keys : IsFiniteSet(Outstanding(l)')
         /\ Due(k)' = Due(k) + 1
         /\ \A l \in Keys \ {k} : Due(l)' = Due(l)
<1>1. mail \in [Ops \X Isolates \X Keys -> 0..MaxMail] /\ MaxMail \in Nat
  BY ConstantsAssumption DEF CauseInv, CauseTypes
<1>2. mail' \in [Ops \X Isolates \X Keys -> 0..MaxMail]
  BY <1>1 DEF Post
<1> DEFINE new == <<i, mail[<<"report", i, k>>] + 1>>
<1>3. \A j \in Isolates, l \in Keys :
        mail'[<<"report", j, l>>] = IF j = i /\ l = k THEN mail[<<"report", j, l>>] + 1
                                    ELSE mail[<<"report", j, l>>]
  <2> TAKE j \in Isolates, l \in Keys
  <2>1. <<"report", j, l>> \in Ops \X Isolates \X Keys
    BY DEF Ops
  <2>2. <<"report", j, l>> \notin others
    OBVIOUS
  <2>3. <<"report", j, l>> = <<"report", i, k>> <=> j = i /\ l = k
    OBVIOUS
  <2> QED
    BY <1>1, <2>1, <2>2, <2>3 DEF Post
<1>4. \A j \in Isolates, l \in Keys : mail[<<"report", j, l>>] \in 0..MaxMail
  BY <1>1 DEF Ops
<1>5. Outstanding(k)' = Outstanding(k) \cup {new} /\ new \notin Outstanding(k)
  <2>1. mail[<<"report", i, k>>] + 1 \in 1..MaxMail
    <3>1. <<"report", i, k>> \in DOMAIN mail
      BY <1>1 DEF Ops
    <3> QED
      BY <1>1, <1>4, <3>1
  <2> DEFINE old == mail[<<"report", i, k>>]
  <2>2. ASSUME NEW x \in Isolates \X (1..MaxMail)
        PROVE  x \in Outstanding(k)' <=> x \in Outstanding(k) \/ x = new
    <3>1. PICK j \in Isolates, n \in 1..MaxMail : x = <<j, n>>
      OBVIOUS
    <3>2. x \in Outstanding(k)' <=> n <= mail'[<<"report", j, k>>]
      BY <3>1 DEF Outstanding
    <3>3. x \in Outstanding(k) <=> n <= mail[<<"report", j, k>>]
      BY <3>1 DEF Outstanding
    <3>4. old \in Int /\ (x = new <=> j = i /\ n = old + 1)
      BY <1>4, <3>1
    <3> HIDE DEF old
    <3>5. CASE j = i
      <4>1. mail'[<<"report", j, k>>] = old + 1 /\ mail[<<"report", j, k>>] = old
        BY <1>3, <3>5 DEF old
      <4> QED
        BY <3>2, <3>3, <3>4, <3>5, <4>1
    <3>6. CASE j # i
      BY <1>3, <3>2, <3>3, <3>4, <3>6
    <3> QED
      BY <3>5, <3>6
  <2>3. new \in Isolates \X (1..MaxMail)
    BY <2>1
  <2>4. Outstanding(k)' \subseteq Isolates \X (1..MaxMail)
    BY DEF Outstanding
  <2>5. Outstanding(k) \subseteq Isolates \X (1..MaxMail)
    BY DEF Outstanding
  <2>6. new \notin Outstanding(k)
    BY <1>4 DEF Outstanding
  <2> HIDE DEF new
  <2> QED
    BY <2>2, <2>3, <2>4, <2>5, <2>6
<1>6. \A l \in Keys \ {k} : Outstanding(l)' = Outstanding(l)
  BY <1>3 DEF Outstanding
<1>7. \A l \in Keys : IsFiniteSet(Outstanding(l))
  BY DEF CauseInv
<1>8. Due(k)' = Due(k) + 1 /\ IsFiniteSet(Outstanding(k)')
  BY <1>5, <1>7, FS_AddElement DEF Due
<1> QED
  BY <1>2, <1>6, <1>7, <1>8 DEF Due

LEMMA TakenIsNotDue ==
  ASSUME CauseInv, NEW m \in DOMAIN mail, mail[m] > 0, mail' = Take(mail, m)
  PROVE  /\ mail' \in [Ops \X Isolates \X Keys -> 0..MaxMail]
         /\ \A l \in Keys : IsFiniteSet(Outstanding(l)') /\ Due(l)' <= Due(l)
         /\ m[1] = "report" => Due(m[3])' = Due(m[3]) - 1
<1>1. mail \in [Ops \X Isolates \X Keys -> 0..MaxMail] /\ MaxMail \in Nat
  BY ConstantsAssumption DEF CauseInv, CauseTypes
<1>2. mail' \in [Ops \X Isolates \X Keys -> 0..MaxMail]
  BY <1>1 DEF Take
<1>3. \A l \in Keys : IsFiniteSet(Outstanding(l))
  BY DEF CauseInv
<1>4. ASSUME NEW l \in Keys
      PROVE  Outstanding(l)' \subseteq Outstanding(l)
  <2>1. \A j \in Isolates : mail'[<<"report", j, l>>] <= mail[<<"report", j, l>>]
    <3> TAKE j \in Isolates
    <3>1. <<"report", j, l>> \in Ops \X Isolates \X Keys
      BY DEF Ops
    <3> QED
      BY <1>1, <3>1 DEF Take
  <2>2. \A j \in Isolates : mail[<<"report", j, l>>] \in Int /\ mail'[<<"report", j, l>>] \in Int
    BY <1>1, <1>2 DEF Ops
  <2> QED
    BY <2>1, <2>2 DEF Outstanding
<1>5. \A l \in Keys : IsFiniteSet(Outstanding(l)') /\ Due(l)' <= Due(l)
  BY <1>3, <1>4, FS_Subset DEF Due
<1>6. ASSUME m[1] = "report"
      PROVE  Due(m[3])' = Due(m[3]) - 1
  <2> DEFINE i == m[2]
             k == m[3]
             x == <<i, mail[m]>>
  <2>1. i \in Isolates /\ k \in Keys /\ m = <<"report", i, k>>
    BY <1>1, <1>6
  <2> HIDE DEF i, k
  <2>2. \A j \in Isolates :
          mail'[<<"report", j, k>>] = IF j = i THEN mail[m] - 1 ELSE mail[<<"report", j, k>>]
    <3> TAKE j \in Isolates
    <3>1. <<"report", j, k>> \in Ops \X Isolates \X Keys
      BY <2>1 DEF Ops
    <3> QED
      BY <1>1, <2>1, <3>1 DEF Take
  <2>3. x \in Outstanding(k)
    BY <1>1, <2>1 DEF Outstanding
  <2>4. ASSUME NEW y \in Isolates \X (1..MaxMail)
        PROVE  y \in Outstanding(k)' <=> y \in Outstanding(k) \ {x}
    BY <1>1, <2>1, <2>2 DEF Outstanding
  <2>5. Outstanding(k)' = Outstanding(k) \ {x}
    BY <2>4 DEF Outstanding
  <2>6. Due(k)' = Due(k) - 1
    BY <1>3, <2>1, <2>3, <2>5, FS_RemoveElement DEF Due
  <2> QED
    BY <2>6 DEF k
<1> QED
  BY <1>2, <1>5, <1>6

LEMMA InitCause == Init => CauseInv
<1> SUFFICES ASSUME Init PROVE CauseInv
  OBVIOUS
<1>1. Empty \in Limits /\ \A k \in Keys : Empty[k] = None
  BY DEF Empty, Limits
<1>2. CauseTypes
  <2>1. now \in PersistInterval..MaxTime /\ local \in [Isolates -> Limits] /\ table \in Limits
    BY <1>1, ConstantsAssumption DEF Init
  <2>2. mail \in [Ops \X Isolates \X Keys -> 0..MaxMail]
    BY ConstantsAssumption DEF Init
  <2>3. answers \in [Isolates \X Keys \X Deadlines -> Nat] /\ failed \in [Keys -> 0..MaxFailures]
    BY ConstantsAssumption DEF Init
  <2> QED
    BY <2>1, <2>2, <2>3 DEF CauseTypes, Init
<1>3. ASSUME NEW k \in Keys
      PROVE  Outstanding(k) = {}
  <2>1. \A i \in Isolates : mail[<<"report", i, k>>] = 0
    BY DEF Init, Ops
  <2> QED
    BY <2>1 DEF Outstanding
<1>4. ASSUME NEW k \in Keys
      PROVE  PaidByObject(k) /\ PaidByIsolates(k) /\ NoAnswer(k)
  <2>1. Due(k) = 0 /\ failed[k] = 0
    BY <1>3, FS_EmptySet DEF Due, Init
  <2>2. Paid(None, 0)
    BY DEF Paid, Count
  <2>3. PaidByObject(k)
    BY <1>1, <2>1, <2>2 DEF PaidByObject, Init
  <2>4. PaidByIsolates(k)
    BY <1>1, <2>1, <2>2 DEF PaidByIsolates, Init
  <2> QED
    BY <2>3, <2>4 DEF NoAnswer, Init
<1> QED
  BY <1>2, <1>3, <1>4, FS_EmptySet DEF CauseInv

(* What the tables may become when the counter of an address has risen.    *)
LEMMA PaidMonotone ==
  ASSUME NEW limits \in Limits, NEW k \in Keys, NEW kept, kept \in {limits[k], None},
         NEW m \in Int, NEW n \in Int, 0 <= n, m <= n, Paid(limits[k], m)
  PROVE  Paid(kept, n)
<1>1. limits[k] \in Entry \cup {None}
  BY DEF Limits
<1>2. Count(limits[k]) \in Int
  BY <1>1, ConstantsAssumption DEF Count, Entry
<1> QED
  BY <1>2 DEF Paid, Count

LEMMA DueType ==
  ASSUME CauseInv, NEW k \in Keys
  PROVE  Due(k) \in Nat /\ failed[k] \in 0..MaxFailures
BY FS_CardinalityType DEF CauseInv, CauseTypes, Due

(* The object counts a failure that was due, or one it has just seen.      *)
LEMMA CountIsPaid ==
  ASSUME CauseInv, NEW k \in Keys, CountFailure(k), now' = now,
         failed' \in [Keys -> 0..MaxFailures],
         \A l \in Keys : IsFiniteSet(Outstanding(l)') /\ Due(l)' \in Nat,
         \A l \in Keys : failed'[l] < MaxFailures =>
            failed[l] <= failed'[l] /\ failed[l] - Due(l) <= failed'[l] - Due(l)',
         failed'[k] < MaxFailures => failed[k] - Due(k) + 1 <= failed'[k] - Due(k)'
  PROVE  /\ table' \in Limits /\ disk' \in Snapshot \cup {None}
         /\ \A l \in Keys : failed'[l] < MaxFailures => PaidByObject(l)'
<1> DEFINE counted == [table EXCEPT ![k] = AfterFailure(@)]
<1>1. table \in Limits /\ disk \in Snapshot \cup {None} /\ now \in PersistInterval..MaxTime
  BY DEF CauseInv, CauseTypes
<1>2. table[k] \in Entry \cup {None}
  BY <1>1 DEF Limits
<1>3. /\ AfterFailure(table[k]) \in Entry
      /\ \A n \in Int : n + 1 < MaxFailures /\ Paid(table[k], n) => Paid(AfterFailure(table[k]), n + 1)
  BY <1>1, <1>2, FailureCounts
<1>4. counted \in Limits
  BY <1>1, <1>3 DEF Limits
<1>5. PICK limits \in Pruned(counted) :
        /\ table' = limits
        /\ disk' = disk \/ disk' = [at |-> now, limits |-> limits]
  <2>1. PICK limits \in Pruned(counted) :
          IF Changed(limits) THEN Write(limits)
          ELSE /\ table' = limits
               /\ unsaved' = unsaved + 1 /\ missing' = now
               /\ UNCHANGED <<savedAt, saved, disk, faults>>
    BY DEF CountFailure
  <2>2. CASE Changed(limits)
    BY <2>1, <2>2 DEF Write
  <2>3. CASE ~Changed(limits)
    BY <2>1, <2>3
  <2> QED
    BY <2>2, <2>3
<1>6. limits \in Limits /\ \A l \in Keys : limits[l] \in {counted[l], None}
  <2> HIDE DEF counted
  <2> QED
    BY <1>4, <1>5, PruningDrops
<1>7. [at |-> now, limits |-> limits] \in Snapshot
  BY <1>1, <1>6, ConstantsAssumption DEF Snapshot
<1>8. table' \in Limits /\ disk' \in Snapshot \cup {None}
  BY <1>1, <1>5, <1>6, <1>7
<1>9. ASSUME NEW l \in Keys, failed'[l] < MaxFailures
      PROVE  PaidByObject(l)'
  <2> DEFINE old == failed[l] - Due(l)
             new == failed'[l] - Due(l)'
  <2>1. /\ failed[l] \in 0..MaxFailures /\ failed'[l] \in 0..MaxFailures
        /\ Due(l) \in Nat /\ Due(l)' \in Nat
    BY DueType
  <2>2. old \in Int /\ new \in Int /\ old <= new /\ failed[l] < MaxFailures
    BY <1>9, <2>1, ConstantsAssumption
  <2>3. Paid(table[l], old) /\ (disk # None => Paid(disk.limits[l], old))
    BY <2>2 DEF CauseInv, PaidByObject
  <2>4. 0 <= old /\ new < MaxFailures
    <3>1. 0 <= Count(table[l])
      BY <1>1, ConstantsAssumption DEF Count, Limits, Entry
    <3>2. Count(table[l]) <= old /\ Count(table[l]) \in Int
      BY <1>1, <2>3, ConstantsAssumption DEF Paid, Count, Limits, Entry
    <3> QED
      BY <1>9, <2>1, <2>2, <3>1, <3>2, ConstantsAssumption
  <2> HIDE DEF old, new
  <2>5. Paid(counted[l], new)
    <3>1. CASE l = k
      <4>1. old + 1 <= new
        BY <1>9, <3>1 DEF old, new
      <4>2. Paid(counted[l], old + 1) /\ counted[l] \in Entry
        <5>1. counted[l] = AfterFailure(table[k])
          BY <1>1, <3>1 DEF Limits
        <5>2. old + 1 < MaxFailures /\ Paid(table[k], old)
          BY <2>1, <2>2, <2>3, <2>4, <3>1, <4>1, ConstantsAssumption DEF new
        <5> QED
          BY <1>3, <2>2, <5>1, <5>2
      <4>3. Count(counted[l]) \in Int
        BY <4>2, ConstantsAssumption, NoneAssumption DEF Count, Entry
      <4> HIDE DEF counted
      <4> QED
        BY <2>2, <4>1, <4>2, <4>3 DEF Paid
    <3>2. CASE l # k
      <4>1. counted[l] = table[l]
        BY <1>1, <3>2 DEF Limits
      <4> QED
        BY <1>1, <2>2, <2>3, <2>4, <4>1, PaidMonotone
    <3> QED
      BY <3>1, <3>2
  <2>6. Paid(limits[l], new)
    <3> HIDE DEF counted
    <3>1. limits[l] \in {counted[l], None} /\ 0 <= new /\ new <= new
      BY <1>6, <2>2, <2>4
    <3> QED
      BY <1>4, <2>2, <2>5, <3>1, PaidMonotone
  <2>7. disk # None => Paid(disk.limits[l], new)
    <3> SUFFICES ASSUME disk # None PROVE Paid(disk.limits[l], new)
      OBVIOUS
    <3>1. disk.limits \in Limits
      BY <1>1 DEF Snapshot
    <3> QED
      BY <2>2, <2>3, <2>4, <3>1, PaidMonotone
  <2>8. Paid(table'[l], new)
    BY <1>5, <2>6
  <2>9. disk' # None => Paid(disk'.limits[l], new)
    BY <1>5, <2>6, <2>7
  <2> QED
    BY <2>8, <2>9 DEF PaidByObject, new, Paid, Count
<1> QED
  BY <1>8, <1>9

(* An isolate puts a paid entry into its table.                            *)
LEMMA LocalIsPaid ==
  ASSUME CauseInv, NEW i \in Isolates, NEW k \in Keys, NEW entry \in Entry \cup {None},
         NEW limits \in Pruned([local[i] EXCEPT ![k] = entry]),
         local' = [local EXCEPT ![i] = limits],
         failed' \in [Keys -> 0..MaxFailures],
         \A l \in Keys : failed'[l] < MaxFailures => failed[l] <= failed'[l],
         failed'[k] < MaxFailures => Paid(entry, failed'[k])
  PROVE  /\ local' \in [Isolates -> Limits]
         /\ \A l \in Keys : failed'[l] < MaxFailures => PaidByIsolates(l)'
<1> DEFINE changed == [local[i] EXCEPT ![k] = entry]
<1>1. local \in [Isolates -> Limits] /\ failed \in [Keys -> 0..MaxFailures]
  BY DEF CauseInv, CauseTypes
<1>2. local[i] \in Limits /\ changed \in Limits
  BY <1>1 DEF Limits
<1>3. limits \in Limits /\ \A l \in Keys : limits[l] \in {changed[l], None}
  <2>1. limits \in Pruned(changed)
    OBVIOUS
  <2> HIDE DEF changed
  <2> QED
    BY <1>2, <2>1, PruningDrops
<1>4. ASSUME NEW l \in Keys, failed'[l] < MaxFailures
      PROVE  PaidByIsolates(l)'
  <2>1. failed[l] \in Int /\ failed'[l] \in Int /\ 0 <= failed[l] /\ failed[l] <= failed'[l]
    BY <1>1, <1>4, ConstantsAssumption
  <2>2. PaidByIsolates(l)
    <3>1. failed[l] < MaxFailures
      BY <1>4, <2>1, ConstantsAssumption
    <3> QED
      BY <3>1 DEF CauseInv
  <2>3. Paid(changed[l], failed'[l])
    <3>1. CASE l = k
      BY <1>2, <1>4, <3>1 DEF Limits
    <3>2. CASE l # k
      <4>1. changed[l] = local[i][l] /\ Paid(local[i][l], failed[l])
        BY <1>2, <2>2, <3>2 DEF Limits, PaidByIsolates
      <4> QED
        BY <1>2, <2>1, <4>1, PaidMonotone
    <3> QED
      BY <3>1, <3>2
  <2>4. Paid(limits[l], failed'[l])
    <3> HIDE DEF changed
    <3>1. limits[l] \in {changed[l], None} /\ 0 <= failed'[l] /\ failed'[l] <= failed'[l]
      BY <1>3, <2>1
    <3> QED
      BY <1>2, <2>1, <2>3, <3>1, PaidMonotone
  <2>5. ASSUME NEW j \in Isolates
        PROVE  Paid(local'[j][l], failed'[l])
    <3>1. CASE j = i
      BY <1>1, <2>4, <3>1
    <3>2. CASE j # i
      <4>1. local'[j] = local[j] /\ local[j] \in Limits /\ Paid(local[j][l], failed[l])
        BY <1>1, <2>2, <3>2 DEF PaidByIsolates
      <4> QED
        BY <2>1, <4>1, PaidMonotone
    <3> QED
      BY <3>1, <3>2
  <2> QED
    BY <2>5 DEF PaidByIsolates, Paid, Count
<1> QED
  BY <1>1, <1>3, <1>4

(* An answer names a block, so its address has paid in full.               *)
LEMMA AnswerIsPaid ==
  ASSUME CauseInv, NEW i \in Isolates, NEW k \in Keys, Answer(i, k), now' = now, failed' = failed,
         failed[k] < MaxFailures => table'[k] = None \/ table'[k].until = 0
  PROVE  /\ answers' \in [Isolates \X Keys \X Deadlines -> Nat]
         /\ \A l \in Keys : failed[l] < MaxFailures => NoAnswer(l)'
<1>1. answers \in [Isolates \X Keys \X Deadlines -> Nat] /\ now \in Nat \ {0}
  BY ConstantsAssumption DEF CauseInv, CauseTypes
<1>2. \A l \in Keys : failed[l] < MaxFailures => NoAnswer(l)
  BY DEF CauseInv
<1>3. CASE answers' = answers
  BY <1>1, <1>2, <1>3 DEF NoAnswer
<1>4. CASE Blocked(table'[k]) /\ answers' = Post(answers, {<<i, k, table'[k].until>>})
  <2>1. failed[k] < MaxFailures => FALSE
    BY <1>1, <1>4 DEF Blocked
  <2>2. answers' \in [Isolates \X Keys \X Deadlines -> Nat]
    BY <1>1, <1>4 DEF Post
  <2>3. ASSUME NEW l \in Keys \ {k}, NEW j \in Isolates, NEW until \in Deadlines
        PROVE  answers'[<<j, l, until>>] = answers[<<j, l, until>>]
    BY <1>1, <1>4 DEF Post
  <2> QED
    BY <1>2, <2>1, <2>2, <2>3 DEF NoAnswer
<1> QED
  BY <1>3, <1>4 DEF Answer

LEMMA FailsPaid ==
  ASSUME CauseInv, NEW i \in Isolates, NEW k \in Keys, Fails(i, k)
  PROVE  CauseInv'
<1>1. /\ UNCHANGED <<now, answers, table, disk>>
      /\ failed' = [failed EXCEPT ![k] = IF @ < MaxFailures THEN @ + 1 ELSE @]
      /\ mail' = Post(mail, Pull(i, k) \cup {<<"report", i, k>>})
      /\ \A m \in DOMAIN mail : mail[m] < MaxMail
  BY DEF Fails, memory, storage
<1>2. failed \in [Keys -> 0..MaxFailures] /\ failed' \in [Keys -> 0..MaxFailures]
  <2>1. failed \in [Keys -> 0..MaxFailures]
    BY DEF CauseInv, CauseTypes
  <2> QED
    BY <1>1, <2>1, ConstantsAssumption
<1>3. /\ mail' \in [Ops \X Isolates \X Keys -> 0..MaxMail]
      /\ \A l \in Keys : IsFiniteSet(Outstanding(l)')
      /\ Due(k)' = Due(k) + 1
      /\ \A l \in Keys \ {k} : Due(l)' = Due(l)
  <2> DEFINE others == Pull(i, k)
  <2>1. \A m \in others : m \in DOMAIN mail /\ m[1] # "report"
    BY DEF Pull, Ops, CauseInv, CauseTypes
  <2> HIDE DEF others
  <2>2. mail' = Post(mail, others \cup {<<"report", i, k>>})
    BY <1>1 DEF others
  <2> QED
    BY <1>1, <2>1, <2>2, PostedIsDue
<1>4. \A l \in Keys : failed'[l] < MaxFailures =>
        failed[l] < MaxFailures /\ failed'[l] = IF l = k THEN failed[l] + 1 ELSE failed[l]
  BY <1>1, <1>2, ConstantsAssumption
<1>5. /\ local' \in [Isolates -> Limits]
      /\ \A l \in Keys : failed'[l] < MaxFailures => PaidByIsolates(l)'
  <2> DEFINE entry == AfterFailure(local[i][k])
  <2>1. local[i][k] \in Entry \cup {None} /\ now \in PersistInterval..MaxTime
    BY DEF CauseInv, CauseTypes, Limits
  <2>2. entry \in Entry
    BY <2>1, FailureCounts
  <2>3. failed'[k] < MaxFailures => Paid(entry, failed'[k])
    <3> SUFFICES ASSUME failed'[k] < MaxFailures PROVE Paid(entry, failed'[k])
      OBVIOUS
    <3>1. failed[k] < MaxFailures /\ failed'[k] = failed[k] + 1 /\ failed[k] \in Int
      BY <1>2, <1>4
    <3>2. Paid(local[i][k], failed[k])
      BY <3>1 DEF CauseInv, PaidByIsolates
    <3> QED
      BY <2>1, <3>1, <3>2, FailureCounts
  <2>4. PICK limits \in Pruned([local[i] EXCEPT ![k] = entry]) : local' = [local EXCEPT ![i] = limits]
    BY DEF Fails
  <2>5. \A l \in Keys : failed'[l] < MaxFailures => failed[l] <= failed'[l]
    BY <1>2, <1>4
  <2> HIDE DEF entry
  <2> QED
    BY <1>2, <2>2, <2>3, <2>4, <2>5, LocalIsPaid
<1>6. CauseTypes'
  BY <1>1, <1>2, <1>3, <1>5 DEF CauseInv, CauseTypes
<1>7. ASSUME NEW l \in Keys, failed'[l] < MaxFailures
      PROVE  PaidByObject(l)' /\ NoAnswer(l)'
  <2>1. failed[l] < MaxFailures /\ failed'[l] - Due(l)' = failed[l] - Due(l)
    <3>1. failed[l] \in Int /\ Due(l) \in Int
      BY DueType, ConstantsAssumption
    <3> QED
      BY <1>3, <1>4, <1>7, <3>1
  <2>2. PaidByObject(l) /\ NoAnswer(l)
    BY <2>1 DEF CauseInv
  <2> QED
    BY <1>1, <2>1, <2>2 DEF PaidByObject, NoAnswer, Paid, Count
<1> QED
  BY <1>3, <1>5, <1>6, <1>7 DEF CauseInv

LEMMA SucceedsPaid ==
  ASSUME CauseInv, NEW i \in Isolates, NEW k \in Keys, Succeeds(i, k)
  PROVE  CauseInv'
<1>1. UNCHANGED <<now, answers, table, disk, failed>>
  BY DEF Succeeds, memory, storage
<1>2. /\ mail' \in [Ops \X Isolates \X Keys -> 0..MaxMail]
      /\ \A l \in Keys : Outstanding(l)' = Outstanding(l)
  <2>1. PICK others : /\ \A m \in others : m[1] # "report"
                      /\ \A m \in DOMAIN mail : mail[m] < MaxMail
                      /\ mail' = Post(mail, others)
    BY DEF Succeeds, Pull
  <2>2. mail \in [Ops \X Isolates \X Keys -> 0..MaxMail] /\ MaxMail \in Nat
    BY ConstantsAssumption DEF CauseInv, CauseTypes
  <2>3. mail' \in [Ops \X Isolates \X Keys -> 0..MaxMail]
    BY <2>1, <2>2 DEF Post
  <2>4. \A j \in Isolates, l \in Keys : mail'[<<"report", j, l>>] = mail[<<"report", j, l>>]
    <3> TAKE j \in Isolates, l \in Keys
    <3>1. <<"report", j, l>> \in Ops \X Isolates \X Keys /\ <<"report", j, l>> \notin others
      BY <2>1 DEF Ops
    <3> QED
      BY <2>1, <2>2, <3>1 DEF Post
  <2> QED
    BY <2>3, <2>4 DEF Outstanding
<1>3. /\ local' \in [Isolates -> Limits]
      /\ \A l \in Keys : failed'[l] < MaxFailures => PaidByIsolates(l)'
  <2>1. local \in [Isolates -> Limits] /\ failed \in [Keys -> 0..MaxFailures]
    BY DEF CauseInv, CauseTypes
  <2>2. local' = [local EXCEPT ![i] = [local[i] EXCEPT ![k] = None]]
    BY <2>1 DEF Succeeds, Limits
  <2>3. local' \in [Isolates -> Limits]
    BY <2>1, <2>2 DEF Limits
  <2>4. \A j \in Isolates, l \in Keys : local'[j][l] \in {local[j][l], None}
    BY <2>1, <2>2 DEF Limits
  <2>5. ASSUME NEW l \in Keys, failed[l] < MaxFailures, NEW j \in Isolates
        PROVE  Paid(local'[j][l], failed[l])
    <3>1. Paid(local[j][l], failed[l]) /\ local[j] \in Limits
      BY <2>1, <2>5 DEF CauseInv, PaidByIsolates
    <3>2. failed[l] \in Int /\ 0 <= failed[l] /\ failed[l] <= failed[l]
      BY <2>1, ConstantsAssumption
    <3> QED
      BY <2>4, <3>1, <3>2, PaidMonotone
  <2> QED
    BY <1>1, <2>3, <2>5 DEF PaidByIsolates, Paid, Count
<1>4. CauseTypes'
  BY <1>1, <1>2, <1>3 DEF CauseInv, CauseTypes
<1>5. ASSUME NEW l \in Keys, failed'[l] < MaxFailures
      PROVE  PaidByObject(l)' /\ NoAnswer(l)'
  <2>1. PaidByObject(l) /\ NoAnswer(l) /\ Due(l)' = Due(l)
    BY <1>1, <1>2, <1>5 DEF CauseInv, Due
  <2> QED
    BY <1>1, <2>1 DEF PaidByObject, NoAnswer, Paid, Count
<1> QED
  BY <1>2, <1>3, <1>4, <1>5 DEF CauseInv

LEMMA LearnsPaid ==
  ASSUME CauseInv, NEW i \in Isolates, NEW k \in Keys, NEW until \in Deadlines, Learns(i, k, until)
  PROVE  CauseInv'
<1>1. UNCHANGED <<now, mail, table, disk, failed>>
  BY DEF Learns, memory, storage
<1>2. /\ answers' \in [Isolates \X Keys \X Deadlines -> Nat]
      /\ \A l \in Keys : failed[l] < MaxFailures => l # k /\ NoAnswer(l)'
  <2>1. answers \in [Isolates \X Keys \X Deadlines -> Nat] /\ <<i, k, until>> \in DOMAIN answers
    BY DEF CauseInv, CauseTypes
  <2>2. answers[<<i, k, until>>] > 0 /\ answers' = [answers EXCEPT ![<<i, k, until>>] = @ - 1]
    BY DEF Learns, Take
  <2>3. answers' \in [Isolates \X Keys \X Deadlines -> Nat]
    BY <2>1, <2>2
  <2>4. ASSUME NEW l \in Keys, failed[l] < MaxFailures
        PROVE  l # k /\ NoAnswer(l)'
    <3>1. NoAnswer(l)
      BY <2>4 DEF CauseInv
    <3>2. l # k
      BY <2>2, <3>1 DEF NoAnswer
    <3> QED
      BY <2>1, <2>2, <3>1, <3>2 DEF NoAnswer
  <2> QED
    BY <2>3, <2>4
<1>3. /\ local' \in [Isolates -> Limits]
      /\ \A l \in Keys : failed'[l] < MaxFailures => PaidByIsolates(l)'
  <2>1. PICK asked \in PersistInterval..now :
          \E limits \in Pruned([local[i] EXCEPT ![k] = Merged(@, until, asked)]) :
            local' = [local EXCEPT ![i] = limits]
    BY DEF Learns
  <2> DEFINE entry == Merged(local[i][k], until, asked)
  <2>2. local[i] \in Limits /\ local[i][k] \in Entry \cup {None} /\ now \in PersistInterval..MaxTime
    BY DEF CauseInv, CauseTypes, Limits
  <2>3. entry \in Entry \cup {None}
    <3>1. asked \in Times /\ MaxFailures \in 1..MaxFailures
      BY <2>2, ConstantsAssumption
    <3>2. [start |-> asked, count |-> MaxFailures, until |-> until] \in Entry
      BY <3>1 DEF Entry
    <3>3. local[i][k] # None =>
            [local[i][k] EXCEPT !.until = Larger(@, until)] \in Entry
      <4>1. local[i][k] # None => Larger(local[i][k].until, until) \in Deadlines
        BY <2>2 DEF Larger, Entry
      <4> QED
        BY <2>2, <4>1 DEF Entry
    <3> QED
      BY <2>2, <3>2, <3>3 DEF Merged
  <2>4. PICK limits \in Pruned([local[i] EXCEPT ![k] = entry]) : local' = [local EXCEPT ![i] = limits]
    BY <2>1, <2>2 DEF Limits
  <2>5. /\ failed' \in [Keys -> 0..MaxFailures]
        /\ \A l \in Keys : failed'[l] < MaxFailures => failed[l] <= failed'[l] /\ l # k
    BY <1>1, <1>2, ConstantsAssumption DEF CauseInv, CauseTypes
  <2> HIDE DEF entry
  <2> QED
    BY <2>3, <2>4, <2>5, LocalIsPaid
<1>4. CauseTypes'
  BY <1>1, <1>2, <1>3 DEF CauseInv, CauseTypes
<1>5. ASSUME NEW l \in Keys, failed'[l] < MaxFailures
      PROVE  PaidByObject(l)' /\ NoAnswer(l)'
  <2>1. PaidByObject(l) /\ NoAnswer(l)' /\ Due(l)' = Due(l)
    BY <1>1, <1>2, <1>5 DEF CauseInv, Due, Outstanding
  <2> QED
    BY <1>1, <2>1 DEF PaidByObject, Paid, Count
<1> QED
  BY <1>1, <1>3, <1>4, <1>5 DEF CauseInv, Outstanding

(* What the object does without counting a failure: its table and its      *)
(* snapshot keep or drop what they hold, and fewer reports are due.        *)
LEMMA ObjectKeepsPaid ==
  ASSUME CauseInv, UNCHANGED local, failed' = failed, now' \in PersistInterval..MaxTime,
         mail' \in [Ops \X Isolates \X Keys -> 0..MaxMail],
         answers' \in [Isolates \X Keys \X Deadlines -> Nat],
         table' \in Limits, disk' \in Snapshot \cup {None},
         \A l \in Keys : failed[l] < MaxFailures => NoAnswer(l)',
         \A l \in Keys : IsFiniteSet(Outstanding(l)') /\ Due(l)' <= Due(l),
         \A l \in Keys :
           LET held == {table[l], None} \cup (IF disk = None THEN {} ELSE {disk.limits[l]}) IN
           table'[l] \in held /\ (disk' # None => disk'.limits[l] \in held)
  PROVE  CauseInv'
<1>1. CauseTypes'
  BY DEF CauseInv, CauseTypes
<1>2. ASSUME NEW l \in Keys, failed[l] < MaxFailures
      PROVE  PaidByObject(l)' /\ PaidByIsolates(l)'
  <2> DEFINE old == failed[l] - Due(l)
             new == failed[l] - Due(l)'
             held == {table[l], None} \cup (IF disk = None THEN {} ELSE {disk.limits[l]})
  <2>1. PaidByObject(l) /\ PaidByIsolates(l)
    BY <1>2 DEF CauseInv
  <2>2. old \in Int /\ new \in Int /\ old <= new
    <3>1. failed[l] \in Int /\ Due(l) \in Nat
      BY DueType, ConstantsAssumption
    <3>2. Due(l)' \in Nat
      BY FS_CardinalityType DEF Due
    <3> QED
      BY <3>1, <3>2
  <2>3. table \in Limits /\ (disk # None => disk.limits \in Limits)
    BY DEF CauseInv, CauseTypes, Snapshot
  <2>4. Paid(table[l], old) /\ (disk # None => Paid(disk.limits[l], old))
    BY <2>1 DEF PaidByObject
  <2> HIDE DEF old, new
  <2>5. 0 <= new
    <3>1. 0 <= Count(table[l]) /\ Count(table[l]) \in Int
      BY <2>3, ConstantsAssumption DEF Count, Limits, Entry
    <3> QED
      BY <2>2, <2>4, <3>1 DEF Paid
  <2>6. Paid(None, new) /\ Paid(table[l], new) /\ (disk # None => Paid(disk.limits[l], new))
    BY <2>2, <2>3, <2>4, <2>5, PaidMonotone
  <2>7. table'[l] \in held /\ (disk' # None => disk'.limits[l] \in held)
    OBVIOUS
  <2>8. Paid(table'[l], new) /\ (disk' # None => Paid(disk'.limits[l], new))
    BY <2>6, <2>7
  <2>9. failed'[l] - Due(l)' = new
    BY DEF new
  <2>10. PaidByObject(l)'
    BY <2>8, <2>9 DEF PaidByObject, Paid, Count
  <2>11. PaidByIsolates(l)'
    BY <2>1 DEF PaidByIsolates, Paid, Count
  <2> QED
    BY <2>10, <2>11
<1> QED
  BY <1>1, <1>2 DEF CauseInv

LEMMA ReportPaid ==
  ASSUME CauseInv, NEW i \in Isolates, NEW k \in Keys, HandleReport(i, k)
  PROVE  CauseInv'
<1> DEFINE m == <<"report", i, k>>
<1>1. m \in DOMAIN mail /\ m[1] = "report" /\ m[3] = k
  BY DEF CauseInv, CauseTypes, Ops
<1>2. UNCHANGED <<now, local, failed>> /\ CountFailure(k) /\ Answer(i, k)
  BY DEF HandleReport, isolate
<1>3. /\ mail' \in [Ops \X Isolates \X Keys -> 0..MaxMail]
      /\ \A l \in Keys : IsFiniteSet(Outstanding(l)') /\ Due(l)' <= Due(l)
      /\ Due(k)' = Due(k) - 1
  <2>1. mail[m] > 0 /\ mail' = Take(mail, m)
    BY DEF HandleReport
  <2> HIDE DEF m
  <2> QED
    BY <1>1, <2>1, TakenIsNotDue
<1>4. failed \in [Keys -> 0..MaxFailures] /\ failed' \in [Keys -> 0..MaxFailures]
  BY <1>2 DEF CauseInv, CauseTypes
<1>5. \A l \in Keys : Due(l) \in Nat /\ Due(l)' \in Nat
  BY <1>3, DueType, FS_CardinalityType DEF Due
<1>6. /\ \A l \in Keys : failed'[l] < MaxFailures =>
             failed[l] <= failed'[l] /\ failed[l] - Due(l) <= failed'[l] - Due(l)'
      /\ failed'[k] < MaxFailures => failed[k] - Due(k) + 1 <= failed'[k] - Due(k)'
  BY <1>2, <1>3, <1>4, <1>5, ConstantsAssumption
<1>8. /\ table' \in Limits /\ disk' \in Snapshot \cup {None}
      /\ \A l \in Keys : failed'[l] < MaxFailures => PaidByObject(l)'
  BY <1>2, <1>3, <1>4, <1>5, <1>6, CountIsPaid
<1>9. failed[k] < MaxFailures => table'[k] = None \/ table'[k].until = 0
  BY <1>2, <1>8 DEF PaidByObject, Paid
<1>10. /\ answers' \in [Isolates \X Keys \X Deadlines -> Nat]
       /\ \A l \in Keys : failed[l] < MaxFailures => NoAnswer(l)'
  BY <1>2, <1>9, AnswerIsPaid
<1>11. \A l \in Keys : failed[l] < MaxFailures => PaidByIsolates(l)'
  BY <1>2 DEF CauseInv, PaidByIsolates, Paid, Count
<1>12. CauseTypes'
  BY <1>2, <1>3, <1>4, <1>8, <1>10 DEF CauseInv, CauseTypes
<1> QED
  BY <1>2, <1>3, <1>8, <1>10, <1>11, <1>12 DEF CauseInv

LEMMA ConnectFailsPaid ==
  ASSUME CauseInv, NEW k \in Keys, ConnectFails(k)
  PROVE  CauseInv'
<1>1. /\ UNCHANGED <<now, local, mail, answers>> /\ CountFailure(k)
      /\ failed' = [failed EXCEPT ![k] = IF @ < MaxFailures THEN @ + 1 ELSE @]
  BY DEF ConnectFails, isolate
<1>2. failed \in [Keys -> 0..MaxFailures] /\ failed' \in [Keys -> 0..MaxFailures]
  <2>1. failed \in [Keys -> 0..MaxFailures]
    BY DEF CauseInv, CauseTypes
  <2> QED
    BY <1>1, <2>1, ConstantsAssumption
<1>3. \A l \in Keys : failed'[l] < MaxFailures =>
        failed[l] < MaxFailures /\ failed'[l] = IF l = k THEN failed[l] + 1 ELSE failed[l]
  BY <1>1, <1>2, ConstantsAssumption
<1>4. \A l \in Keys : Due(l) \in Nat /\ Due(l)' = Due(l) /\ IsFiniteSet(Outstanding(l)')
  BY <1>1, DueType DEF Due, Outstanding, CauseInv
<1>5. mail' \in [Ops \X Isolates \X Keys -> 0..MaxMail]
  BY <1>1 DEF CauseInv, CauseTypes
<1>6. /\ \A l \in Keys : failed'[l] < MaxFailures =>
             failed[l] <= failed'[l] /\ failed[l] - Due(l) <= failed'[l] - Due(l)'
      /\ failed'[k] < MaxFailures => failed[k] - Due(k) + 1 <= failed'[k] - Due(k)'
  BY <1>2, <1>3, <1>4, ConstantsAssumption
<1>7. /\ table' \in Limits /\ disk' \in Snapshot \cup {None}
      /\ \A l \in Keys : failed'[l] < MaxFailures => PaidByObject(l)'
  BY <1>1, <1>2, <1>4, <1>5, <1>6, CountIsPaid
<1>8. ASSUME NEW l \in Keys, failed'[l] < MaxFailures
      PROVE  PaidByIsolates(l)' /\ NoAnswer(l)'
  <2>1. /\ PaidByIsolates(l) /\ NoAnswer(l)
        /\ failed[l] \in Int /\ failed'[l] \in Int /\ 0 <= failed[l] /\ failed[l] <= failed'[l]
    BY <1>2, <1>3, <1>6, <1>8, ConstantsAssumption DEF CauseInv
  <2>2. ASSUME NEW j \in Isolates
        PROVE  Paid(local[j][l], failed'[l])
    <3>1. local[j] \in Limits /\ Paid(local[j][l], failed[l])
      BY <2>1 DEF CauseInv, CauseTypes, PaidByIsolates
    <3> QED
      BY <2>1, <3>1, PaidMonotone
  <2> QED
    BY <1>1, <2>1, <2>2 DEF PaidByIsolates, NoAnswer, Paid, Count
<1>9. CauseTypes'
  BY <1>1, <1>2, <1>5, <1>7 DEF CauseInv, CauseTypes
<1> QED
  BY <1>4, <1>7, <1>8, <1>9 DEF CauseInv

(* Every other step of the object.                                         *)
LEMMA DeletePaid ==
  ASSUME CauseInv, NEW k \in Keys, DeleteCount(k)
  PROVE  /\ table' \in Limits /\ disk' \in Snapshot \cup {None}
         /\ \A l \in Keys : table'[l] \in {table[l], None}
         /\ \A l \in Keys :
              LET held == {table[l], None} \cup (IF disk = None THEN {} ELSE {disk.limits[l]}) IN
              table'[l] \in held /\ (disk' # None => disk'.limits[l] \in held)
<1>1. table \in Limits /\ disk \in Snapshot \cup {None} /\ now \in PersistInterval..MaxTime
  BY DEF CauseInv, CauseTypes
<1>2. CASE table[k] = None
  BY <1>1, <1>2 DEF DeleteCount, storage
<1>3. CASE table[k] # None
  <2> DEFINE limits == [table EXCEPT ![k] = None]
  <2>1. limits \in Limits /\ \A l \in Keys : limits[l] \in {table[l], None}
    BY <1>1 DEF Limits
  <2>2. [at |-> now, limits |-> limits] \in Snapshot
    BY <1>1, <2>1, ConstantsAssumption DEF Snapshot
  <2>3. table' = limits /\ (disk' = disk \/ disk' = [at |-> now, limits |-> limits])
    BY <1>3 DEF DeleteCount, Write
  <2> HIDE DEF limits
  <2> QED
    BY <1>1, <2>1, <2>2, <2>3
<1> QED
  BY <1>2, <1>3

LEMMA HandledPaid ==
  ASSUME CauseInv, NEW i \in Isolates, NEW k \in Keys, HandleSnapshot(i, k) \/ HandleClear(i, k)
  PROVE  CauseInv'
<1> DEFINE m == <<IF HandleSnapshot(i, k) THEN "snapshot" ELSE "clear", i, k>>
<1>1. m \in DOMAIN mail /\ mail[m] > 0 /\ mail' = Take(mail, m)
  BY DEF CauseInv, CauseTypes, Ops, HandleSnapshot, HandleClear
<1>2. /\ mail' \in [Ops \X Isolates \X Keys -> 0..MaxMail]
      /\ \A l \in Keys : IsFiniteSet(Outstanding(l)') /\ Due(l)' <= Due(l)
  <2> HIDE DEF m
  <2> QED
    BY <1>1, TakenIsNotDue
<1>3. UNCHANGED <<now, local, failed>> /\ now \in PersistInterval..MaxTime
  BY DEF HandleSnapshot, HandleClear, isolate, CauseInv, CauseTypes
<1>4. CASE HandleSnapshot(i, k)
  <2>1. UNCHANGED <<table, disk>> /\ Answer(i, k) /\ table \in Limits /\ disk \in Snapshot \cup {None}
    BY <1>4 DEF HandleSnapshot, memory, storage, CauseInv, CauseTypes
  <2>2. failed[k] < MaxFailures => table'[k] = None \/ table'[k].until = 0
    BY <2>1 DEF CauseInv, PaidByObject, Paid
  <2>3. /\ answers' \in [Isolates \X Keys \X Deadlines -> Nat]
        /\ \A l \in Keys : failed[l] < MaxFailures => NoAnswer(l)'
    BY <1>3, <2>1, <2>2, AnswerIsPaid
  <2> QED
    BY <1>2, <1>3, <2>1, <2>3, ObjectKeepsPaid
<1>5. CASE HandleClear(i, k)
  <2>1. answers' = answers /\ DeleteCount(k)
    BY <1>5 DEF HandleClear
  <2>2. /\ answers' \in [Isolates \X Keys \X Deadlines -> Nat]
        /\ \A l \in Keys : failed[l] < MaxFailures => NoAnswer(l)'
    BY <2>1 DEF CauseInv, CauseTypes, NoAnswer
  <2> QED
    BY <1>2, <1>3, <2>1, <2>2, DeletePaid, ObjectKeepsPaid
<1> QED
  BY <1>4, <1>5

LEMMA QuietPaid ==
  ASSUME CauseInv, UNCHANGED <<local, answers, failed>>,
         \/ UNCHANGED <<now, table, disk>> /\ \E m \in DOMAIN mail : Lose(m)
         \/ /\ mail' = mail
            /\ \/ \E k \in Keys : ConnectSucceeds(k)
               \/ Load \/ Forget \/ Tick
               \/ UNCHANGED <<now, table, disk>>
  PROVE  CauseInv'
<1>1. /\ mail' \in [Ops \X Isolates \X Keys -> 0..MaxMail]
      /\ \A l \in Keys : IsFiniteSet(Outstanding(l)') /\ Due(l)' <= Due(l)
  <2>1. CASE mail' = mail
    <3>1. \A l \in Keys : Outstanding(l)' = Outstanding(l) /\ Due(l) \in Nat
      BY <2>1, DueType DEF Outstanding
    <3> QED
      BY <2>1, <3>1 DEF CauseInv, CauseTypes, Due
  <2>2. CASE \E m \in DOMAIN mail : Lose(m)
    BY <2>2, TakenIsNotDue DEF Lose
  <2> QED
    BY <2>1, <2>2
<1>2. /\ answers' \in [Isolates \X Keys \X Deadlines -> Nat]
      /\ \A l \in Keys : failed[l] < MaxFailures => NoAnswer(l)'
  BY DEF CauseInv, CauseTypes, NoAnswer
<1>3. table \in Limits /\ disk \in Snapshot \cup {None} /\ now \in PersistInterval..MaxTime
  BY DEF CauseInv, CauseTypes
<1>4. CASE \E k \in Keys : ConnectSucceeds(k)
  BY <1>1, <1>2, <1>3, <1>4, DeletePaid, ObjectKeepsPaid DEF ConnectSucceeds
<1>5. CASE Load
  <2>1. now' = now /\ disk' = disk
    BY <1>5 DEF Load
  <2>2. table' = table \/ (disk # None /\ table' = disk.limits)
    BY <1>5 DEF Load
  <2>3. table' \in Limits
    BY <1>3, <2>2 DEF Snapshot
  <2> QED
    BY <1>1, <1>2, <1>3, <2>1, <2>2, <2>3, ObjectKeepsPaid
<1>6. CASE Forget
  <2>1. now' = now /\ disk' = disk /\ table' = Empty
    BY <1>6 DEF Forget, storage
  <2>2. Empty \in Limits /\ \A l \in Keys : Empty[l] = None
    BY DEF Empty, Limits
  <2> QED
    BY <1>1, <1>2, <1>3, <2>1, <2>2, ObjectKeepsPaid
<1>7. CASE Tick \/ UNCHANGED <<now, table, disk>>
  <2>1. UNCHANGED <<table, disk>> /\ now' \in PersistInterval..MaxTime
    BY <1>3, <1>7, ConstantsAssumption DEF Tick, memory, storage
  <2> QED
    BY <1>1, <1>2, <1>3, <2>1, ObjectKeepsPaid
<1> QED
  BY <1>4, <1>5, <1>6, <1>7

LEMMA StepPays ==
  ASSUME CauseInv, [Next]_vars
  PROVE  CauseInv'
<1>1. ASSUME NEW i \in Isolates, NEW k \in Keys,
             \/ Fails(i, k) \/ Succeeds(i, k)
             \/ \E until \in Deadlines : Learns(i, k, until)
             \/ HandleReport(i, k) \/ HandleSnapshot(i, k) \/ HandleClear(i, k)
      PROVE  CauseInv'
  BY <1>1, FailsPaid, SucceedsPaid, LearnsPaid, ReportPaid, HandledPaid
<1>2. ASSUME NEW m \in DOMAIN mail, Lose(m)
      PROVE  CauseInv'
  BY <1>2, QuietPaid DEF Lose, isolate, memory, storage
<1>3. ASSUME NEW k \in Keys, ConnectFails(k) \/ ConnectSucceeds(k)
      PROVE  CauseInv'
  BY <1>3, ConnectFailsPaid, QuietPaid DEF ConnectSucceeds, isolate
<1>4. CASE Load \/ Forget \/ Tick
  BY <1>4, QuietPaid DEF Load, Forget, Tick, isolate
<1>5. CASE UNCHANGED vars
  BY <1>5, QuietPaid DEF vars, isolate, memory, storage
<1> QED
  BY <1>1, <1>2, <1>3, <1>4, <1>5 DEF Next

(* BlocksHaveCause, however many addresses, isolates and messages there    *)
(* are, and whatever is evicted, lost or reordered: no address is blocked  *)
(* for failures it never made.                                             *)
THEOREM BlocksArePaidFor == Spec => []BlocksHaveCause
<1>1. CauseInv => BlocksHaveCause
  <2> SUFFICES ASSUME CauseInv, NEW k \in Keys, failed[k] # MaxFailures
               PROVE  ~(Judged(k) > 0 \/ \E i \in Isolates : Blocks(local[i])[k] > 0)
    BY DEF BlocksHaveCause
  <2>1. failed[k] < MaxFailures
    <3>1. failed[k] \in 0..MaxFailures /\ MaxFailures \in Nat
      BY ConstantsAssumption DEF CauseInv, CauseTypes
    <3> QED
      BY <3>1
  <2>2. PaidByObject(k) /\ PaidByIsolates(k)
    BY <2>1 DEF CauseInv
  <2>3. Judged(k) = 0
    BY <2>2 DEF PaidByObject, Paid, Judged, Blocks
  <2>4. \A i \in Isolates : Blocks(local[i])[k] = 0
    BY <2>2 DEF PaidByIsolates, Paid, Blocks
  <2> QED
    BY <2>3, <2>4
<1>2. CauseInv /\ [Next]_vars => CauseInv'
  BY StepPays
<1> QED
  BY <1>1, <1>2, InitCause, PTL DEF Spec

----------------------------------------------------------------------------
(* GuessesBounded: an entry accounts for the comparisons it has seen, in   *)
(* the window it counts and in the one before.                             *)

Before(g, t) == {x \in g : x[1] < t}
Since(g, t) == {x \in g : x[1] >= t}

(* The comparisons kept are recent, and those of this instant are numbered *)
(* below the next one and belong to the entry's window.                    *)
Recent(entry, g) ==
  \A x \in g : /\ x[1] <= now /\ now - x[1] < Window
               /\ x[1] = now => SameWindow(entry) /\ x[2] < Cardinality(g)

(* The entry counts the comparisons since its window began and less than a *)
(* block's worth came before; or it blocks until all of them are old; or a *)
(* block came from elsewhere while they were few.                          *)
Counted(entry, g) ==
  \/ /\ entry.count < MaxFailures
     /\ Cardinality(Before(g, entry.start)) < MaxFailures
     /\ Cardinality(Since(g, entry.start)) <= entry.count
  \/ Cardinality(g) < 2 * MaxFailures /\ \A x \in g : x[1] + Block <= entry.until
  \/ entry.count = MaxFailures /\ Cardinality(g) < MaxFailures

Gauged(entry, g) ==
  /\ g \in SUBSET (Times \X Nat) /\ IsFiniteSet(g) /\ Recent(entry, g)
  /\ IF entry = None THEN Cardinality(g) < MaxFailures
     ELSE entry.start <= now /\ Counted(entry, g)

GaugeInv ==
  /\ guesses \in [Isolates -> [Keys -> SUBSET (Times \X Nat)]]
  /\ \A i \in Isolates, k \in Keys : Gauged(local[i][k], guesses[i][k])

LEMMA Halves ==
  ASSUME NEW g \in SUBSET (Times \X Nat), IsFiniteSet(g), NEW t \in Times
  PROVE  /\ IsFiniteSet(Before(g, t)) /\ IsFiniteSet(Since(g, t))
         /\ Cardinality(Before(g, t)) \in Nat /\ Cardinality(Since(g, t)) \in Nat
         /\ Cardinality(g) = Cardinality(Before(g, t)) + Cardinality(Since(g, t))
<1>1. Before(g, t) \subseteq g /\ Since(g, t) \subseteq g
  BY DEF Before, Since
<1>2. IsFiniteSet(Before(g, t)) /\ IsFiniteSet(Since(g, t))
  BY <1>1, FS_Subset
<1>3. g = Before(g, t) \cup Since(g, t) /\ Before(g, t) \cap Since(g, t) = {}
  <2>1. \A x \in g : x[1] \in Int
    BY ConstantsAssumption
  <2> QED
    BY <2>1, ConstantsAssumption DEF Before, Since
<1>4. Cardinality(Before(g, t) \cap Since(g, t)) = 0
  BY <1>3, FS_EmptySet
<1>5. Cardinality(g) = Cardinality(Before(g, t)) + Cardinality(Since(g, t)) - 0
  BY <1>2, <1>3, <1>4, FS_Union
<1>6. Cardinality(Before(g, t)) \in Nat /\ Cardinality(Since(g, t)) \in Nat
  BY <1>2, FS_CardinalityType
<1> QED
  BY <1>2, <1>5, <1>6

(* Whatever the entry says, fewer than two blocks' worth were compared.    *)
LEMMA GaugedBounded ==
  ASSUME NEW entry \in Entry \cup {None}, NEW g, Gauged(entry, g)
  PROVE  Cardinality(g) < 2 * MaxFailures
<1>1. Cardinality(g) \in Nat /\ MaxFailures \in Nat \ {0}
  BY FS_CardinalityType, ConstantsAssumption DEF Gauged
<1>2. CASE entry = None
  BY <1>1, <1>2 DEF Gauged
<1>3. CASE entry # None
  <2>1. entry.start \in Times /\ entry.count \in Int
    BY <1>3, ConstantsAssumption DEF Entry
  <2>2. /\ Cardinality(Before(g, entry.start)) \in Nat /\ Cardinality(Since(g, entry.start)) \in Nat
        /\ Cardinality(g) = Cardinality(Before(g, entry.start)) + Cardinality(Since(g, entry.start))
    BY <2>1, Halves DEF Gauged
  <2> QED
    BY <1>1, <1>3, <2>1, <2>2 DEF Gauged, Counted
<1> QED
  BY <1>2, <1>3

(* An entry that is over has few comparisons behind it.                    *)
LEMMA ExpiredIsFew ==
  ASSUME NEW entry \in Entry, NEW g, Gauged(entry, g), now \in Times,
         entry.until <= now, ~SameWindow(entry), Window <= Block
  PROVE  Cardinality(g) < MaxFailures /\ \A x \in g : x[1] # now
<1>1. /\ g \in SUBSET (Times \X Nat) /\ IsFiniteSet(g) /\ Recent(entry, g) /\ Counted(entry, g)
      /\ \A x \in g : x[1] \in Int
  BY NoneAssumption, ConstantsAssumption DEF Gauged
<1>2. /\ MaxFailures \in Nat \ {0} /\ Window \in Nat /\ Block \in Nat /\ now \in Int
      /\ entry.start \in Times /\ entry.count \in Int /\ entry.until \in Int
      /\ now - entry.start >= Window
  BY NoneAssumption, ConstantsAssumption DEF Entry, SameWindow
<1>3. \A x \in g : x[1] # now
  BY <1>1 DEF Recent
<1>4. CASE Cardinality(Since(g, entry.start)) <= entry.count /\ entry.count < MaxFailures
  <2>1. Since(g, entry.start) = g
    <3>1. \A x \in g : x[1] >= entry.start
      BY <1>1, <1>2, ConstantsAssumption DEF Recent
    <3> QED
      BY <3>1 DEF Since
  <2>2. Cardinality(g) \in Nat
    BY <1>1, FS_CardinalityType
  <2> QED
    BY <1>2, <1>3, <1>4, <2>1, <2>2
<1>5. CASE \A x \in g : x[1] + Block <= entry.until
  <2>1. g = {}
    BY <1>1, <1>2, <1>5 DEF Recent
  <2> QED
    BY <1>2, <1>3, <2>1, FS_EmptySet
<1> QED
  BY <1>1, <1>3, <1>4, <1>5 DEF Counted

(* Dropping an entry that is over.                                         *)
LEMMA PruningGauges ==
  ASSUME Roomy, Window <= Block, now \in PersistInterval..MaxTime, NEW limits \in Limits,
         NEW kept \in Pruned(limits), NEW k \in Keys, NEW g, Gauged(limits[k], g)
  PROVE  Gauged(kept[k], g)
<1>1. kept[k] \in {limits[k], None}
  BY PruningDrops
<1>2. CASE limits[k] = None \/ kept[k] = limits[k]
  BY <1>1, <1>2
<1>3. CASE limits[k] # None /\ kept[k] = None
  <2> DEFINE live == {l \in Tracked(limits) : ~Expired(limits[l])}
  <2>1. limits[k] \in Entry /\ now \in Times
    BY <1>3, ConstantsAssumption DEF Limits
  <2>2. Cardinality(live) <= MaxTracked
    <3>1. live \subseteq Keys /\ IsFiniteSet(Keys)
      BY ConstantsAssumption DEF Tracked
    <3>2. Cardinality(live) <= Cardinality(Keys) /\ IsFiniteSet(live)
      BY <3>1, FS_Subset
    <3>3. Cardinality(live) \in Nat /\ Cardinality(Keys) \in Nat /\ MaxTracked \in Nat
      BY <3>1, <3>2, FS_CardinalityType, ConstantsAssumption
    <3> QED
      BY <3>2, <3>3 DEF Roomy
  <2>3. kept = limits \/ kept = Only(limits, live)
    BY <2>2 DEF Pruned
  <2>4. Expired(limits[k])
    BY <1>3, <2>3 DEF Only, Tracked
  <2>5. limits[k].until <= now /\ ~SameWindow(limits[k])
    BY <1>3, <2>1, <2>4, ConstantsAssumption DEF Expired, Blocked, Entry
  <2>6. Cardinality(g) < MaxFailures /\ \A x \in g : x[1] # now
    BY <2>1, <2>5, ExpiredIsFew
  <2> QED
    BY <1>3, <2>6 DEF Gauged, Recent
<1> QED
  BY <1>1, <1>2, <1>3

(* A block learnt from the object.                                         *)
LEMMA MergedGauges ==
  ASSUME NEW entry \in Entry \cup {None}, NEW g, Gauged(entry, g),
         NEW until \in Deadlines, NEW asked \in Times, asked <= now
  PROVE  Merged(entry, until, asked) \in Entry \cup {None} /\ Gauged(Merged(entry, until, asked), g)
<1>1. CASE until <= asked
  BY <1>1 DEF Merged
<1>2. CASE ~(until <= asked) /\ entry = None
  <2> DEFINE new == [start |-> asked, count |-> MaxFailures, until |-> until]
  <2>1. Merged(entry, until, asked) = new
    BY <1>2 DEF Merged
  <2>2. new \in Entry
    BY ConstantsAssumption DEF Entry
  <2>3. new.count = MaxFailures /\ new.start <= now /\ new # None
    BY <2>2, NoneAssumption
  <2>4. ~SameWindow(entry)
    BY <1>2 DEF SameWindow
  <2>5. Recent(new, g)
    BY <2>4 DEF Gauged, Recent
  <2> HIDE DEF new
  <2>6. Gauged(new, g)
    BY <1>2, <2>3, <2>5 DEF Gauged, Counted
  <2> QED
    BY <2>1, <2>2, <2>6
<1>3. CASE ~(until <= asked) /\ entry # None
  <2> DEFINE new == [entry EXCEPT !.until = Larger(@, until)]
  <2>1. Merged(entry, until, asked) = new /\ entry \in Entry
    BY <1>3 DEF Merged
  <2>2. Larger(entry.until, until) \in Deadlines /\ Larger(entry.until, until) >= entry.until
    BY <2>1, ConstantsAssumption DEF Larger, Entry
  <2>3. new \in Entry /\ new.start = entry.start /\ new.count = entry.count /\ new.until >= entry.until
    BY <2>1, <2>2 DEF Entry
  <2> HIDE DEF new
  <2>4. new # None
    BY <2>3, NoneAssumption
  <2>5. SameWindow(new) = SameWindow(entry)
    BY <1>3, <2>3, <2>4 DEF SameWindow
  <2>6. Counted(new, g)
    <3>1. new.until \in Int /\ entry.until \in Int
      BY <2>1, <2>3, ConstantsAssumption DEF Entry
    <3>2. \A x \in g : x[1] \in Int
      BY ConstantsAssumption DEF Gauged
    <3> QED
      BY <1>3, <2>3, <3>1, <3>2, ConstantsAssumption DEF Gauged, Counted
  <2> QED
    BY <1>3, <2>1, <2>3, <2>4, <2>5, <2>6 DEF Gauged, Recent
<1> QED
  BY <1>1, <1>2, <1>3

(* A comparison that fails while nothing blocks it.                        *)
LEMMA FailureGauges ==
  ASSUME Window <= Block, now \in PersistInterval..MaxTime, NEW entry \in Entry \cup {None}, NEW g,
         Gauged(entry, g), ~Blocked(entry)
  PROVE  Gauged(AfterFailure(entry), g \cup {<<now, Cardinality(g)>>})
<1> DEFINE x0 == <<now, Cardinality(g)>>
           more == g \cup {x0}
           new == AfterFailure(entry)
           size == Cardinality(g)
<1>1. /\ g \in SUBSET (Times \X Nat) /\ IsFiniteSet(g) /\ Recent(entry, g) /\ size \in Nat
      /\ \A x \in g : x[1] \in Int /\ x[2] \in Int
  BY FS_CardinalityType, ConstantsAssumption DEF Gauged
<1>2. now \in Times /\ now \in Int /\ {MaxFailures, Window, Block} \subseteq Nat \ {0}
  BY ConstantsAssumption
<1>3. new \in Entry /\ new # None
  BY FailureCounts, NoneAssumption
<1>4. /\ new.start = IF SameWindow(entry) THEN entry.start ELSE now
      /\ new.count = NextCount(entry)
      /\ NextCount(entry) >= MaxFailures => new.until = now + Block
  BY DEF AfterFailure, Reaches
<1>5. x0 \notin g
  BY <1>1 DEF Recent
<1>6. more \in SUBSET (Times \X Nat) /\ IsFiniteSet(more) /\ Cardinality(more) = size + 1
  BY <1>1, <1>2, <1>5, FS_AddElement
<1>7. SameWindow(new)
  BY <1>2, <1>3, <1>4 DEF SameWindow
<1>8. Recent(new, more)
  <2>1. \A x \in g : x[1] <= now /\ now - x[1] < Window /\ (x[1] = now => x[2] < size + 1)
    BY <1>1 DEF Recent
  <2>2. x0[1] <= now /\ now - x0[1] < Window /\ x0[2] < size + 1
    BY <1>1, <1>2
  <2> HIDE DEF x0, new
  <2> QED
    BY <1>6, <1>7, <2>1, <2>2 DEF Recent
<1>9. ASSUME new.until = now + Block, size + 1 < 2 * MaxFailures
      PROVE  Counted(new, more)
  <2>1. \A x \in more : x[1] + Block <= new.until
    <3>1. \A x \in g : x[1] <= now
      BY <1>1 DEF Recent
    <3> QED
      BY <1>1, <1>2, <1>9, <3>1
  <2> QED
    BY <1>6, <1>9, <2>1 DEF Counted
<1>10. /\ Before(more, new.start) = Before(g, new.start)
       /\ Since(more, new.start) = Since(g, new.start) \cup {x0} /\ x0 \notin Since(g, new.start)
  <2>1. new.start <= now /\ new.start \in Int
    BY <1>2, <1>3, <1>4, ConstantsAssumption DEF Gauged, SameWindow, Entry
  <2> QED
    BY <1>1, <1>2, <1>5, <2>1 DEF Before, Since
<1>11. /\ IsFiniteSet(Since(g, new.start)) /\ Cardinality(Since(g, new.start)) \in Nat
       /\ Cardinality(Before(g, new.start)) \in Nat
       /\ size = Cardinality(Before(g, new.start)) + Cardinality(Since(g, new.start))
  BY <1>1, <1>3, Halves DEF Entry
<1>12. Cardinality(Since(more, new.start)) = Cardinality(Since(g, new.start)) + 1
  BY <1>10, <1>11, FS_AddElement
<1>13. Counted(new, more)
  <2>1. CASE ~SameWindow(entry)
    <3>1. new.start = now /\ new.count = 1
      BY <1>4, <2>1 DEF NextCount
    <3>2. size < MaxFailures /\ \A x \in g : x[1] # now
      <4>1. CASE entry = None
        BY <1>1, <2>1, <4>1 DEF Gauged, Recent
      <4>2. CASE entry # None
        <5>1. entry \in Entry /\ entry.until \in Int
          BY <4>2, ConstantsAssumption DEF Entry
        <5>2. entry.until <= now
          BY <1>2, <4>2, <5>1 DEF Blocked
        <5> QED
          BY <1>2, <2>1, <5>1, <5>2, ExpiredIsFew
      <4> QED
        BY <4>1, <4>2
    <3>3. Since(g, now) = {}
      BY <1>1, <1>2, <3>2 DEF Since, Recent
    <3>4. Cardinality(Since(g, new.start)) = 0 /\ Cardinality(Before(g, new.start)) = size
      BY <1>11, <3>1, <3>3, FS_EmptySet
    <3>5. CASE MaxFailures = 1
      BY <1>1, <1>4, <1>9, <3>1, <3>2, <3>5
    <3>6. CASE MaxFailures # 1
      BY <1>2, <1>10, <1>12, <3>1, <3>2, <3>4, <3>6 DEF Counted
    <3> QED
      BY <3>5, <3>6
  <2>2. CASE SameWindow(entry)
    <3>1. /\ entry \in Entry /\ entry # None
          /\ entry.count \in 1..MaxFailures /\ entry.until \in Int /\ entry.start \in Int
          /\ new.start = entry.start
      BY <1>4, <2>2, ConstantsAssumption DEF SameWindow, Entry
    <3>2. new.count = IF entry.count + 1 < MaxFailures THEN entry.count + 1 ELSE MaxFailures
      BY <1>2, <1>4, <2>2, <3>1 DEF NextCount, Smaller
    <3>3. entry.until <= now
      BY <1>2, <3>1 DEF Blocked
    <3>4. Counted(entry, g)
      BY <3>1 DEF Gauged
    <3>5. CASE /\ entry.count < MaxFailures
               /\ Cardinality(Before(g, entry.start)) < MaxFailures
               /\ Cardinality(Since(g, entry.start)) <= entry.count
      <4>1. CASE entry.count + 1 < MaxFailures
        BY <1>2, <1>10, <1>11, <1>12, <3>1, <3>2, <3>5, <4>1 DEF Counted
      <4>2. CASE ~(entry.count + 1 < MaxFailures)
        <5>1. new.until = now + Block
          BY <1>2, <1>4, <3>1, <3>2, <4>2
        <5>2. size + 1 < 2 * MaxFailures
          BY <1>2, <1>11, <3>1, <3>5
        <5> QED
          BY <1>9, <5>1, <5>2
      <4> QED
        BY <4>1, <4>2
    <3>6. CASE \A x \in g : x[1] + Block <= entry.until
      <4>1. g = {}
        BY <1>1, <1>2, <3>1, <3>3, <3>6 DEF Recent
      <4>2. size = 0 /\ Cardinality(Since(g, new.start)) = 0 /\ Cardinality(Before(g, new.start)) = 0
        <5>1. size = 0
          BY <4>1, FS_EmptySet
        <5> QED
          BY <1>11, <5>1
      <4>3. CASE entry.count + 1 < MaxFailures
        BY <1>2, <1>10, <1>12, <3>1, <3>2, <4>2, <4>3 DEF Counted
      <4>4. CASE ~(entry.count + 1 < MaxFailures)
        BY <1>2, <1>4, <1>9, <3>1, <3>2, <4>2, <4>4
      <4> QED
        BY <4>3, <4>4
    <3>7. CASE entry.count = MaxFailures /\ size < MaxFailures
      BY <1>1, <1>2, <1>4, <1>9, <3>1, <3>2, <3>7
    <3> QED
      BY <3>4, <3>5, <3>6, <3>7 DEF Counted
  <2> QED
    BY <2>1, <2>2
<1>14. new.start <= now
  BY <1>2, <1>3, <1>4 DEF Gauged, SameWindow
<1> HIDE DEF new, more
<1>15. Gauged(new, more)
  BY <1>3, <1>6, <1>8, <1>13, <1>14 DEF Gauged
<1> QED
  BY <1>15 DEF new, more

(* Time passes, and old comparisons are forgotten.                         *)
LEMMA TickGauges ==
  ASSUME now \in PersistInterval..MaxTime, now' = now + 1, local' = local,
         NEW i \in Isolates, NEW k \in Keys, local[i][k] \in Entry \cup {None},
         Gauged(local[i][k], guesses[i][k]),
         guesses'[i][k] = {x \in guesses[i][k] : now' - x[1] < Window}
  PROVE  Gauged(local[i][k], guesses[i][k])'
<1> DEFINE entry == local[i][k]
           g == guesses[i][k]
           left == guesses'[i][k]
<1>1. /\ g \in SUBSET (Times \X Nat) /\ IsFiniteSet(g) /\ Recent(entry, g)
      /\ left \subseteq g /\ IsFiniteSet(left)
  BY FS_Subset DEF Gauged
<1> HIDE DEF left
<1>2. Cardinality(left) <= Cardinality(g) /\ Cardinality(left) \in Nat /\ Cardinality(g) \in Nat
  BY <1>1, FS_Subset, FS_CardinalityType
<1>3. \A x \in left : x[1] <= now' /\ now' - x[1] < Window /\ x[1] # now'
  <2>1. \A x \in left : x[1] \in Int /\ x[1] <= now
    BY <1>1, ConstantsAssumption DEF Recent
  <2> QED
    BY <2>1, ConstantsAssumption DEF left
<1>4. Recent(local[i][k], guesses[i][k])'
  BY <1>3 DEF Recent, left
<1>5. ASSUME entry # None
      PROVE  Counted(entry, left)
  <2>1. entry.start \in Times /\ entry.count \in Int
    BY <1>5, ConstantsAssumption DEF Entry
  <2>2. Before(left, entry.start) \subseteq Before(g, entry.start)
    BY <1>1 DEF Before
  <2>3. Since(left, entry.start) \subseteq Since(g, entry.start)
    BY <1>1 DEF Since
  <2>4. IsFiniteSet(Before(g, entry.start)) /\ IsFiniteSet(Since(g, entry.start))
    BY <1>1, <2>1, Halves
  <2>5. /\ Cardinality(Before(left, entry.start)) <= Cardinality(Before(g, entry.start))
        /\ Cardinality(Since(left, entry.start)) <= Cardinality(Since(g, entry.start))
        /\ IsFiniteSet(Before(left, entry.start)) /\ IsFiniteSet(Since(left, entry.start))
    BY <2>2, <2>3, <2>4, FS_Subset
  <2>6. /\ Cardinality(Before(left, entry.start)) \in Nat /\ Cardinality(Before(g, entry.start)) \in Nat
        /\ Cardinality(Since(left, entry.start)) \in Nat /\ Cardinality(Since(g, entry.start)) \in Nat
    BY <2>4, <2>5, FS_CardinalityType
  <2>7. Counted(entry, g)
    BY <1>5 DEF Gauged
  <2> QED
    BY <1>1, <1>2, <2>1, <2>5, <2>6, <2>7, ConstantsAssumption DEF Counted
<1>6. entry = None => Cardinality(left) < MaxFailures
  BY <1>2, ConstantsAssumption DEF Gauged
<1>7. entry # None => entry.start <= now'
  BY ConstantsAssumption DEF Gauged, Entry
<1> QED
  BY <1>1, <1>4, <1>5, <1>6, <1>7 DEF Gauged, Counted, left

LEMMA StepGauges ==
  ASSUME Roomy, Window <= Block, CauseInv, GaugeInv, [Next]_vars
  PROVE  GaugeInv'
<1>1. /\ local \in [Isolates -> Limits] /\ now \in PersistInterval..MaxTime
      /\ guesses \in [Isolates -> [Keys -> SUBSET (Times \X Nat)]]
      /\ \A j \in Isolates, l \in Keys : Gauged(local[j][l], guesses[j][l])
      /\ \A j \in Isolates : local[j] \in Limits
      /\ \A j \in Isolates, l \in Keys : local[j][l] \in Entry \cup {None}
  BY DEF CauseInv, CauseTypes, GaugeInv, Limits
<1>2. CASE UNCHANGED <<now, local, guesses>>
  BY <1>2 DEF GaugeInv, Gauged, Recent, Counted, SameWindow
<1>3. ASSUME NEW i \in Isolates, NEW k \in Keys, Fails(i, k)
      PROVE  GaugeInv'
  <2> DEFINE new == AfterFailure(local[i][k])
             more == guesses[i][k] \cup {<<now, Cardinality(guesses[i][k])>>}
             changed == [local[i] EXCEPT ![k] = new]
  <2>1. PICK limits \in Pruned(changed) : local' = [local EXCEPT ![i] = limits]
    BY <1>1, <1>3 DEF Fails, Limits
  <2>2. now' = now /\ guesses' = [guesses EXCEPT ![i][k] = more]
    BY <1>3 DEF Fails
  <2>3. new \in Entry /\ Gauged(new, more)
    BY <1>1, <1>3, FailureCounts, FailureGauges DEF Fails
  <2>4. more \in SUBSET (Times \X Nat)
    BY <2>3 DEF Gauged
  <2> HIDE DEF new, more
  <2>5. changed \in Limits
    BY <1>1, <2>3 DEF Limits
  <2>6. guesses' \in [Isolates -> [Keys -> SUBSET (Times \X Nat)]]
    BY <1>1, <2>2, <2>4
  <2>7. ASSUME NEW j \in Isolates, NEW l \in Keys
        PROVE  Gauged(local'[j][l], guesses'[j][l])
    <3>1. CASE j # i
      BY <1>1, <2>1, <2>2, <3>1
    <3>2. CASE j = i
      <4>1. Gauged(changed[l], guesses'[i][l])
        <5>1. CASE l = k
          BY <1>1, <2>2, <2>3, <5>1 DEF Limits
        <5>2. CASE l # k
          <6>1. changed[l] = local[i][l] /\ guesses'[i][l] = guesses[i][l]
            BY <1>1, <2>2, <5>2 DEF Limits
          <6> QED
            BY <1>1, <6>1
        <5> QED
          BY <5>1, <5>2
      <4> HIDE DEF changed
      <4> QED
        BY <1>1, <2>1, <2>5, <3>2, <4>1, PruningGauges
    <3> QED
      BY <3>1, <3>2
  <2> QED
    BY <2>2, <2>6, <2>7 DEF GaugeInv, Gauged, Recent, Counted, SameWindow
<1>4. ASSUME NEW i \in Isolates, NEW k \in Keys, Succeeds(i, k)
      PROVE  GaugeInv'
  <2>1. /\ now' = now /\ guesses' = [guesses EXCEPT ![i][k] = {}]
        /\ local' = [local EXCEPT ![i][k] = None]
    BY <1>4 DEF Succeeds
  <2>2. Gauged(None, {})
    BY FS_EmptySet, ConstantsAssumption DEF Gauged, Recent
  <2>3. guesses' \in [Isolates -> [Keys -> SUBSET (Times \X Nat)]]
    BY <1>1, <2>1
  <2>4. ASSUME NEW j \in Isolates, NEW l \in Keys
        PROVE  Gauged(local'[j][l], guesses'[j][l])
    <3>1. CASE j = i /\ l = k
      BY <1>1, <2>1, <2>2, <3>1 DEF Limits
    <3>2. CASE j # i \/ l # k
      <4>1. local'[j][l] = local[j][l] /\ guesses'[j][l] = guesses[j][l]
        BY <1>1, <2>1, <3>2 DEF Limits
      <4> QED
        BY <1>1, <4>1
    <3> QED
      BY <3>1, <3>2
  <2> QED
    BY <2>1, <2>3, <2>4 DEF GaugeInv, Gauged, Recent, Counted, SameWindow
<1>5. ASSUME NEW i \in Isolates, NEW k \in Keys, NEW until \in Deadlines, Learns(i, k, until)
      PROVE  GaugeInv'
  <2>1. PICK asked \in PersistInterval..now :
          \E limits \in Pruned([local[i] EXCEPT ![k] = Merged(@, until, asked)]) :
            local' = [local EXCEPT ![i] = limits]
    BY <1>5 DEF Learns
  <2> DEFINE new == Merged(local[i][k], until, asked)
             changed == [local[i] EXCEPT ![k] = new]
  <2>2. PICK limits \in Pruned(changed) : local' = [local EXCEPT ![i] = limits]
    BY <1>1, <2>1 DEF Limits
  <2>3. now' = now /\ guesses' = guesses
    BY <1>5 DEF Learns
  <2>4. new \in Entry \cup {None} /\ Gauged(new, guesses[i][k])
    <3>1. asked \in Times /\ asked <= now
      BY <1>1, <2>1, ConstantsAssumption
    <3> QED
      BY <1>1, <3>1, MergedGauges
  <2> HIDE DEF new
  <2>5. changed \in Limits
    BY <1>1, <2>4 DEF Limits
  <2>6. ASSUME NEW j \in Isolates, NEW l \in Keys
        PROVE  Gauged(local'[j][l], guesses[j][l])
    <3>1. CASE j # i
      BY <1>1, <2>2, <3>1
    <3>2. CASE j = i
      <4>1. Gauged(changed[l], guesses[i][l])
        <5>1. CASE l = k
          BY <1>1, <2>4, <5>1 DEF Limits
        <5>2. CASE l # k
          <6>1. changed[l] = local[i][l]
            BY <1>1, <5>2 DEF Limits
          <6> QED
            BY <1>1, <6>1
        <5> QED
          BY <5>1, <5>2
      <4> HIDE DEF changed
      <4> QED
        BY <1>1, <2>2, <2>5, <3>2, <4>1, PruningGauges
    <3> QED
      BY <3>1, <3>2
  <2> QED
    BY <1>1, <2>3, <2>6 DEF GaugeInv, Gauged, Recent, Counted, SameWindow
<1>6. CASE Tick
  <2>1. /\ now' = now + 1 /\ local' = local
        /\ guesses' = [j \in Isolates |-> [l \in Keys |-> {g \in guesses[j][l] : now' - g[1] < Window}]]
    BY <1>6 DEF Tick
  <2>2. guesses' \in [Isolates -> [Keys -> SUBSET (Times \X Nat)]]
    BY <1>1, <2>1
  <2>3. ASSUME NEW j \in Isolates, NEW l \in Keys
        PROVE  Gauged(local[j][l], guesses[j][l])'
    <3>1. guesses'[j][l] = {g \in guesses[j][l] : now' - g[1] < Window}
      BY <2>1
    <3> QED
      BY <1>1, <2>1, <3>1, TickGauges
  <2> QED
    BY <2>2, <2>3 DEF GaugeInv
<1> QED
  <2>1. ASSUME Next PROVE UNCHANGED <<now, local, guesses>> \/ Tick
          \/ \E i \in Isolates, k \in Keys :
               Fails(i, k) \/ Succeeds(i, k) \/ \E until \in Deadlines : Learns(i, k, until)
    BY <2>1 DEF Next, HandleReport, HandleSnapshot, HandleClear, Lose, ConnectFails, ConnectSucceeds,
                Load, Forget, isolate
  <2>2. CASE UNCHANGED vars
    BY <1>2, <2>2 DEF vars, isolate
  <2> QED
    BY <1>2, <1>3, <1>4, <1>5, <1>6, <2>1, <2>2

(* GuessesBounded, while no table of an isolate is too small for the       *)
(* addresses there are: its local limit holds without any help of the      *)
(* object, so that no message lost or late lets more comparisons through.  *)
THEOREM LocalLimitHolds == Roomy /\ Spec => []GuessesBounded
<1> SUFFICES ASSUME Roomy PROVE Spec => []GuessesBounded
  OBVIOUS
<1>1. CASE ~(Window <= Block)
  <2>1. GuessesBounded
    BY <1>1 DEF GuessesBounded
  <2> QED
    BY <2>1, PTL
<1>2. CASE Window <= Block
  <2>1. Init => GaugeInv
    <3> SUFFICES ASSUME Init PROVE GaugeInv
      OBVIOUS
    <3>1. Gauged(None, {})
      BY FS_EmptySet, ConstantsAssumption DEF Gauged, Recent
    <3>2. guesses \in [Isolates -> [Keys -> SUBSET (Times \X Nat)]]
      BY DEF Init
    <3> QED
      BY <3>1, <3>2 DEF Init, GaugeInv, Empty
  <2>2. CauseInv /\ GaugeInv => GuessesBounded
    BY GaugedBounded DEF CauseInv, CauseTypes, Limits, GaugeInv, GuessesBounded
  <2>3. CauseInv /\ GaugeInv /\ [Next]_vars => CauseInv' /\ GaugeInv'
    BY <1>2, StepPays, StepGauges
  <2> QED
    BY <2>1, <2>2, <2>3, InitCause, PTL DEF Spec
<1> QED
  BY <1>1, <1>2
=============================================================================
