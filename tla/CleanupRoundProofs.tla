------------------------- MODULE CleanupRoundProofs -------------------------
(* The accounting of the cleaning round, for every budget, reserve, limit  *)
(* and backlog, whatever fails.                                            *)
EXTENDS CleanupRound, TLAPS

(* A sweep deletes directories that are there, and that are in the map     *)
(* once there is one.                                                      *)
SweepInv ==
  /\ phase = "sweep" => /\ pending <= orphans /\ (listed => pending <= mapped)
                        /\ batches < MaxBatches
  /\ phase = "orphanSweep" => pending <= mapped

(* The calls before the phases are counted; each phase leaves the later    *)
(* ones their reserves; reading the rows is the one call that no check of  *)
(* the room precedes.                                                      *)
BudgetInv ==
  /\ phase = "heartbeat" => spent = 0
  /\ phase = "settings" => spent = 1
  /\ phase = "cursors" => spent = 2
  /\ phase \in {"idle", "heartbeat", "settings", "cursors", "end"} => batches = 0 /\ processed = 0
  /\ \A ph \in Phases : phase = ph => spent <= Budget - After[ph]
  /\ \A ph \in Phases : AtStart(ph) => spent <= Budget - After[ph] - Reserve[ph]
  /\ phase = "sweep" => spent <= Budget - After["hardDelete"]
  /\ phase = "reference" => spent <= Budget - After["orphans"]
  /\ phase \in {"orphanSweep", "end"} => spent <= Budget
  /\ spent <= Budget + 1

Inv == TypeOK /\ SweepInv /\ BudgetInv

LEMMA AfterType ==
  /\ After \in [Phases -> Nat]
  /\ After["retention"] = After["trim"] + Reserve["trim"]
  /\ After["trim"] = After["hardDelete"] + Reserve["hardDelete"]
  /\ After["hardDelete"] = After["orphans"] + Reserve["orphans"]
  /\ After["orphans"] = 1
BY ReserveAssumption DEF After, Phases, RoundEnd

LEMMA InitInv == Init => Inv
<1>. SUFFICES ASSUME Init PROVE Inv
  OBVIOUS
<1>1. /\ live \in Nat /\ active \in Nat /\ trash \in Nat /\ orphans \in Nat
      /\ plain \in 0..active /\ expired \in 0..plain
  BY InputAssumption DEF Init, BacklogType
<1>2. /\ cursor \in [Phases -> Nat] /\ stored \in [Phases -> Nat]
      /\ status \in [Phases -> {"waiting", "done", "truncated", "disabled", "error"}]
  BY DEF Init, NoCursors, NoStatus
<1>3. more \in BOOLEAN /\ listed \in BOOLEAN /\ beaten \in BOOLEAN
  BY DEF Init
<1>4. completed \in BOOLEAN /\ finished \in BOOLEAN
  BY DEF Init
<1>5. /\ spent \in Nat /\ batches \in 0..MaxBatches /\ processed \in Nat /\ pending \in Nat
      /\ arrivals \in 0..MaxArrivals /\ faults \in 0..MaxFaults
  BY LimitAssumption DEF Init
<1>6. TypeOK  BY <1>1, <1>2, <1>3, <1>4, <1>5, InputAssumption DEF Init, TypeOK
<1>7. SweepInv /\ BudgetInv
  BY BudgetAssumption DEF Init, SweepInv, BudgetInv, AtStart, Phases
<1>. QED  BY <1>6, <1>7 DEF Inv

(* What Leave and Again make of the variables of the loop.                 *)
LEMMA LeaveType ==
  ASSUME TypeOK, NEW ph \in Phases, NEW outcome \in {"done", "truncated", "disabled", "error"},
         NEW count \in Nat, Leave(ph, outcome, count)
  PROVE  /\ phase' = Successor[ph] /\ phase' \in {"trim", "hardDelete", "orphans", "end"}
         /\ batches' = 0 /\ processed' = 0 /\ pending' = 0 /\ more' \in BOOLEAN
         /\ status' \in [Phases -> {"waiting", "done", "truncated", "disabled", "error"}]
         /\ cursor' \in [Phases -> Nat]
<1>1. Successor[ph] \in {"trim", "hardDelete", "orphans", "end"}  BY DEF Successor, Phases
<1>2. cursor[ph] \in Nat  BY DEF TypeOK
<1>3. NextCursor(ph, outcome, count) \in Nat  BY <1>2 DEF NextCursor
<1>4. cursor' \in [Phases -> Nat]  BY <1>3 DEF Leave, TypeOK
<1>5. more' \in BOOLEAN  BY DEF Leave
<1>. QED  BY <1>1, <1>4, <1>5 DEF Leave, TypeOK

LEMMA AgainType ==
  ASSUME TypeOK, NEW ph \in Phases, NEW count \in Nat, batches < MaxBatches, Again(ph, count)
  PROVE  /\ phase' = ph
         /\ batches' \in 1..MaxBatches /\ processed' \in Nat /\ pending' = 0 /\ more' \in BOOLEAN
         /\ status' \in [Phases -> {"waiting", "done", "truncated", "disabled", "error"}]
         /\ cursor' \in [Phases -> Nat]
<1>1. more' \in BOOLEAN  BY DEF Again
<1>. QED  BY <1>1, LimitAssumption DEF Again, TypeOK

(* After a phase there is its successor's reserve.                         *)
LEMMA LeaveBudget ==
  ASSUME TypeOK, NEW ph \in Phases, NEW outcome \in {"done", "truncated", "disabled", "error"},
         NEW count \in Nat, Leave(ph, outcome, count),
         spent' \in Nat,
         IF ph = "orphans" THEN spent' <= Budget ELSE spent' <= Budget - After[ph]
  PROVE  BudgetInv' /\ SweepInv'
<1>1. /\ phase' = Successor[ph] /\ batches' = 0 /\ processed' = 0 /\ pending' = 0
      /\ phase' \in {"trim", "hardDelete", "orphans", "end"}
  BY LeaveType
<1>2. ph # "orphans" => After[ph] = After[phase'] + Reserve[phase'] /\ phase' \in Phases
  BY <1>1, AfterType DEF Successor, Phases
<1>3. ph = "orphans" => phase' = "end"
  BY <1>1 DEF Successor
<1>4. \A q \in Phases : After[q] \in Nat /\ Reserve[q] \in Nat /\ After[q] >= 1
  BY AfterType, ReserveAssumption DEF Phases
<1>. QED
  BY <1>1, <1>2, <1>3, <1>4, BudgetAssumption DEF BudgetInv, SweepInv, AtStart, Phases

LEMMA RoomType ==
  ASSUME TypeOK, NEW ph \in Phases
  PROVE  /\ Room(ph) \in Nat
         /\ Room(ph) > 0 => Room(ph) = Budget - spent - After[ph]
BY AfterType, BudgetAssumption DEF TypeOK, Room, Larger

LEMMA FaultType == ASSUME TypeOK, Faulty \/ Sound PROVE faults' \in 0..MaxFaults
BY LimitAssumption DEF TypeOK, Faulty, Sound

----------------------------------------------------------------------------
(* Every action preserves the invariant.                                   *)

LEMMA StartRoundInv == ASSUME Inv, StartRound PROVE Inv'
<1>1. beaten' \in BOOLEAN /\ finished' \in BOOLEAN /\ listed' \in BOOLEAN
  BY DEF StartRound
<1>2. /\ cursor' \in [Phases -> Nat]
      /\ status' \in [Phases -> {"waiting", "done", "truncated", "disabled", "error"}]
  BY DEF StartRound, NoCursors, NoStatus
<1>3. TypeOK'
  BY <1>1, <1>2 DEF Inv, TypeOK, StartRound, work, loop, meta
<1>4. SweepInv' /\ BudgetInv'
  BY BudgetAssumption DEF Inv, TypeOK, SweepInv, BudgetInv, AtStart, Phases, StartRound, loop, work
<1>. QED  BY <1>3, <1>4 DEF Inv

LEMMA HeartbeatInv == ASSUME Inv, Heartbeat PROVE Inv'
<1>1. faults' \in 0..MaxFaults  BY FaultType DEF Inv, Heartbeat
<1>2. completed' \in BOOLEAN /\ beaten' \in BOOLEAN  BY DEF Inv, TypeOK, Heartbeat, Beat
<1>3. TypeOK'
  BY <1>1, <1>2 DEF Inv, TypeOK, Heartbeat, Spend, work, loop, map
<1>4. SweepInv' /\ BudgetInv'
  BY BudgetAssumption DEF Inv, TypeOK, SweepInv, BudgetInv, AtStart, Phases, Heartbeat, Spend, loop,
     work
<1>. QED  BY <1>3, <1>4 DEF Inv

LEMMA ReadSettingsInv == ASSUME Inv, ReadSettings PROVE Inv'
<1>1. faults' \in 0..MaxFaults  BY FaultType DEF Inv, ReadSettings
<1>2. settings' \in SettingsType  BY InputAssumption DEF ReadSettings
<1>3. TypeOK'
  BY <1>1, <1>2 DEF Inv, TypeOK, ReadSettings, Spend, work, loop, map, meta, ghosts
<1>4. SweepInv' /\ BudgetInv'
  BY BudgetAssumption, AfterType, ReserveAssumption
  DEF Inv, TypeOK, SweepInv, BudgetInv, AtStart, Phases, ReadSettings, Spend, loop, work
<1>. QED  BY <1>3, <1>4 DEF Inv

LEMMA ReadCursorsInv == ASSUME Inv, ReadCursors PROVE Inv'
<1>1. faults' \in 0..MaxFaults  BY FaultType DEF Inv, ReadCursors
<1>2. cursor' \in [Phases -> Nat]  BY DEF Inv, TypeOK, ReadCursors
<1>3. TypeOK'
  BY <1>1, <1>2 DEF Inv, TypeOK, Phases, ReadCursors, Spend, work, loop, map, meta, ghosts
<1>4. SweepInv' /\ BudgetInv'
  BY BudgetAssumption, AfterType, ReserveAssumption
  DEF Inv, TypeOK, SweepInv, BudgetInv, AtStart, Phases, ReadCursors, Spend, loop, work
<1>. QED  BY <1>3, <1>4 DEF Inv

LEMMA DisabledInv == ASSUME Inv, NEW ph \in Phases, Disabled(ph) PROVE Inv'
<1>1. Leave(ph, "disabled", 0) /\ spent' = spent  BY DEF Disabled
<1>2. TypeOK'
  BY <1>1, LeaveType, LimitAssumption
  DEF Inv, TypeOK, Phases, Disabled, work, map, meta, ghosts
<1>3. SweepInv' /\ BudgetInv'
  BY <1>1, LeaveBudget, AfterType, BudgetAssumption DEF Inv, TypeOK, BudgetInv, Disabled, Phases
<1>. QED  BY <1>2, <1>3 DEF Inv

LEMMA TruncateInv == ASSUME Inv, NEW ph \in Phases, Truncate(ph) PROVE Inv'
<1>1. Leave(ph, "truncated", processed) /\ spent' = spent /\ processed \in Nat
  BY DEF Inv, TypeOK, Truncate
<1>2. TypeOK'
  BY <1>1, LeaveType, LimitAssumption
  DEF Inv, TypeOK, Phases, Truncate, work, map, meta, ghosts
<1>3. SweepInv' /\ BudgetInv'
  BY <1>1, LeaveBudget, AfterType, BudgetAssumption DEF Inv, TypeOK, BudgetInv, Truncate, Phases
<1>. QED  BY <1>2, <1>3 DEF Inv

(* A soft-deleting batch takes what is there, and no more than its room.   *)
LEMMA TakenType ==
  ASSUME TypeOK, NEW ph \in {"retention", "trim"}, SoftBatchLimit(ph) >= 1
  PROVE  /\ Taken(ph) \in Nat /\ Taken(ph) <= plain /\ Query[ph] \in Nat
         /\ spent + Query[ph] + Taken(ph) <= Budget - After[ph]
<1>1. ph \in Phases  BY DEF Phases
<1>2. Query[ph] \in Nat \ {0}  BY DEF Query
<1>3. Room(ph) \in Nat  BY <1>1, RoomType
<1>4. SoftBatchLimit(ph) \in Int /\ SoftBatchLimit(ph) <= Room(ph) - Query[ph]
  BY <1>2, <1>3, LimitAssumption DEF SoftBatchLimit, Smaller
<1>5. Room(ph) = Budget - spent - After[ph]
  BY <1>1, <1>2, <1>3, <1>4, RoomType
<1>6. Overage \in Int  BY DEF TypeOK, SettingsType, Overage
<1>7. Scanned(ph) \in Nat /\ Scanned(ph) <= plain /\ Scanned(ph) <= SoftBatchLimit(ph)
  BY <1>4, <1>6 DEF TypeOK, Scanned, Smaller, Larger
<1>8. Fitting \in Int  BY LimitAssumption DEF TypeOK, Fitting, Weighable, Larger
<1>9. Taken(ph) \in Nat /\ Taken(ph) <= Scanned(ph)
  BY <1>7, <1>8 DEF Taken, Smaller, Larger
<1>10. After[ph] \in Nat /\ spent \in Nat  BY <1>1, AfterType DEF TypeOK
<1>. QED  BY <1>2, <1>3, <1>4, <1>5, <1>7, <1>9, <1>10, BudgetAssumption DEF TypeOK

LEMMA SoftBatchInv == ASSUME Inv, NEW ph \in Phases, SoftBatch(ph) PROVE Inv'
<1>1. TypeOK /\ SweepInv /\ BudgetInv /\ ph \in {"retention", "trim"} /\ phase = ph
      /\ SoftBatchLimit(ph) >= 1 /\ batches < MaxBatches
  BY DEF Inv, SoftBatch
<1>. DEFINE n == Taken(ph)
<1>2. n \in Nat /\ n <= plain /\ Query[ph] \in Nat /\ After[ph] \in Nat
      /\ spent + Query[ph] + n <= Budget - After[ph]
  BY <1>1, TakenType, AfterType
<1>. HIDE DEF n
<1>3. /\ faults' \in 0..MaxFaults /\ processed \in Nat /\ processed + n \in Nat
      /\ spent \in Nat /\ Budget \in Nat
  BY <1>1, <1>2, FaultType, BudgetAssumption DEF TypeOK, SoftBatch
<1>4. CASE Sound /\ SoftDelete(n) /\ Spend(Query[ph] + n) /\ Again(ph, n)
  <2>1. /\ live' \in Nat /\ active' \in Nat /\ trash' \in Nat /\ orphans' = orphans
        /\ plain' \in 0..active' /\ expired' \in 0..plain' /\ spent' = spent + Query[ph] + n
    BY <1>1, <1>2, <1>3, <1>4 DEF TypeOK, SoftDelete, Larger, Spend
  <2>2. /\ phase' = ph /\ batches' \in 1..MaxBatches /\ processed' \in Nat /\ pending' = 0
        /\ more' \in BOOLEAN /\ cursor' \in [Phases -> Nat]
        /\ status' \in [Phases -> {"waiting", "done", "truncated", "disabled", "error"}]
    BY <1>1, <1>2, <1>4, AgainType
  <2>3. TypeOK'
    BY <1>1, <1>2, <1>3, <2>1, <2>2, LimitAssumption
    DEF TypeOK, Phases, SoftBatch, map, meta, ghosts
  <2>4. SweepInv' /\ BudgetInv'
    BY <1>1, <1>2, <1>3, <2>1, <2>2, LimitAssumption
    DEF SweepInv, BudgetInv, AtStart, Phases
  <2>. QED  BY <2>3, <2>4 DEF Inv
<1>5. ASSUME Sound, SoftDelete(n), Spend(Query[ph] + n), NEW outcome \in {"truncated", "done"},
             NEW count \in Nat, Leave(ph, outcome, count)
      PROVE  Inv'
  <2>1. /\ live' \in Nat /\ active' \in Nat /\ trash' \in Nat /\ orphans' = orphans
        /\ plain' \in 0..active' /\ expired' \in 0..plain' /\ spent' = spent + Query[ph] + n
    BY <1>1, <1>2, <1>3, <1>5 DEF TypeOK, SoftDelete, Larger, Spend
  <2>2. TypeOK'
    BY <1>1, <1>2, <1>3, <1>5, <2>1, LeaveType, LimitAssumption
    DEF TypeOK, Phases, SoftBatch, map, meta, ghosts
  <2>3. SweepInv' /\ BudgetInv'
    BY <1>1, <1>2, <1>3, <1>5, <2>1, LeaveBudget
  <2>. QED  BY <1>1, <2>2, <2>3 DEF Inv
<1>6. CASE Leave(ph, "error", processed) /\ Spend(Query[ph]) /\ UNCHANGED work
  <2>1. spent' = spent + Query[ph]  BY <1>6 DEF Spend
  <2>2. TypeOK'
    BY <1>1, <1>2, <1>3, <1>6, <2>1, LeaveType, LimitAssumption
    DEF TypeOK, Phases, SoftBatch, work, map, meta, ghosts
  <2>3. SweepInv' /\ BudgetInv'
    BY <1>1, <1>2, <1>3, <1>6, <2>1, LeaveBudget
  <2>. QED  BY <1>1, <2>2, <2>3 DEF Inv
<1>. QED  BY <1>3, <1>4, <1>5, <1>6 DEF SoftBatch, n

(* What a listing spends and finds, and what a failed one spends.          *)
LEMMA ListingType ==
  ASSUME TypeOK, NEW ph \in Phases, Listing(ph)
  PROVE  /\ spent' \in Nat /\ spent' >= spent /\ spent' <= spent + Room(ph)
         /\ listed' \in BOOLEAN /\ listed' = (Pages <= Room(ph))
         /\ mapped' = IF Pages <= Room(ph) THEN orphans ELSE 0
<1>1. Room(ph) \in Nat  BY RoomType
<1>2. Pages \in Nat  BY LimitAssumption DEF TypeOK, Pages, Larger
<1>. QED  BY <1>1, <1>2 DEF TypeOK, Listing, Spend, Smaller

LEMMA ListingFailsType ==
  ASSUME TypeOK, NEW ph \in Phases, ListingFails(ph)
  PROVE  /\ spent' \in Nat /\ spent' >= spent /\ spent' <= spent + Room(ph)
         /\ listed' = listed /\ mapped' = mapped
<1>1. Room(ph) \in Nat  BY RoomType
<1>2. Pages \in Nat  BY LimitAssumption DEF TypeOK, Pages, Larger
<1>. QED  BY <1>1, <1>2 DEF TypeOK, ListingFails, Spend, Smaller, map

(* Spending the room of a phase keeps to its budget.                       *)
LEMMA RoomBudget ==
  ASSUME TypeOK, NEW ph \in Phases, spent <= Budget - After[ph],
         NEW s \in Nat, s <= spent + Room(ph)
  PROVE  s <= Budget - After[ph] /\ s <= Budget - 1
<1>1. After[ph] \in Nat /\ After[ph] >= 1  BY AfterType, ReserveAssumption DEF Phases
<1>2. Room(ph) = Budget - spent - After[ph]
  BY <1>1, BudgetAssumption DEF TypeOK, Room, Larger
<1>. QED  BY <1>1, <1>2, BudgetAssumption DEF TypeOK

(* A sweep ends as a phase does, or goes back to its phase.                *)
LEMMA SweepEndsInv ==
  ASSUME TypeOK, batches < MaxBatches, SweepEnds, spent' \in Nat,
         spent' <= Budget - After["hardDelete"]
  PROVE  /\ phase' \in Phases
         /\ batches' \in 0..MaxBatches /\ processed' \in Nat /\ pending' = 0 /\ more' \in BOOLEAN
         /\ status' \in [Phases -> {"waiting", "done", "truncated", "disabled", "error"}]
         /\ cursor' \in [Phases -> Nat]
         /\ SweepInv' /\ BudgetInv'
<1>1. "hardDelete" \in Phases /\ processed \in Nat  BY DEF Phases, TypeOK
<1>2. CASE Again("hardDelete", 0)
  <2>1. /\ phase' = "hardDelete"
        /\ batches' \in 1..MaxBatches /\ processed' \in Nat /\ pending' = 0 /\ more' \in BOOLEAN
        /\ status' \in [Phases -> {"waiting", "done", "truncated", "disabled", "error"}]
        /\ cursor' \in [Phases -> Nat]
    BY <1>1, <1>2, AgainType
  <2>2. After["hardDelete"] \in Nat /\ Budget \in Nat  BY <1>1, AfterType, BudgetAssumption
  <2>. QED
    BY <1>1, <2>1, <2>2, LimitAssumption DEF SweepInv, BudgetInv, AtStart, Phases
<1>3. CASE Leave("hardDelete", "done", processed)
  <2>1. SweepInv' /\ BudgetInv'  BY <1>1, <1>3, LeaveBudget
  <2>. QED  BY <1>1, <1>3, <2>1, LeaveType, LimitAssumption DEF Successor, Phases
<1>. QED  BY <1>2, <1>3 DEF SweepEnds

LEMMA HardBatchInv == ASSUME Inv, HardBatch PROVE Inv'
<1>. DEFINE n == Smaller(HardLimit, trash)
<1>1. /\ TypeOK /\ SweepInv /\ BudgetInv /\ phase = "hardDelete" /\ batches < MaxBatches
      /\ "hardDelete" \in Phases /\ n \in Nat /\ n <= trash
  BY LimitAssumption DEF Inv, TypeOK, HardBatch, Smaller, Phases
<1>. HIDE DEF n
<1>2. spent' = spent + 1 /\ spent' \in Nat /\ spent' <= Budget - After["hardDelete"]
  <2>1. Room("hardDelete") >= 2 /\ spent' = spent + 1  BY DEF HardBatch, Query, Spend
  <2>2. spent <= Budget - After["hardDelete"]  BY <1>1 DEF BudgetInv
  <2>3. spent' \in Nat /\ spent' <= spent + Room("hardDelete")
    BY <1>1, <2>1, RoomType DEF TypeOK
  <2>. QED  BY <1>1, <2>1, <2>2, <2>3, RoomBudget
<1>3. faults' \in 0..MaxFaults /\ processed \in Nat /\ processed + n \in Nat
  BY <1>1, FaultType DEF TypeOK, HardBatch
<1>4. ASSUME NEW outcome \in {"done", "error"}, Leave("hardDelete", outcome, processed),
             UNCHANGED <<work, map>>
      PROVE  Inv'
  <2>1. SweepInv' /\ BudgetInv'  BY <1>1, <1>2, <1>3, <1>4, LeaveBudget
  <2>2. TypeOK'
    BY <1>1, <1>2, <1>3, <1>4, LeaveType, LimitAssumption
    DEF TypeOK, Phases, HardBatch, work, map, meta, ghosts
  <2>. QED  BY <2>1, <2>2 DEF Inv
<1>5. CASE /\ trash' = trash - n /\ orphans' = orphans + n
           /\ mapped' = IF listed THEN mapped + n ELSE mapped
           /\ pending' = n /\ processed' = processed + n /\ more' = (n = HardLimit)
           /\ phase' = "sweep"
           /\ UNCHANGED <<live, active, plain, expired, batches, status, cursor, listed>>
  <2>1. more' \in BOOLEAN  BY <1>5
  <2>2. /\ trash' \in Nat /\ orphans' \in Nat /\ mapped' \in 0..orphans'
        /\ listed' => pending' <= mapped'
    BY <1>1, <1>5 DEF TypeOK
  <2>3. TypeOK'
    BY <1>1, <1>2, <1>3, <1>5, <2>1, <2>2 DEF TypeOK, Phases, HardBatch, meta, ghosts
  <2>4. SweepInv' /\ BudgetInv'
    BY <1>1, <1>2, <1>5, <2>2, AfterType, BudgetAssumption
    DEF TypeOK, SweepInv, BudgetInv, AtStart, Phases
  <2>. QED  BY <2>3, <2>4 DEF Inv
<1>. QED  BY <1>4, <1>5 DEF HardBatch, n

LEMMA SweepListInv == ASSUME Inv, SweepList PROVE Inv'
<1>1. /\ TypeOK /\ SweepInv /\ BudgetInv /\ phase = "sweep" /\ "hardDelete" \in Phases
      /\ batches < MaxBatches /\ spent <= Budget - After["hardDelete"]
  BY DEF Inv, SweepList, SweepInv, BudgetInv, Phases
<1>2. /\ spent' \in Nat /\ spent' <= spent + Room("hardDelete")
      /\ listed' \in BOOLEAN /\ mapped' \in 0..orphans /\ mapped' \in {mapped, 0, orphans}
      /\ Listing("hardDelete") /\ Pages <= Room("hardDelete") => mapped' = orphans
  BY <1>1, ListingType, ListingFailsType DEF SweepList, TypeOK
<1>3. spent' <= Budget - After["hardDelete"]  BY <1>1, <1>2, RoomBudget
<1>4. faults' \in 0..MaxFaults  BY <1>1, FaultType DEF SweepList, ListingFails
<1>5. CASE SweepEnds
  <2>1. TypeOK'
    BY <1>1, <1>2, <1>3, <1>4, <1>5, SweepEndsInv
    DEF TypeOK, SweepList, work, meta, ghosts
  <2>. QED  BY <1>1, <1>2, <1>3, <1>5, <2>1, SweepEndsInv DEF Inv
<1>6. CASE mapped' = orphans /\ UNCHANGED <<phase, loop, status, cursor>>
  <2>1. TypeOK'
    BY <1>1, <1>2, <1>4, <1>6 DEF TypeOK, SweepList, work, loop, meta, ghosts
  <2>2. SweepInv' /\ BudgetInv'
    BY <1>1, <1>2, <1>3, <1>6, AfterType, BudgetAssumption
    DEF TypeOK, SweepList, SweepInv, BudgetInv, AtStart, Phases, work, loop
  <2>. QED  BY <2>1, <2>2 DEF Inv
<1>. QED  BY <1>2, <1>5, <1>6 DEF SweepList

LEMMA SweepFlushInv == ASSUME Inv, SweepFlush PROVE Inv'
<1>. DEFINE n == Smaller(Chunk, pending)
<1>1. /\ TypeOK /\ SweepInv /\ BudgetInv /\ phase = "sweep" /\ "hardDelete" \in Phases
      /\ batches < MaxBatches /\ spent <= Budget - After["hardDelete"] /\ listed
      /\ pending <= mapped /\ n \in Nat /\ n <= pending
  BY LimitAssumption DEF Inv, TypeOK, SweepFlush, SweepInv, BudgetInv, Phases, Smaller
<1>. HIDE DEF n
<1>2. /\ spent' = spent + 1 /\ spent' \in Nat /\ spent' <= spent + Room("hardDelete")
      /\ mapped' = mapped - n /\ listed' = listed
  BY <1>1, RoomType DEF TypeOK, SweepFlush, Flush, Spend, n
<1>3. spent' <= Budget - After["hardDelete"]  BY <1>1, <1>2, RoomBudget
<1>4. faults' \in 0..MaxFaults  BY <1>1, FaultType DEF SweepFlush
<1>5. CASE SweepEnds /\ UNCHANGED orphans
  <2>1. TypeOK'
    BY <1>1, <1>2, <1>3, <1>4, <1>5, SweepEndsInv
    DEF TypeOK, SweepFlush, meta, ghosts
  <2>. QED  BY <1>1, <1>2, <1>3, <1>5, <2>1, SweepEndsInv DEF Inv
<1>6. CASE /\ orphans' = orphans - n /\ pending' = pending - n
           /\ UNCHANGED <<phase, batches, processed, more, status, cursor>>
  <2>1. TypeOK'
    BY <1>1, <1>2, <1>4, <1>6 DEF TypeOK, SweepFlush, meta, ghosts
  <2>2. SweepInv' /\ BudgetInv'
    BY <1>1, <1>2, <1>3, <1>6, AfterType, BudgetAssumption
    DEF TypeOK, SweepInv, BudgetInv, AtStart, Phases
  <2>. QED  BY <2>1, <2>2 DEF Inv
<1>. QED  BY <1>5, <1>6 DEF SweepFlush, n

LEMMA SweepDoneInv == ASSUME Inv, SweepDone PROVE Inv'
<1>1. /\ TypeOK /\ SweepInv /\ BudgetInv /\ phase = "sweep" /\ batches < MaxBatches
      /\ spent' = spent /\ spent <= Budget - After["hardDelete"] /\ spent \in Nat
  BY DEF Inv, TypeOK, SweepDone, SweepInv, BudgetInv
<1>2. mapped' \in 0..orphans /\ orphans' = orphans
  BY <1>1, LimitAssumption DEF TypeOK, SweepDone, SweepInv, Smaller, work
<1>3. TypeOK'
  BY <1>1, <1>2, SweepEndsInv DEF TypeOK, SweepDone, work, meta, ghosts
<1>. QED  BY <1>1, <1>3, SweepEndsInv DEF Inv, SweepDone

LEMMA OrphansRefusedInv == ASSUME Inv, OrphansRefused PROVE Inv'
<1>1. /\ TypeOK /\ SweepInv /\ BudgetInv /\ "orphans" \in Phases /\ spent' = spent /\ spent \in Nat
      /\ spent <= Budget /\ Leave("orphans", "truncated", 0)
  BY AfterType, BudgetAssumption DEF Inv, TypeOK, BudgetInv, OrphansRefused, Phases
<1>2. SweepInv' /\ BudgetInv'  BY <1>1, LeaveBudget
<1>3. TypeOK'
  BY <1>1, LeaveType, LimitAssumption DEF TypeOK, Phases, OrphansRefused, work, map, meta, ghosts
<1>. QED  BY <1>2, <1>3 DEF Inv

LEMMA OrphansListInv == ASSUME Inv, OrphansList PROVE Inv'
<1>1. /\ TypeOK /\ SweepInv /\ BudgetInv /\ phase = "orphans" /\ "orphans" \in Phases
      /\ spent <= Budget - After["orphans"] /\ spent \in Nat
  BY DEF Inv, TypeOK, OrphansList, BudgetInv, Phases
<1>2. /\ spent' \in Nat /\ spent' <= spent + Room("orphans")
      /\ listed' \in BOOLEAN /\ mapped' \in 0..orphans
  <2>1. CASE Listing("orphans")  BY <1>1, <2>1, ListingType DEF TypeOK
  <2>2. CASE ListingFails("orphans")  BY <1>1, <2>2, ListingFailsType DEF TypeOK
  <2>3. CASE UNCHANGED <<map, spent>>  BY <1>1, <2>3, RoomType DEF TypeOK, map
  <2>. QED  BY <2>1, <2>2, <2>3 DEF OrphansList
<1>3. spent' <= Budget - After["orphans"] /\ spent' <= Budget
  BY <1>1, <1>2, RoomBudget, BudgetAssumption
<1>4. faults' \in 0..MaxFaults  BY <1>1, FaultType DEF OrphansList, ListingFails, TypeOK
<1>5. ASSUME NEW outcome \in {"truncated", "error"}, Leave("orphans", outcome, 0)
      PROVE  Inv'
  <2>1. SweepInv' /\ BudgetInv'  BY <1>1, <1>2, <1>3, <1>5, LeaveBudget
  <2>2. TypeOK'
    BY <1>1, <1>2, <1>4, <1>5, LeaveType, LimitAssumption
    DEF TypeOK, Phases, OrphansList, work, meta, ghosts
  <2>. QED  BY <2>1, <2>2 DEF Inv
<1>6. CASE phase' = "reference" /\ UNCHANGED <<loop, status, cursor>>
  <2>1. TypeOK'
    BY <1>1, <1>2, <1>4, <1>6 DEF TypeOK, OrphansList, work, loop, meta, ghosts
  <2>2. SweepInv' /\ BudgetInv'
    BY <1>1, <1>2, <1>3, <1>6, BudgetAssumption DEF SweepInv, BudgetInv, AtStart, Phases
  <2>. QED  BY <2>1, <2>2 DEF Inv
<1>. QED  BY <1>5, <1>6 DEF OrphansList

LEMMA OrphansReferenceInv == ASSUME Inv, OrphansReference PROVE Inv'
<1>1. /\ TypeOK /\ SweepInv /\ BudgetInv /\ phase = "reference" /\ "orphans" \in Phases
      /\ spent <= Budget - 1 /\ spent \in Nat /\ mapped \in Nat
  BY AfterType DEF Inv, TypeOK, OrphansReference, BudgetInv, Phases
<1>2. spent' \in Nat /\ spent' <= Budget
  BY <1>1, BudgetAssumption DEF OrphansReference, Spend
<1>3. faults' \in 0..MaxFaults  BY <1>1, FaultType DEF OrphansReference
<1>4. ASSUME NEW outcome \in {"done", "error"}, Leave("orphans", outcome, 0)
      PROVE  Inv'
  <2>1. SweepInv' /\ BudgetInv'  BY <1>1, <1>2, <1>4, LeaveBudget
  <2>2. TypeOK'
    BY <1>1, <1>2, <1>3, <1>4, LeaveType, LimitAssumption
    DEF TypeOK, Phases, OrphansReference, work, map, meta, ghosts
  <2>. QED  BY <2>1, <2>2 DEF Inv
<1>5. CASE /\ phase' = "orphanSweep" /\ pending' = mapped
           /\ UNCHANGED <<batches, processed, more, status, cursor>>
  <2>1. TypeOK'
    BY <1>1, <1>2, <1>3, <1>5 DEF TypeOK, OrphansReference, work, map, meta, ghosts
  <2>2. SweepInv' /\ BudgetInv'
    BY <1>1, <1>2, <1>5, BudgetAssumption
    DEF TypeOK, OrphansReference, SweepInv, BudgetInv, AtStart, Phases, map
  <2>. QED  BY <2>1, <2>2 DEF Inv
<1>. QED  BY <1>4, <1>5 DEF OrphansReference

LEMMA OrphansFlushInv == ASSUME Inv, OrphansFlush PROVE Inv'
<1>. DEFINE n == Smaller(Chunk, pending)
<1>1. /\ TypeOK /\ SweepInv /\ BudgetInv /\ phase = "orphanSweep" /\ "orphans" \in Phases
      /\ spent \in Nat /\ pending <= mapped /\ n \in Nat /\ n <= pending
  BY LimitAssumption DEF Inv, TypeOK, OrphansFlush, SweepInv, Phases, Smaller
<1>. HIDE DEF n
<1>2. spent' \in Nat /\ spent' <= Budget /\ mapped' = mapped - n /\ listed' = listed
  BY <1>1, RoomType, AfterType, BudgetAssumption DEF OrphansFlush, Flush, Spend, n
<1>3. faults' \in 0..MaxFaults /\ processed \in Nat
  BY <1>1, FaultType DEF OrphansFlush, TypeOK
<1>4. CASE Leave("orphans", "truncated", processed) /\ UNCHANGED orphans
  <2>1. SweepInv' /\ BudgetInv'  BY <1>1, <1>2, <1>3, <1>4, LeaveBudget
  <2>2. TypeOK'
    BY <1>1, <1>2, <1>3, <1>4, LeaveType, LimitAssumption
    DEF TypeOK, Phases, OrphansFlush, meta, ghosts
  <2>. QED  BY <2>1, <2>2 DEF Inv
<1>5. CASE /\ orphans' = orphans - n /\ pending' = pending - n /\ processed' = processed + n
           /\ UNCHANGED <<phase, batches, more, status, cursor>>
  <2>1. TypeOK'
    BY <1>1, <1>2, <1>3, <1>5 DEF TypeOK, OrphansFlush, meta, ghosts
  <2>2. SweepInv' /\ BudgetInv'
    BY <1>1, <1>2, <1>5, BudgetAssumption DEF TypeOK, SweepInv, BudgetInv, AtStart, Phases
  <2>. QED  BY <2>1, <2>2 DEF Inv
<1>. QED  BY <1>4, <1>5 DEF OrphansFlush, n

LEMMA OrphansDoneInv == ASSUME Inv, OrphansDone PROVE Inv'
<1>1. /\ TypeOK /\ SweepInv /\ BudgetInv /\ phase = "orphanSweep" /\ "orphans" \in Phases
      /\ spent' = spent /\ spent \in Nat /\ spent <= Budget /\ processed \in Nat
  BY DEF Inv, TypeOK, OrphansDone, BudgetInv, Phases
<1>2. mapped' \in 0..orphans /\ listed' \in BOOLEAN /\ orphans' = orphans
  BY <1>1, LimitAssumption DEF TypeOK, OrphansDone, SweepInv, Smaller, work, map
<1>3. ASSUME NEW outcome \in {"done", "truncated"}, Leave("orphans", outcome, processed)
      PROVE  Inv'
  <2>1. SweepInv' /\ BudgetInv'  BY <1>1, <1>3, LeaveBudget
  <2>2. TypeOK'
    BY <1>1, <1>2, <1>3, LeaveType, LimitAssumption
    DEF TypeOK, Phases, OrphansDone, work, meta, ghosts
  <2>. QED  BY <2>1, <2>2 DEF Inv
<1>. QED  BY <1>3 DEF OrphansDone

LEMMA EndRoundInv == ASSUME Inv, EndRound PROVE Inv'
<1>1. faults' \in 0..MaxFaults  BY FaultType DEF Inv, EndRound
<1>2. stored' \in [Phases -> Nat]  BY DEF Inv, TypeOK, EndRound, meta
<1>3. completed' \in BOOLEAN  BY DEF Inv, TypeOK, EndRound, meta
<1>4. finished' \in BOOLEAN  BY DEF EndRound
<1>5. TypeOK'
  BY <1>1, <1>2, <1>3, <1>4 DEF Inv, TypeOK, EndRound, Spend, work, loop, map
<1>6. SweepInv' /\ BudgetInv'
  BY BudgetAssumption
  DEF Inv, TypeOK, SweepInv, BudgetInv, AtStart, Phases, EndRound, Spend, loop
<1>. QED  BY <1>5, <1>6 DEF Inv

LEMMA KillInv == ASSUME Inv, Kill PROVE Inv'
<1>1. faults' \in 0..MaxFaults  BY FaultType DEF Inv, Kill
<1>2. more' \in BOOLEAN  BY DEF Kill
<1>3. TypeOK'
  BY <1>1, <1>2, LimitAssumption DEF Inv, TypeOK, Kill, work, map, meta, ghosts
<1>4. SweepInv' /\ BudgetInv'
  BY DEF Inv, SweepInv, BudgetInv, AtStart, Phases, Kill
<1>. QED  BY <1>3, <1>4 DEF Inv

LEMMA ArriveInv == ASSUME Inv, Arrive PROVE Inv'
<1>1. /\ live' \in Nat /\ active' \in Nat /\ trash' \in Nat /\ orphans' \in Nat
      /\ plain' \in 0..active' /\ expired' \in 0..plain' /\ orphans' >= orphans
  BY DEF Inv, TypeOK, Arrive
<1>2. arrivals' \in 0..MaxArrivals /\ mapped' \in 0..orphans'
  BY <1>1, LimitAssumption DEF Inv, TypeOK, Arrive, map
<1>3. TypeOK'
  BY <1>1, <1>2 DEF Inv, TypeOK, Arrive, loop, map, meta, ghosts
<1>4. SweepInv' /\ BudgetInv'
  BY <1>1 DEF Inv, TypeOK, SweepInv, BudgetInv, AtStart, Arrive, loop, map
<1>. QED  BY <1>3, <1>4 DEF Inv

LEMMA NextInv == Inv /\ [Next]_vars => Inv'
<1>. SUFFICES ASSUME Inv, [Next]_vars PROVE Inv'
  OBVIOUS
<1>1. CASE StartRound \/ Heartbeat \/ ReadSettings \/ ReadCursors \/ EndRound
  BY <1>1, StartRoundInv, HeartbeatInv, ReadSettingsInv, ReadCursorsInv, EndRoundInv
<1>2. ASSUME NEW ph \in Phases, Disabled(ph) \/ SoftBatch(ph) \/ Truncate(ph) PROVE Inv'
  BY <1>2, DisabledInv, SoftBatchInv, TruncateInv
<1>3. CASE HardBatch \/ SweepList \/ SweepFlush \/ SweepDone
  BY <1>3, HardBatchInv, SweepListInv, SweepFlushInv, SweepDoneInv
<1>4. CASE OrphansRefused \/ OrphansList \/ OrphansReference \/ OrphansFlush \/ OrphansDone
  BY <1>4, OrphansRefusedInv, OrphansListInv, OrphansReferenceInv, OrphansFlushInv, OrphansDoneInv
<1>5. CASE Kill \/ Arrive  BY <1>5, KillInv, ArriveInv
<1>6. CASE UNCHANGED vars
  BY <1>6 DEF Inv, TypeOK, SweepInv, BudgetInv, AtStart, vars, work, loop, map, meta, ghosts
<1>. QED  BY <1>1, <1>2, <1>3, <1>4, <1>5, <1>6 DEF Next, RoundStep

LEMMA Invariance == Spec => []Inv
BY InitInv, NextInv, PTL DEF Spec

(* The variables keep their types: no count goes below zero.               *)
THEOREM Typing == Spec => []TypeOK
<1>1. Inv => TypeOK  BY DEF Inv
<1>. QED  BY <1>1, Invariance, PTL

(* Every phase begins with its reserve, whatever the phases before it      *)
(* found to do and whichever of their calls failed.                        *)
THEOREM ReservesHold == Spec => []PhaseGetsReserve
<1>1. Inv => PhaseGetsReserve
  BY AfterType, ReserveAssumption, BudgetAssumption
  DEF Inv, TypeOK, BudgetInv, AtStart, PhaseGetsReserve, Room, Larger
<1>. QED  BY <1>1, Invariance, PTL

(* A round spends at most one subrequest more than its budget.             *)
THEOREM BudgetHoldsButOne == Spec => []BudgetNearlyHolds
<1>1. Inv => BudgetNearlyHolds  BY DEF Inv, BudgetInv, BudgetNearlyHolds
<1>. QED  BY <1>1, Invariance, PTL

----------------------------------------------------------------------------
(* What a finished phase knows of its work: a batch of hardDelete that was *)
(* not a full one has emptied the recycle bin, and the last sweep has in   *)
(* hand whatever is left of the map.                                       *)
WorkInv ==
  /\ phase = "sweep" /\ ~more => trash = 0
  /\ phase = "orphanSweep" => pending = mapped

(* The actions that neither enter nor continue a sweep.                    *)
LEMMA OutsideSweeps ==
  ASSUME Inv,
         \/ StartRound \/ Heartbeat \/ ReadSettings \/ ReadCursors \/ EndRound \/ Kill
         \/ \E ph \in Phases : Disabled(ph) \/ SoftBatch(ph) \/ Truncate(ph)
         \/ OrphansRefused \/ OrphansList \/ OrphansDone
  PROVE  phase' \notin {"sweep", "orphanSweep"}
<1>1. \A ph \in Phases : Successor[ph] \notin {"sweep", "orphanSweep"}
  BY DEF Successor, Phases
<1>2. \A ph \in Phases : \A outcome, count :
        Leave(ph, outcome, count) => phase' \notin {"sweep", "orphanSweep"}
  BY <1>1 DEF Leave
<1>3. CASE StartRound \/ Heartbeat \/ ReadSettings \/ ReadCursors \/ EndRound \/ Kill
  BY <1>3 DEF StartRound, Heartbeat, ReadSettings, ReadCursors, EndRound, Kill
<1>4. ASSUME NEW ph \in Phases, Disabled(ph) \/ SoftBatch(ph) \/ Truncate(ph)
      PROVE  phase' \notin {"sweep", "orphanSweep"}
  BY <1>2, <1>4 DEF Disabled, SoftBatch, Truncate, Again, Phases
<1>5. CASE OrphansRefused \/ OrphansList \/ OrphansDone
  BY <1>2, <1>5 DEF OrphansRefused, OrphansList, OrphansDone, Phases
<1>. QED  BY <1>3, <1>4, <1>5

LEMMA SweepEndsOutside == ASSUME SweepEnds PROVE phase' \notin {"sweep", "orphanSweep"}
BY DEF SweepEnds, Again, Leave, Successor

LEMMA WorkStep == ASSUME Inv, WorkInv, [Next]_vars PROVE WorkInv'
<1>1. CASE phase' \notin {"sweep", "orphanSweep"}
  BY <1>1 DEF WorkInv
<1>2. CASE HardBatch
  <2>1. CASE phase' = "sweep"
    <3>1. phase' # Successor["hardDelete"]
      BY <2>1 DEF Successor
    <3>2. LET n == Smaller(HardLimit, trash) IN trash' = trash - n /\ more' = (n = HardLimit)
      BY <1>2, <3>1 DEF HardBatch, Leave
    <3>3. trash \in Nat /\ HardLimit \in Nat
      BY LimitAssumption DEF Inv, TypeOK
    <3>4. ASSUME ~more' PROVE Smaller(HardLimit, trash) # HardLimit
      BY <3>2, <3>4, Zenon
    <3>5. ASSUME ~more' PROVE trash' = 0
      BY <3>2, <3>3, <3>4, <3>5 DEF Smaller
    <3>. QED  BY <2>1, <3>5 DEF WorkInv
  <2>2. CASE phase' # "sweep"
    BY <1>1, <1>2, <2>2 DEF HardBatch, Leave, Successor
  <2>. QED  BY <2>1, <2>2
<1>3. CASE SweepList
  BY <1>1, <1>3, SweepEndsOutside DEF SweepList, WorkInv, loop, work
<1>4. CASE SweepFlush
  BY <1>1, <1>4, SweepEndsOutside DEF SweepFlush, WorkInv
<1>5. CASE SweepDone
  BY <1>1, <1>5, SweepEndsOutside DEF SweepDone
<1>6. CASE OrphansReference
  BY <1>6 DEF OrphansReference, Leave, Successor, WorkInv, map
<1>7. CASE OrphansFlush
  BY <1>7, LimitAssumption
  DEF Inv, TypeOK, OrphansFlush, Flush, Leave, Successor, WorkInv, Smaller
<1>8. CASE Arrive
  BY <1>8 DEF Arrive, WorkInv, loop, map
<1>9. CASE UNCHANGED vars
  BY <1>9 DEF vars, work, loop, map, WorkInv
<1>. QED
  BY <1>1, <1>2, <1>3, <1>4, <1>5, <1>6, <1>7, <1>8, <1>9, OutsideSweeps DEF Next, RoundStep

(* A batch of soft deletes that says there is no more leaves nothing.      *)
LEMMA SoftBatchLeavesNone ==
  ASSUME Inv, NEW ph \in {"retention", "trim"}, SoftBatchLimit(ph) >= 1, ~HasMore(ph),
         SoftDelete(Taken(ph)), settings' = settings
  PROVE  Left(ph)' = 0
<1>. DEFINE n == Taken(ph)
<1>1. ph \in Phases /\ Query[ph] \in Nat \ {0}  BY DEF Phases, Query
<1>2. Room(ph) \in Nat  BY <1>1, RoomType DEF Inv
<1>3. SoftBatchLimit(ph) \in Int  BY <1>1, <1>2, LimitAssumption DEF SoftBatchLimit, Smaller
<1>4. Overage \in Int /\ Overage = active - settings.maxCount /\ settings.maxCount \in Nat
  BY DEF Inv, TypeOK, SettingsType, Overage
<1>5. n \in Nat /\ n <= plain  BY TakenType DEF Inv
<1>6. /\ active' = active - n /\ plain' = plain - n
      /\ expired' = IF expired - n >= 0 THEN expired - n ELSE 0
  BY <1>5 DEF Inv, TypeOK, SoftDelete, Larger
<1>7. CASE ph = "retention"
  <2>1. Scanned(ph) = Smaller(expired, SoftBatchLimit(ph)) /\ n <= Scanned(ph)
    BY <1>3, <1>7, LimitAssumption
    DEF Inv, TypeOK, Scanned, Taken, Fitting, Weighable, Smaller, Larger
  <2>2. Scanned(ph) = 0 \/ (Scanned(ph) # SoftBatchLimit(ph) /\ Scanned(ph) <= n)
    BY <1>3, <1>5, <1>7, <2>1 DEF Inv, TypeOK, HasMore, Smaller
  <2>. HIDE DEF n
  <2>3. expired <= n
    BY <1>3, <1>5, <2>1, <2>2 DEF Inv, TypeOK, Smaller
  <2>. QED  BY <1>5, <1>6, <1>7, <2>3 DEF Inv, TypeOK, Left
<1>8. CASE ph = "trim"
  <2>1. Scanned(ph) = Larger(0, Smaller(plain, Smaller(Overage, SoftBatchLimit(ph))))
    BY <1>8 DEF Scanned
  <2>2. Scanned(ph) = 0 \/ Overage <= n
    BY <1>3, <1>4, <1>5, <1>8, <2>1 DEF Inv, TypeOK, HasMore, Smaller, Larger
  <2>3. plain = 0 \/ Overage <= n
    BY <1>3, <1>4, <1>5, <2>1, <2>2 DEF Inv, TypeOK, Smaller, Larger
  <2>4. Overage' = Overage - n
    BY <1>4, <1>5, <1>6 DEF Inv, TypeOK, Overage
  <2>. HIDE DEF n
  <2>. QED  BY <1>4, <1>5, <1>6, <1>8, <2>3, <2>4 DEF Inv, TypeOK, Left, Larger
<1>. QED  BY <1>7, <1>8

(* The actions that can leave a phase as done.                             *)
LEMMA StepLeavesNothing == ASSUME Inv, WorkInv, [Next]_vars PROVE LeavesNothing
<1>. SUFFICES ASSUME NEW ph \in Phases, status'[ph] = "done", status[ph] # "done"
              PROVE  Left(ph)' = 0
  BY DEF LeavesNothing
<1>1. \A q \in Phases : \A outcome, count :
        Leave(q, outcome, count) => q = ph /\ outcome = "done"
  BY DEF Leave, Inv, TypeOK
<1>2. status' # status
  OBVIOUS
<1>3. ASSUME NEW q \in Phases, SoftBatch(q) PROVE Left(ph)' = 0
  <2>1. /\ ~HasMore(q) /\ SoftDelete(Taken(q)) /\ ph = q /\ q \in {"retention", "trim"}
        /\ SoftBatchLimit(q) >= 1 /\ settings' = settings
    BY <1>1, <1>2, <1>3 DEF SoftBatch, Again
  <2>. QED  BY <2>1, SoftBatchLeavesNone
<1>4. CASE HardBatch
  <2>1. ph = "hardDelete" /\ Smaller(HardLimit, trash) = 0 /\ trash' = trash
    BY <1>1, <1>2, <1>4 DEF HardBatch, Phases, work
  <2>. QED  BY <2>1, LimitAssumption DEF Inv, TypeOK, Smaller, Left
<1>5. ASSUME SweepEnds, trash' = trash, phase = "sweep" PROVE Left(ph)' = 0
  <2>1. ph = "hardDelete" /\ ~more
    BY <1>1, <1>2, <1>5 DEF SweepEnds, Again, Phases
  <2>. QED  BY <1>5, <2>1 DEF WorkInv, Left
<1>6. CASE SweepList \/ SweepFlush \/ SweepDone
  BY <1>2, <1>5, <1>6 DEF SweepList, SweepFlush, SweepDone, work
<1>7. CASE OrphansReference
  <2>1. ph = "orphans" /\ mapped' = mapped /\ (live + trash + mapped = 0 \/ mapped = 0)
    BY <1>1, <1>2, <1>7 DEF OrphansReference, Phases, map
  <2>2. mapped = 0
    BY <2>1 DEF Inv, TypeOK
  <2>. QED  BY <2>1, <2>2 DEF Left
<1>8. CASE OrphansDone
  <2>1. ph = "orphans" /\ pending = 0 /\ mapped' = mapped /\ phase = "orphanSweep"
    BY <1>1, <1>8 DEF OrphansDone, Phases, map
  <2>. QED  BY <2>1 DEF WorkInv, Left
<1>9. CASE \/ OrphansRefused \/ OrphansList \/ OrphansFlush
           \/ \E q \in Phases : Disabled(q) \/ Truncate(q)
  BY <1>1, <1>2, <1>9 DEF OrphansRefused, OrphansList, OrphansFlush, Disabled, Truncate, Phases
<1>10. CASE StartRound
  BY <1>10 DEF StartRound, NoStatus
<1>11. CASE Heartbeat \/ ReadSettings \/ ReadCursors \/ EndRound \/ Kill \/ Arrive \/ UNCHANGED vars
  BY <1>2, <1>11 DEF Heartbeat, ReadSettings, ReadCursors, EndRound, Kill, Arrive, vars
<1>. QED
  BY <1>3, <1>4, <1>6, <1>7, <1>8, <1>9, <1>10, <1>11 DEF Next, RoundStep

(* NeverSkipsSilently: whatever was truncated, failed or killed before, a  *)
(* phase reports that it is done only when nothing that it could see is    *)
(* left.                                                                   *)
THEOREM DoneMeansNothingLeft == Spec => NeverSkipsSilently
<1>1. Init => WorkInv
  BY DEF Init, WorkInv
<1>2. Inv /\ WorkInv /\ [Next]_vars => WorkInv'
  BY WorkStep
<1>3. Inv /\ WorkInv /\ [Next]_vars => [LeavesNothing]_vars
  BY StepLeavesNothing
<1>. QED  BY <1>1, <1>2, <1>3, Invariance, PTL DEF Spec, NeverSkipsSilently

----------------------------------------------------------------------------
(* While a round that has announced itself is under way, and for good when *)
(* it does not come to its end, the stamps call it unfinished.             *)
StampInv == completed /\ beaten => phase = "idle" /\ finished /\ stored = cursor

LEMMA StampStep == ASSUME StampInv, [Next]_vars PROVE StampInv'
<1>1. CASE StartRound \/ Heartbeat
  BY <1>1 DEF StampInv, StartRound, Heartbeat, Beat
<1>2. CASE EndRound
  BY <1>2 DEF StampInv, EndRound, meta
<1>3. CASE Kill
  BY <1>3 DEF StampInv, Kill, meta, ghosts
<1>4. CASE Arrive
  BY <1>4 DEF StampInv, Arrive, meta, ghosts
<1>5. ASSUME phase # "idle", UNCHANGED <<completed, ghosts>> PROVE StampInv'
  BY <1>5 DEF StampInv, ghosts
<1>6. CASE ReadSettings \/ ReadCursors
  BY <1>5, <1>6 DEF ReadSettings, ReadCursors, meta
<1>7. ASSUME NEW ph \in Phases, Disabled(ph) \/ SoftBatch(ph) \/ Truncate(ph) PROVE StampInv'
  BY <1>5, <1>7 DEF Disabled, SoftBatch, Truncate, meta, Phases
<1>8. CASE HardBatch \/ SweepList \/ SweepFlush \/ SweepDone
  BY <1>5, <1>8 DEF HardBatch, SweepList, SweepFlush, SweepDone, meta
<1>9. CASE OrphansRefused \/ OrphansList \/ OrphansReference \/ OrphansFlush \/ OrphansDone
  BY <1>5, <1>9
  DEF OrphansRefused, OrphansList, OrphansReference, OrphansFlush, OrphansDone, meta
<1>10. CASE UNCHANGED vars
  BY <1>10 DEF StampInv, vars, meta, ghosts
<1>. QED
  BY <1>1, <1>2, <1>3, <1>4, <1>6, <1>7, <1>8, <1>9, <1>10 DEF Next, RoundStep

(* StampsAreTrue: however rounds fail or are killed, the stamps never call *)
(* a round completed whose cursors were not written.                       *)
THEOREM CompletedIsTrue == Spec => []StampsAreTrue
<1>1. Init => StampInv
  BY DEF Init, StampInv
<1>2. StampInv /\ [Next]_vars => StampInv'
  BY StampStep
<1>3. StampInv => StampsAreTrue
  BY DEF StampInv, StampsAreTrue
<1>. QED  BY <1>1, <1>2, <1>3, PTL DEF Spec
=============================================================================
