---------------------------- MODULE CleanupRound ----------------------------
(***************************************************************************)
(* One scheduled cleaning round after another: the accounting of           *)
(* subrequests, the four phases and the limits that truncate them, the     *)
(* listing of the bucket that two phases share, the cursors and the two    *)
(* stamps that survive a round.                                            *)
(*                                                                         *)
(* Records and objects are counted, not named.  Every record in the        *)
(* recycle bin that is old enough owns one object; rows are light or heavy. *)
(* Whatever a phase does between two checks of the budget is one step.     *)
(***************************************************************************)
EXTENDS Integers

CONSTANTS
  Budget,        \* SUBREQUEST_BUDGET
  Reserve,       \* PHASE_RESERVE
  SoftLimit,     \* SOFT_DELETE_BATCH_LIMIT
  HardLimit,     \* HARD_DELETE_BATCH_LIMIT
  MaxBatches,    \* MAX_BATCHES_PER_PHASE
  RowsPerRound,  \* rows that weigh SOFT_DELETE_ROW_BYTES_PER_ROUND
  Heavy,         \* the rows, counted from the newest, that weigh more alone
  Page,          \* objects in a page of R2's listing
  Chunk,         \* R2_DELETE_BATCH
  Settings,      \* what Meta says
  Fallback,      \* what the environment says
  Backlogs,      \* what the first round may find
  MaxArrivals,   \* bound on the work that arrives later
  MaxFaults      \* bound on calls that fail and rounds that are killed

Phases == {"retention", "trim", "hardDelete", "orphans"}
SettingsType == [retention : BOOLEAN, maxCount : Nat]
BacklogType == [live : Nat, active : Nat, plain : Nat, expired : Nat, trash : Nat, orphans : Nat]

\* RESERVED_AFTER, with the write that ends a round
RoundEnd == 1
After == [retention  |-> RoundEnd + Reserve["orphans"] + Reserve["hardDelete"] + Reserve["trim"],
          trim       |-> RoundEnd + Reserve["orphans"] + Reserve["hardDelete"],
          hardDelete |-> RoundEnd + Reserve["orphans"],
          orphans    |-> RoundEnd]

ASSUME ReserveAssumption == Reserve \in [Phases -> Nat]
ASSUME LimitAssumption ==
  /\ SoftLimit \in Nat \ {0} /\ HardLimit \in Nat \ {0} /\ MaxBatches \in Nat \ {0}
  /\ RowsPerRound \in Nat /\ Heavy \subseteq Nat /\ Page \in Nat \ {0} /\ Chunk \in Nat \ {0}
  /\ MaxArrivals \in Nat /\ MaxFaults \in Nat
ASSUME InputAssumption ==
  Settings \in SettingsType /\ Fallback \in SettingsType /\ Backlogs \subseteq BacklogType
\* The three reads and writes of Meta that begin a round come before any phase.
ASSUME BudgetAssumption ==
  Budget \in Nat /\ Budget >= 3 + After["retention"] + Reserve["retention"]

VARIABLES
  live,      \* objects of records the round leaves alone
  active,    \* records that are not deleted
  plain,     \* those of them that are not starred, pinned or in a folder
  expired,   \* those of them that are past the retention period
  trash,     \* records deleted more than 30 days ago
  orphans,   \* directories no record refers to
  phase,     \* the phase, or the call outside the phases, that comes next
  spent,     \* SubrequestBudget.spent
  batches,   \* in this phase
  processed, \* in this phase
  more,      \* whether the last batch of hardDelete was a full one
  pending,   \* directories the current sweep has still to delete
  listed,    \* whether this round has its listing (CleanupRun.sweep)
  mapped,    \* orphans in that listing
  settings,
  cursor,    \* CleanupRun.cursors
  status,    \* of each phase in this round
  stored,    \* the cursors in Meta
  completed, \* lastCompletedAt >= lastRunAt, what the UI shows as completed
  beaten,    \* the last round has written its lastRunAt
  finished,  \* the last round came to its end
  arrivals, faults

work == <<live, active, plain, expired, trash, orphans>>
loop == <<batches, processed, more, pending>>
map == <<listed, mapped>>
meta == <<stored, completed>>
ghosts == <<beaten, finished>>
vars == <<work, phase, spent, loop, map, settings, cursor, status, meta, ghosts,
          arrivals, faults>>

Smaller(a, b) == IF a <= b THEN a ELSE b
Larger(a, b) == IF a <= b THEN b ELSE a

(* Every variable has its type, and the counters agree with one another:   *)
(* expired records are plain ones, and the map holds orphans only.         *)
TypeOK ==
  /\ live \in Nat /\ active \in Nat /\ trash \in Nat /\ orphans \in Nat
  /\ plain \in 0..active /\ expired \in 0..plain
  /\ phase \in Phases \cup {"idle", "heartbeat", "settings", "cursors", "sweep",
                            "reference", "orphanSweep", "end"}
  /\ spent \in Nat
  /\ batches \in 0..MaxBatches /\ processed \in Nat /\ more \in BOOLEAN /\ pending \in Nat
  /\ listed \in BOOLEAN /\ mapped \in 0..orphans
  /\ settings \in SettingsType
  /\ cursor \in [Phases -> Nat] /\ stored \in [Phases -> Nat]
  /\ status \in [Phases -> {"waiting", "done", "truncated", "disabled", "error"}]
  /\ completed \in BOOLEAN /\ beaten \in BOOLEAN /\ finished \in BOOLEAN
  /\ arrivals \in 0..MaxArrivals /\ faults \in 0..MaxFaults

NoCursors == [ph \in Phases |-> 0]
NoStatus == [ph \in Phases |-> "waiting"]

Init ==
  /\ \E b \in Backlogs :
       /\ b.expired <= b.plain /\ b.plain <= b.active
       /\ live = b.live /\ active = b.active /\ plain = b.plain /\ expired = b.expired
       /\ trash = b.trash /\ orphans = b.orphans
  /\ phase = "idle" /\ spent = 0
  /\ batches = 0 /\ processed = 0 /\ more = FALSE /\ pending = 0
  /\ listed = FALSE /\ mapped = 0
  /\ settings = Settings /\ cursor = NoCursors /\ status = NoStatus
  /\ stored = NoCursors /\ completed = TRUE /\ beaten = TRUE /\ finished = TRUE
  /\ arrivals = 0 /\ faults = 0

Faulty == faults < MaxFaults /\ faults' = faults + 1
Sound == UNCHANGED faults

----------------------------------------------------------------------------
(* The budget *)

NothingReserved(ph) == Larger(0, Budget - spent)                     \* a fault
Room(ph) == Larger(0, Budget - spent - After[ph])

Spend(n) == spent' = spent + n

----------------------------------------------------------------------------
(* The beginning of a round: heartbeat, settings, cursors.  None of the    *)
(* three can stop it.                                                      *)

StartRound ==
  /\ phase = "idle"
  /\ phase' = "heartbeat" /\ spent' = 0
  /\ listed' = FALSE /\ mapped' = 0 /\ cursor' = NoCursors /\ status' = NoStatus
  /\ beaten' = FALSE /\ finished' = FALSE
  /\ UNCHANGED <<work, loop, settings, meta, arrivals, faults>>

(* lastRunAt is the start of this round; lastCompletedAt is older.         *)
BeatCompletes == completed' = TRUE                                   \* a fault
Beat == completed' = FALSE

Heartbeat ==
  /\ phase = "heartbeat"
  /\ \/ Sound /\ Beat /\ beaten' = TRUE
     \/ Faulty /\ UNCHANGED <<completed, beaten>>
  /\ Spend(1) /\ phase' = "settings"
  /\ UNCHANGED <<work, loop, map, settings, cursor, status, stored, finished, arrivals>>

ReadSettings ==
  /\ phase = "settings"
  /\ \/ Sound /\ settings' = Settings
     \/ Faulty /\ settings' = Fallback
  /\ Spend(1) /\ phase' = "cursors"
  /\ UNCHANGED <<work, loop, map, cursor, status, meta, ghosts, arrivals>>

ReadCursors ==
  /\ phase = "cursors"
  /\ \/ Sound /\ cursor' = stored
     \/ Faulty /\ UNCHANGED cursor
  /\ Spend(1) /\ phase' = "retention"
  /\ UNCHANGED <<work, loop, map, settings, status, meta, ghosts, arrivals>>

----------------------------------------------------------------------------
(* The end of a phase.  A truncated phase goes on from its cursor, a       *)
(* failed one keeps it, and any other begins anew.                         *)

Successor == [retention |-> "trim", trim |-> "hardDelete", hardDelete |-> "orphans",
              orphans |-> "end"]

NextCursor(ph, outcome, count) ==
  CASE outcome = "truncated" -> cursor[ph] + count
    [] outcome = "error" -> cursor[ph]
    [] OTHER -> 0

Leave(ph, outcome, count) ==
  /\ phase' = Successor[ph]
  /\ status' = [status EXCEPT ![ph] = outcome]
  /\ cursor' = [cursor EXCEPT ![ph] = NextCursor(ph, outcome, count)]
  /\ batches' = 0 /\ processed' = 0 /\ more' = FALSE /\ pending' = 0

(* The loop goes on with the next batch, if there may be one.              *)
Again(ph, count) ==
  /\ phase' = ph /\ batches' = batches + 1 /\ processed' = processed + count
  /\ more' = FALSE /\ pending' = 0
  /\ UNCHANGED <<status, cursor>>

(* A setting of 0 turns a phase off.                                       *)
Enabled(ph) ==
  CASE ph = "retention" -> settings.retention
    [] ph = "trim" -> settings.maxCount > 0
    [] OTHER -> TRUE

Disabled(ph) ==
  /\ phase = ph /\ ~Enabled(ph)
  /\ Leave(ph, "disabled", 0)
  /\ UNCHANGED <<work, spent, map, settings, meta, ghosts, arrivals, faults>>

----------------------------------------------------------------------------
(* retention and trim: drainBatches with a scan of the candidates' sizes   *)

Query == [retention |-> 2, trim |-> 3, hardDelete |-> 1]

Overage == active - settings.maxCount

QueryForgotten(ph) == Smaller(SoftLimit, Room(ph))                   \* a fault
SoftBatchLimit(ph) == Smaller(SoftLimit, Room(ph) - Query[ph])

(* The candidates the scan returns, and how many of them fit: the first    *)
(* batch of a round takes one whatever it weighs.                          *)
Scanned(ph) ==
  IF ph = "retention" THEN Smaller(expired, SoftBatchLimit(ph))
  ELSE Larger(0, Smaller(plain, Smaller(Overage, SoftBatchLimit(ph))))

Weighable == IF plain \in Heavy THEN 0 ELSE RowsPerRound
FittingAlways == Weighable - processed                               \* a fault
Fitting == Larger(Weighable - processed, IF processed = 0 THEN 1 ELSE 0)
Taken(ph) == Smaller(Scanned(ph), Larger(0, Fitting))

(* Whether there may be more, as fetchBatch tells it.                      *)
OnlyCut(ph) == Scanned(ph) > Taken(ph)                               \* a fault
HasMore(ph) ==
  IF ph = "retention"
  THEN Scanned(ph) > 0 /\ (Scanned(ph) = SoftBatchLimit(ph) \/ Scanned(ph) > Taken(ph))
  ELSE Scanned(ph) > 0 /\ Overage > Taken(ph)

SoftDelete(n) ==
  /\ active' = active - n /\ plain' = plain - n /\ expired' = Larger(0, expired - n)
  /\ UNCHANGED <<live, trash, orphans>>

SoftBatch(ph) ==
  /\ ph \in {"retention", "trim"} /\ phase = ph /\ Enabled(ph)
  /\ batches < MaxBatches /\ SoftBatchLimit(ph) >= 1
  /\ \/ /\ Sound
        /\ SoftDelete(Taken(ph))
        /\ Spend(Query[ph] + Taken(ph))
        /\ \/ Taken(ph) > 0 /\ HasMore(ph) /\ Again(ph, Taken(ph))
           \/ Taken(ph) = 0 /\ HasMore(ph) /\ Leave(ph, "truncated", processed)
           \/ ~HasMore(ph) /\ Leave(ph, "done", processed + Taken(ph))
     \/ Faulty /\ Leave(ph, "error", processed) /\ Spend(Query[ph]) /\ UNCHANGED work
  /\ UNCHANGED <<map, settings, meta, ghosts, arrivals>>

(* Out of batches, or of budget for another one.                           *)
Truncate(ph) ==
  /\ phase = ph /\ Enabled(ph)
  /\ \/ batches = MaxBatches
     \/ ph \in {"retention", "trim"} /\ SoftBatchLimit(ph) < 1
     \/ ph = "hardDelete" /\ Room(ph) < Query[ph] + 1
  /\ ph # "orphans"
  /\ Leave(ph, "truncated", processed)
  /\ UNCHANGED <<work, spent, map, settings, meta, ghosts, arrivals, faults>>

----------------------------------------------------------------------------
(* The listing: one subrequest a page, each checked against the budget     *)
(* first.  Half a listing is given up (historyGroups).                     *)

Pages == Larger(1, (live + trash + orphans + Page - 1) \div Page)

Listing(ph) ==
  /\ Spend(Smaller(Pages, Room(ph)))
  /\ listed' = (Pages <= Room(ph))
  /\ mapped' = IF Pages <= Room(ph) THEN orphans ELSE 0

ListingFails(ph) ==
  /\ Faulty /\ Room(ph) > 0
  /\ \E n \in 1..Smaller(Pages, Room(ph)) : Spend(n)
  /\ UNCHANGED map

(* One R2 delete of a chunk.  Its directories leave the map before it, so  *)
(* this round does not come back to them when it fails.                    *)
Flush(ph) ==
  /\ Room(ph) >= 1 /\ Spend(1)
  /\ mapped' = mapped - Smaller(Chunk, pending)
  /\ UNCHANGED listed

----------------------------------------------------------------------------
(* hardDelete: a batch of rows, then the sweep of their directories        *)

HardBatch ==
  /\ phase = "hardDelete" /\ batches < MaxBatches /\ Room("hardDelete") >= Query["hardDelete"] + 1
  /\ Spend(Query["hardDelete"])
  /\ LET n == Smaller(HardLimit, trash) IN
       \/ /\ Sound /\ n = 0 /\ Leave("hardDelete", "done", processed)
          /\ UNCHANGED <<work, map>>
       \/ /\ Sound /\ n > 0
          /\ trash' = trash - n /\ orphans' = orphans + n
          /\ mapped' = IF listed THEN mapped + n ELSE mapped
          /\ pending' = n /\ processed' = processed + n /\ more' = (n = HardLimit)
          /\ phase' = "sweep"
          /\ UNCHANGED <<live, active, plain, expired, batches, status, cursor, listed>>
       \/ /\ Faulty /\ Leave("hardDelete", "error", processed)
          /\ UNCHANGED <<work, map>>
  /\ UNCHANGED <<settings, meta, ghosts, arrivals>>

(* Whether the sweep was complete makes no difference to the phase.        *)
SweepEnds ==
  IF more THEN Again("hardDelete", 0) ELSE Leave("hardDelete", "done", processed)

SweepList ==
  /\ phase = "sweep" /\ ~listed
  /\ \/ /\ Sound /\ Listing("hardDelete")
        /\ IF Pages <= Room("hardDelete") THEN UNCHANGED <<phase, loop, status, cursor>>
                                           ELSE SweepEnds
     \/ ListingFails("hardDelete") /\ SweepEnds
  /\ UNCHANGED <<work, settings, meta, ghosts, arrivals>>

SweepFlush ==
  /\ phase = "sweep" /\ listed /\ pending > 0
  /\ Flush("hardDelete")
  /\ \/ /\ Sound
        /\ orphans' = orphans - Smaller(Chunk, pending)
        /\ pending' = pending - Smaller(Chunk, pending)
        /\ UNCHANGED <<phase, batches, processed, more, status, cursor>>
     \/ Faulty /\ SweepEnds /\ UNCHANGED orphans
  /\ UNCHANGED <<live, active, plain, expired, trash, settings, meta, ghosts, arrivals>>

SweepDone ==
  /\ phase = "sweep" /\ listed
  /\ \/ pending = 0 /\ UNCHANGED mapped
     \/ Room("hardDelete") < 1 /\ pending > 0 /\ mapped' = mapped - Smaller(Chunk, pending)
  /\ SweepEnds
  /\ UNCHANGED <<work, spent, listed, settings, meta, ghosts, arrivals, faults>>

----------------------------------------------------------------------------
(* orphans: the listing of the round, the rows, and the difference         *)

OrphansRefused ==
  /\ phase = "orphans" /\ Room("orphans") < 3
  /\ Leave("orphans", "truncated", 0)
  /\ UNCHANGED <<work, spent, map, settings, meta, ghosts, arrivals, faults>>

OrphansList ==
  /\ phase = "orphans" /\ Room("orphans") >= 3
  /\ \/ /\ listed /\ phase' = "reference"
        /\ UNCHANGED <<loop, status, cursor, map, spent, faults>>
     \/ /\ ~listed /\ Sound /\ Listing("orphans")
        /\ IF Pages > Room("orphans") THEN Leave("orphans", "truncated", 0)
           ELSE phase' = "reference" /\ UNCHANGED <<loop, status, cursor>>
     \/ ~listed /\ ListingFails("orphans") /\ Leave("orphans", "error", 0)
  /\ UNCHANGED <<work, settings, meta, ghosts, arrivals>>

(* listReferencedWorkingDirs is charged without another look at the room.  *)
OrphansReference ==
  /\ phase = "reference"
  /\ \/ /\ Sound /\ live + trash + mapped = 0 /\ Leave("orphans", "done", 0)
        /\ UNCHANGED spent
     \/ /\ Sound /\ live + trash + mapped > 0 /\ Spend(1)
        /\ IF mapped = 0 THEN Leave("orphans", "done", 0)
           ELSE /\ phase' = "orphanSweep" /\ pending' = mapped
                /\ UNCHANGED <<batches, processed, more, status, cursor>>
     \/ Faulty /\ Spend(1) /\ Leave("orphans", "error", 0)
  /\ UNCHANGED <<work, map, settings, meta, ghosts, arrivals>>

OrphansFlush ==
  /\ phase = "orphanSweep" /\ pending > 0
  /\ Flush("orphans")
  /\ \/ /\ Sound
        /\ orphans' = orphans - Smaller(Chunk, pending)
        /\ pending' = pending - Smaller(Chunk, pending)
        /\ processed' = processed + Smaller(Chunk, pending)
        /\ UNCHANGED <<phase, batches, more, status, cursor>>
     \/ Faulty /\ Leave("orphans", "truncated", processed) /\ UNCHANGED orphans
  /\ UNCHANGED <<live, active, plain, expired, trash, settings, meta, ghosts, arrivals>>

OrphansDone ==
  /\ phase = "orphanSweep"
  /\ \/ pending = 0 /\ Leave("orphans", "done", processed) /\ UNCHANGED map
     \/ /\ pending > 0 /\ Room("orphans") < 1
        /\ Leave("orphans", "truncated", processed)
        /\ mapped' = mapped - Smaller(Chunk, pending) /\ UNCHANGED listed
  /\ UNCHANGED <<work, spent, settings, meta, ghosts, arrivals, faults>>

----------------------------------------------------------------------------
(* The end of a round, or its death, and the work that arrives             *)

EndRound ==
  /\ phase = "end"
  /\ Spend(1) /\ phase' = "idle" /\ finished' = TRUE
  /\ \/ Sound /\ stored' = cursor /\ completed' = TRUE
     \/ Faulty /\ UNCHANGED meta
  /\ UNCHANGED <<work, loop, map, settings, cursor, status, beaten, arrivals>>

(* The platform ends a round that uses too much CPU: nothing is written.   *)
Kill ==
  /\ phase # "idle" /\ Faulty
  /\ phase' = "idle" /\ batches' = 0 /\ processed' = 0 /\ more' = FALSE /\ pending' = 0
  /\ UNCHANGED <<work, spent, map, settings, cursor, status, meta, ghosts, arrivals>>

(* A round's cutoffs are those of its start (CleanupRun.nowMs), so records *)
(* come of age between two rounds only.                                    *)
Arrive ==
  /\ arrivals < MaxArrivals /\ arrivals' = arrivals + 1
  /\ \/ /\ phase = "idle" /\ expired < plain /\ expired' = expired + 1
        /\ UNCHANGED <<live, active, plain, trash, orphans>>
     \/ /\ phase = "idle" /\ live > 0 /\ live' = live - 1 /\ trash' = trash + 1
        /\ UNCHANGED <<active, plain, expired, orphans>>
     \/ active' = active + 1 /\ plain' = plain + 1 /\ UNCHANGED <<live, expired, trash, orphans>>
     \/ orphans' = orphans + 1 /\ UNCHANGED <<live, active, plain, expired, trash>>
  /\ UNCHANGED <<phase, spent, loop, map, settings, cursor, status, meta, ghosts, faults>>

RoundStep ==
  \/ StartRound \/ Heartbeat \/ ReadSettings \/ ReadCursors
  \/ \E ph \in Phases : Disabled(ph) \/ SoftBatch(ph) \/ Truncate(ph)
  \/ HardBatch \/ SweepList \/ SweepFlush \/ SweepDone
  \/ OrphansRefused \/ OrphansList \/ OrphansReference \/ OrphansFlush \/ OrphansDone
  \/ EndRound

Next == RoundStep \/ Kill \/ Arrive

Spec == Init /\ [][Next]_vars
\* Cron starts round after round, and a round that is not killed goes on.
FairSpec == Spec /\ WF_vars(RoundStep)

----------------------------------------------------------------------------
(* Properties *)

(* Whatever the earlier phases do, a phase begins with at least its        *)
(* reserve (cleanup.ts:331-332).                                           *)
AtStart(ph) == phase = ph /\ batches = 0 /\ processed = 0
PhaseGetsReserve == \A ph \in Phases : AtStart(ph) => Room(ph) >= Reserve[ph]

(* What the accounting is sure of: one above SUBREQUEST_BUDGET at most     *)
(* (cleanup.ts:283, 657, where the references are read without asking).    *)
BudgetNearlyHolds == spent <= Budget + 1

(* A phase that reports that it is done leaves none of the work it could   *)
(* see (cleanup.ts:424-425).                                               *)
Left(ph) ==
  CASE ph = "retention" -> expired
    [] ph = "trim" -> IF plain = 0 THEN 0 ELSE Larger(0, Overage)
    [] ph = "hardDelete" -> trash
    [] OTHER -> mapped
LeavesNothing ==
  \A ph \in Phases : status'[ph] = "done" /\ status[ph] # "done" => Left(ph)' = 0
NeverSkipsSilently == [][LeavesNothing]_vars

(* When the stamps say that the last round was completed, and its first    *)
(* one was written, it did come to its end and its cursors are in Meta     *)
(* (cleanup.ts:745-754).                                                   *)
StampsAreTrue ==
  phase = "idle" /\ completed /\ beaten => finished /\ stored = cursor

(* The backlog is cleaned in the end, however small the first round's      *)
(* share of the budget (cleanup.ts:88-90).                                 *)
Clean ==
  /\ Settings.retention => expired = 0
  /\ Settings.maxCount > 0 => plain = 0 \/ active <= Settings.maxCount
  /\ trash = 0 /\ orphans = 0
BacklogDrains == <>[]Clean
=============================================================================
