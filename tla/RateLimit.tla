----------------------------- MODULE RateLimit -----------------------------
(***************************************************************************)
(* The limit on failed logins (src/src/rateLimit.ts, auth.ts and its part  *)
(* of durable/SyncClipboardHub.ts).                                        *)
(*                                                                         *)
(* Every isolate of the Worker keeps its own table of failures per client  *)
(* address and refuses what that table blocks before it compares any       *)
(* password.  The durable object keeps the table they share: isolates      *)
(* report failures and successes to it and learn of its blocks by          *)
(* messages that nobody waits for, late, out of order or not at all.  The  *)
(* object's own table is lost when it hibernates or restarts; it keeps a   *)
(* snapshot in its storage, written when a block begins, when a count is   *)
(* cleared, and now and then.                                              *)
(***************************************************************************)
EXTENDS Integers, FiniteSets

CONSTANTS
  Keys,              \* client addresses
  Isolates,          \* isolates of the Worker
  None,              \* no entry, no snapshot
  Window,            \* AUTH_RATE_LIMIT_WINDOW_MS, in ticks
  MaxFailures,       \* AUTH_RATE_LIMIT_MAX_FAILURES
  Block,             \* AUTH_RATE_LIMIT_BLOCK_MS
  SnapshotInterval,  \* SNAPSHOT_INTERVAL_MS
  PersistInterval,   \* AUTH_RATE_LIMIT_PERSIST_MIN_INTERVAL_MS
  PersistEvery,      \* AUTH_RATE_LIMIT_PERSIST_EVERY_FAILURES
  PruneThreshold,    \* PRUNE_THRESHOLD
  MaxTracked,        \* MAX_TRACKED_KEYS
  MaxFaults,         \* bound on the reads and writes of the storage that fail
  MaxTime,           \* bound on the clock
  MaxMail            \* bound on the messages on their way

ASSUME ConstantsAssumption ==
  /\ {Window, MaxFailures, Block, SnapshotInterval, PersistInterval, PersistEvery} \subseteq Nat \ {0}
  /\ {PruneThreshold, MaxTracked, MaxFaults, MaxTime, MaxMail} \subseteq Nat
  /\ PersistInterval <= MaxTime /\ IsFiniteSet(Keys)

VARIABLES
  now,
  local,     \* cache.limits of each isolate
  hot,       \* its lastFailureAt
  pulled,    \* its lastSnapshotAt
  mail,      \* messages to the object, by operation, isolate and key
  answers,   \* blocks on their way back to the isolates
  loaded,    \* whether the object has read its snapshot since it woke
  table,     \* its authLimits
  unsaved,   \* its authFailuresSincePersist
  savedAt,   \* its authLimitsPersistedAt
  saved,     \* its authLimitsPersistedBlocks, 0 without an entry
  disk,      \* the snapshot in its storage
  faults,    \* reads and writes of the storage that have failed
  guesses,   \* history: failed comparisons in an isolate since a success, each a time and a number
  failed,    \* history: failed comparisons of each address so far
  missing    \* history: when the last failure came that the snapshot does not count

isolate == <<local, hot, pulled, guesses>>
memory == <<loaded, table, unsaved, savedAt, saved>>
storage == <<disk, faults, missing>>
vars == <<now, isolate, mail, answers, memory, storage, failed>>

Times == 0..MaxTime
Deadlines == 0..(MaxTime + Block)
(* AuthLimitState.                                                         *)
Entry == [start: Times, count: 1..MaxFailures, until: Deadlines]
Limits == [Keys -> Entry \cup {None}]
Empty == [k \in Keys |-> None]
Snapshot == [at: Times, limits: Limits]

ASSUME NoneAssumption == None \notin Entry /\ None \notin Snapshot

Ops == {"report", "snapshot", "clear"}

Blocks(limits) == [k \in Keys |-> IF limits[k] = None THEN 0 ELSE limits[k].until]

(* Every variable has its type; a sleeping object remembers nothing.       *)
TypeOK ==
  /\ now \in Times
  /\ local \in [Isolates -> Limits]
  /\ hot \in [Isolates -> Times] /\ pulled \in [Isolates -> Times]
  /\ mail \in [Ops \X Isolates \X Keys -> 0..MaxMail]
  /\ answers \in [Isolates \X Keys \X Deadlines -> 0..MaxMail]
  /\ loaded \in BOOLEAN
  /\ table \in Limits
  /\ unsaved \in 0..(PersistEvery - 1) /\ savedAt \in Times
  /\ saved \in [Keys -> Deadlines]
  /\ ~loaded => table = Empty /\ unsaved = 0 /\ savedAt = 0
  /\ disk \in Snapshot \cup {None}
  /\ faults \in 0..MaxFaults
  /\ guesses \in [Isolates -> [Keys -> SUBSET (Times \X Nat)]]
  /\ failed \in [Keys -> 0..MaxFailures]
  /\ missing \in Times

(* The clock starts late enough for the first failure to be due.           *)
Init ==
  /\ now = PersistInterval
  /\ local = [i \in Isolates |-> Empty]
  /\ hot = [i \in Isolates |-> 0] /\ pulled = [i \in Isolates |-> 0]
  /\ mail = [m \in Ops \X Isolates \X Keys |-> 0]
  /\ answers = [a \in Isolates \X Keys \X Deadlines |-> 0]
  /\ loaded = FALSE /\ table = Empty /\ unsaved = 0 /\ savedAt = 0
  /\ saved = [k \in Keys |-> 0]
  /\ disk = None /\ faults = 0
  /\ guesses = [i \in Isolates |-> [k \in Keys |-> {}]]
  /\ failed = [k \in Keys |-> 0]
  /\ missing = 0

----------------------------------------------------------------------------
(* The state of one address, the same in the isolates and in the object.   *)

Blocked(entry) == entry # None /\ entry.until > now
SameWindow(entry) == entry # None /\ now - entry.start < Window

Smaller(a, b) == IF a < b THEN a ELSE b

NextCount(entry) == IF SameWindow(entry) THEN Smaller(entry.count + 1, MaxFailures) ELSE 1

OneTooEarly(entry) == NextCount(entry) + 1 >= MaxFailures                    \* a fault
OneTooLate(entry) == SameWindow(entry) /\ entry.count >= MaxFailures         \* a fault
Reaches(entry) == NextCount(entry) >= MaxFailures

(* applyAuthFailure; counts above MaxFailures are all alike.               *)
AfterFailure(entry) ==
  [start |-> IF SameWindow(entry) THEN entry.start ELSE now,
   count |-> NextCount(entry),
   until |-> IF Reaches(entry) THEN now + Block
             ELSE IF entry = None THEN 0 ELSE entry.until]

Tracked(limits) == {k \in Keys : limits[k] # None}
Only(limits, kept) == [k \in Keys |-> IF k \in kept THEN limits[k] ELSE None]

Expired(entry) == ~Blocked(entry) /\ ~SameWindow(entry)

(* pruneAuthLimits: what it may leave; above MaxTracked the oldest windows *)
(* go, whatever they block.                                                *)
Pruned(limits) ==
  LET live == {k \in Tracked(limits) : ~Expired(limits[k])} IN
  IF Cardinality(Tracked(limits)) <= PruneThreshold THEN {limits}
  ELSE IF Cardinality(live) <= MaxTracked THEN {Only(limits, live)}
  ELSE {Only(limits, kept) : kept \in
         {s \in SUBSET live :
            /\ Cardinality(s) = MaxTracked
            /\ \A k \in s, l \in live \ s : limits[l].start <= limits[k].start}}

----------------------------------------------------------------------------
(* An isolate.                                                             *)

Post(bag, messages) == [m \in DOMAIN bag |-> IF m \in messages THEN bag[m] + 1 ELSE bag[m]]
Take(bag, m) == [bag EXCEPT ![m] = @ - 1]

(* checkAuthRateLimit asks for a snapshot once failures have made it hot.  *)
Asks(i) ==
  /\ hot[i] > 0 /\ now - hot[i] < Window
  /\ now - pulled[i] >= SnapshotInterval
Pull(i, k) == IF Asks(i) THEN {<<"snapshot", i, k>>} ELSE {}
Pulled(i) == pulled' = IF Asks(i) THEN [pulled EXCEPT ![i] = now] ELSE pulled

(* authFailure with a wrong password: noteAuthFailure counts at once, the  *)
(* report goes out on its own.                                             *)
Fails(i, k) ==
  /\ ~Blocked(local[i][k])
  /\ \A m \in DOMAIN mail : mail[m] < MaxMail
  /\ Pulled(i)
  /\ hot' = [hot EXCEPT ![i] = now]
  /\ \E limits \in Pruned([local[i] EXCEPT ![k] = AfterFailure(@)]) :
       local' = [local EXCEPT ![i] = limits]
  /\ mail' = Post(mail, Pull(i, k) \cup {<<"report", i, k>>})
  /\ guesses' = [guesses EXCEPT ![i][k] = @ \cup {<<now, Cardinality(@)>>}]
  /\ failed' = [failed EXCEPT ![k] = IF @ < MaxFailures THEN @ + 1 ELSE @]
  /\ UNCHANGED <<now, answers, memory, storage>>

(* authFailure with the right one: noteAuthSuccess tells the object only   *)
(* what it had counted itself.                                             *)
Succeeds(i, k) ==
  /\ ~Blocked(local[i][k])
  /\ \A m \in DOMAIN mail : mail[m] < MaxMail
  /\ Pulled(i)
  /\ local' = [local EXCEPT ![i][k] = None]
  /\ mail' = Post(mail, Pull(i, k) \cup
                        IF local[i][k] = None THEN {} ELSE {<<"clear", i, k>>})
  /\ guesses' = [guesses EXCEPT ![i][k] = {}]
  /\ UNCHANGED <<now, hot, answers, memory, storage, failed>>

Larger(a, b) == IF a > b THEN a ELSE b

(* mergeBlocks: a block is only ever raised.                               *)
Merged(entry, until, asked) ==
  IF until <= asked THEN entry
  ELSE IF entry = None THEN [start |-> asked, count |-> MaxFailures, until |-> until]
  ELSE [entry EXCEPT !.until = Larger(@, until)]

(* syncWithHub goes on with the answer: it compares with the time at which *)
(* the request was made, some moment up to now.                            *)
Learns(i, k, until) ==
  /\ answers[<<i, k, until>>] > 0
  /\ answers' = Take(answers, <<i, k, until>>)
  /\ \E asked \in PersistInterval..now :
     \E limits \in Pruned([local[i] EXCEPT ![k] = Merged(@, until, asked)]) :
       local' = [local EXCEPT ![i] = limits]
  /\ UNCHANGED <<now, hot, pulled, guesses, mail, memory, storage, failed>>

----------------------------------------------------------------------------
(* The durable object.                                                     *)

(* loadAuthLimitsOnce, for the first handler that needs the table after    *)
(* the object woke; that handler and the others go on when the read has    *)
(* answered.  If it fails they go on with an empty table.                  *)
Waking(snapshot) == now                                  \* a fault
Baseline(snapshot) == snapshot.at
Load ==
  /\ ~loaded /\ loaded' = TRUE
  /\ unsaved' = 0
  /\ \/ /\ disk # None
        /\ table' = disk.limits /\ savedAt' = Baseline(disk) /\ saved' = Blocks(disk.limits)
        /\ UNCHANGED faults
     \/ /\ disk = None
        /\ UNCHANGED <<table, savedAt, saved, faults>>
     \/ /\ faults < MaxFaults /\ faults' = faults + 1
        /\ UNCHANGED <<table, savedAt, saved>>
  /\ UNCHANGED <<now, isolate, mail, answers, disk, missing, failed>>

(* authLimitsChanged: what is worth a write.                               *)
NotUrgent(limits) == FALSE                               \* a fault
BlockBegan(limits) ==
  \E k \in Keys : Blocked(limits[k]) /\ limits[k].until > saved[k]
Changed(limits) ==
  \/ BlockBegan(limits)
  \/ unsaved + 1 >= PersistEvery
  \/ now - savedAt >= PersistInterval

(* The write of persistAuthLimits.  The platform holds the answer back     *)
(* until it is durable; a write that fails is not tried again.             *)
Write(limits) ==
  /\ table' = limits
  /\ unsaved' = 0 /\ savedAt' = now /\ saved' = Blocks(limits)
  /\ \/ disk' = [at |-> now, limits |-> limits] /\ missing' = 0 /\ UNCHANGED faults
     \/ faults < MaxFaults /\ faults' = faults + 1 /\ disk' = disk /\ missing' = now

(* The object counts a failure, and writes if it is worth it.              *)
CountFailure(k) ==
  \E limits \in Pruned([table EXCEPT ![k] = AfterFailure(@)]) :
    IF Changed(limits) THEN Write(limits)
    ELSE /\ table' = limits
         /\ unsaved' = unsaved + 1 /\ missing' = now
         /\ UNCHANGED <<savedAt, saved, disk, faults>>

(* A success deletes the count, which is always written.                   *)
DeleteCount(k) ==
  IF table[k] = None THEN UNCHANGED <<table, unsaved, savedAt, saved, storage>>
  ELSE Write([table EXCEPT ![k] = None])

(* The answer to an isolate names the block of its key; it may be lost.    *)
Answer(i, k) ==
  /\ \A a \in DOMAIN answers : answers[a] < MaxMail
  /\ answers' \in {answers} \cup
       (IF Blocked(table'[k]) THEN {Post(answers, {<<i, k, table'[k].until>>})} ELSE {})

(* handleAuthRateLimit, by its operation.                                  *)
HandleReport(i, k) ==
  /\ loaded /\ mail[<<"report", i, k>>] > 0
  /\ mail' = Take(mail, <<"report", i, k>>)
  /\ CountFailure(k)
  /\ Answer(i, k)
  /\ UNCHANGED <<now, isolate, loaded, failed>>

HandleSnapshot(i, k) ==
  /\ loaded /\ mail[<<"snapshot", i, k>>] > 0
  /\ mail' = Take(mail, <<"snapshot", i, k>>)
  /\ UNCHANGED memory
  /\ Answer(i, k)
  /\ UNCHANGED <<now, isolate, storage, failed>>

HandleClear(i, k) ==
  /\ loaded /\ mail[<<"clear", i, k>>] > 0
  /\ mail' = Take(mail, <<"clear", i, k>>)
  /\ DeleteCount(k)
  /\ UNCHANGED <<now, isolate, answers, loaded, failed>>

(* callHub fails before the message reaches the object.                    *)
Lose(m) ==
  /\ mail[m] > 0
  /\ mail' = Take(mail, m)
  /\ UNCHANGED <<now, isolate, answers, memory, storage, failed>>

(* connectionAuthFailure of a connection without a valid token that is not *)
(* refused: the object alone compares and counts.                          *)
ConnectFails(k) ==
  /\ loaded /\ ~Blocked(table[k])
  /\ CountFailure(k)
  /\ failed' = [failed EXCEPT ![k] = IF @ < MaxFailures THEN @ + 1 ELSE @]
  /\ UNCHANGED <<now, isolate, mail, answers, loaded>>

ConnectSucceeds(k) ==
  /\ loaded /\ ~Blocked(table[k])
  /\ DeleteCount(k)
  /\ UNCHANGED <<now, isolate, mail, answers, loaded, failed>>

(* Hibernation or a restart.                                               *)
Forget ==
  /\ loaded /\ loaded' = FALSE
  /\ table' = Empty /\ unsaved' = 0 /\ savedAt' = 0 /\ saved' = Blocks(Empty)
  /\ UNCHANGED <<now, isolate, mail, answers, storage, failed>>

Tick ==
  /\ now < MaxTime
  /\ now' = now + 1
  /\ guesses' = [i \in Isolates |-> [k \in Keys |->
                   {g \in guesses[i][k] : now' - g[1] < Window}]]
  /\ UNCHANGED <<local, hot, pulled, mail, answers, memory, storage, failed>>

Next ==
  \/ \E i \in Isolates, k \in Keys :
       \/ Fails(i, k) \/ Succeeds(i, k)
       \/ \E until \in Deadlines : Learns(i, k, until)
       \/ HandleReport(i, k) \/ HandleSnapshot(i, k) \/ HandleClear(i, k)
  \/ \E m \in DOMAIN mail : Lose(m)
  \/ \E k \in Keys : ConnectFails(k) \/ ConnectSucceeds(k)
  \/ Load \/ Forget
  \/ Tick

Spec == Init /\ [][Next]_vars

----------------------------------------------------------------------------
(* Properties.                                                             *)

(* What the object's next judgement of an address will rest on: its        *)
(* memory, or the snapshot it will wake up with.                           *)
Judged(k) == IF loaded THEN Blocks(table)[k]
             ELSE IF disk = None THEN 0 ELSE Blocks(disk.limits)[k]

(* A block the object has begun lasts to its end, through hibernation,     *)
(* restarts and whatever else is counted meanwhile; only a success lifts   *)
(* it, as long as the storage does not fail (persistAuthLimits,            *)
(* loadAuthLimitsOnce).                                                    *)
BlocksSurvive ==
  [][\A k \in Keys : Judged(k) > now /\ faults' = 0 =>
       Judged(k)' >= Judged(k) \/ \E i \in Isolates : HandleClear(i, k)]_vars

(* A failure that the snapshot does not count, and that hibernation would  *)
(* forget, came less than the interval of the throttle after the snapshot, *)
(* however often the object woke up in between and as long as the storage  *)
(* does not fail (authLimitsChanged, whose base line comes back with the   *)
(* snapshot).                                                              *)
ForgottenAreRecent ==
  missing > 0 /\ faults = 0 => disk # None /\ missing < disk.at + PersistInterval

(* Nobody is blocked, by the object or an isolate, before MaxFailures      *)
(* comparisons of theirs have failed: no failure is counted twice on its   *)
(* way through reports, snapshots, hibernation and merges.                 *)
BlocksHaveCause ==
  \A k \in Keys :
    Judged(k) > 0 \/ (\E i \in Isolates : Blocks(local[i])[k] > 0) => failed[k] = MaxFailures

(* Whatever becomes of its messages, an isolate compares fewer than twice  *)
(* MaxFailures wrong passwords of one address in any Window of time        *)
(* without a success between them.                                         *)
GuessesBounded ==
  Window <= Block =>
    \A i \in Isolates, k \in Keys : Cardinality(guesses[i][k]) < 2 * MaxFailures
=============================================================================
