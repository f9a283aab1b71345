# Verification of SyncClipboardCfServer

TLA+ modules of the server (`src/src`) and of its web interface
(`src/web/src`), the configurations that model-check them with TLC, and theorems
about them that TLAPS checks. Paths of code in this file and in the modules are
short: `db.ts` is `src/src/db.ts`, `SyncClipboardHub.ts` is in
`src/src/durable/`, `app.ts` is `src/web/src/app.ts`, `push.ts` and `api.ts` are
in `src/web/src/lib/`, `query.ts` is `src/src/ui/query.ts`.

1. [The system](#1-the-system)
2. [The modules and the code](#2-the-modules-and-the-code)
3. [What is checked](#3-what-is-checked)
4. [What is proved](#4-what-is-proved)
5. [What the checks found](#5-what-the-checks-found)
6. [What is not modelled, and the plan](#6-what-is-not-modelled-and-the-plan)

## 1. The system

The server keeps the clipboard of one user on Cloudflare Workers. Any number of
isolates serve requests; they share no memory. They share

- a D1 database: `HistoryRecords`, `Folders`, `Meta`. A statement is atomic, a
  request with several statements is not;
- an R2 bucket: `file/{name}` for staged uploads, `history/{Type}_{Hash}/{file}`
  for the data of records. It shares no transaction with D1;
- one durable object, the hub. It runs one handler at a time but lets others in
  at an `await`; its memory is lost when it hibernates;
- a cron trigger, every 20 minutes.

| component | state | operations | what is hard | what makes it correct |
|---|---|---|---|---|
| **History records** (`db.ts`, `profileHistory.ts`, `profileWrite.ts`, `historyOps.ts`) | rows with a version; AUTOINCREMENT ids | PATCH (read, compare-and-set, read again), POST and PUT (read, store, whole-row write or INSERT with its conflict handler), soft deletion, purges, clearing | every `await` between two statements is a point where another request comes in; late writes by id | no change is overwritten unseen; versions grow; a conflict has a cause; a purged row does not come back |
| **Transfer data** (`storage.ts`, `profileHistory.ts`, `historyOps.ts`, `cleanup.ts`) | rows in D1, objects in R2 | upload (object, then row), purge (rows, then directories), cleaning by one listing of the bucket | two stores without a transaction; tasks that end between two calls; a listing that is old when it is used | a record has its data; a purge leaves nothing; what is left over is found later |
| **Scheduled cleaning** (`cleanup.ts`) | subrequests spent, cursors, two stamps and a status in `Meta` | settings, then retention, trim, hard deletion, orphans, each in batches | a budget shared by phases, truncation, failing calls, killed rounds | reserves, budget, truthful stamps and statuses, progress |
| **Virtual folders** (`db.ts`, `ui/routes/folders.ts`) | `Folders`, the folder column of records | create (count, insert), rename, delete (look up, move members out, delete), move records in chunks | check and write are separate statements | no record names a folder that does not exist; the limit |
| **Hub: heartbeat** (`SyncClipboardHub.ts`) | WebSockets and the alarm (platform), streams and entries of long polling (memory) | connect, speak, close, POST, DELETE, broadcast, alarm | the alarm and the memory are lost separately; setting the alarm is a read and, later, a write | every connection is pinged; a silent one is closed; an idle object rests |
| **Hub: long polling** (`SyncClipboardHub.ts`) | per token: queue, waiting poll, `pollSeq`, `closed` | GET, POST, DELETE, delivery, timeout | polls overtaken by polls, timeouts by messages, both by deletion | every poll is answered; messages once, in order, without a gap |
| **Rate limit of logins** (`rateLimit.ts`, `auth.ts`, hub) | counters in isolates and in the hub, a snapshot in its storage | failure, success, report, snapshot, clear, persist, load | messages late, lost and out of order; hibernation; a throttled snapshot | a block lasts its time; nobody is blocked without failures of his own; guesses stay bounded |
| **Staging and current profile** (`routes/webdav.ts`, `profileWrite.ts`, `profile.ts`) | `file/{name}`, records and their objects, the current profile, announcements | PUT and DELETE of files, clearing, PUT /SyncClipboard.json in a dozen calls | one name for all devices, nothing held across the calls, requests that end anywhere | a record has the bytes its hash is of; what is accepted is on record; the current profile is the one announced and served |
| **Query and listing** (`query.ts`, `ui/routes/history-data.ts`, `info.ts`) | none | a page, its total, the marker of changes | the marker does not see every change | the marker moves when a stamped change is made |
| **Web client: push channel** (`push.ts`, `app.ts`) | socket, ticket under way, timers, what the page is told | start, stop, ticket, handshake, close, retry, pause | late events of old sockets, starts and stops while a ticket is fetched | one connection; "live" is true; it comes back |
| **Web client: list and polling** (`app.ts`, `state.ts`, `api.ts`) | filters, items, selection, ticket, marker, poll timer | load, navigate, select, change, poll | answers in any order, changes by others, failures of one request of two | the list is of the filters shown; the selection is shown; a poll brings the list up to date |
| Authentication, routing, serialization, hashing, maintenance | none, or read-only | | | pure functions of the request |

They interact through the rows (records, data, cleaning and folders write the
same table), through the bucket (uploads, purges and cleaning) and through the
hub (every successful write is broadcast; the interface hears of it by its push
channel and polls). `PROJECT.json` lists every component
with its status and, under `hazards`, every place in the code where something
can go wrong that a test would hardly reach.

## 2. The modules and the code

Each component has a module, `MC*` instantiates it for TLC, `*Proofs` holds its
theorems. A request or a task has a program counter (`pc`, `spc`, `rpc`,
`phase`); an action is everything between two calls of a store, as JavaScript
runs without interruption from one `await` to the next.

### Records: `RecordRules`, `HistoryRecords`, `AtomicRecords`

`RecordRules` is the arithmetic of a row, as operators: which row is newer
(`shouldUpdate`), what a PATCH writes (`updateHistory`), what a POST and a PUT
write. `HistoryRecords` is the table with its writers. A request keeps the row
it has read in `snap` and the entity it is about to write in `draft`; the
whole-row UPDATE writes `draft` to whatever row has its id now. `seen`, a field
of a row that the code does not have, collects the writers whose changes the
contents rest on: a write that loses one of them has overwritten a change
unseen. `AtomicRecords` is what the writers under optimistic concurrency promise:
a table changed by indivisible changes. The data of a POST is put in a step of
its own; bytes, file names and the folder column are left out.

### Transfer data: `HistoryData`

A key is a (Type, Hash) pair and its working directory. Objects have an age,
counted in ticks and capped at the grace period: the code tells objects apart
by their age only. Uploads, purges and the cleaning round are tasks; each may end
between any two of its calls (`Fail`, `SweepFail`, `RoundFail`). What an upload
does after its data are stored is settled by what its first read has found, whatever
is there by then (`renew` is the POST that found a row in the recycle bin).
`Reuploads`
says whether the data of a key may be uploaded more than once.

### Cleaning: `CleanupRound`

Records and objects are counted, not named. `spent` is `subrequests`, every
call charges what the code charges, `Room` is the budget left for a phase after
the reserves of the later ones. Rows weigh alike except that when the number of
plain rows is in `Heavy` the oldest of them alone exceeds the bytes of a round.
A call may fail (`Faulty`), a round may be killed anywhere (`Kill`), work
arrives between rounds (`Arrive`).

### Folders: `Folders`

One action for each statement of `createFolder`, `renameFolder`, `deleteFolder`
and `setFolder`, next to what inserts, trashes, restores, purges and clears
records. `Overlap` says whether a folder may be deleted while a request moves
records into it. A name is a model value; only its uniqueness matters.

### Hub: `Hub`, `HubHeartbeat`, `LongPoll`, `PushChannel`

`Hub` is what the two models of the durable object share: the tokens.
`HubHeartbeat` has the connections of the three transports and the alarm.
`scheduleHeartbeat` is two steps: it asks for the alarm (`Schedule`) and, when
the answer has come, may set it (`Resume`); the answer tells how the alarm was
when it was asked. `Tick` is time; `Hibernate` and `Restart` lose what the
platform would lose. `EarlyPosts` says whether a client may POST before its
first GET.

`LongPoll` has the entries of `lpClients`. A token has one entry after another:
an entry is the token and the number of its life, because a POST that is still
reading its body (`held`), a timeout and a waiting GET hold on to the entry they
began with while the map may have a new one. `PushChannel` is what a session
promises its client; `LongPoll` implements it with `open` as the entries
messages are sent to, `sent` and `out` as themselves.

### Rate limit: `RateLimit`

Isolates with their tables (`local`), the hub with its own (`table`), its
snapshot (`disk`) and its throttle (`unsaved`, `savedAt`, `saved`). Messages
between them are bags (`mail`, `answers`): they are delivered in any order, or
lost. `Fails` and `Succeeds` are `authFailure` with a wrong and a right password,
`HandleReport`, `HandleSnapshot`, `HandleClear` the hub's handler by its
operation, `ConnectFails` and `ConnectSucceeds` the hub's own check of a
connection. `Load` and `Forget` are waking up and hibernation. An isolate goes
on with an answer at a later time than it asked, and compares with the time it
asked at (`Learns`). What follows a failure of the storage is a fault bounded by
`MaxFaults`. `guesses` (the set of an isolate's failures, each with its time and
its number), `failed` and `missing` are history, kept for the properties.

### Staging and the current profile: `Staging`

A PUT of SyncClipboard.json is one action for each of its calls to D1, R2 and the
hub, in the order of `putSyncProfile`, `validateAndPersistData`, `addProfile` and
`saveAndNotifyCurrentProfile`; it may fail at each (`Fail`, whose answer is what
the code answers there). Bytes stand for their SHA-256: the hash of a file is the
pair of its name and its bytes, that of an archive the pair of a tag and its
entries, so that two archives may have one hash. `Offers` are what clients PUT;
they need not stage anything before, and may leave the name of their data out
(`named`). Between any two calls others stage, delete and clear what is under the
names, and records go to the recycle bin.

`Others` are the requests that write records and are no PUT: POST and upload (a row
that is read or not, data, then an INSERT or a whole-row UPDATE), PATCH and every
change of the interface, the touch after a copy or a download among them (a read,
then a whole-row UPDATE). Each may give the row any LastAccessed, a later one than
any PUT's included, may trash or restore it, and writes back the other columns as it has read them. They are wider
than the code: their versions and conflicts are left to `HistoryRecords`, so that a
write the code would refuse is a write here. `at` is LastAccessed; `put`, which the
code does not have, is what the last PUT wrote there, and tells rows whose
LastAccessed a client has moved from those where a PUT has.

### The web client: `Web`, `PushClient`, `PagePolling`, `Listing`, `Feed`

`Web` is the constant the four share. `PushClient` is `createPushChannel`: an action is one callback. A socket is named,
so that events of a socket that has been replaced are told from those of the
present one; `tickets` counts the requests for a ticket under way, as a stop and a
start leave an old one behind. `PagePolling` extends it with the page: the timer
of the next poll, visibility, the end of the session. What the channel does and
what the page makes of the channel's new state are one step (`Push`, `React`), as
`onState` is called in the channel's callback.

`Listing` is what the queries return: views, order, pages, totals, the marker.
`Feed` is the page and its list over the server's table. A request is sent, read
or carried out by the server at one moment (`AnswerList`, `Serve`) and handled at
a later one (`ReceiveList`, `Finish`). Requests for the list carry the ticket of
`loadList`, modulo two: an answer that has come in before its request was aborted
is still handled, later ones are not. A touch (`Touch`, `ServeTouch`,
`ReceiveTouch`) is a request of its own beside them, whose answer is merged like that
of a star. `trouble` is history for `CaughtUp`.

Simplifications of `Feed`: a page and its total are read at one moment (the code
has two statements); one poll, one change of the user and one touch are under way at
a time; versions are left out, so that a touch of a row that has got another stamp in
the meantime may be refused or write the old stamp back (the server does the latter
when the version has not grown: a row uploaded anew); a view stands for each kind of filter (search, types and ranges of time
select rows as views do); going back in the browser's history returns to what the
page was opened with; being out of view only delays polls, which `Poll` does
anyway; the overview is reduced to whether one is under way; the chart, the
panel of details, the focus, undo, and the end of the session are left out. The
page begins when the poll that seeds its marker has been answered.

## 3. What is checked

Every passing run is complete: TLC visits all reachable states. Each property
was also checked to fail when the definition it depends on is changed the way a
bug would change it (`mutants` in `PROJECT.json`; the changed definitions are
marked `a fault` in the modules and used by nothing else). The type invariants
are the first conjunct of the invariants of the proofs; a run does not check
them again.

| run | instance | shows |
|---|---|---|
| `records_all` | 2 keys, 2 requests of every kind | an id never comes to name another record (`IdsNameOneRecord`); a purged record comes back only by a new INSERT (`PurgeIsFinal`) |
| `records_ui` | 1 key, 3 PATCHes as the web interface sends them | `NoLostWrite`, `ConflictIsGenuine`; the table implements `AtomicRecords` |
| `data` | 2 keys, 1 upload, 1 purge, cleaning; data of a key uploaded once | `RowHasData`, `PurgeReclaims`, `OrphansReclaimed` |
| `cleanup` | budget 18, batches of 2, 1 fault, 1 arrival, two heavy backlogs | `PhaseGetsReserve`, `BudgetNearlyHolds`, `StampsAreTrue`, `NeverSkipsSilently`, `BacklogDrains` |
| `folders` | 2 records, 3 names, limit 1, 2 requests, no deletion overlapping a move | `FoldersOfRecordsExist`, `FoldersNearlyBounded`, `NewFoldersAreEmpty` |
| `heartbeat` | 1 token on the three transports, heartbeat 2, limit 2 ticks, 1 failed read | `Attended`, `SilenceBounded`, `PingsContinue`, `StopsWhenAlone` |
| `longpoll` | 1 token, 2 lives, 2 GETs, 1 POST, queue of 2, 3 messages | `WaitersAreReached`, `NoPollIsLost`, `PollsAreAnswered`; implements `PushChannel` |
| `ratelimit` | 1 address, 1 isolate, limit 3, window and block 2 ticks, snapshot every 2 ticks or 3 failures, 1 fault of the storage | `BlocksSurvive`, `ForgottenAreRecent`, `BlocksHaveCause`, `GuessesBounded` |
| `staging` | one name, two archives of the same entries and data that are too large; a text, a file, an image, an archive, one without a name; 2 PUTs, or 1 PUT and 1 other request, over an empty server or one that has taken a PUT | `RowsAreWhole`, `AcceptedIsRecorded`, `UndisturbedSucceeds`, `CurrentIsAnnounced`, `CurrentIsServed` |
| `push` | 3 sockets, 3 failures in a row, intervals of 1 and 2 ticks, tabs opened in or out of view | `NoStraySocket`, `LiveIsTrue`, `PollsInTime`, `Reconnects` |
| `feed` | 2 records, pages of 1, opened beyond the last page, 3 changes, faults, touches or moves | `ListIsOfItsView`, `SelectionIsShown`, `CaughtUp` |
| `data_purge` | see [section 5](#5-what-the-checks-found) | a statement of the repository does not hold |

### The bounds, and why they are enough

- *Records.* A lost update takes two requests, a third makes the one that
  loses retry or read again. Two keys are what it takes for an id to wander. The
  clock has two or three values because only equality and the threshold of a
  time difference matter. `Stored` puts rows of earlier sessions in the table,
  active and in the recycle bin.
- *Data.* The grace period is two ticks and an upload takes less: old, young
  and in between are all there. One purge and the round are the two kinds of
  deleters, and an upload that fails, is purged or is swept away while the round
  goes on is what they meet.
- *Cleaning.* With a budget of 18 every phase is truncated by its room, by its
  batches and by the bytes, and completes, in some round; pages and chunks of
  two make listings and deletions of several calls. The real constants (800, 16,
  24, ...) are covered by the theorems.
- *Folders.* A limit of one is exceeded by two requests; three ids let an id be
  deleted and (if ids were used again) come back.
- *Heartbeat.* Ages are told apart up to 7, above the largest age
  `SilenceBounded` allows with one fault (2 + 2 * 2 = 6). One token has all three
  kinds of connections at once; a second adds no interaction, as connections
  meet only in the alarm. Two tokens have 2.7 million states and were checked
  for the invariants as well.
- *Long polling.* `MaxQueued` 2 has a queue of one, a full one and an overflow;
  two lives let a held entry be replaced; two GETs supersede each other. Tokens
  do not interact.
- *Rate limit.* Three failures reach the limit with one to spare for a message
  that is lost or late; the clock runs past a window, a block and the intervals
  that begin in it. Addresses meet only in pruning, which is set to run at every
  count. Isolates meet only in the hub: what another isolate reports is to the
  hub and to this one what a connection that fails there is. `MaxMail` has one
  message of a kind under way.
- *Staging.* Two PUTs take each other's file; the third state they can find
  (staged by somebody else) is made by `Stage`. An image called a file gets
  another type on its way, an archive has a twin of the same hash, a text needs
  no file: the branches of the code. The server is empty or has taken one PUT.
  `MaxBeside` has at most one PUT in a run with another request: with the record the
  server began with, that is two records of one name and a request that overlaps the
  PUT or comes after it, all it takes to hide the data of the current profile. Another
  request beside two PUTs is covered by the theorems only.
- *Push channel.* The third socket lets one be closing and one be errored while
  one opens. Three failures reach the pause from timers and from closed sockets.
  Two polls of the timer at once are what a slow answer makes.
- *Feed.* Three events are a change, the fault that hides it and the move that
  asks anew, or a touch, a change and another. A page of one record makes the second the last, and emptying it
  moves the page. The records begin as one that every view shows and one in the
  recycle bin.

### Fairness, and why the code justifies it

- `CleanupRound`: weak fairness of the steps of a round, as the cron trigger
  fires for ever and a round goes on while its calls answer. Faults are bounded
  by `MaxFaults`: with endless failures nothing is promised.
- `HistoryData`: time passes, an upload that has begun goes on or fails, rounds
  start (weak); each stage of a round that is reached again and again is
  completed again and again (strong), as a round may be killed anywhere but not
  always at the same call.
- `HubHeartbeat`: an answer of the storage comes and an alarm that is due runs
  (weak; the platform promises both). Time is strongly fair: connections disable
  `Tick` for the moment an answer is on its way, and no number of them stops
  the clock.
- `LongPoll`: a timeout fires (weak; `setTimeout`).
- `PushClient`, and `PagePolling` with it: timers fire and the browser tells of
  the end of a socket that was closed or has failed (weak); a network that is
  able again and again to grant a ticket and to answer the handshake does so at
  last (strong). A request for a ticket ends after 30 seconds (`api.ts`), so that
  it is always answered or refused.

## 4. What is proved

For every value of the constants that the named assumptions allow. Some theorems
carry a hypothesis: the model can do more than they are about, and section 5
says what happens then.

| theorem | says | under | by the invariant |
|---|---|---|---|
| `HistoryRecordsProofs!Typing`, `IdsStayUnique`, `PurgedStaysPurged` | `TypeOK`, `IdsNameOneRecord`, `PurgeIsFinal` | | `IdInv`: every id held by a request is below `nextId` and belongs to the key it was read under |
| `UiWritesNeverLost`, `UiVersionsGrow`, `UiImplementsAtomic` | `NoLostWrite`, `VersionsGrow`, `ImplementsAtomic` | `OnlyUiPatches`: no POST, no PUT, and PATCHes leave the version to the server | `CasInv`: the row a request has read is still the one stored, or the stored version is larger |
| `UiConflictsAreGenuine` | `ConflictIsGenuine` | `OnlyUiPatches` | `ConflictInv`: the row that a PATCH has read is still the one stored, or it carries a change under a version the PATCH has not seen; no row bears a change of a later version than its own |
| `HistoryDataProofs!RecordsKeepData`, `PurgesReclaim` | `RowHasData`, `PurgeReclaims` | `Once`: the data of a key is uploaded once | `Inv`: whatever somebody is about to delete is dead (no row and nobody creating one), and whoever creates a row is alone with its key and its object is young |
| `CleanupRoundProofs!Typing`, `ReservesHold`, `BudgetHoldsButOne` | `TypeOK`, `PhaseGetsReserve`, `BudgetNearlyHolds` | | `BudgetInv`: what is spent where in a round, phase by phase |
| `CleanupRoundProofs!DoneMeansNothingLeft` | `NeverSkipsSilently` | | `WorkInv`: a batch of the recycle bin that was not a full one has emptied it, and the last sweep has in hand all that is left |
| `CleanupRoundProofs!CompletedIsTrue` | `StampsAreTrue` | | `StampInv`: once a round has announced itself, the stamps say completed only between rounds, when the last one has finished and stored its cursors |
| `FoldersProofs!NewFoldersStartEmpty`, `Overshoot` | `NewFoldersAreEmpty`, `FoldersNearlyBounded` | | `IdInv`: nobody knows an id that is not given out yet; `CountInv`: folders and requests past their COUNT |
| `FoldersProofs!DeletionLeavesNoneBehind` | `FoldersOfRecordsExist` | `Serial`: no records move into a folder while it is deleted | `SerialInv`: what a request has checked still holds |
| `HubProofs!NobodyForgotten` | `Attended` | `Orderly`: clients GET first | itself |
| `HubProofs!SilenceEnds` | `SilenceBounded` | `Orderly` | `SilenceInv`: age and the time to the next alarm together stay below the bound; an answer that will put the alarm off leaves room for one more heartbeat |
| `HubProofs!Reached`, `StillExpected` | `WaitersAreReached`, `NoPollIsLost` | | `PollInv`: with both, that the poll an entry knows is its last one (`Numbered`), without which a late timeout could answer a newer poll |
| `HubProofs!AwayClientsAreBounded` | `QueueBounded` | | itself |
| `HubProofs!LongPollIsChannel` | `ImplementsChannel` | | `ChannelInv`: what was handed out and what is queued are together all messages of an open entry; lives still to come are untouched and held by nobody |
| `RateLimitProofs!BlocksOutliveMemory`, `RecentForgotten` | `BlocksSurvive`, `ForgottenAreRecent` | `Roomy`: not more addresses than the table holds (else pruning drops blocks) | `HubInv`: a block in the table is in the snapshot and in `saved`; without a fault the throttle's base line in memory is the snapshot's; a sleeping object remembers nothing |
| `RateLimitProofs!BlocksArePaidFor` | `BlocksHaveCause` | | `CauseInv`: as long as an address has failed less often than the limit, no count of it is above its failures, the hub's and the snapshot's not even above those whose reports have been handled, and nobody blocks it or is about to hear of a block |
| `RateLimitProofs!LocalLimitHolds` | `GuessesBounded` | `Roomy` | `GaugeInv`: the guesses since an entry began are no more than it counts and those before it fewer than the limit, until a block outlasts them all |
| `StagingProofs!StoredIsWhole`, `AcceptedRecordsExist` | `RowsAreWhole`, `AcceptedIsRecorded` | | `WholeInv`: besides the two, the bytes under a key have the hash in the key, the bytes a PUT carries are those it has checked, and the row it reuses or merges with is whole and of its key; `DraftsInv`: so is the row that any other request is about to write |
| `StagingProofs!UndisturbedPutsSucceed` | `UndisturbedSucceeds` | | `AloneInv`: no other PUT is in flight, and at each step the PUT has found what its client staged |
| `StagingProofs!CurrentProfilesAreAnnounced` | `CurrentIsAnnounced` | | `NewsInv`: while an announcement is due, some PUT is about to make it, and without an overlap whoever announces announces the current profile |
| `StagingProofs!CurrentDataAreServed` | `CurrentIsServed` | | `TimesInv`: no PUT has left a time of the future, and one in flight alone leaves the latest; `ForemostInv`: the last PUT gave the row of the current profile a later time than any PUT gave another of its file name. The other requests keep both, as they change no `put` |
| `WebClientProofs!NoSecondConnection`, `LiveHasConnection`, `StoppedStaysQuiet`, `StartedIsNeverStranded` | `NoStraySocket`, `LiveIsTrue`, `StoppedIsQuiet`, `NeverStranded` | | `Inv`: the types, the first three and `OneAttempt`, that at most one ticket is under way and, while it is, there is no socket |
| `WebClientProofs!PagePollsInTime` | `PollsInTime` | | the timer's invariant: ticks left and ticks since the last poll together stay within the interval, unless the state changed within it |
| `WebClientProofs!PageRunsChannel` | the page implements the channel alone (`PageSpec => Spec`) | | none: by the steps of the page |
| `WebClientProofs!ListsAreOfTheirView` | `ListIsOfItsView` | | `Asked`: what is waited for is asked for the filters that are shown |
| `WebClientProofs!SelectionsAreShown` | `SelectionIsShown` | | itself, with the types: a row that is merged or moved keeps its key |
| `WebClientProofs!PagesCatchUp` | `CaughtUp` | | `NewsInv`: no marker is ahead of the changes and one that was read after the last change is the table's (`Polled`); once the page knows the marker of the last change, the answer it waits for is current (`Answers`) and the list it shows is, or something is amiss (`Shows`); a failure is owned up to (`Owned`) |

Type correctness is a theorem of every proof module but `HistoryDataProofs`, whose
`Inv` carries the types, and `RateLimitProofs`, where `HubInv` and `CauseInv` carry
those of the variables they speak of.

None of the invariants on the left is inductive alone, except where it says
"itself". The refinement theorems (`UiImplementsAtomic`, `LongPollIsChannel`,
`PageRunsChannel`) map initial states to initial states and every step to a step or
a stutter; `PageRunsChannel` carries the channel's theorems over to the page.

`VersionsGrow`, `QueueBounded`, `NeverStranded` and `StoppedIsQuiet` are stated by
theorems only: no run checks them again.

Every safety property and every refinement that a passing run checks is so a
theorem. Only model-checked: what needs fairness (`OrphansReclaimed`,
`BacklogDrains`, `PingsContinue`, `StopsWhenAlone`, `PollsAreAnswered`,
`Reconnects`), as the prover does neither fairness nor ENABLED; and the violation.

Assumptions of note. `NoneAssumption` of `Staging` and `RequestsAssumption` of
`Feed` say only that "nothing" is not one of the things it stands in for.
`TablesAssumption` of `Feed` says that a stamp is the number of the change that
wrote it, so that rows from before the first change have 0: the model counts
changes where the code reads a clock, and two changes in one millisecond are not
told apart by the code but are here.

What the proofs changed in the models. `CaughtUp` excepted a late answer to a
star only when its row carried an older stamp than the one shown; the proof asked
for more, and five events show why: the row is purged and uploaded again with an
older time while the answer is on its way, and the answer then puts the lost row
in the place of the new one with a newer stamp. Three events, the bound of the
run, do not reach it. `trouble` is now "regressed" whenever the answer's row is
not the server's. In `RateLimit` the failures of an isolate became numbered, as
two at one moment were one to the property.

## 5. What the checks found

- `data_purge` (`historyOps.ts:53`): content uploaded again between the purge's
  DELETE and its sweep loses its object; the new row has no data. A comment
  (`historyOps.ts:20-22`) says that deleting by the set of purged rows can at
  worst miss something. The run produces the execution.

Limits of the code that the modules reproduce and the properties state as they are:

- A PATCH whose version equals the stored one (the interface echoes it after a
  copy) leaves the version as it is, so a second PATCH that read the same row
  passes the compare-and-set and overwrites the first (`db.ts:550`); the comment
  there promises a conflict. `NoLostWrite` is checked for PATCHes that leave the
  version out, and proved under `OnlyUiPatches`.
- The conflict handler of an INSERT reads, merges and writes by id without
  looking at the version again (`db.ts:247`); a change in between is overwritten,
  and the version may move back. `VersionsGrow` is proved without POST and PUT.
- A move that checked its folder before the folder is deleted writes the id of
  a folder that no longer exists (`db.ts:690`, `folders.ts:137`), where
  `docs/ui.md:96` has the records return to no folder. `FoldersOfRecordsExist` needs
  `Serial` (`Overlap = FALSE`).
- The budget is exceeded by one when the listing of the bucket uses up exactly
  the room of the orphan phase (`cleanup.ts:657` charges without asking);
  `BudgetNearlyHolds` is what holds.
- `FOLDERS_MAX` is exceeded by concurrent requests, by fewer than there are
  (`FoldersNearlyBounded`).
- The orphan phase judges the age of an object by its listing; an object put
  again under the same key after that is deleted with its new row in place
  (`cleanup.ts:650`). This is why `RowHasData` needs `Once`.
- An entry that a POST makes before the client's first GET schedules no
  heartbeat (`SyncClipboardHub.ts:505`); `Attended` needs `Orderly`.
- A message that answers a poll whose client has left is gone
  (`SyncClipboardHub.ts:587`): the channel ends where the answer is handed to the
  platform.
- An isolate that was told nothing, as its messages were lost, lets an address
  guess until its own count is full; with what the hub has counted in between
  that is below twice the limit (`GuessesBounded`).
- GET /file/<name> goes by LastAccessed (`webdav.ts:161`, `db.ts:395`), and PUTs are
  not the only ones to write it. A touch after a copy or a download of an older record
  of the same name (`app.ts:621`, `653`; `history-mutations.ts:120-125`), a PATCH with
  `lastAccessed` (`db.ts:546`) or a POST of such a record (`profileHistory.ts:305`,
  `330`) makes the name lead to that record, with no PUT near and nothing overlapping,
  until the next PUT of the current profile: a client that downloads the data of the
  current profile by its `dataName` gets other bytes. `docs/protocol.md:192-200` takes
  the order by LastAccessed from the upstream server, and `docs/protocol.md:483` has
  clients find by the name the record they have just uploaded. An older state of the
  row of the current profile that is written back (with an earlier LastAccessed, or
  without its data) does the same. `CurrentIsServed` says that there is no third way:
  it excepts rows whose LastAccessed a client has moved ahead of what the last PUT
  left, and a current profile whose row has been set back. Two PUTs never fall into
  one millisecond in the model.
- Of two overlapping PUTs of the current profile the one set last need not be
  the one announced last (`profileWrite.ts:40`); `CurrentIsAnnounced` and
  `CurrentIsServed` speak of PUTs that ran alone (`sole`). A failure of R2 while
  the data are checked and stored is answered with 400, as if they did not match.
  When the deletion of the staged file fails, the request fails with it, with the
  object stored and no row, where the comment says that the answer does not
  depend on it (`profileWrite.ts:190-192`). A PUT that reuses a
  record leaves the staged file where it is. Two archives of the same entries have
  one hash: of two overlapping PUTs one may leave its digest in the row and the
  other its bytes in the bucket; `RowsAreWhole` speaks of the hash.
- The marker of changes (`query.ts:477-482`) is the newest LastModified. It does
  not move when records are purged, moved between folders, or uploaded with an
  older time, and it may come back to a value it had; comments in
  `history-mutations.ts` (376, 442) still count on the number of records being
  part of it. `CaughtUp` excepts changes that leave no newer stamp.
- When the list fails and the overview beside it succeeds, the overview takes
  the sign of interruption away (`app.ts:353`), and an old list is shown as fresh
  until the next change. `CaughtUp` excepts it (`trouble = "masked"`).
- A late answer to a star or a pin, or to the touch that a copy or a download sends
  unseen, puts its row in the place of a newer one (`app.ts:562`;
  `trouble = "regressed"`).
- A list that is answered with 400 leaves the old list under the new filters, with a
  note that goes away (`app.ts:296`; `trouble = "refused"`). It takes an address with
  a search longer than the server allows. `ListIsOfItsView` and `CaughtUp` except it.
- An overview that waits for its minute is dropped when the tab goes out of view,
  where `app.ts:320` promises that it becomes consistent in the end.
- Between the first list and the poll that seeds the marker (`app.ts:1318-1325`) a
  change may be counted as seen and not be shown; `Feed` begins after the seed.
- Every change of the channel's state starts the timer of the next poll anew
  (`app.ts:1228-1231`, `1257-1265`): a channel that comes and goes faster than the
  interval keeps the page from polling by its timer, where `push.ts:2` counts on
  polling to converge whatever fails. `PollsInTime` states exactly this exception.
- A page opened in a tab out of view starts its push channel and polls on its
  signals (`app.ts:1327`) until the tab has been shown and hidden once, where
  `docs/ui.md` (62, 184) has pages out of view do neither. `PageInit` includes it.

## 6. What is not modelled, and the plan

Modelled, in this order: records, data, cleaning, folders, heartbeat, long
polling, rate limit, staging and current profile, the push channel and the polls
of a page, listing and feed.

To come:

1. Theorems: for `HistoryData` without `Once`, that only a key with an upload and
   a deletion under way can lose its data.
2. Event streams: which stream a failed write belongs to
   (`SyncClipboardHub.ts:428` closes by id), a token on two transports at once
   (`SyncClipboardHub.ts:932`).
3. What an answer says: the lists of a batch (`history-mutations.ts:293`), the
   status of a revival that updated no row (`profileHistory.ts:276`).
4. Pure algorithms against reference definitions on bounded inputs: reading of
   frames, working-directory names, the search syntax.

Left out: of the staging area, purges (records only go to the recycle bin there) and
the versions of rows, which are subjects of `HistoryData` and `HistoryRecords`; of the
hub, the registration of tokens and the text of frames; of the
rate limit, the warning about bursts, the older form of the snapshot and the
exemption of loopback; of the queries, full-text search and the counters of the
overview; of the interface, rendering, dialogs, the panel of details, progress of
uploads and the chart. Left out for good: cryptography and cookies (stateless),
routing, parsing and limits of requests (stateless translations), diagnostics
(`ui/maintenance.ts`), build and deployment. `PROJECT.json` gives the reason for
each.
