-------------------------------- MODULE Feed --------------------------------
(***************************************************************************)
(* A page of the web interface and the list of records it shows            *)
(* (web/src/app.ts), while other devices and other tabs change the         *)
(* records.  The page asks for its list and its overview, polls for a      *)
(* marker of changes, changes records itself and switches views.           *)
(*                                                                         *)
(* The page runs on one thread: an action is one callback up to its next   *)
(* await.  A request is sent, the server reads or writes at one moment and *)
(* the answer is handled at a later one, if the request is not lost.       *)
(***************************************************************************)
EXTENDS Listing

CONSTANTS InitialTables, \* what the table of records may hold at the beginning
          InitialFilters, \* what the page's address may ask for
          MaxEvents    \* bound on changes elsewhere, faults and the user's moves

(* A stamp is the number of the change that wrote it, 0 before all changes. *)
ASSUME TablesAssumption ==
  \A table \in InitialTables :
    /\ table \in [Keys -> Rows \cup {None}]
    /\ \A k \in Keys : table[k] # None => table[k].modified = 0
ASSUME EventsAssumption == MaxEvents \in Nat

VARIABLES
  rows,       \* server: the table of records, None where there is no row
  folder,     \* server: the folder exists
  changes,    \* server: changes made so far
  filters,    \* state.filters: the view and the page
  items,      \* state.items: the keys shown, with the rows they were read as
  total,      \* state.total
  status,     \* state.status
  stale,      \* state.stale: "connection interrupted"
  selection,  \* state.selection
  lastQuery,  \* the filters the items were loaded for, or None
  reqs,       \* requests for the list, by ticket
  ticket,     \* listTicket, modulo the two of them that matter
  asking,     \* an overview is under way or waits for its minute (one stands
              \* for several)
  poll,       \* the marker a poll was answered with, and after which change,
              \* or None
  lastMarker, \* the newest marker heard of
  pollFailures, \* consecutive failures of polls
  polledAt,   \* only for properties: the change after which the last poll that
              \* has been heard of was answered
  act,        \* the request by which the page changes records, or None
  touch,      \* the request that a copy or a download of a record sends, or None
  trouble,    \* only for properties: what has happened to the list since it
              \* was loaded
  events      \* changes elsewhere, faults and the user's moves so far

server == <<rows, folder, changes>>
list == <<filters, reqs, ticket>>
shown == <<items, total, status, lastQuery, trouble>>
polling == <<poll, lastMarker, pollFailures, polledAt>>
feedVars == <<server, list, shown, asking, polling, stale, selection, act, touch, events>>

Tickets == {0, 1}
Filters == [view : Views, page : Nat \ {0}]
Items == [key : Keys, row : Rows]
Requests == [query : Filters, answered : BOOLEAN, total : Nat, page : SUBSET Items]
ASSUME FiltersAssumption == InitialFilters \subseteq Filters
ASSUME RequestsAssumption == None \notin Requests
Sent(query) == [query |-> query, answered |-> FALSE, total |-> 0, page |-> {}]
KeysOf(set) == {i.key : i \in set}
Present(k) == rows[k] # None
Event == events < MaxEvents /\ events' = events + 1

Ops == {"toggle", "batch", "purge", "clear", "move", "deleteFolder", "create"}
Flags == {"starred", "pinned", "deleted"}
Acts == [op : Ops, keys : SUBSET Keys, flag : Flags \cup {"folder"}, value : BOOLEAN,
         phase : {"sent", "done"}, done : Nat, row : Rows \cup {None}]

Touches == [key : Keys, row : Rows, answered : BOOLEAN]
Troubles == {"none", "failed", "refused", "masked", "regressed"}

FeedTypeOK ==
  /\ rows \in [Keys -> Rows \cup {None}] /\ folder \in BOOLEAN /\ changes \in Nat
  /\ filters \in Filters /\ lastQuery \in Filters \cup {None}
  /\ items \subseteq Items /\ total \in Nat /\ selection \subseteq Keys
  /\ status \in {"loading", "ready", "error"} /\ stale \in BOOLEAN
  /\ ticket \in Tickets
  /\ reqs \in [Tickets -> Requests \cup {None}]
  /\ asking \in BOOLEAN
  /\ poll \in [marker : Nat, at : Nat] \cup {None}
  /\ lastMarker \in Nat /\ polledAt \in Nat /\ pollFailures \in 0..2
  /\ act \in Acts \cup {None}
  /\ touch \in Touches \cup {None}
  /\ trouble \in Troubles
  /\ events \in 0..MaxEvents

-----------------------------------------------------------------------------
(* Asking.                                                                 *)

(* loadList: a new ticket, and the request before it is aborted; but its   *)
(* answer may be there already, waiting to be handled.                     *)
Unaborted(t) == IF reqs[t] # None /\ reqs[t].answered THEN reqs[t] ELSE None
LoadListFor(query) ==
  /\ filters' = query
  /\ ticket' = 1 - ticket
  /\ reqs' = [t \in Tickets |-> IF t = ticket THEN Unaborted(t) ELSE Sent(query)]
LoadList == LoadListFor(filters)

LoadOverview == asking' = TRUE
RefreshAll == LoadList /\ LoadOverview

(* applyFilters: another view begins on its first page, without selection. *)
ApplyFilters(next) ==
  /\ next # filters
  /\ LoadListFor(next)
  /\ selection' = IF next.view = filters.view THEN selection ELSE {}
  /\ IF (next.view = "trash") # (filters.view = "trash") THEN LoadOverview
     ELSE UNCHANGED asking

-----------------------------------------------------------------------------
(* The list's answers.                                                     *)

AnswerList(t) ==
  /\ reqs[t] # None /\ ~reqs[t].answered
  /\ LET q == reqs[t].query
     IN reqs' = [reqs EXCEPT ![t] = [query |-> q, answered |-> TRUE, total |-> Total(rows, q.view),
                                     page |-> Page(rows, q.view, q.page)]]
  /\ UNCHANGED <<server, filters, ticket, shown, asking, polling, stale,
                 selection, act, touch, events>>

(* What is selected and not shown any more is not selected any more.       *)
AllKept(page) == selection
StillShown(page) == selection \cap KeysOf(page)

(* The answer to an older ticket is ignored.  A page beyond the last one   *)
(* becomes the last one and is asked for again.                            *)
AnyTicket(t) == TRUE
IsCurrent(t) == t = ticket

ReceiveList(t) ==
  /\ reqs[t] # None /\ reqs[t].answered
  /\ LET answer == reqs[t]
         last == Pages(answer.total)
     IN CASE ~IsCurrent(t) ->
               /\ reqs' = [reqs EXCEPT ![t] = None]
               /\ UNCHANGED <<filters, ticket, shown, stale, selection>>
          [] IsCurrent(t) /\ filters.page > last ->
               /\ LoadListFor([filters EXCEPT !.page = last])
               /\ UNCHANGED <<shown, stale, selection>>
          [] OTHER ->
               /\ items' = answer.page /\ total' = answer.total
               /\ status' = "ready" /\ stale' = FALSE /\ lastQuery' = answer.query
               /\ selection' = StillShown(answer.page)
               /\ reqs' = [reqs EXCEPT ![t] = None]
               /\ trouble' = "none"
               /\ UNCHANGED <<filters, ticket>>
  /\ UNCHANGED <<server, asking, polling, act, touch, events>>

(* A request that fails: the old list stays, and the page says so.  One    *)
(* that the server refuses (400) is no interruption: the user is told once. *)
FailList(t) ==
  /\ reqs[t] # None /\ IsCurrent(t) /\ Event
  /\ reqs' = [reqs EXCEPT ![t] = None]
  /\ \/ trouble' = "refused" /\ UNCHANGED <<status, stale>>
     \/ /\ trouble' = "failed"
        /\ IF items = {} THEN status' = "error" /\ UNCHANGED stale
           ELSE stale' = TRUE /\ UNCHANGED status
  /\ UNCHANGED <<server, filters, ticket, items, total, lastQuery, asking,
                 polling, selection, act, touch>>

(* The overview.  A folder that is gone is left for the view of all; but   *)
(* an overview that was read before it went still names it.  Its success   *)
(* takes the sign of interruption away, though the list beside it may have *)
(* failed.                                                                 *)
ReceiveOverview ==
  /\ asking /\ asking' = FALSE
  /\ stale' = FALSE
  /\ trouble' = IF trouble = "failed" THEN "masked" ELSE trouble
  /\ \E named \in {folder, TRUE} :
       IF filters.view = "folder" /\ ~named
       THEN /\ LoadListFor([view |-> "all", page |-> 1])
            /\ selection' = {}
       ELSE UNCHANGED <<list, selection>>
  /\ UNCHANGED <<server, items, total, status, lastQuery, polling, act, touch, events>>

FailOverview ==
  /\ asking /\ asking' = FALSE
  /\ Event
  /\ stale' = TRUE
  /\ UNCHANGED <<server, list, shown, polling, selection, act, touch>>

(* One that waits for its minute is dropped when the tab is out of view.   *)
DropOverview ==
  /\ asking /\ asking' = FALSE
  /\ UNCHANGED <<server, list, shown, polling, stale, selection, act, touch, events>>

-----------------------------------------------------------------------------
(* Polling: by the timer, when the tab comes into view, and when the push  *)
(* channel says that something has changed; at any moment, then.  The      *)
(* server answers with its marker, and the page hears of it later.         *)
Poll ==
  /\ poll = None /\ poll' = [marker |-> Marker(rows), at |-> changes]
  /\ UNCHANGED <<server, list, shown, asking, lastMarker, pollFailures, polledAt, stale,
                 selection, act, touch, events>>

(* checkChanges: whoever was told of an interruption reloads as well.      *)
Newer(marker) == stale \/ marker # lastMarker

ReceivePoll ==
  /\ poll # None /\ poll' = None
  /\ pollFailures' = 0 /\ stale' = FALSE /\ polledAt' = poll.at
  /\ IF Newer(poll.marker)
     THEN lastMarker' = poll.marker /\ RefreshAll
     ELSE UNCHANGED <<lastMarker, list, asking>>
  /\ UNCHANGED <<server, shown, selection, act, touch, events>>

FailPoll ==
  /\ poll # None /\ poll' = None
  /\ Event
  /\ pollFailures' = IF pollFailures = 2 THEN 2 ELSE pollFailures + 1
  /\ stale' = (stale \/ pollFailures' = 2)
  /\ UNCHANGED <<server, list, shown, asking, lastMarker, polledAt, selection, act, touch>>

-----------------------------------------------------------------------------
(* Changes of the records, by whoever makes them.  A change gets a new     *)
(* stamp, unless it keeps the one it has: a purge leaves nothing to stamp, *)
(* folders do not touch LastModified, an upload brings a stamp of its own. *)

Stamped(row) == [row EXCEPT !.modified = changes + 1]
NewRow == [modified |-> changes + 1, deleted |-> FALSE, starred |-> FALSE,
           pinned |-> FALSE, folder |-> FALSE]
Changed(new) == rows' = new /\ changes' = changes + 1

(* Flags that a request sets; a row that is gone is left alone.            *)
WithFlag(ks, flag, value) ==
  [k \in Keys |-> IF k \in ks /\ Present(k)
                  THEN Stamped([rows[k] EXCEPT ![flag] = value]) ELSE rows[k]]
WithoutTrashed(ks) ==
  [k \in Keys |-> IF k \in ks /\ Present(k) /\ rows[k].deleted THEN None ELSE rows[k]]
InFolder(ks, value) ==
  [k \in Keys |-> IF k \in ks /\ Present(k) THEN [rows[k] EXCEPT !.folder = value]
                  ELSE rows[k]]
Uploaded(k, row) == [rows EXCEPT ![k] = row]
Revived(k) == [rows EXCEPT ![k] = Stamped([@ EXCEPT !.deleted = FALSE])]

(* Others: devices that upload, other tabs, the cleaning.                  *)
Elsewhere ==
  /\ Event
  /\ \/ \E k \in Keys :
          \/ ~Present(k) /\ \E row \in {NewRow, [NewRow EXCEPT !.modified = 0]} :
                                Changed(Uploaded(k, row))
          \/ Present(k) /\ \E flag \in Flags :
                 Changed(WithFlag({k}, flag, ~rows[k][flag]))
          \/ Present(k) /\ rows[k].deleted /\ Changed(WithoutTrashed({k}))
        /\ UNCHANGED folder
     \/ folder /\ folder' = FALSE /\ Changed(InFolder(Keys, FALSE))
  /\ UNCHANGED <<list, shown, asking, polling, stale, selection, act, touch>>

-----------------------------------------------------------------------------
(* What the user does.                                                     *)

(* navigate and the pager.                                                 *)
Navigate ==
  /\ Event
  /\ \E view \in Views, page \in 1..Cardinality(Keys) :
       /\ view = "folder" => folder
       /\ page > 1 => view = filters.view /\ page <= Pages(total)
       /\ ApplyFilters([view |-> view, page |-> page])
  /\ UNCHANGED <<server, shown, polling, stale, act, touch>>

(* onPop: the browser's history brings back what the page was opened with. *)
Back ==
  /\ Event
  /\ \E query \in InitialFilters \ {filters} : LoadListFor(query)
  /\ selection' = {} /\ LoadOverview
  /\ UNCHANGED <<server, shown, polling, stale, act, touch>>

(* The refresh button: an empty list is shown as loading again.            *)
Refresh ==
  /\ Event /\ RefreshAll
  /\ status' = IF items = {} THEN "loading" ELSE status
  /\ UNCHANGED <<server, items, total, lastQuery, trouble, polling, stale, selection, act, touch>>

(* toggleSelect (a range of it, with the shift key), selectAll and         *)
(* clearSelection.                                                         *)
Select ==
  /\ Event
  /\ \E ks \in SUBSET KeysOf(items) : selection' = ks
  /\ selection' # selection
  /\ UNCHANGED <<server, list, shown, asking, polling, stale, act, touch>>

(* A request that changes records; the user waits for its answer.          *)
Do(op, ks, flag, value) ==
  /\ Event /\ act = None
  /\ act' = [op |-> op, keys |-> ks, flag |-> flag, value |-> value,
             phase |-> "sent", done |-> 0, row |-> None]
  /\ UNCHANGED <<server, list, shown, asking, polling, stale, selection, touch>>

(* selectedItems, or a single record.                                      *)
Selected == selection \cap KeysOf(items)
Chosen == {Selected} \cup {{k} : k \in KeysOf(items)}
RowShown(k) == (CHOOSE i \in items : i.key = k).row
Trashing == filters.view = "trash"

(* toggleFlag asks for the opposite of what is shown.                      *)
Toggle == \E k \in KeysOf(items), flag \in {"starred", "pinned"} :
            ~Trashing /\ Do("toggle", {k}, flag, ~RowShown(k)[flag])
(* trashItems, restoreItems and batchUpdate.                               *)
Batch ==
  \/ \E ks \in Chosen \ {{}} : Do("batch", ks, "deleted", ~Trashing)
  \/ \E flag \in {"starred", "pinned"}, value \in BOOLEAN :
       Selected # {} /\ ~Trashing /\ Do("batch", Selected, flag, value)
(* purgeItems; emptyTrash; clearAll.                                       *)
Purge == \E ks \in Chosen \ {{}} : Trashing /\ Do("purge", ks, "deleted", TRUE)
EmptyTrash == Trashing /\ Do("clear", Keys, "deleted", TRUE)
ClearAll == Do("clear", Keys, "deleted", FALSE)
(* moveToFolder, deleteCurrentFolder.                                      *)
Move == \E ks \in Chosen \ {{}}, value \in BOOLEAN :
          (value => folder) /\ Do("move", ks, "folder", value)
DeleteFolder == filters.view = "folder" /\ Do("deleteFolder", {}, "folder", FALSE)
(* saveText, uploadFiles.                                                  *)
Create == \E k \in Keys : (Present(k) => rows[k].deleted) /\ Do("create", {k}, "deleted", FALSE)

(* The server carries it out.                                              *)
Served ==
  CASE act.op = "toggle" \/ act.op = "batch" -> WithFlag(act.keys, act.flag, act.value)
    [] act.op = "purge" -> WithoutTrashed(act.keys)
    [] act.op = "clear" -> IF act.value THEN WithoutTrashed(Keys) ELSE [k \in Keys |-> None]
    [] act.op = "move"  -> InFolder(act.keys, act.value)
    [] act.op = "deleteFolder" -> InFolder(Keys, FALSE)
    [] act.op = "create" -> LET k == CHOOSE k \in act.keys : TRUE
                            IN IF Present(k) THEN Revived(k) ELSE Uploaded(k, NewRow)

(* Whether it finds what it is about; otherwise it is refused.             *)
Accepted ==
  CASE act.op = "toggle" -> \E k \in act.keys : Present(k)
    [] act.op = "move" /\ act.value -> folder
    [] act.op = "deleteFolder" -> folder
    [] OTHER -> TRUE

(* Its answer brings back a toggled row, or how many were changed.         *)
Done ==
  IF act.op \in {"purge", "clear"} THEN {k \in act.keys : Present(k) /\ Served[k] = None}
  ELSE {k \in act.keys : Present(k)}

(* Refused, or lost with its answer: the user is told, nothing else; but    *)
(* the batch bar clears the selection whatever came of a move.              *)
GiveUp ==
  /\ act' = None
  /\ selection' \in {selection} \cup IF act.op = "move" THEN {{}} ELSE {}

Serve ==
  /\ act # None /\ act.phase = "sent"
  /\ IF Accepted
     THEN /\ Changed(Served)
          /\ folder' = (folder /\ act.op # "deleteFolder")
          /\ act' = [act EXCEPT !.phase = "done", !.done = Cardinality(Done),
                       !.row = IF act.op = "toggle"
                               THEN Served[CHOOSE k \in act.keys : TRUE] ELSE None]
          /\ UNCHANGED selection
     ELSE GiveUp /\ UNCHANGED server
  /\ UNCHANGED <<list, shown, asking, polling, stale, touch, events>>

FailAct ==
  /\ act # None /\ Event /\ GiveUp
  /\ UNCHANGED <<server, list, shown, asking, polling, stale, touch>>

-----------------------------------------------------------------------------
(* The answer to a change.                                                 *)

(* merge: the row takes the place of the one shown, or leaves the view.    *)
Leaves(row) == ~Matches(row, filters.view)
Merged(k, row) ==
  {i \in items : i.key # k} \cup
  {[key |-> k, row |-> row] : i \in {i \in items : i.key = k /\ ~Leaves(row)}}

Merge(k, row) ==
  /\ items' = Merged(k, row)
  /\ IF k \in KeysOf(items) /\ Leaves(row)
     THEN total' = (IF total = 0 THEN 0 ELSE total - 1) /\ selection' = selection \ {k}
     ELSE UNCHANGED <<total, selection>>
  /\ trouble' = IF trouble = "none" /\ k \in KeysOf(items) /\ row # rows[k]
                THEN "regressed" ELSE trouble
  /\ UNCHANGED <<status, stale, lastQuery, list, asking>>

FinishToggle == Merge(CHOOSE k \in act.keys : TRUE, act.row)

(* Records that were trashed or purged leave the list at once, restored    *)
(* ones if it is the trash's; then everything is asked for again.          *)
RemoveShown ==
  /\ items' = {i \in items : i.key \notin act.keys}
  /\ total' = IF total < act.done THEN 0 ELSE total - act.done

FinishBatch ==
  /\ IF act.op = "purge" \/ (act.op = "batch" /\ act.flag = "deleted" /\ (act.value \/ Trashing))
     THEN RemoveShown
     ELSE UNCHANGED <<items, total>>
  /\ selection' = IF act.op = "batch" /\ act.flag = "deleted" /\ ~act.value /\ ~Trashing
                  THEN selection ELSE {}
  /\ RefreshAll
  /\ UNCHANGED <<status, stale, lastQuery, trouble>>

(* moveToFolder merges the rows it shows with the new folder.  From the    *)
(* batch bar the selection is cleared afterwards.                          *)
FinishMove ==
  LET moved(i) == [i EXCEPT !.row.folder = act.value]
      left == {i.key : i \in {i \in items : i.key \in act.keys /\ Leaves(moved(i).row)}}
  IN /\ items' = {IF i.key \in act.keys THEN moved(i) ELSE i :
                    i \in {i \in items : i.key \notin left}}
     /\ total' = IF total < Cardinality(left) THEN 0 ELSE total - Cardinality(left)
     /\ selection' \in {{}, selection \ left}
     /\ RefreshAll
     /\ UNCHANGED <<status, stale, lastQuery, trouble>>

(* showNewest: the new record is first on the first page of everything.    *)
FinishCreate ==
  /\ LoadListFor([view |-> "all", page |-> 1]) /\ LoadOverview
  /\ selection' = IF filters = [view |-> "all", page |-> 1] THEN selection ELSE {}
  /\ UNCHANGED <<shown, stale>>

(* applyFilters({folder: null}): to the first page, unless already there.  *)
FinishDeleteFolder ==
  LET next == [view |-> IF filters.view = "folder" THEN "all" ELSE filters.view, page |-> 1]
  IN /\ IF next = filters THEN UNCHANGED <<list, selection>>
        ELSE /\ LoadListFor(next)
             /\ selection' = IF next.view = filters.view THEN selection ELSE {}
     /\ LoadOverview
     /\ UNCHANGED <<shown, stale>>

Finish ==
  /\ act # None /\ act.phase = "done"
  /\ CASE act.op = "toggle"       -> FinishToggle
       [] act.op = "move"         -> FinishMove
       [] act.op = "create"       -> FinishCreate
       [] act.op = "deleteFolder" -> FinishDeleteFolder
       [] OTHER                   -> FinishBatch
  /\ act' = None
  /\ UNCHANGED <<server, polling, touch, events>>

-----------------------------------------------------------------------------
(* Touching: a copy or a download tells the server that the record was     *)
(* used, beside whatever else goes on, and nobody waits for the answer.    *)

Touch ==
  /\ Event /\ touch = None
  /\ \E i \in items : touch' = [key |-> i.key, row |-> i.row, answered |-> FALSE]
  /\ UNCHANGED <<server, list, shown, asking, polling, stale, selection, act>>

(* The stamp and the version it was shown with are sent along, so that the *)
(* row keeps them.  A row with another stamp by now is a conflict, unless  *)
(* its version is no higher (that of a row made anew): then the old stamp  *)
(* is written.  Versions are not modelled, so that both are possible.      *)
Untouched == touch' = None /\ UNCHANGED server
Touched ==
  LET row == [rows[touch.key] EXCEPT !.modified = touch.row.modified]
  IN /\ touch' = [touch EXCEPT !.row = row, !.answered = TRUE]
     /\ IF row = rows[touch.key] THEN UNCHANGED server
        ELSE Changed([rows EXCEPT ![touch.key] = row]) /\ UNCHANGED folder

ServeTouch ==
  /\ touch # None /\ ~touch.answered
  /\ \/ Present(touch.key) /\ Touched
     \/ (Present(touch.key) => rows[touch.key].modified # touch.row.modified) /\ Untouched
  /\ UNCHANGED <<list, shown, asking, polling, stale, selection, act, events>>

ReceiveTouch ==
  /\ touch # None /\ touch.answered
  /\ Merge(touch.key, touch.row)
  /\ touch' = None
  /\ UNCHANGED <<server, polling, act, events>>

FailTouch ==
  /\ touch # None /\ Event
  /\ touch' = None
  /\ UNCHANGED <<server, list, shown, asking, polling, stale, selection, act>>

-----------------------------------------------------------------------------
(* A page that has just been opened, when the poll that seeds its marker    *)
(* has been answered and the list it asked for at once has not.            *)
FeedInit ==
  /\ rows \in InitialTables /\ folder = TRUE /\ changes = 0
  /\ filters \in InitialFilters
  /\ items = {} /\ total = 0 /\ status = "loading" /\ stale = FALSE
  /\ selection = {} /\ lastQuery = None
  /\ ticket = 0 /\ reqs = [t \in Tickets |-> IF t = 0 THEN Sent(filters) ELSE None]
  /\ trouble = "none" /\ asking = TRUE
  /\ poll = None /\ pollFailures = 0 /\ lastMarker = Marker(rows) /\ polledAt = 0
  /\ act = None /\ touch = None /\ events = 0

User == Navigate \/ Back \/ Refresh \/ Select \/ Toggle \/ Batch \/ Purge
        \/ EmptyTrash \/ ClearAll \/ Move \/ DeleteFolder \/ Create \/ Touch

FeedNext ==
  \/ \E t \in Tickets : AnswerList(t) \/ ReceiveList(t) \/ FailList(t)
  \/ ReceiveOverview \/ FailOverview \/ DropOverview
  \/ Poll \/ ReceivePoll \/ FailPoll
  \/ Elsewhere \/ Serve \/ FailAct \/ Finish \/ User
  \/ ServeTouch \/ ReceiveTouch \/ FailTouch

FeedSpec == FeedInit /\ [][FeedNext]_feedVars

-----------------------------------------------------------------------------
(* The list shown is one that was loaded for the filters shown, whatever   *)
(* order the answers to earlier filters come in; except where the last     *)
(* load has failed or was refused.                                         *)
ListIsOfItsView ==
  reqs[ticket] = None /\ status = "ready" /\ trouble \in {"none", "regressed"}
    => lastQuery = filters

(* What is selected is shown: the number of selected records that the list  *)
(* announces (feed.ts:277) is the number of those a batch acts on            *)
(* (app.ts:451).                                                            *)
SelectionIsShown == selection \subseteq KeysOf(items)

(* The list is what the server would answer now.                           *)
Fresh ==
  /\ items = Page(rows, filters.view, filters.page)
  /\ total = Total(rows, filters.view)
  /\ filters.page <= Pages(total)

(* A page that has polled since the last change, and waits for nothing,    *)
(* shows what that change left, or says that it was interrupted: provided  *)
(* the change left a stamp on a row (a purge, and a change of folders, does *)
(* not), and no late answer to a change or a touch has put a row in the     *)
(* list that is not the server's any more, and the list was not refused,   *)
(* nor has an overview that succeeded hidden that it failed.  This is what *)
(* query.ts:477-482 and app.ts:1323-1324 count on.                         *)
Stamp == Newest(rows, {k \in Keys : Present(k)}) = changes
Heard == polledAt = changes /\ Stamp
Idle == reqs[ticket] = None /\ act = None
CaughtUp ==
  Idle /\ Heard =>
    stale \/ status = "error" \/ trouble \in {"refused", "masked", "regressed"} \/ Fresh
=============================================================================
