----------------------------- MODULE PagePolling -----------------------------
(***************************************************************************)
(* When the interface polls (web/src/app.ts): its push channel composed    *)
(* with the timer of the next poll, the visibility of the page and its     *)
(* end.  A channel that is live lets the page poll rarely, any other one   *)
(* often; a page out of view does not poll.  What a poll finds is in       *)
(* module Feed.                                                            *)
(*                                                                         *)
(* A callback runs to its next await at once: what the channel does and    *)
(* what the page makes of the channel's new state are one step.            *)
(***************************************************************************)
EXTENDS PushClient

CONSTANTS Fast,      \* POLL_VISIBLE_MS, in ticks
          Slow,      \* POLL_PUSH_MS, in ticks
          MaxChains  \* bound on polls of the timer under way at once

ASSUME PaceAssumption == Fast \in Nat \ {0} /\ Slow \in Nat /\ Fast < Slow
ASSUME NoneAssumption == None \notin Nat
ASSUME ChainsAssumption == MaxChains \in Nat \ {0}

VARIABLES
  app,     \* "new", "running", or "ended" with its session
  hidden,  \* document.hidden
  timer,   \* pollTimer: the ticks left, or None
  chains,  \* polls the timer has sent and that are not answered yet
  since,   \* only for properties: ticks since a poll was sent, or one of the
           \* timer's was answered
  calm     \* only for properties: ticks since the channel's state changed

page == <<app, hidden, timer, chains, since, calm>>
pageVars == <<vars, page>>

(* Ticks beyond the longest interval are not told apart.                   *)
Late == Slow + 1
Next1(ticks) == IF ticks = Late THEN Late ELSE ticks + 1

PageTypeOK ==
  /\ app \in {"new", "running", "ended"} /\ hidden \in BOOLEAN
  /\ timer \in 0..Slow \cup {None} /\ chains \in Nat
  /\ since \in 0..Late /\ calm \in 0..Late

-----------------------------------------------------------------------------
(* schedulePoll, after a step.                                             *)
Interval(s) == IF s = "live" THEN Slow ELSE Fast
Scheduled == IF app' # "running" \/ hidden' THEN None ELSE Interval(state')

(* onState: the channel's new state sets the pace at once.                 *)
Unpaced == UNCHANGED timer
React == timer' = IF state' = state THEN timer ELSE Scheduled
Calm == calm' = IF state' = state THEN calm ELSE 0

(* A step of the channel alone.                                            *)
Push(step) == app # "new" /\ step /\ UNCHANGED <<app, hidden, chains, since>> /\ React /\ Calm

(* startApp; it seeds its marker by a poll.                                *)
Boot ==
  /\ app = "new" /\ app' = "running"
  /\ Start
  /\ UNCHANGED <<hidden, chains>>
  /\ timer' = Scheduled /\ since' = 0 /\ calm' = 0

(* onVisibility.                                                           *)
Hide ==
  /\ ~hidden /\ hidden' = TRUE
  /\ UNCHANGED <<app, chains, since>>
  /\ IF app = "running"
     THEN (Stop \/ (stopped /\ UNCHANGED vars)) /\ timer' = Scheduled
     ELSE UNCHANGED <<vars, timer>>
  /\ Calm

Show ==
  /\ hidden /\ hidden' = FALSE
  /\ UNCHANGED <<app, chains>>
  /\ IF app = "running" THEN Start /\ timer' = Scheduled /\ since' = 0
     ELSE UNCHANGED <<vars, timer, since>>
  /\ Calm

(* stop(): the session is over.                                            *)
End ==
  /\ app = "running" /\ app' = "ended"
  /\ Stop \/ (stopped /\ UNCHANGED vars)
  /\ timer' = None
  /\ Calm
  /\ UNCHANGED <<hidden, chains, since>>

(* A broadcast: the page polls, and leaves the timer alone.                *)
Signal(s) ==
  /\ conn[s] = "open" /\ since' = 0
  /\ UNCHANGED <<vars, app, hidden, timer, chains, calm>>

(* The timer fires: a poll, and when it is answered, or has failed, the    *)
(* next is scheduled.                                                      *)
Fire ==
  /\ timer = 0 /\ chains < MaxChains
  /\ timer' = None /\ chains' = chains + 1 /\ since' = 0
  /\ UNCHANGED <<vars, app, hidden, calm>>

Answer ==
  /\ chains > 0 /\ chains' = chains - 1
  /\ UNCHANGED <<vars, app, hidden, calm>>
  /\ timer' = Scheduled /\ since' = 0

Tick ==
  /\ app = "running" /\ timer # 0
  /\ timer' = IF timer = None THEN None ELSE timer - 1
  /\ since' = Next1(since) /\ calm' = Next1(calm)
  /\ UNCHANGED <<vars, app, hidden, chains>>

-----------------------------------------------------------------------------
PageInit ==
  /\ Init
  /\ app = "new" /\ hidden \in BOOLEAN
  /\ timer = None /\ chains = 0 /\ since = 0 /\ calm = 0

PageNext ==
  \/ Boot \/ Hide \/ Show \/ End \/ Fire \/ Answer \/ Tick
  \/ Push(TicketGranted) \/ Push(TicketRefused)
  \/ Push(RetryFires) \/ Push(CooldownFires)
  \/ \E s \in Sockets :
       Signal(s) \/ Push(Handshake(s)) \/ Push(CloseFrame(s)) \/ Push(Error(s)) \/ Push(Closed(s))

PageSpec == PageInit /\ [][PageNext]_pageVars

(* The channel's own fairness; a step of its actions is always one of      *)
(* PageNext's.                                                             *)
FairPageSpec == PageSpec /\ Fairness

-----------------------------------------------------------------------------
(* A page in view whose polls are all answered polls within the interval   *)
(* its channel allows: in ten seconds, but for a live one.  It is late      *)
(* only while the state of the channel has changed within that interval,   *)
(* since every change starts the timer anew (app.ts:1226-1231, 1257-1265). *)
PollsInTime ==
  app = "running" /\ ~hidden /\ chains = 0 /\ since > Interval(state)
    => calm <= Interval(state)
=============================================================================
