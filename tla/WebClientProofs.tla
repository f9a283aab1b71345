-------------------------- MODULE WebClientProofs ---------------------------
(***************************************************************************)
(* Proofs about the web client: about PushClient, for any number of        *)
(* sockets and any limit of failures; about PagePolling, for any           *)
(* intervals; about Feed, for any table of records, any size of a page and *)
(* any number of events.                                                   *)
(*                                                                         *)
(* Of the channel, none of the properties is inductive alone.  What        *)
(* carries them is OneAttempt: a ticket is fetched only for a channel      *)
(* without a connection that is not live, so that whatever a ticket or a   *)
(* dying socket brings about finds the state the other did not touch.      *)
(*                                                                         *)
(* Of the list, what carries PagesCatchUp is that the marker the page      *)
(* remembers changes only together with a new request for the list: when   *)
(* it is the marker of the last change, whatever answer is waited for was  *)
(* read, or will be read, after that change.                               *)
(***************************************************************************)
EXTENDS PagePolling, Feed, FiniteSetTheorems, WellFoundedInduction, TLAPS

OneAttempt ==
  /\ tickets = IF pending THEN 1 ELSE 0
  /\ pending => socket = None /\ state # "live"

Inv == TypeOK /\ OneAttempt /\ NoStraySocket /\ StoppedIsQuiet /\ LiveIsTrue

USE SocketsAssumption, FailuresAssumption DEF timers, Conditions, Speaks

(* open() keeps the types and one attempt at a time, wherever it is called *)
(* with the connection left alone.                                         *)
LEMMA Opening ==
  ASSUME TypeOK, OneAttempt, Open, socket' = socket
  PROVE  /\ pending' \in BOOLEAN /\ tickets' \in Nat
         /\ state' \in {"offline", "connecting", "live"}
         /\ OneAttempt'
         /\ state' = "live" => state = "live"
<1>1. CASE MayOpen
  BY <1>1 DEF TypeOK, OneAttempt, Open, MayOpen
<1>2. CASE ~MayOpen
  <2>1. UNCHANGED <<pending, tickets, state>>
    BY <1>2 DEF Open
  <2> QED
    BY <2>1 DEF TypeOK, OneAttempt
<1> QED
  BY <1>1, <1>2

(* scheduleRetry() sets a timer for a channel that is started, and for no   *)
(* other.                                                                  *)
LEMMA Retrying ==
  ASSUME retry \in BOOLEAN, cooldown \in BOOLEAN, stopped \in BOOLEAN,
         failures \in Nat, failures' = failures + 1, ScheduleRetry
  PROVE  /\ retry' \in BOOLEAN /\ cooldown' \in BOOLEAN
         /\ ~stopped => retry' \/ cooldown'
         /\ stopped => retry' = retry /\ cooldown' = cooldown
<1> DEFINE idle == ~stopped /\ ~retry /\ ~cooldown
<1>1. failures' >= MaxFailures \/ failures' < MaxFailures
  OBVIOUS
<1>2. /\ cooldown' = (cooldown \/ (idle /\ failures' >= MaxFailures))
      /\ retry' = (retry \/ (idle /\ failures' < MaxFailures))
  BY DEF ScheduleRetry
<1> HIDE FailuresAssumption
<1>3. retry' \in BOOLEAN /\ cooldown' \in BOOLEAN
  BY <1>2, Zenon
<1>4. ~stopped => retry' \/ cooldown'
  BY <1>1, <1>2, Zenon
<1>5. stopped => retry' = retry /\ cooldown' = cooldown
  BY <1>2, Zenon
<1> QED
  BY <1>3, <1>4, <1>5

LEMMA InitInv == Init => Inv
<1> SUFFICES ASSUME Init PROVE Inv
  OBVIOUS
<1>1. 0 \in Nat
  OBVIOUS
<1>2. TypeOK
  BY <1>1, Zenon DEF Init, TypeOK
<1>3. OneAttempt /\ NoStraySocket
  BY DEF Init, OneAttempt, NoStraySocket
<1>4. StoppedIsQuiet /\ LiveIsTrue
  BY DEF Init, StoppedIsQuiet, LiveIsTrue
<1> QED
  BY <1>2, <1>3, <1>4 DEF Inv

LEMMA StartInv == ASSUME Inv, Start PROVE Inv'
<1>1. TypeOK' /\ OneAttempt' /\ (state' = "live" => state = "live")
  BY Opening DEF Inv, Start, TypeOK
<1>2. stopped' = FALSE /\ UNCHANGED <<socket, heartbeat, conn>>
  BY DEF Start
<1>3. NoStraySocket'
  BY DEF Inv, Start, NoStraySocket
<1>4. StoppedIsQuiet' /\ LiveIsTrue'
  BY <1>1, <1>2 DEF Inv, StoppedIsQuiet, LiveIsTrue
<1> QED
  BY <1>1, <1>3, <1>4 DEF Inv

LEMMA StopInv == ASSUME Inv, Stop PROVE Inv'
BY DEF Inv, Stop, HungUp, TypeOK, OneAttempt, NoStraySocket, StoppedIsQuiet, LiveIsTrue

(* While a ticket is under way there is no connection and nothing is live. *)
LEMMA TicketGrantedInv == ASSUME Inv, TicketGranted PROVE Inv'
<1>1. pending /\ socket = None /\ state # "live"
  BY DEF Inv, TypeOK, OneAttempt, TicketGranted
<1>2. TypeOK'
  <2>1. tickets' \in Nat /\ pending' = FALSE
    BY <1>1 DEF Inv, TypeOK, OneAttempt, TicketGranted
  <2>2. socket' \in Sockets \cup {None} /\ conn' \in [Sockets -> Conditions]
    BY DEF Inv, TypeOK, TicketGranted
  <2>3. UNCHANGED <<stopped, state, failures, retry, cooldown, heartbeat>>
    BY DEF TicketGranted
  <2> QED
    BY <2>1, <2>2, <2>3 DEF Inv, TypeOK
<1>4. OneAttempt'
  BY <1>1 DEF Inv, TypeOK, OneAttempt, TicketGranted
<1>5. StoppedIsQuiet' /\ LiveIsTrue'
  BY <1>1 DEF Inv, TypeOK, StoppedIsQuiet, LiveIsTrue, TicketGranted, TicketStillWanted
<1>3. NoStraySocket'
  BY <1>1 DEF Inv, TypeOK, NoStraySocket, TicketGranted
<1> QED
  BY <1>2, <1>3, <1>4, <1>5 DEF Inv

LEMMA TicketRefusedInv == ASSUME Inv, TicketRefused PROVE Inv'
<1>1. /\ retry \in BOOLEAN /\ cooldown \in BOOLEAN /\ stopped \in BOOLEAN
      /\ failures \in Nat /\ failures' = failures + 1 /\ ScheduleRetry
  BY DEF TicketRefused, Inv, TypeOK
<1>2. /\ retry' \in BOOLEAN /\ cooldown' \in BOOLEAN
      /\ stopped => retry' = retry /\ cooldown' = cooldown
  BY <1>1, Retrying
<1>3. TypeOK'
  <2>1. tickets' \in Nat /\ failures' \in Nat
    BY <1>1 DEF Inv, TypeOK, OneAttempt, TicketRefused
  <2>2. /\ pending' = FALSE /\ state' = "offline"
        /\ UNCHANGED <<socket, stopped, heartbeat, conn>>
    BY DEF TicketRefused
  <2> QED
    BY <1>2, <2>1, <2>2, Zenon DEF Inv, TypeOK
<1>5. OneAttempt'
  BY DEF Inv, TypeOK, OneAttempt, TicketRefused
<1>6. NoStraySocket' /\ LiveIsTrue'
  BY DEF Inv, NoStraySocket, LiveIsTrue, TicketRefused
<1>4. StoppedIsQuiet'
  BY <1>2 DEF Inv, StoppedIsQuiet, TicketRefused
<1> QED
  BY <1>3, <1>4, <1>5, <1>6 DEF Inv

(* The one that shakes hands is the connection referred to: no ticket is   *)
(* under way, and the channel is not stopped.                              *)
LEMMA HandshakeInv == ASSUME Inv, NEW s \in Sockets, Handshake(s) PROVE Inv'
<1>1. socket = s /\ ~pending /\ ~stopped
  BY DEF Inv, Handshake, NoStraySocket, OneAttempt, StoppedIsQuiet, TypeOK
<1>2. TypeOK' /\ OneAttempt' /\ NoStraySocket' /\ StoppedIsQuiet'
  BY <1>1 DEF Inv, TypeOK, OneAttempt, NoStraySocket, StoppedIsQuiet, Handshake
<1>3. LiveIsTrue'
  BY <1>1 DEF Inv, TypeOK, LiveIsTrue, Handshake
<1> QED
  BY <1>2, <1>3 DEF Inv

LEMMA CloseFrameInv == ASSUME Inv, NEW s \in Sockets, CloseFrame(s) PROVE Inv'
<1>1. TypeOK' /\ OneAttempt' /\ NoStraySocket' /\ StoppedIsQuiet'
  BY DEF Inv, TypeOK, OneAttempt, NoStraySocket, StoppedIsQuiet, CloseFrame
<1>2. LiveIsTrue'
  <2> SUFFICES ASSUME state = "live"
               PROVE  /\ heartbeat'
                      /\ \E w \in Sockets : /\ conn'[w] \in {"open", "closing", "errored"}
                                           /\ socket' \in {None, w}
    BY DEF LiveIsTrue, CloseFrame
  <2>1. PICK w \in Sockets : conn[w] \in {"open", "closing", "errored"} /\ socket \in {None, w}
    BY DEF Inv, LiveIsTrue
  <2>2. conn'[w] \in {"open", "closing", "errored"} /\ socket' = socket
    BY <2>1 DEF Inv, TypeOK, CloseFrame
  <2> QED
    BY <2>1, <2>2 DEF Inv, LiveIsTrue, CloseFrame
<1> QED
  BY <1>1, <1>2 DEF Inv

LEMMA ErrorInv == ASSUME Inv, NEW s \in Sockets, Error(s) PROVE Inv'
<1>1. TypeOK' /\ OneAttempt' /\ NoStraySocket' /\ StoppedIsQuiet'
  BY DEF Inv, TypeOK, OneAttempt, NoStraySocket, StoppedIsQuiet, Error
<1>2. LiveIsTrue'
  <2> SUFFICES ASSUME state = "live"
               PROVE  /\ heartbeat'
                      /\ \E w \in Sockets : /\ conn'[w] \in {"open", "closing", "errored"}
                                           /\ socket' \in {None, w}
    BY DEF LiveIsTrue, Error
  <2>1. PICK w \in Sockets : conn[w] \in {"open", "closing", "errored"} /\ socket \in {None, w}
    BY DEF Inv, LiveIsTrue
  <2>2. conn'[w] \in {"open", "closing", "errored"} /\ socket' \in {None, w}
    BY <2>1 DEF Inv, TypeOK, Error
  <2> QED
    BY <2>1, <2>2 DEF Inv, LiveIsTrue, Error
<1> QED
  BY <1>1, <1>2 DEF Inv

(* A socket that is superseded is not the one a live channel counts on.    *)
LEMMA ClosedInv == ASSUME Inv, NEW s \in Sockets, Closed(s) PROVE Inv'
<1>1. /\ UNCHANGED <<pending, stopped, tickets>>
      /\ conn' = [conn EXCEPT ![s] = "gone"]
  BY DEF Closed
<1>2. CASE Superseded(s)
  <2>1. UNCHANGED <<socket, state, failures, retry, cooldown, heartbeat>>
    BY <1>2 DEF Closed
  <2>2. TypeOK' /\ OneAttempt' /\ NoStraySocket' /\ StoppedIsQuiet'
    BY <1>1, <2>1 DEF Inv, TypeOK, OneAttempt, NoStraySocket, StoppedIsQuiet
  <2>3. LiveIsTrue'
    BY <1>1, <1>2, <2>1 DEF Inv, TypeOK, OneAttempt, LiveIsTrue, Superseded
  <2> QED
    BY <2>2, <2>3 DEF Inv
<1>3. CASE ~Superseded(s)
  <2>1. /\ socket' = None /\ heartbeat' = FALSE
        /\ failures' = failures + 1 /\ state' = "offline"
        /\ ~pending /\ socket \in {None, s}
    BY <1>3 DEF Closed, Superseded
  <2>2. /\ cooldown' \in BOOLEAN /\ retry' \in BOOLEAN
        /\ stopped => ~retry' /\ ~cooldown'
    <3>1. /\ retry \in BOOLEAN /\ cooldown \in BOOLEAN /\ stopped \in BOOLEAN
          /\ failures \in Nat /\ ScheduleRetry
      BY <1>3 DEF Closed, Inv, TypeOK
    <3>2. stopped => ~retry /\ ~cooldown
      BY DEF Inv, StoppedIsQuiet
    <3> QED
      BY <3>1, <3>2, <2>1, Retrying
  <2>6. failures' \in Nat /\ conn' \in [Sockets -> Conditions]
    BY <1>1, <2>1 DEF Inv, TypeOK
  <2>3. TypeOK'
    BY <1>1, <2>1, <2>2, <2>6, Zenon DEF Inv, TypeOK
  <2>5. OneAttempt' /\ LiveIsTrue'
    BY <1>1, <2>1 DEF Inv, OneAttempt, LiveIsTrue
  <2>4. NoStraySocket' /\ StoppedIsQuiet'
    BY <1>1, <2>1, <2>2 DEF Inv, TypeOK, NoStraySocket, StoppedIsQuiet
  <2> QED
    BY <2>3, <2>4, <2>5 DEF Inv
<1> QED
  BY <1>2, <1>3

LEMMA TimersInv == ASSUME Inv, RetryFires \/ CooldownFires PROVE Inv'
<1>1. Open /\ UNCHANGED <<socket, stopped, heartbeat, conn>>
  BY DEF RetryFires, CooldownFires
<1>3. failures' \in Nat /\ retry' \in BOOLEAN /\ cooldown' \in BOOLEAN
  <2>1. CASE RetryFires
    BY <2>1 DEF Inv, RetryFires, TypeOK
  <2>2. CASE CooldownFires
    BY <2>2 DEF Inv, CooldownFires, TypeOK
  <2> QED
    BY <2>1, <2>2
<1>4. TypeOK' /\ OneAttempt' /\ (state' = "live" => state = "live")
  BY <1>1, <1>3, Opening DEF Inv, TypeOK
<1>2. ~stopped /\ stopped' = stopped
  BY DEF Inv, RetryFires, CooldownFires, StoppedIsQuiet
<1> QED
  BY <1>1, <1>2, <1>4 DEF Inv, NoStraySocket, StoppedIsQuiet, LiveIsTrue

LEMMA NextInv == Inv /\ [Next]_vars => Inv'
<1> SUFFICES ASSUME Inv, [Next]_vars PROVE Inv'
  OBVIOUS
<1>1. CASE UNCHANGED vars
  BY <1>1 DEF Inv, TypeOK, OneAttempt, NoStraySocket, StoppedIsQuiet, LiveIsTrue, vars
<1>2. CASE Next
  BY <1>2, StartInv, StopInv, TicketGrantedInv, TicketRefusedInv, HandshakeInv,
     CloseFrameInv, ErrorInv, ClosedInv, TimersInv DEF Next
<1> QED
  BY <1>1, <1>2

LEMMA SpecInv == Spec => []Inv
BY InitInv, NextInv, PTL DEF Spec

-----------------------------------------------------------------------------
(* Every variable has its type, and a ticket is under way only for a       *)
(* channel without a connection (push.ts:121-127).                         *)
THEOREM Typing == Spec => [](TypeOK /\ OneAttempt)
<1>1. Inv => TypeOK /\ OneAttempt
  BY DEF Inv
<1> QED
  BY <1>1, SpecInv, PTL

(* However starts, tickets and the ends of sockets interleave, the only    *)
(* connection that can speak is the one the channel refers to              *)
(* (push.ts:62-63).                                                        *)
THEOREM NoSecondConnection == Spec => []NoStraySocket
<1>1. Inv => NoStraySocket
  BY DEF Inv
<1> QED
  BY <1>1, SpecInv, PTL

(* A channel called live has a connection whose end will still be told,    *)
(* and pings it (push.ts:102-119).                                         *)
THEOREM LiveHasConnection == Spec => []LiveIsTrue
<1>1. Inv => LiveIsTrue
  BY DEF Inv
<1> QED
  BY <1>1, SpecInv, PTL

(* stop() is complete: nothing that calls back later sets a timer, a ping  *)
(* or a connection going again (push.ts:195-208).                          *)
THEOREM StoppedStaysQuiet == Spec => []StoppedIsQuiet
<1>1. Inv => StoppedIsQuiet
  BY DEF Inv
<1> QED
  BY <1>1, SpecInv, PTL

(* A started channel always has something under way that leads to a        *)
(* connection (push.ts:81-100).                                            *)
THEOREM StartedIsNeverStranded == Spec => []NeverStranded
<1>1. Init => NeverStranded
  BY DEF Init, NeverStranded
<1>2. Inv /\ NeverStranded /\ [Next]_vars => NeverStranded'
  <2> SUFFICES ASSUME Inv, NeverStranded, [Next]_vars PROVE NeverStranded'
    OBVIOUS
  <2>1. CASE UNCHANGED vars
    BY <2>1 DEF NeverStranded, vars
  <2>2. CASE Start \/ RetryFires \/ CooldownFires
    BY <2>2 DEF NeverStranded, Start, RetryFires, CooldownFires, Open, MayOpen
  <2>3. CASE Stop
    BY <2>3 DEF NeverStranded, Stop
  <2>4. CASE TicketGranted
    BY <2>4 DEF Inv, TypeOK, OneAttempt, NeverStranded, TicketGranted, TicketStillWanted
  <2>5. CASE TicketRefused
    BY <2>5 DEF Inv, TypeOK, NeverStranded, TicketRefused, ScheduleRetry
  <2>6. CASE \E s \in Sockets : Handshake(s) \/ CloseFrame(s)
    <3>1. PICK s \in Sockets : Handshake(s) \/ CloseFrame(s)
      BY <2>6
    <3>2. /\ UNCHANGED <<socket, pending, stopped, retry, cooldown>>
          /\ conn[s] # "errored"
          /\ conn' = [conn EXCEPT ![s] = conn'[s]]
      BY <3>1 DEF Inv, TypeOK, Handshake, CloseFrame
    <3> QED
      BY <3>2 DEF Inv, TypeOK, NeverStranded
  <2>7. CASE \E s \in Sockets : Error(s)
    BY <2>7 DEF Inv, TypeOK, NeverStranded, Error
  <2>8. CASE \E s \in Sockets : Closed(s)
    <3>1. PICK s \in Sockets : Closed(s)
      BY <2>8
    <3>2. CASE Superseded(s)
      BY <3>1, <3>2 DEF NeverStranded, Closed, Superseded
    <3>3. CASE ~Superseded(s)
      <4>1. ~stopped => retry' \/ cooldown'
        BY <3>1, <3>3, Retrying DEF Inv, TypeOK, Closed
      <4> QED
        BY <3>1, <4>1 DEF NeverStranded, Closed
    <3> QED
      BY <3>2, <3>3
  <2> QED
    BY <2>1, <2>2, <2>3, <2>4, <2>5, <2>6, <2>7, <2>8 DEF Next
<1> QED
  BY <1>1, <1>2, SpecInv, PTL DEF Spec

-----------------------------------------------------------------------------
(* The page around the channel.  Its timer carries the argument: what it   *)
(* has left is what remains of the interval since the last poll, or since  *)
(* the last change of the channel's state.                                 *)

OnTime(ticks) == ticks + timer <= Interval(state)

TimerRight ==
  /\ timer # None =>
       app = "running" /\ ~hidden /\ timer <= Interval(state) /\ (OnTime(since) \/ OnTime(calm))
  /\ app = "running" /\ ~hidden /\ chains = 0 => timer # None

PageInv == PageTypeOK /\ TimerRight

USE NoneAssumption, PaceAssumption, ChainsAssumption

LEMMA Paces ==
  /\ Interval(state) \in 0..Slow /\ Interval(state') \in 0..Slow
  /\ None \notin 0..Slow
BY DEF Interval

(* Setting the timer, with a poll or a new state of the channel at hand.   *)
LEMMA Rescheduling ==
  ASSUME app' \in {"new", "running", "ended"}, hidden' \in BOOLEAN,
         chains' \in Nat, since' \in 0..Late, calm' \in 0..Late,
         timer' = Scheduled, since' = 0 \/ calm' = 0 \/ app' # "running" \/ hidden'
  PROVE  PageInv'
<1>1. CASE app' # "running" \/ hidden'
  <2>1. timer' = None
    BY <1>1 DEF Scheduled
  <2> QED
    BY <1>1, <2>1 DEF PageInv, PageTypeOK, TimerRight
<1>2. CASE ~(app' # "running" \/ hidden')
  <2>1. timer' = Interval(state') /\ timer' \in 0..Slow /\ timer' # None
    BY <1>2, Paces DEF Scheduled
  <2>2. OnTime(since)' \/ OnTime(calm)'
    BY <1>2, <2>1 DEF OnTime
  <2> QED
    BY <1>2, <2>1, <2>2 DEF PageInv, PageTypeOK, TimerRight
<1> QED
  BY <1>1, <1>2

LEMMA PageInitInv == PageInit => PageInv
BY DEF PageInit, PageInv, PageTypeOK, TimerRight, Late

LEMMA PushPage ==
  ASSUME PageInv, UNCHANGED <<app, hidden, chains, since>>, React, Calm
  PROVE  PageInv'
<1>1. CASE state' = state
  BY <1>1 DEF PageInv, PageTypeOK, TimerRight, OnTime, React, Calm
<1>2. CASE state' # state
  <2>1. timer' = Scheduled /\ calm' = 0
    BY <1>2 DEF React, Calm
  <2> QED
    BY <2>1, Rescheduling DEF PageInv, PageTypeOK, Late
<1> QED
  BY <1>1, <1>2

LEMMA CalmType == ASSUME PageInv, Calm PROVE calm' \in 0..Late
BY DEF Calm, PageInv, PageTypeOK, Late

LEMMA HideInv == ASSUME PageInv, Hide PROVE PageInv'
<1>1. /\ hidden' = TRUE /\ UNCHANGED <<app, chains, since>>
      /\ Calm
  BY DEF Hide
<1>2. CASE app = "running"
  <2>1. timer' = Scheduled
    BY <1>2 DEF Hide
  <2> QED
    BY <1>1, <2>1, Rescheduling, CalmType DEF PageInv, PageTypeOK
<1>3. CASE app # "running"
  <2>1. UNCHANGED timer
    BY <1>3 DEF Hide
  <2> QED
    <3>1. timer = None
      BY <1>3 DEF PageInv, TimerRight
    <3>2. TimerRight'
      BY <1>1, <1>3, <2>1, <3>1 DEF TimerRight
    <3> QED
      BY <1>1, <2>1, <3>2, CalmType DEF PageInv, PageTypeOK
<1> QED
  BY <1>2, <1>3

LEMMA ShowInv == ASSUME PageInv, Show PROVE PageInv'
<1>1. /\ hidden' = FALSE /\ UNCHANGED <<app, chains>>
      /\ Calm
  BY DEF Show
<1>2. CASE app = "running"
  <2>1. timer' = Scheduled /\ since' = 0
    BY <1>2 DEF Show
  <2>2. /\ app' \in {"new", "running", "ended"} /\ hidden' \in BOOLEAN
        /\ chains' \in Nat
    BY <1>1 DEF PageInv, PageTypeOK
  <2>3. since' \in 0..Late
    BY <2>1 DEF Late
  <2> QED
    BY <1>1, <2>1, <2>2, <2>3, Rescheduling, CalmType
<1>3. CASE app # "running"
  <2>1. UNCHANGED <<timer, since>>
    BY <1>3 DEF Show
  <2> QED
    <3>1. timer = None
      BY <1>3 DEF PageInv, TimerRight
    <3>2. TimerRight'
      BY <1>1, <1>3, <2>1, <3>1 DEF TimerRight
    <3> QED
      BY <1>1, <2>1, <3>2, CalmType DEF PageInv, PageTypeOK
<1> QED
  BY <1>2, <1>3

LEMMA EndInv == ASSUME PageInv, End PROVE PageInv'
<1>1. /\ app' = "ended" /\ timer' = None /\ UNCHANGED <<hidden, chains, since>>
      /\ Calm
  BY DEF End
<1> QED
  BY <1>1, CalmType DEF PageInv, PageTypeOK, TimerRight

LEMMA BootInv == ASSUME PageInv, Boot PROVE PageInv'
<1>1. /\ app' = "running" /\ timer' = Scheduled /\ since' = 0 /\ calm' = 0
      /\ UNCHANGED <<hidden, chains>>
  BY DEF Boot
<1> QED
  BY <1>1, Rescheduling DEF PageInv, PageTypeOK, Late

LEMMA TimerInv == ASSUME PageInv, Fire \/ Answer \/ Tick PROVE PageInv'
<1>1. CASE Fire
  BY <1>1 DEF Fire, PageInv, PageTypeOK, TimerRight, Late
<1>2. CASE Answer
  <2>1. /\ chains' \in Nat /\ timer' = Scheduled /\ since' = 0
        /\ UNCHANGED <<app, hidden, calm>>
    BY <1>2 DEF Answer, PageInv, PageTypeOK
  <2> QED
    BY <2>1, Rescheduling DEF PageInv, PageTypeOK, Late
<1>3. CASE Tick
  <2>1. /\ UNCHANGED <<state, app, hidden, chains>>
        /\ since' \in 0..Late /\ since' <= since + 1
        /\ calm' \in 0..Late /\ calm' <= calm + 1
    BY <1>3 DEF Tick, vars, Next1, Late, PageInv, PageTypeOK
  <2>2. CASE timer = None
    <3>1. timer' = None
      BY <1>3, <2>2 DEF Tick
    <3> QED
      BY <2>1, <2>2, <3>1 DEF PageInv, PageTypeOK, TimerRight
  <2>3. CASE timer # None
    <3>1. timer \in 1..Slow /\ timer' = timer - 1
      BY <1>3, <2>3 DEF Tick, PageInv, PageTypeOK
    <3>2. OnTime(since)' \/ OnTime(calm)'
      BY <2>1, <2>3, <3>1, Paces DEF PageInv, PageTypeOK, TimerRight, OnTime
    <3>3. timer' \in 0..Slow /\ timer' # None /\ timer' <= Interval(state)
      BY <2>3, <3>1, Paces DEF PageInv, TimerRight
    <3>4. TimerRight'
      BY <2>1, <2>3, <3>2, <3>3 DEF PageInv, TimerRight
    <3> QED
      BY <2>1, <3>3, <3>4 DEF PageInv, PageTypeOK
  <2> QED
    BY <2>2, <2>3
<1> QED
  BY <1>1, <1>2, <1>3

LEMMA SignalInv == ASSUME PageInv, NEW s \in Sockets, Signal(s) PROVE PageInv'
<1>1. since' = 0 /\ UNCHANGED <<state, app, hidden, timer, chains, calm>>
  BY DEF Signal, vars
<1>2. timer # None => timer \in 0..Slow /\ timer <= Interval(state)
  BY DEF PageInv, PageTypeOK, TimerRight
<1>3. timer # None => OnTime(since)'
  BY <1>1, <1>2 DEF OnTime
<1> QED
  BY <1>1, <1>2, <1>3 DEF PageInv, PageTypeOK, TimerRight, Late

LEMMA PageNextInv == PageInv /\ [PageNext]_pageVars => PageInv'
<1> SUFFICES ASSUME PageInv, [PageNext]_pageVars PROVE PageInv'
  OBVIOUS
<1>1. CASE UNCHANGED pageVars
  BY <1>1 DEF PageInv, PageTypeOK, TimerRight, OnTime, pageVars, page, vars
<1>2. CASE PageNext
  BY <1>2, BootInv, HideInv, ShowInv, EndInv, TimerInv, SignalInv, PushPage
     DEF PageNext, Push
<1> QED
  BY <1>1, <1>2

(* Within the page the channel is still the channel: every step of the     *)
(* page is one of the channel's, or leaves it alone.                       *)
THEOREM PageRunsChannel == PageSpec => Spec
<1>1. PageInit => Init
  BY DEF PageInit
<1>2. [PageNext]_pageVars => [Next]_vars
  BY DEF PageNext, pageVars, Next, Boot, Hide, Show, End, Fire, Answer, Tick, Signal, Push
<1> QED
  BY <1>1, <1>2, PTL DEF PageSpec, Spec

(* A page in view polls in time: late only while the channel's state has   *)
(* changed within the interval (app.ts:1257-1265).                         *)
THEOREM PagePollsInTime == PageSpec => []PollsInTime
<1>1. PageInv => PollsInTime
  BY Paces DEF PageInv, PageTypeOK, TimerRight, PollsInTime, OnTime
<1> QED
  BY <1>1, PageInitInv, PageNextInv, PTL DEF PageSpec

-----------------------------------------------------------------------------
(* The list of records.                                                    *)

HIDE DEF timers, Conditions, Speaks

(* A request by which the page changes records is one the user can make.   *)
ActIsMeant ==
  act # None =>
    /\ act.op \in {"toggle", "batch"} => act.flag \in Flags
    /\ act.op \in {"toggle", "create"} => \E k \in Keys : act.keys = {k}
    /\ act.op = "toggle" /\ act.phase = "done" => act.row \in Rows

(* A stamp is the number of a change that has been made.                   *)
Stamps == \A k \in Keys : rows[k] # None => rows[k].modified <= changes

(* So is every stamp that the page has been told of.                       *)
Past(set, last) == \A i \in set : i.row.modified <= last
Told == act # None /\ act.op = "toggle" /\ act.phase = "done" => act.row.modified <= changes
Learned ==
  /\ Past(items, changes)
  /\ \A t \in Tickets : reqs[t] # None => Past(reqs[t].page, changes)
  /\ Told
  /\ touch # None => touch.row.modified <= changes

FeedInv == FeedTypeOK /\ ActIsMeant /\ Stamps /\ Learned

USE KeysAssumption, PageSizeAssumption, EventsAssumption DEF Tickets, Troubles

-----------------------------------------------------------------------------
(* What the server answers is typed.                                       *)

LEMMA Counted ==
  ASSUME NEW set \in SUBSET Keys
  PROVE  IsFiniteSet(set) /\ Cardinality(set) \in Nat
BY FS_Subset, FS_CardinalityType

LEMMA Answerable ==
  ASSUME NEW table \in [Keys -> Rows \cup {None}], NEW query \in Filters
  PROVE  /\ Total(table, query.view) \in Nat
         /\ Page(table, query.view, query.page) \in SUBSET Items
<1>1. Total(table, query.view) \in Nat
  <2>1. InView(table, query.view) \in SUBSET Keys
    BY DEF InView
  <2>2. QED
    BY <2>1, Counted DEF Total
<1>2. \A k \in InView(table, query.view) : k \in Keys /\ table[k] \in Rows
  BY DEF InView
<1>3. QED
  BY <1>1, <1>2 DEF Page, Items

LEMMA PagesCount == ASSUME NEW n \in Nat PROVE Pages(n) \in Nat \ {0}
<1>1. CASE n = 0
  BY <1>1 DEF Pages
<1>2. CASE n # 0
  <2> DEFINE q == (n + PageSize - 1) \div PageSize
  <2>1. q \in Int
    OBVIOUS
  <2>2. q >= 1
    BY <1>2
  <2>3. QED
    BY <1>2, <2>1, <2>2 DEF Pages
<1>3. QED
  BY <1>1, <1>2

LEMMA SentTyped ==
  ASSUME NEW query \in Filters
  PROVE  Sent(query) \in Requests /\ Sent(query) # None
<1>1. {} \in SUBSET Items
  OBVIOUS
<1>2. Sent(query) \in Requests
  BY <1>1 DEF Sent, Requests
<1>3. QED
  BY <1>2, RequestsAssumption

(* Asking anew, for whatever filters: the request that counts is the new   *)
(* one.                                                                    *)
LEMMA Loading ==
  ASSUME FeedTypeOK, NEW query \in Filters, LoadListFor(query)
  PROVE  /\ filters' = query /\ filters' \in Filters
         /\ ticket' \in Tickets /\ reqs' \in [Tickets -> Requests \cup {None}]
         /\ reqs'[ticket'] = Sent(query) /\ reqs'[ticket'] # None
<1>1. ticket \in {0, 1} /\ reqs \in [{0, 1} -> Requests \cup {None}]
  BY DEF FeedTypeOK
<1>2. \A t \in {0, 1} : Unaborted(t) \in Requests \cup {None}
  BY <1>1 DEF Unaborted
<1>3. filters' = query /\ ticket' = 1 - ticket
  BY DEF LoadListFor
<1>4. reqs' = [t \in {0, 1} |-> IF t = ticket THEN Unaborted(t) ELSE Sent(query)]
  BY DEF LoadListFor
<1>5. ticket' \in {0, 1} /\ ticket' # ticket
  BY <1>1, <1>3
<1>6. QED
  BY <1>1, <1>2, <1>3, <1>4, <1>5, SentTyped

-----------------------------------------------------------------------------
(* Changes of the records.                                                 *)

Written(table) ==
  /\ table \in [Keys -> Rows \cup {None}]
  /\ \A k \in Keys : table[k] # None => table[k].modified <= changes + 1

LEMMA StampedTyped ==
  ASSUME FeedInv, NEW row \in Rows
  PROVE  Stamped(row) \in Rows /\ Stamped(row).modified = changes + 1
BY DEF FeedInv, FeedTypeOK, Stamped, Rows

LEMMA FlagTyped ==
  ASSUME NEW row \in Rows, NEW flag \in Flags, NEW value \in BOOLEAN
  PROVE  [row EXCEPT ![flag] = value] \in Rows
<1>1. CASE flag = "starred"
  BY <1>1 DEF Rows
<1>2. CASE flag = "pinned"
  BY <1>2 DEF Rows
<1>3. CASE flag = "deleted"
  BY <1>3 DEF Rows
<1>4. QED
  BY <1>1, <1>2, <1>3 DEF Flags

LEMMA TableTyped ==
  ASSUME FeedInv
  PROVE  /\ changes \in Nat /\ rows \in [Keys -> Rows \cup {None}]
         /\ \A k \in Keys : rows[k] # None =>
              /\ rows[k] \in Rows /\ rows[k].modified \in Nat
              /\ rows[k].modified <= changes /\ rows[k].modified <= changes + 1
<1>1. changes \in Nat /\ rows \in [Keys -> Rows \cup {None}]
  BY DEF FeedInv, FeedTypeOK
<1>2. ASSUME NEW k \in Keys, rows[k] # None
      PROVE  /\ rows[k] \in Rows /\ rows[k].modified \in Nat
             /\ rows[k].modified <= changes /\ rows[k].modified <= changes + 1
  <2>1. rows[k] \in Rows
    BY <1>1, <1>2
  <2>2. rows[k].modified \in Nat
    BY <2>1 DEF Rows
  <2>3. rows[k].modified <= changes
    BY <1>2 DEF FeedInv, Stamps
  <2>4. QED
    BY <1>1, <2>1, <2>2, <2>3
<1>3. QED
  BY <1>1, <1>2

LEMMA WithFlagWrites ==
  ASSUME FeedInv, NEW ks \in SUBSET Keys, NEW flag \in Flags, NEW value \in BOOLEAN
  PROVE  Written(WithFlag(ks, flag, value))
<1> DEFINE new(k) == Stamped([rows[k] EXCEPT ![flag] = value])
<1>1. \A k \in Keys : rows[k] # None => new(k) \in Rows /\ new(k).modified = changes + 1
  BY TableTyped, FlagTyped, StampedTyped
<1>2. WithFlag(ks, flag, value) =
        [k \in Keys |-> IF k \in ks /\ rows[k] # None THEN new(k) ELSE rows[k]]
  BY DEF WithFlag, Present
<1> HIDE DEF new
<1>3. QED
  BY <1>1, <1>2, TableTyped DEF Written

LEMMA RemovalWrites ==
  ASSUME FeedInv
  PROVE  /\ \A ks \in SUBSET Keys : Written(WithoutTrashed(ks))
         /\ Written([k \in Keys |-> None])
BY TableTyped DEF Written, WithoutTrashed

LEMMA InFolderWrites ==
  ASSUME FeedInv, NEW ks \in SUBSET Keys, NEW value \in BOOLEAN
  PROVE  Written(InFolder(ks, value))
<1>1. \A k \in Keys : rows[k] # None =>
        /\ [rows[k] EXCEPT !.folder = value] \in Rows
        /\ [rows[k] EXCEPT !.folder = value].modified <= changes + 1
  BY TableTyped DEF Rows
<1>2. QED
  BY <1>1, TableTyped DEF Written, InFolder, Present

LEMMA UploadWrites ==
  ASSUME FeedInv, NEW k \in Keys, NEW row \in Rows, row.modified <= changes + 1
  PROVE  Written(Uploaded(k, row))
BY TableTyped DEF Written, Uploaded

LEMMA NewRowTyped ==
  ASSUME FeedInv
  PROVE  /\ NewRow \in Rows /\ NewRow.modified <= changes + 1
         /\ [NewRow EXCEPT !.modified = 0] \in Rows
         /\ [NewRow EXCEPT !.modified = 0].modified <= changes + 1
<1>1. changes \in Nat
  BY TableTyped
<1>2. NewRow \in Rows /\ NewRow.modified = changes + 1
  BY <1>1 DEF NewRow, Rows
<1>3. [NewRow EXCEPT !.modified = 0] \in Rows /\ [NewRow EXCEPT !.modified = 0].modified = 0
  BY <1>2 DEF Rows
<1>4. QED
  BY <1>1, <1>2, <1>3

LEMMA RevivalWrites ==
  ASSUME FeedInv, NEW k \in Keys, rows[k] # None
  PROVE  Written(Revived(k))
<1> DEFINE row == Stamped([rows[k] EXCEPT !.deleted = FALSE])
<1>1. row \in Rows /\ row.modified = changes + 1
  <2>1. [rows[k] EXCEPT !.deleted = FALSE] \in Rows
    BY TableTyped DEF Rows
  <2>2. QED
    BY <2>1, StampedTyped
<1>2. Revived(k) = [rows EXCEPT ![k] = row]
  BY DEF Revived
<1> HIDE DEF row
<1>3. QED
  BY <1>1, <1>2, TableTyped DEF Written

(* Every change, of others or of the page itself, writes a table of rows.  *)
LEMMA ElsewhereWrites ==
  ASSUME FeedInv, Elsewhere
  PROVE  Written(rows') /\ changes' = changes + 1 /\ folder' \in BOOLEAN
<1>1. folder' \in BOOLEAN
  BY DEF Elsewhere, FeedInv, FeedTypeOK
<1>2. CASE \E k \in Keys : ~Present(k) /\ \E row \in {NewRow, [NewRow EXCEPT !.modified = 0]} :
                                Changed(Uploaded(k, row))
  <2>1. PICK k \in Keys : \E row \in {NewRow, [NewRow EXCEPT !.modified = 0]} :
                 Changed(Uploaded(k, row))
    BY <1>2
  <2>2. PICK row \in {NewRow, [NewRow EXCEPT !.modified = 0]} : Changed(Uploaded(k, row))
    BY <2>1
  <2>3. row \in Rows /\ row.modified <= changes + 1
    BY NewRowTyped
  <2>4. Written(Uploaded(k, row))
    BY <2>3, UploadWrites
  <2>5. QED
    BY <1>1, <2>2, <2>4 DEF Changed
<1>3. CASE \E k \in Keys : Present(k) /\ \E flag \in Flags :
                 Changed(WithFlag({k}, flag, ~rows[k][flag]))
  <2>1. PICK k \in Keys : \E flag \in Flags : Changed(WithFlag({k}, flag, ~rows[k][flag]))
    BY <1>3
  <2>2. PICK flag \in Flags : Changed(WithFlag({k}, flag, ~rows[k][flag]))
    BY <2>1
  <2>3. (~rows[k][flag]) \in BOOLEAN
    OBVIOUS
  <2>4. QED
    BY <1>1, <2>2, <2>3, WithFlagWrites DEF Changed
<1>4. CASE \E k \in Keys : Changed(WithoutTrashed({k}))
  BY <1>1, <1>4, RemovalWrites DEF Changed
<1>5. CASE Changed(InFolder(Keys, FALSE))
  BY <1>1, <1>5, InFolderWrites DEF Changed
<1>6. QED
  BY <1>2, <1>3, <1>4, <1>5 DEF Elsewhere

LEMMA ServedWrites ==
  ASSUME FeedInv, act # None
  PROVE  Written(Served)
<1>1. act \in Acts
  BY DEF FeedInv, FeedTypeOK
<1>2. CASE act.op \in {"toggle", "batch"}
  BY <1>1, <1>2, WithFlagWrites DEF Served, FeedInv, ActIsMeant, Acts
<1>3. CASE act.op = "purge" \/ act.op = "clear"
  BY <1>1, <1>3, RemovalWrites DEF Served, Acts
<1>4. CASE act.op = "move" \/ act.op = "deleteFolder"
  BY <1>1, <1>4, InFolderWrites DEF Served, Acts
<1>5. CASE act.op = "create"
  <2>1. PICK k \in Keys : act.keys = {k}
    BY <1>5 DEF FeedInv, ActIsMeant
  <2>2. Served = IF rows[k] # None THEN Revived(k) ELSE Uploaded(k, NewRow)
    BY <1>5, <2>1 DEF Served, Present
  <2>3. QED
    BY <2>2, NewRowTyped, UploadWrites, RevivalWrites
<1>6. QED
  BY <1>1, <1>2, <1>3, <1>4, <1>5 DEF Acts, Ops

-----------------------------------------------------------------------------
(* Types, and that requests for changes make sense.                        *)

USE DEF server, list, shown, polling, feedVars

LEMMA Typed == ASSUME FeedInv PROVE FeedTypeOK
BY DEF FeedInv

(* All but the records and the request that changes them.                  *)
PageTyped ==
  /\ filters \in Filters /\ ticket \in Tickets
  /\ reqs \in [Tickets -> Requests \cup {None}]
  /\ items \subseteq Items /\ total \in Nat /\ selection \subseteq Keys
  /\ lastQuery \in Filters \cup {None}
  /\ status \in {"loading", "ready", "error"} /\ stale \in BOOLEAN
  /\ trouble \in Troubles
  /\ asking \in BOOLEAN /\ poll \in [marker : Nat, at : Nat] \cup {None}
  /\ lastMarker \in Nat /\ polledAt \in Nat /\ pollFailures \in 0..2
  /\ events \in 0..MaxEvents

Loads == \E query \in Filters : LoadListFor(query)

LEMMA LoadsTyped ==
  ASSUME FeedTypeOK, Loads
  PROVE  /\ filters' \in Filters /\ ticket' \in Tickets
         /\ reqs' \in [Tickets -> Requests \cup {None}]
BY Loading DEF Loads

LEMMA ReloadLoads == ASSUME FeedTypeOK, LoadList PROVE Loads
BY DEF LoadList, Loads, FeedTypeOK

LEMMA FirstPage ==
  ASSUME NEW view \in Views, NEW number \in Nat \ {0}
  PROVE  [view |-> view, page |-> number] \in Filters
BY DEF Filters

LEMMA EventTyped == ASSUME FeedTypeOK, Event PROVE events' \in 0..MaxEvents
BY DEF FeedTypeOK, Event

LEMMA AnswerListTyped ==
  ASSUME FeedInv, NEW t \in Tickets, AnswerList(t)
  PROVE  PageTyped'
<1>1. reqs[t] \in Requests /\ reqs[t].query \in Filters
  BY DEF AnswerList, FeedInv, FeedTypeOK, Requests
<1>2. reqs' \in [Tickets -> Requests \cup {None}]
  BY <1>1, Answerable DEF AnswerList, FeedInv, FeedTypeOK, Requests
<1>3. QED
  BY <1>2 DEF AnswerList, FeedInv, FeedTypeOK, PageTyped

LEMMA ReceiveListTyped ==
  ASSUME FeedInv, NEW t \in Tickets, ReceiveList(t)
  PROVE  PageTyped'
<1> DEFINE last == Pages(reqs[t].total)
<1>1. /\ reqs[t] \in Requests /\ reqs[t].query \in Filters /\ reqs[t].total \in Nat
      /\ reqs[t].page \subseteq Items
  BY DEF ReceiveList, FeedInv, FeedTypeOK, Requests
<1>2. last \in Nat \ {0}
  BY <1>1, PagesCount
<1>3. [reqs EXCEPT ![t] = None] \in [Tickets -> Requests \cup {None}]
  BY DEF FeedInv, FeedTypeOK
<1>4. [filters EXCEPT !.page = last] \in Filters
  <2> HIDE DEF last
  <2> QED  BY <1>2 DEF FeedInv, FeedTypeOK, Filters
<1> HIDE DEF last
<1>5. CASE ~IsCurrent(t)
  BY <1>3, <1>5 DEF ReceiveList, FeedInv, FeedTypeOK, PageTyped
<1>6. CASE IsCurrent(t) /\ filters.page > last
  <2>1. LoadListFor([filters EXCEPT !.page = last]) /\ UNCHANGED <<shown, stale, selection>>
    BY <1>6 DEF ReceiveList, last
  <2>2. Loads
    BY <1>4, <2>1 DEF Loads
  <2>3. UNCHANGED <<server, asking, polling, act, events>>
    BY DEF ReceiveList
  <2>4. QED
    BY <2>1, <2>2, <2>3, LoadsTyped DEF FeedInv, FeedTypeOK, PageTyped
<1>7. CASE IsCurrent(t) /\ ~(filters.page > last)
  <2>1. /\ items' = reqs[t].page /\ total' = reqs[t].total
        /\ status' = "ready" /\ stale' = FALSE /\ lastQuery' = reqs[t].query
        /\ selection' = StillShown(reqs[t].page)
        /\ reqs' = [reqs EXCEPT ![t] = None]
        /\ trouble' = "none"
        /\ UNCHANGED <<filters, ticket>>
    BY <1>7 DEF ReceiveList, last
  <2>2. UNCHANGED <<server, asking, polling, act, events>>
    BY DEF ReceiveList
  <2>3. QED
    BY <1>1, <1>3, <2>1, <2>2 DEF FeedInv, FeedTypeOK, PageTyped, StillShown
<1>8. QED
  BY <1>5, <1>6, <1>7

LEMMA FailListTyped ==
  ASSUME FeedInv, NEW t \in Tickets, FailList(t)
  PROVE  PageTyped'
<1>1. reqs' \in [Tickets -> Requests \cup {None}]
  BY DEF FailList, FeedInv, FeedTypeOK
<1>2. status' \in {"loading", "ready", "error"} /\ stale' \in BOOLEAN /\ trouble' \in Troubles
  BY DEF FailList, FeedInv, FeedTypeOK
<1>3. events' \in 0..MaxEvents
  BY EventTyped DEF FailList, FeedInv
<1>4. QED
  BY <1>1, <1>2, <1>3 DEF FailList, FeedInv, FeedTypeOK, PageTyped

LEMMA OverviewTyped ==
  ASSUME FeedInv, ReceiveOverview \/ FailOverview \/ DropOverview
  PROVE  PageTyped'
<1>1. CASE ReceiveOverview
  <2>1. trouble' \in Troubles
    BY <1>1 DEF ReceiveOverview, FeedInv, FeedTypeOK
  <2>2. CASE UNCHANGED <<list, selection>>
    BY <1>1, <2>1, <2>2 DEF ReceiveOverview, FeedInv, FeedTypeOK, PageTyped
  <2>3. CASE LoadListFor([view |-> "all", page |-> 1]) /\ selection' = {}
    <3>1. Loads
      BY <2>3, FirstPage DEF Loads, Views
    <3>2. QED
      BY <1>1, <2>1, <2>3, <3>1, LoadsTyped
      DEF ReceiveOverview, FeedInv, FeedTypeOK, PageTyped
  <2>4. QED
    BY <1>1, <2>2, <2>3 DEF ReceiveOverview
<1>2. CASE FailOverview
  BY <1>2, EventTyped DEF FailOverview, FeedInv, FeedTypeOK, PageTyped
<1>3. CASE DropOverview
  BY <1>3 DEF DropOverview, FeedInv, FeedTypeOK, PageTyped
<1>4. QED
  BY <1>1, <1>2, <1>3

(* A set of numbers that has a bound has a greatest one.                   *)
Less == {p \in Nat \X Nat : p[1] < p[2]}
LEMMA LessWF == IsWellFoundedOn(Less, Nat)
BY NatLessThanWellFounded DEF OpToRel, Less
LEMMA Least == ASSUME NEW D, D \subseteq Nat, D # {}
  PROVE  \E n \in D : \A m \in D : n <= m
<1>1. PICK n \in D : \A m \in D : <<m, n>> \notin Less
  BY LessWF, WFMin
<1>2. QED
  <2>1. \A m \in D : ~(m < n)
    BY <1>1 DEF Less
  <2>2. QED
    BY <2>1
LEMMA Greatest ==
  ASSUME NEW S, S \subseteq Nat, S # {}, NEW c \in Nat, \A m \in S : m <= c
  PROVE  \E m \in S : \A n \in S : n <= m
<1> DEFINE D == {n \in Nat : \E m \in S : n = c - m}
<1>1. D \subseteq Nat /\ D # {}
  <2>1. PICK m \in S : TRUE
    OBVIOUS
  <2>2. c - m \in D
    BY <2>1
  <2>3. QED
    BY <2>2
<1>2. \E n \in D : \A m \in D : n <= m
  <2> HIDE DEF D
  <2> QED  BY <1>1, Least
<1>3. PICK n \in D : \A m \in D : n <= m
  BY <1>2
<1>4. PICK m \in S : n = c - m
  BY <1>3
<1>5. ASSUME NEW o \in S PROVE o <= m
  <2>1. c - o \in D
    BY <1>5
  <2>2. n <= c - o
    BY <1>3, <2>1
  <2>3. m \in Nat /\ o \in Nat /\ n = c - m
    BY <1>4, <1>5
  <2>4. QED
    BY <2>2, <2>3
<1>6. QED
  BY <1>5

LEMMA MarkerTyped ==
  ASSUME rows \in [Keys -> Rows \cup {None}], changes \in Nat, Stamps
  PROVE  Marker(rows) \in Nat /\ Marker(rows) <= changes
         /\ \A k \in Keys : rows[k] # None => rows[k].modified <= Marker(rows)
<1> DEFINE present == {k \in Keys : rows[k] # None}
           stamps == {0} \cup {rows[k].modified : k \in present}
<1>1. /\ changes \in Nat /\ stamps \subseteq Nat /\ stamps # {}
      /\ \A m \in stamps : m <= changes
  <2>1. \A k \in present : rows[k] \in Rows
    OBVIOUS
  <2>2. \A k \in present : rows[k].modified \in Nat
    BY <2>1 DEF Rows
  <2>3. QED
    BY <2>2 DEF Stamps
<1>2. Marker(rows) = CHOOSE m \in stamps : \A n \in stamps : n <= m
  BY DEF Marker, Newest
<1>3. \A k \in Keys : rows[k] # None => rows[k].modified \in stamps
  OBVIOUS
<1> HIDE DEF stamps
<1>4. \E m \in stamps : \A n \in stamps : n <= m
  BY <1>1, Greatest
<1>5. Marker(rows) \in stamps /\ \A n \in stamps : n <= Marker(rows)
  BY <1>2, <1>4
<1>6. QED
  BY <1>1, <1>3, <1>5

LEMMA PollTyped ==
  ASSUME FeedInv, Poll \/ ReceivePoll \/ FailPoll
  PROVE  PageTyped'
<1>1. CASE Poll
  <2>1. poll' \in [marker : Nat, at : Nat]
    BY <1>1, MarkerTyped, TableTyped DEF Poll, FeedInv
  <2>2. QED
    BY <1>1, <2>1 DEF Poll, FeedInv, FeedTypeOK, PageTyped
<1>2. CASE ReceivePoll
  <2>1. poll.marker \in Nat /\ poll.at \in Nat
    BY <1>2 DEF ReceivePoll, FeedInv, FeedTypeOK
  <2>2. /\ lastMarker' \in Nat /\ asking' \in BOOLEAN
        /\ UNCHANGED list \/ Loads
    <3>1. RefreshAll => Loads /\ asking' \in BOOLEAN
      BY ReloadLoads, Typed DEF RefreshAll, LoadOverview
    <3>2. lastMarker \in Nat /\ asking \in BOOLEAN
      BY DEF FeedInv, FeedTypeOK
    <3>3. QED
      BY <1>2, <2>1, <3>1, <3>2 DEF ReceivePoll
  <2>3. /\ filters' \in Filters /\ ticket' \in Tickets
        /\ reqs' \in [Tickets -> Requests \cup {None}]
    BY <2>2, LoadsTyped DEF FeedInv, FeedTypeOK
  <2>4. /\ poll' = None /\ pollFailures' = 0 /\ stale' = FALSE /\ polledAt' = poll.at
        /\ UNCHANGED <<shown, selection, events>>
    BY <1>2 DEF ReceivePoll
  <2>5. /\ items' \subseteq Items /\ total' \in Nat /\ selection' \subseteq Keys
        /\ lastQuery' \in Filters \cup {None} /\ status' \in {"loading", "ready", "error"}
        /\ trouble' \in Troubles /\ events' \in 0..MaxEvents
    BY <2>4 DEF FeedInv, FeedTypeOK
  <2>6. /\ poll' \in [marker : Nat, at : Nat] \cup {None} /\ polledAt' \in Nat
        /\ pollFailures' \in 0..2
    BY <2>1, <2>4
  <2>7. stale' \in BOOLEAN
    BY <2>4
  <2>8. QED
    BY <2>2, <2>3, <2>5, <2>6, <2>7 DEF PageTyped
<1>3. CASE FailPoll
  <2>1. pollFailures' \in 0..2 /\ stale' \in BOOLEAN /\ events' \in 0..MaxEvents
    BY <1>3, EventTyped DEF FailPoll, FeedInv, FeedTypeOK
  <2>2. QED
    BY <1>3, <2>1 DEF FailPoll, FeedInv, FeedTypeOK, PageTyped
<1>4. QED
  BY <1>1, <1>2, <1>3

(* A step of the user alone loads the list for some filters, or leaves it. *)
LEMMA UserMoves ==
  ASSUME FeedInv, Navigate \/ Back \/ Refresh \/ Select
  PROVE  /\ UNCHANGED <<list, status>> \/ Loads
         /\ asking' \in BOOLEAN /\ selection' \subseteq Keys
         /\ status' \in {"loading", "ready", "error"} /\ events' \in 0..MaxEvents
         /\ UNCHANGED <<server, items, total, lastQuery, trouble, polling, stale, act, touch>>
<1>1. CASE Navigate
  <2>1. PICK view \in Views : \E number \in 1..Cardinality(Keys) :
               ApplyFilters([view |-> view, page |-> number])
    BY <1>1 DEF Navigate
  <2>2. PICK number \in 1..Cardinality(Keys) : ApplyFilters([view |-> view, page |-> number])
    BY <2>1
  <2>3. number \in Nat \ {0}
    BY Counted
  <2>4. [view |-> view, page |-> number] \in Filters
    BY <2>3, FirstPage
  <2>5. Loads /\ asking' \in BOOLEAN /\ selection' \subseteq Keys
    BY <2>2, <2>4 DEF ApplyFilters, Loads, LoadOverview, FeedInv, FeedTypeOK
  <2>6. QED
    BY <1>1, <2>5, EventTyped DEF Navigate, FeedInv, FeedTypeOK
<1>2. CASE Back
  <2>1. Loads
    BY <1>2, FiltersAssumption DEF Back, Loads
  <2>2. QED
    BY <1>2, <2>1, EventTyped DEF Back, LoadOverview, FeedInv, FeedTypeOK
<1>3. CASE Refresh
  BY <1>3, ReloadLoads, EventTyped DEF Refresh, RefreshAll, LoadOverview, FeedInv, FeedTypeOK
<1>4. CASE Select
  BY <1>4, EventTyped DEF Select, KeysOf, Items, FeedInv, FeedTypeOK
<1>5. QED
  BY <1>1, <1>2, <1>3, <1>4

Doing == Toggle \/ Batch \/ Purge \/ EmptyTrash \/ ClearAll \/ Move \/ DeleteFolder \/ Create

(* What the page asks the server to change, whatever the user does.        *)
LEMMA DoAsks ==
  ASSUME FeedInv, NEW op \in Ops, NEW ks \in SUBSET Keys, NEW flag \in Flags \cup {"folder"},
         NEW value \in BOOLEAN, Do(op, ks, flag, value),
         op \in {"toggle", "batch"} => flag \in Flags,
         op \in {"toggle", "create"} => \E k \in Keys : ks = {k}
  PROVE  act' \in Acts /\ ActIsMeant' /\ Told'
<1>1. act' = [op |-> op, keys |-> ks, flag |-> flag, value |-> value,
              phase |-> "sent", done |-> 0, row |-> None]
  BY DEF Do
<1>2. act' \in Acts
  BY <1>1 DEF Acts
<1>3. /\ act'.op = op /\ act'.keys = ks /\ act'.flag = flag /\ act'.phase = "sent"
  BY <1>1
<1>4. QED
  BY <1>2, <1>3 DEF ActIsMeant, Told

LEMMA ShownKeys ==
  ASSUME FeedInv
  PROVE  /\ KeysOf(items) \subseteq Keys /\ Selected \subseteq Keys
         /\ \A ks \in Chosen : ks \in SUBSET Keys
         /\ \A k \in KeysOf(items) : RowShown(k) \in Rows
<1>1. items \subseteq Items /\ KeysOf(items) \subseteq Keys
  BY DEF FeedInv, FeedTypeOK, KeysOf, Items
<1>2. ASSUME NEW k \in KeysOf(items) PROVE RowShown(k) \in Rows
  <2>1. \E i \in items : i.key = k
    BY DEF KeysOf
  <2>2. (CHOOSE i \in items : i.key = k) \in items
    BY <2>1
  <2>3. QED
    BY <1>1, <2>2 DEF RowShown, Items
<1>3. QED
  BY <1>1, <1>2 DEF Selected, Chosen

LEMMA DoingAsks ==
  ASSUME FeedInv, Doing
  PROVE  /\ act' \in Acts /\ ActIsMeant' /\ Told' /\ events' \in 0..MaxEvents
         /\ UNCHANGED <<server, list, shown, asking, polling, stale, selection, touch>>
<1>1. \A op, ks, flag, value : Do(op, ks, flag, value) =>
        /\ events' \in 0..MaxEvents
        /\ UNCHANGED <<server, list, shown, asking, polling, stale, selection, touch>>
  BY EventTyped DEF Do, FeedInv
<1>2. CASE Toggle
  <2>1. PICK k \in KeysOf(items) : \E flag \in {"starred", "pinned"} :
               Do("toggle", {k}, flag, ~RowShown(k)[flag])
    BY <1>2 DEF Toggle
  <2>2. PICK flag \in {"starred", "pinned"} : Do("toggle", {k}, flag, ~RowShown(k)[flag])
    BY <2>1
  <2>3. (~RowShown(k)[flag]) \in BOOLEAN /\ k \in Keys
    BY ShownKeys
  <2>4. QED
    BY <1>1, <2>2, <2>3, DoAsks DEF Ops, Flags
<1>3. CASE Batch
  <2>1. PICK ks \in SUBSET Keys : \E flag \in Flags, value \in BOOLEAN : Do("batch", ks, flag, value)
    <3>1. (~Trashing) \in BOOLEAN
      OBVIOUS
    <3>2. CASE \E ks \in Chosen \ {{}} : Do("batch", ks, "deleted", ~Trashing)
      BY <3>1, <3>2, ShownKeys DEF Flags
    <3>3. CASE \E flag \in {"starred", "pinned"}, value \in BOOLEAN :
                  Do("batch", Selected, flag, value)
      BY <3>3, ShownKeys DEF Flags
    <3>4. QED
      BY <1>3, <3>2, <3>3 DEF Batch
  <2>2. PICK flag \in Flags, value \in BOOLEAN : Do("batch", ks, flag, value)
    BY <2>1
  <2>3. QED
    BY <1>1, <2>2, DoAsks DEF Ops
<1>4. CASE Purge \/ EmptyTrash \/ ClearAll
  <2>1. PICK op \in {"purge", "clear"} : \E ks \in SUBSET Keys, value \in BOOLEAN :
               Do(op, ks, "deleted", value)
    BY <1>4, ShownKeys DEF Purge, EmptyTrash, ClearAll
  <2>2. PICK ks \in SUBSET Keys, value \in BOOLEAN : Do(op, ks, "deleted", value)
    BY <2>1
  <2>3. QED
    BY <1>1, <2>2, DoAsks DEF Ops, Flags
<1>5. CASE Move \/ DeleteFolder
  <2>1. PICK op \in {"move", "deleteFolder"} : \E ks \in SUBSET Keys, value \in BOOLEAN :
               Do(op, ks, "folder", value)
    <3>1. CASE Move
      BY <1>5, <3>1, ShownKeys DEF Move
    <3>2. CASE DeleteFolder
      BY <1>5, <3>2 DEF DeleteFolder
    <3>3. QED
      BY <1>5, <3>1, <3>2
  <2>2. PICK ks \in SUBSET Keys, value \in BOOLEAN : Do(op, ks, "folder", value)
    BY <2>1
  <2>3. QED
    BY <1>1, <2>2, DoAsks DEF Ops
<1>6. CASE Create
  <2>1. PICK k \in Keys : Do("create", {k}, "deleted", FALSE)
    BY <1>6 DEF Create
  <2>2. QED
    BY <1>1, <2>1, DoAsks DEF Ops, Flags
<1>7. QED
  BY <1>2, <1>3, <1>4, <1>5, <1>6 DEF Doing

-----------------------------------------------------------------------------
(* The answers to changes.                                                 *)

LEMMA ServeTyped ==
  ASSUME FeedInv, Serve
  PROVE  /\ UNCHANGED server \/ (Written(rows') /\ changes' = changes + 1)
         /\ folder' \in BOOLEAN
         /\ act' \in Acts \cup {None} /\ ActIsMeant' /\ Told'
         /\ selection' \in {selection, {}}
         /\ UNCHANGED <<list, shown, asking, polling, stale, touch, events>>
<1>1. /\ act \in Acts /\ act # None /\ folder \in BOOLEAN
      /\ selection' \in {selection, {}}
      /\ UNCHANGED <<list, shown, asking, polling, stale, touch, events>>
  BY DEF Serve, GiveUp, FeedInv, FeedTypeOK
<1>2. CASE ~Accepted
  BY <1>1, <1>2 DEF Serve, GiveUp, ActIsMeant, Told
<1>3. CASE Accepted
  <2> DEFINE found == Cardinality(Done)
             row == IF act.op = "toggle" THEN Served[CHOOSE k \in act.keys : TRUE] ELSE None
  <2>1. found \in Nat
    <3>1. Done \in SUBSET Keys
      BY <1>1 DEF Done, Acts
    <3>2. QED
      BY <3>1, Counted
  <2>2. Written(Served)
    BY <1>1, ServedWrites
  <2>3. ASSUME act.op = "toggle"
        PROVE  row \in Rows /\ row.modified = changes + 1
    <3>1. PICK k \in Keys : act.keys = {k}
      BY <1>1, <2>3 DEF FeedInv, ActIsMeant
    <3>2. (CHOOSE j \in act.keys : TRUE) = k
      BY <3>1
    <3>3. Present(k)
      BY <1>3, <2>3, <3>1 DEF Accepted
    <3>4. act.flag \in Flags /\ act.value \in BOOLEAN
      BY <1>1, <2>3 DEF FeedInv, ActIsMeant, Acts
    <3>5. Served[k] = Stamped([rows[k] EXCEPT ![act.flag] = act.value])
      BY <2>3, <3>1, <3>3 DEF Served, WithFlag
    <3>6. rows[k] \in Rows
      BY <3>3, TableTyped DEF Present
    <3>7. Served[k] \in Rows /\ Served[k].modified = changes + 1
      BY <3>4, <3>5, <3>6, FlagTyped, StampedTyped
    <3>8. QED
      BY <2>3, <3>2, <3>7
  <2>4. act' = [act EXCEPT !.phase = "done", !.done = found, !.row = row]
    BY <1>3 DEF Serve
  <2>5. row \in Rows \cup {None}
    BY <2>3
  <2> HIDE DEF found, row
  <2>6. /\ act' \in Acts /\ act'.op = act.op /\ act'.keys = act.keys /\ act'.flag = act.flag
        /\ act'.row = row
    BY <1>1, <2>1, <2>4, <2>5 DEF Acts
  <2>7. ActIsMeant'
    BY <1>1, <2>3, <2>6 DEF ActIsMeant, FeedInv
  <2>8. rows' = Served /\ changes' = changes + 1 /\ folder' \in BOOLEAN
    BY <1>1, <1>3 DEF Serve, Changed
  <2>9. Told'
    <3>1. changes \in Nat
      BY DEF FeedInv, FeedTypeOK
    <3>2. QED
      BY <2>3, <2>6, <2>8, <3>1 DEF Told
  <2>10. QED
    BY <1>1, <2>2, <2>6, <2>7, <2>8, <2>9
<1>4. QED
  BY <1>2, <1>3

(* A row that an answer brings takes its place in the list.                *)
Merges == \E k \in Keys, row \in Rows : Merge(k, row)

LEMMA MergeTyped ==
  ASSUME FeedInv, NEW k \in Keys, NEW row \in Rows, Merge(k, row)
  PROVE  /\ items' \subseteq Items /\ total' \in Nat /\ selection' \subseteq Keys
         /\ trouble' \in Troubles
         /\ UNCHANGED <<status, stale, lastQuery, list, asking>>
<1>1. items \subseteq Items /\ total \in Nat /\ selection \subseteq Keys /\ trouble \in Troubles
  BY DEF FeedInv, FeedTypeOK
<1>2. items' \subseteq Items
  <2>1. [key |-> k, row |-> row] \in Items
    BY DEF Items
  <2>2. Merged(k, row) \subseteq Items
    BY <1>1, <2>1 DEF Merged
  <2>3. QED
    BY <2>2 DEF Merge
<1>3. CASE k \in KeysOf(items) /\ Leaves(row)
  <2>1. total' = (IF total = 0 THEN 0 ELSE total - 1) /\ selection' = selection \ {k}
    BY <1>3 DEF Merge
  <2>2. total' \in Nat
    BY <1>1, <2>1
  <2>3. QED
    BY <1>1, <1>2, <2>1, <2>2 DEF Merge
<1>4. CASE ~(k \in KeysOf(items) /\ Leaves(row))
  BY <1>1, <1>2, <1>4 DEF Merge
<1>5. QED
  BY <1>3, <1>4

(* A toggle is answered with a row.                                        *)
LEMMA ToggleMerges ==
  ASSUME FeedInv, act # None, act.op = "toggle", act.phase = "done", FinishToggle
  PROVE  \E k \in Keys : act.row \in Rows /\ Merge(k, act.row)
<1>1. PICK k \in Keys : act.keys = {k}
  BY DEF FeedInv, ActIsMeant
<1>2. (CHOOSE j \in act.keys : TRUE) = k
  BY <1>1
<1>3. QED
  BY <1>2 DEF FinishToggle, FeedInv, ActIsMeant

(* An answer loads the list, or leaves it and what it knows of the server. *)
LEMMA FinishTyped ==
  ASSUME FeedInv, Finish
  PROVE  /\ UNCHANGED list \/ Loads
         /\ Merges \/ UNCHANGED <<list, shown>> \/ Loads
         /\ asking' \in BOOLEAN /\ selection' \subseteq Keys
         /\ items' \subseteq Items /\ total' \in Nat
         /\ trouble' \in Troubles
         /\ act' = None
         /\ UNCHANGED <<server, status, lastQuery, stale, polling, touch, events>>
<1>1. /\ act \in Acts /\ act # None /\ act.phase = "done" /\ act.op \in Ops
      /\ act' = None /\ UNCHANGED <<server, polling, touch, events>>
      /\ items \subseteq Items /\ total \in Nat /\ act.done \in Nat
      /\ selection \subseteq Keys /\ asking \in BOOLEAN
      /\ trouble \in Troubles /\ filters \in Filters
  BY DEF Finish, FeedInv, FeedTypeOK, Acts
<1>2. RefreshAll => Loads /\ asking' \in BOOLEAN
  BY ReloadLoads, Typed DEF RefreshAll, LoadOverview
<1>3. CASE act.op = "toggle"
  <2>1. FinishToggle
    BY <1>1, <1>3 DEF Finish
  <2>2. PICK k \in Keys : act.row \in Rows /\ Merge(k, act.row)
    BY <1>1, <1>3, <2>1, ToggleMerges
  <2>3. QED
    BY <1>1, <2>2, MergeTyped DEF Merges
<1>4. CASE act.op = "move"
  <2>1. FinishMove
    BY <1>1, <1>4 DEF Finish
  <2> DEFINE moved(i) == [i EXCEPT !.row.folder = act.value]
             left == {i.key : i \in {i \in items : i.key \in act.keys /\ Leaves(moved(i).row)}}
  <2>2. left \in SUBSET Keys
    BY <1>1 DEF Items
  <2>3. Cardinality(left) \in Nat
    <3> HIDE DEF left
    <3> QED  BY <2>2, Counted
  <2>4. \A i \in items : moved(i) \in Items
    BY <1>1 DEF Items, Rows, Acts
  <2>5. /\ items' = {IF i.key \in act.keys THEN moved(i) ELSE i :
                       i \in {i \in items : i.key \notin left}}
        /\ total' = IF total < Cardinality(left) THEN 0 ELSE total - Cardinality(left)
        /\ selection' \in {{}, selection \ left}
        /\ RefreshAll
        /\ UNCHANGED <<status, stale, lastQuery, trouble>>
    BY <2>1 DEF FinishMove
  <2> HIDE DEF moved, left
  <2>6. items' \subseteq Items
    BY <1>1, <2>4, <2>5
  <2>7. total' \in Nat
    BY <1>1, <2>3, <2>5
  <2>8. selection' \subseteq Keys
    BY <1>1, <2>5
  <2>9. QED
    BY <1>1, <1>2, <2>5, <2>6, <2>7, <2>8
<1>5. CASE act.op = "create"
  <2>1. FinishCreate
    BY <1>1, <1>5 DEF Finish
  <2>2. Loads
    BY <2>1, FirstPage DEF FinishCreate, Loads, Views
  <2>3. QED
    BY <1>1, <2>1, <2>2 DEF FinishCreate, LoadOverview
<1>6. CASE act.op = "deleteFolder"
  <2>1. FinishDeleteFolder
    BY <1>1, <1>6 DEF Finish
  <2>2. filters.view \in Views
    BY <1>1 DEF Filters
  <2>3. [view |-> IF filters.view = "folder" THEN "all" ELSE filters.view, page |-> 1] \in Filters
    BY <2>2, FirstPage DEF Views
  <2>4. UNCHANGED <<list, shown>> \/ Loads
    BY <2>1, <2>3 DEF FinishDeleteFolder, Loads
  <2>5. QED
    BY <1>1, <2>1, <2>4 DEF FinishDeleteFolder, LoadOverview
<1>7. CASE act.op \in {"batch", "purge", "clear"}
  <2>1. FinishBatch
    BY <1>1, <1>7 DEF Finish
  <2>2. items' \subseteq Items /\ total' \in Nat
    BY <1>1, <2>1 DEF FinishBatch, RemoveShown
  <2>3. selection' \subseteq Keys /\ RefreshAll /\ UNCHANGED <<status, stale, lastQuery, trouble>>
    BY <1>1, <2>1 DEF FinishBatch
  <2>4. QED
    BY <1>1, <1>2, <2>2, <2>3
<1>8. QED
  BY <1>1, <1>3, <1>4, <1>5, <1>6, <1>7 DEF Ops

(* A touch sends a row that is shown, and brings one back.                 *)
LEMMA TouchTyped ==
  ASSUME FeedInv, Touch \/ FailTouch
  PROVE  /\ touch' \in Touches \cup {None} /\ events' \in 0..MaxEvents
         /\ touch' # None => touch'.row.modified <= changes
         /\ UNCHANGED <<server, list, shown, asking, polling, stale, selection, act>>
<1>1. CASE Touch
  <2>1. PICK i \in items : touch' = [key |-> i.key, row |-> i.row, answered |-> FALSE]
    BY <1>1 DEF Touch
  <2>2. i.key \in Keys /\ i.row \in Rows /\ i.row.modified <= changes
    BY DEF FeedInv, FeedTypeOK, Items, Learned, Past
  <2>3. QED
    BY <1>1, <2>1, <2>2, EventTyped DEF Touch, Touches, FeedInv
<1>2. CASE FailTouch
  BY <1>2, EventTyped DEF FailTouch, FeedInv
<1>3. QED
  BY <1>1, <1>2

LEMMA ServeTouchTyped ==
  ASSUME FeedInv, ServeTouch
  PROVE  /\ UNCHANGED server \/ (Written(rows') /\ changes' = changes + 1 /\ folder' = folder)
         /\ touch' \in Touches \cup {None}
         /\ touch' # None => touch'.row.modified <= changes
         /\ UNCHANGED <<list, shown, asking, polling, stale, selection, act, events>>
<1>1. /\ touch \in Touches /\ touch.key \in Keys /\ touch.row \in Rows
      /\ touch.row.modified \in Nat /\ touch.row.modified <= changes /\ changes \in Nat
      /\ UNCHANGED <<list, shown, asking, polling, stale, selection, act, events>>
  BY DEF ServeTouch, FeedInv, FeedTypeOK, Touches, Learned, Rows
<1>2. CASE Present(touch.key) /\ Touched
  <2> DEFINE row == [rows[touch.key] EXCEPT !.modified = touch.row.modified]
  <2>1. row \in Rows /\ row.modified = touch.row.modified
    <3>1. rows[touch.key] \in Rows
      BY <1>1, <1>2, TableTyped DEF Present
    <3>2. QED
      BY <1>1, <3>1 DEF Rows
  <2>2. /\ touch' = [touch EXCEPT !.row = row, !.answered = TRUE]
        /\ UNCHANGED server
           \/ (Changed([rows EXCEPT ![touch.key] = row]) /\ UNCHANGED folder)
    BY <1>2 DEF Touched
  <2> HIDE DEF row
  <2>3. touch' \in Touches /\ touch'.row.modified <= changes
    BY <1>1, <2>1, <2>2 DEF Touches
  <2>4. Written([rows EXCEPT ![touch.key] = row])
    <3>1. row.modified <= changes + 1
      BY <1>1, <2>1
    <3>2. QED
      BY <1>1, <2>1, <3>1, UploadWrites DEF Uploaded
  <2>5. QED
    BY <1>1, <2>2, <2>3, <2>4 DEF Changed
<1>3. CASE Untouched
  BY <1>1, <1>3 DEF Untouched
<1>4. QED
  BY <1>2, <1>3 DEF ServeTouch

LEMMA ReceiveTouchMerges ==
  ASSUME FeedInv, ReceiveTouch
  PROVE  /\ touch.key \in Keys /\ touch.row \in Rows /\ Merge(touch.key, touch.row)
         /\ Merges /\ touch' = None /\ UNCHANGED <<server, polling, act, events>>
BY DEF ReceiveTouch, FeedInv, FeedTypeOK, Touches, Merges

-----------------------------------------------------------------------------
(* The kinds of steps: the page's answers and polls, the user's moves and  *)
(* requests, and the changes.                                              *)

Hears ==
  \/ \E t \in Tickets : AnswerList(t) \/ ReceiveList(t) \/ FailList(t)
  \/ ReceiveOverview \/ FailOverview \/ DropOverview
  \/ Poll \/ ReceivePoll \/ FailPoll
Moves == Navigate \/ Back \/ Refresh \/ Select

LEMMA Kinds ==
  FeedNext => \/ Hears \/ Moves \/ Doing \/ Elsewhere \/ Serve \/ FailAct \/ Finish
              \/ Touch \/ FailTouch \/ ServeTouch \/ ReceiveTouch
BY DEF FeedNext, User, Hears, Moves, Doing

LEMMA HearsTyped ==
  ASSUME FeedInv, Hears
  PROVE  PageTyped' /\ UNCHANGED <<server, act, touch>>
<1>1. PageTyped'
  BY AnswerListTyped, ReceiveListTyped, FailListTyped, OverviewTyped, PollTyped DEF Hears
<1>2. UNCHANGED <<server, act, touch>>
  <2>1. ASSUME NEW t \in Tickets, AnswerList(t) \/ ReceiveList(t) \/ FailList(t)
        PROVE  UNCHANGED <<server, act, touch>>
    BY <2>1 DEF AnswerList, ReceiveList, FailList
  <2>2. ReceiveOverview \/ FailOverview \/ DropOverview => UNCHANGED <<server, act, touch>>
    BY DEF ReceiveOverview, FailOverview, DropOverview
  <2>3. Poll \/ ReceivePoll \/ FailPoll => UNCHANGED <<server, act, touch>>
    BY DEF Poll, ReceivePoll, FailPoll
  <2>4. QED
    BY <2>1, <2>2, <2>3 DEF Hears
<1>3. QED
  BY <1>1, <1>2

(* Everything of the page but its events, or its selection, is left alone. *)
LEMMA Unheard ==
  ASSUME FeedInv, UNCHANGED <<list, shown, asking, polling, stale>>,
         selection' \in {selection, {}}, events' \in 0..MaxEvents
  PROVE  PageTyped'
BY DEF FeedInv, FeedTypeOK, PageTyped

LEMMA ListLoads ==
  ASSUME FeedInv, UNCHANGED list \/ Loads
  PROVE  /\ filters' \in Filters /\ ticket' \in Tickets
         /\ reqs' \in [Tickets -> Requests \cup {None}]
BY LoadsTyped DEF FeedInv, FeedTypeOK

(* A page beyond the last one is asked for anew.                           *)
LEMMA OverflowLoads ==
  ASSUME FeedInv, NEW t \in Tickets, ReceiveList(t), t = ticket,
         filters.page > Pages(reqs[t].total)
  PROVE  Loads
<1> DEFINE last == Pages(reqs[t].total)
<1>1. reqs[t].total \in Nat /\ filters \in Filters
  BY DEF ReceiveList, FeedInv, FeedTypeOK, Requests
<1>2. last \in Nat \ {0}
  BY <1>1, PagesCount
<1>3. LoadListFor([filters EXCEPT !.page = last])
  BY DEF ReceiveList, IsCurrent
<1> HIDE DEF last
<1>4. [filters EXCEPT !.page = last] \in Filters
  BY <1>1, <1>2 DEF Filters
<1>5. QED
  BY <1>3, <1>4 DEF Loads

(* A page answered from the table holds no stamp of the future.            *)
LEMMA PagePast ==
  ASSUME FeedInv, NEW view, NEW number
  PROVE  Past(Page(rows, view, number), changes)
<1>1. \A k \in InView(rows, view) : k \in Keys /\ rows[k] # None
  BY DEF InView
<1>2. QED
  BY <1>1 DEF Page, Past, FeedInv, Stamps

LEMMA MergedPast ==
  ASSUME NEW k, NEW row, Past(items, changes), row.modified <= changes
  PROVE  Past(Merged(k, row), changes)
BY DEF Past, Merged

LEMMA FinishPast ==
  ASSUME FeedInv, Finish
  PROVE  Past(items', changes)
<1>1. act \in Acts /\ act # None /\ act.phase = "done" /\ items \subseteq Items /\ Past(items, changes)
  BY DEF Finish, FeedInv, FeedTypeOK, Learned
<1>2. CASE act.op = "toggle"
  <2>1. PICK k \in Keys : act.row \in Rows /\ Merge(k, act.row)
    BY <1>1, <1>2, ToggleMerges DEF Finish
  <2>2. act.row.modified <= changes
    BY <1>1, <1>2 DEF FeedInv, Learned, Told
  <2>3. QED
    BY <1>1, <2>1, <2>2, MergedPast DEF Merge
<1>3. CASE act.op = "move"
  <2> DEFINE moved(i) == [i EXCEPT !.row.folder = act.value]
  <2>1. \A i \in items' : \E j \in items : i = j \/ i = moved(j)
    BY <1>1, <1>3 DEF Finish, FinishMove
  <2>2. \A j \in items : moved(j).row.modified = j.row.modified
    BY <1>1 DEF Items, Rows
  <2>3. QED
    BY <1>1, <2>1, <2>2 DEF Past
<1>4. CASE act.op \notin {"toggle", "move"}
  <2>1. items' \subseteq items
    BY <1>1, <1>4 DEF Finish, FinishCreate, FinishDeleteFolder, FinishBatch, RemoveShown, Acts, Ops
  <2>2. QED
    BY <1>1, <2>1 DEF Past
<1>5. QED
  BY <1>2, <1>3, <1>4

(* The touch has its type after every step.                                *)
LEMMA TouchKinds ==
  ASSUME FeedInv, [FeedNext]_feedVars
  PROVE  touch' \in Touches \cup {None}
<1>1. touch \in Touches \cup {None}
  BY DEF FeedInv, FeedTypeOK
<1>2. Hears \/ Moves \/ Doing \/ Serve \/ Finish => UNCHANGED touch
  BY HearsTyped, UserMoves, DoingAsks, ServeTyped, FinishTyped DEF Moves
<1>3. Elsewhere \/ FailAct => UNCHANGED touch
  BY DEF Elsewhere, FailAct
<1>4. QED
  BY <1>1, <1>2, <1>3, TouchTyped, ServeTouchTyped, ReceiveTouchMerges, Kinds

(* What the page is told is told by the table, and changes only follow.    *)
LEMMA LearnedStep ==
  ASSUME FeedInv, [FeedNext]_feedVars
  PROVE  Learned'
<1>1. /\ reqs \in [Tickets -> Requests \cup {None}] /\ ticket \in Tickets
      /\ items \subseteq Items /\ changes \in Nat
      /\ act \in Acts \cup {None} /\ touch \in Touches \cup {None} /\ Learned
  BY DEF FeedInv, FeedTypeOK
<1> DEFINE Later == UNCHANGED changes \/ changes' = changes + 1
           AllPast(table) == \A t \in Tickets : table[t] # None => Past(table[t].page, changes')
(* Stamps that have been learned stay in the past.                         *)
<1>2. ASSUME Later, NEW set, set \subseteq Items, Past(set, changes)
      PROVE  Past(set, changes')
  <2>1. \A i \in set : i.row.modified \in Nat
    BY <1>2 DEF Items, Rows
  <2>2. QED
    BY <1>1, <1>2, <2>1 DEF Past
<1>3. Later => Past(items, changes') /\ AllPast(reqs)
  BY <1>1, <1>2 DEF Learned, Requests
<1>4. Later /\ Loads => AllPast(reqs')
  <2> SUFFICES ASSUME Later, Loads PROVE AllPast(reqs')
    OBVIOUS
  <2>1. PICK query \in Filters : LoadListFor(query)
    BY DEF Loads
  <2>2. \A t \in Tickets : reqs'[t] \in {None, reqs[t], Sent(query)}
    BY <2>1 DEF LoadListFor, Unaborted
  <2>3. Past(Sent(query).page, changes')
    BY DEF Sent, Past
  <2>4. QED
    BY <1>3, <2>2, <2>3
<1>5. ASSUME Later, Past(items', changes'), AllPast(reqs'),
             UNCHANGED act \/ act' = None \/ Told',
             UNCHANGED touch \/ (touch' # None => touch'.row.modified <= changes)
      PROVE  Learned'
  <2>1. Told'
    <3>1. act # None /\ act.op = "toggle" /\ act.phase = "done" => act.row.modified \in Nat
      BY DEF FeedInv, ActIsMeant, Rows
    <3>2. QED
      BY <1>1, <1>5, <3>1 DEF Learned, Told, Later
  <2>2. touch' \in Touches \cup {None} => (touch' # None => touch'.row.modified <= changes')
    <3>1. touch' \in Touches => touch'.row.modified \in Nat
      BY DEF Touches, Rows
    <3>2. QED
      BY <1>1, <1>5, <3>1 DEF Learned
  <2>3. touch' \in Touches \cup {None}
    BY <1>1, TouchKinds
  <2>4. QED
    BY <1>5, <2>1, <2>2, <2>3 DEF Learned
<1> HIDE DEF Later, AllPast
<1>6. UNCHANGED server \/ changes' = changes + 1 => Later
  BY DEF Later
<1>7. ASSUME UNCHANGED server \/ changes' = changes + 1, UNCHANGED list \/ Loads, UNCHANGED items,
             UNCHANGED act \/ act' = None \/ Told',
             UNCHANGED touch \/ (touch' # None => touch'.row.modified <= changes)
      PROVE  Learned'
  BY <1>3, <1>4, <1>5, <1>6, <1>7
<1>8. CASE Hears
  <2>1. UNCHANGED <<server, act, touch>> /\ Later
    BY <1>6, <1>8, HearsTyped
  <2>2. ASSUME NEW t \in Tickets, AnswerList(t)
        PROVE  Learned'
    <3>1. Past(Page(rows, reqs[t].query.view, reqs[t].query.page), changes')
      BY <2>1, PagePast
    <3>2. AllPast(reqs') /\ UNCHANGED items
      BY <1>1, <1>3, <2>1, <2>2, <3>1 DEF AnswerList, AllPast
    <3>3. QED
      BY <1>3, <1>5, <2>1, <3>2
  <2>3. ASSUME NEW t \in Tickets, ReceiveList(t)
        PROVE  Learned'
    <3>1. CASE t = ticket /\ filters.page > Pages(reqs[t].total)
      <4>1. Loads /\ UNCHANGED items
        BY <2>3, <3>1, OverflowLoads DEF ReceiveList, IsCurrent
      <4>2. QED
        BY <1>7, <2>1, <4>1
    <3>2. CASE ~(t = ticket /\ filters.page > Pages(reqs[t].total))
      <4>1. /\ reqs[t] # None /\ reqs' = [reqs EXCEPT ![t] = None]
            /\ items' \in {items, reqs[t].page}
        BY <2>3, <3>2 DEF ReceiveList, IsCurrent
      <4>2. AllPast(reqs')
        BY <1>1, <1>3, <2>1, <4>1 DEF AllPast
      <4>3. Past(items', changes')
        BY <1>1, <1>3, <2>1, <4>1 DEF AllPast
      <4>4. QED
        BY <1>5, <2>1, <4>2, <4>3
    <3>3. QED
      BY <3>1, <3>2
  <2>4. ASSUME NEW t \in Tickets, FailList(t)
        PROVE  Learned'
    <3>1. AllPast(reqs') /\ UNCHANGED items
      BY <1>1, <1>3, <2>1, <2>4 DEF FailList, AllPast
    <3>2. QED
      BY <1>3, <1>5, <2>1, <3>1
  <2>5. CASE ReceiveOverview
    <3>1. (UNCHANGED list \/ Loads) /\ UNCHANGED items
      BY <2>5, FirstPage DEF ReceiveOverview, Loads, Views
    <3>2. QED
      BY <1>7, <2>1, <3>1
  <2>6. CASE ReceivePoll
    <3>1. (UNCHANGED list \/ Loads) /\ UNCHANGED items
      BY <2>6, ReloadLoads, Typed DEF ReceivePoll, RefreshAll
    <3>2. QED
      BY <1>7, <2>1, <3>1
  <2>7. FailOverview \/ DropOverview \/ Poll \/ FailPoll => UNCHANGED <<list, items>>
    BY DEF FailOverview, DropOverview, Poll, FailPoll
  <2>8. QED
    BY <1>7, <1>8, <2>1, <2>2, <2>3, <2>4, <2>5, <2>6, <2>7 DEF Hears
<1>9. CASE Moves
  BY <1>7, <1>9, UserMoves DEF Moves
<1>10. CASE Doing
  BY <1>7, <1>10, DoingAsks
<1>11. CASE Elsewhere
  BY <1>7, <1>11, ElsewhereWrites DEF Elsewhere
<1>12. CASE Serve
  BY <1>7, <1>12, ServeTyped
<1>13. CASE FailAct
  BY <1>7, <1>13 DEF FailAct, GiveUp
<1>14. CASE Finish
  <2>1. Past(items', changes)
    BY <1>14, FinishPast
  <2>2. (UNCHANGED list \/ Loads) /\ act' = None /\ UNCHANGED <<server, touch>>
    BY <1>14, FinishTyped
  <2>3. Past(items', changes') /\ AllPast(reqs')
    BY <1>3, <1>4, <1>6, <2>1, <2>2
  <2>4. QED
    BY <1>5, <1>6, <2>2, <2>3
<1>15. CASE Touch \/ FailTouch
  BY <1>7, <1>15, TouchTyped
<1>16. CASE ServeTouch
  BY <1>7, <1>16, ServeTouchTyped
<1>17. CASE ReceiveTouch
  <2>1. /\ touch.row.modified <= changes /\ Past(items, changes)
        /\ items' = Merged(touch.key, touch.row)
    BY <1>1, <1>17 DEF ReceiveTouch, Merge, Learned
  <2>2. Past(items', changes)
    BY <2>1, MergedPast
  <2>3. UNCHANGED <<server, list, act>> /\ touch' = None
    BY <1>17, ReceiveTouchMerges, MergeTyped
  <2>4. QED
    BY <1>3, <1>5, <1>6, <2>2, <2>3
<1>18. CASE UNCHANGED feedVars
  BY <1>7, <1>18
<1>19. QED
  BY <1>8, <1>9, <1>10, <1>11, <1>12, <1>13, <1>14, <1>15, <1>16, <1>17, <1>18, Kinds

LEMMA FeedNextInv == FeedInv /\ [FeedNext]_feedVars => FeedInv'
<1> SUFFICES ASSUME FeedInv, [FeedNext]_feedVars PROVE FeedInv'
  OBVIOUS
<1>1. /\ FeedTypeOK /\ ActIsMeant /\ Stamps
      /\ folder \in BOOLEAN /\ act \in Acts \cup {None} /\ changes \in Nat
      /\ touch \in Touches \cup {None} /\ Learned'
  BY LearnedStep DEF FeedInv, FeedTypeOK
<1>2. ASSUME PageTyped', UNCHANGED server, act' \in Acts \cup {None}, ActIsMeant',
             touch' \in Touches \cup {None}
      PROVE  FeedInv'
  <2>1. rows' \in [Keys -> Rows \cup {None}] /\ folder' \in BOOLEAN /\ changes' \in Nat
    BY <1>1, <1>2 DEF FeedTypeOK
  <2>2. Stamps'
    BY <1>1, <1>2 DEF Stamps
  <2>3. FeedTypeOK'
    BY <1>2, <2>1 DEF FeedTypeOK, PageTyped
  <2>4. QED
    BY <1>1, <1>2, <2>2, <2>3 DEF FeedInv
<1>3. ASSUME PageTyped', Written(rows'), changes' = changes + 1, folder' \in BOOLEAN,
             act' \in Acts \cup {None}, ActIsMeant',
             touch' \in Touches \cup {None}
      PROVE  FeedInv'
  <2>1. rows' \in [Keys -> Rows \cup {None}] /\ changes' \in Nat /\ Stamps'
    BY <1>1, <1>3 DEF Written, Stamps
  <2>2. FeedTypeOK'
    BY <1>3, <2>1 DEF FeedTypeOK, PageTyped
  <2>3. QED
    BY <1>1, <1>3, <2>1, <2>2 DEF FeedInv
<1>4. UNCHANGED act => act' \in Acts \cup {None} /\ ActIsMeant'
  BY <1>1 DEF ActIsMeant
<1>5. act' = None => act' \in Acts \cup {None} /\ ActIsMeant'
  BY DEF ActIsMeant
<1>6. CASE Hears
  BY <1>1, <1>2, <1>4, <1>6, HearsTyped
<1>7. CASE Moves
  <2>1. /\ UNCHANGED <<list, status>> \/ Loads
        /\ asking' \in BOOLEAN /\ selection' \subseteq Keys
        /\ status' \in {"loading", "ready", "error"} /\ events' \in 0..MaxEvents
        /\ UNCHANGED <<server, items, total, lastQuery, trouble, polling, stale, act, touch>>
    BY <1>7, UserMoves DEF Moves
  <2>2. /\ filters' \in Filters /\ ticket' \in Tickets
        /\ reqs' \in [Tickets -> Requests \cup {None}]
    BY <2>1, ListLoads
  <2>3. PageTyped'
    BY <1>1, <2>1, <2>2 DEF PageTyped, FeedTypeOK
  <2>4. QED
    BY <1>1, <1>2, <1>4, <2>1, <2>3
<1>8. CASE Doing
  <2>1. /\ act' \in Acts /\ ActIsMeant' /\ events' \in 0..MaxEvents
        /\ UNCHANGED <<server, list, shown, asking, polling, stale, selection, touch>>
    BY <1>8, DoingAsks
  <2>2. PageTyped'
    BY <2>1, Unheard
  <2>3. QED
    BY <1>1, <1>2, <2>1, <2>2
<1>9. CASE Elsewhere
  <2>1. /\ UNCHANGED <<list, shown, asking, polling, stale, selection, act, touch>>
        /\ events' \in 0..MaxEvents
    BY <1>1, <1>9, EventTyped DEF Elsewhere
  <2>2. PageTyped'
    BY <2>1, Unheard
  <2>3. QED
    BY <1>1, <1>3, <1>4, <1>9, <2>1, <2>2, ElsewhereWrites
<1>10. CASE Serve
  <2>1. /\ UNCHANGED server \/ (Written(rows') /\ changes' = changes + 1)
        /\ folder' \in BOOLEAN
        /\ act' \in Acts \cup {None} /\ ActIsMeant'
        /\ selection' \in {selection, {}}
        /\ UNCHANGED <<list, shown, asking, polling, stale, touch, events>>
    BY <1>10, ServeTyped
  <2>2. PageTyped'
    BY <1>1, <2>1, Unheard DEF FeedTypeOK
  <2>3. QED
    BY <1>1, <1>2, <1>3, <2>1, <2>2
<1>11. CASE FailAct
  <2>1. /\ UNCHANGED <<server, list, shown, asking, polling, stale, touch>>
        /\ selection' \in {selection, {}} /\ events' \in 0..MaxEvents /\ act' = None
    BY <1>1, <1>11, EventTyped DEF FailAct, GiveUp
  <2>2. PageTyped'
    BY <2>1, Unheard
  <2>3. QED
    BY <1>1, <1>2, <1>5, <2>1, <2>2
<1>12. CASE Finish
  <2>1. /\ UNCHANGED list \/ Loads
        /\ asking' \in BOOLEAN /\ selection' \subseteq Keys
        /\ items' \subseteq Items /\ total' \in Nat
        /\ trouble' \in Troubles
        /\ act' = None
        /\ UNCHANGED <<server, status, lastQuery, stale, polling, touch, events>>
    BY <1>12, FinishTyped
  <2>2. /\ filters' \in Filters /\ ticket' \in Tickets
        /\ reqs' \in [Tickets -> Requests \cup {None}]
    BY <2>1, ListLoads
  <2>3. PageTyped'
    BY <1>1, <2>1, <2>2 DEF PageTyped, FeedTypeOK
  <2>4. QED
    BY <1>1, <1>2, <1>5, <2>1, <2>3
<1>13. CASE Touch \/ FailTouch
  <2>1. PageTyped'
    BY <1>13, TouchTyped, Unheard
  <2>2. QED
    BY <1>2, <1>4, <1>13, <2>1, TouchTyped
<1>14. CASE ServeTouch
  <2>1. PageTyped'
    BY <1>1, <1>14, ServeTouchTyped, Unheard DEF FeedTypeOK
  <2>2. QED
    BY <1>1, <1>2, <1>3, <1>4, <1>14, <2>1, ServeTouchTyped
<1>15. CASE ReceiveTouch
  <2>1. PageTyped'
    BY <1>1, <1>15, ReceiveTouchMerges, MergeTyped DEF PageTyped, FeedTypeOK
  <2>2. QED
    BY <1>2, <1>4, <1>15, <2>1, ReceiveTouchMerges
<1>16. CASE UNCHANGED feedVars
  <2>1. PageTyped'
    BY <1>1, <1>16, Unheard DEF FeedTypeOK
  <2>2. QED
    BY <1>1, <1>2, <1>4, <1>16, <2>1
<1>17. QED
  BY <1>6, <1>7, <1>8, <1>9, <1>10, <1>11, <1>12, <1>13, <1>14, <1>15, <1>16, Kinds

LEMMA FeedInitInv == FeedInit => FeedInv
<1> SUFFICES ASSUME FeedInit PROVE FeedInv
  OBVIOUS
<1>1. /\ rows \in [Keys -> Rows \cup {None}] /\ folder \in BOOLEAN /\ changes = 0
      /\ \A k \in Keys : rows[k] # None => rows[k].modified = 0
  BY TablesAssumption DEF FeedInit
<1>2. filters \in Filters /\ ticket = 0
      /\ reqs = [t \in {0, 1} |-> IF t = 0 THEN Sent(filters) ELSE None]
  BY FiltersAssumption DEF FeedInit
<1>3. reqs \in [Tickets -> Requests \cup {None}]
  BY <1>2, SentTyped
<1>4. Stamps /\ ActIsMeant
  BY <1>1 DEF Stamps, ActIsMeant, FeedInit
<1>5. lastMarker \in Nat
  BY <1>1, <1>4, MarkerTyped DEF FeedInit
<1>6. Learned
  <2>1. Sent(filters).page = {}
    BY DEF Sent
  <2>2. QED
    BY <1>2, <2>1 DEF Learned, Told, Past, FeedInit
<1>7. FeedTypeOK
  <2>1. /\ items = {} /\ total = 0 /\ status = "loading" /\ stale = FALSE
        /\ selection = {} /\ lastQuery = None /\ trouble = "none" /\ asking = TRUE
        /\ poll = None /\ pollFailures = 0 /\ polledAt = 0 /\ act = None /\ touch = None
        /\ events = 0
    BY DEF FeedInit
  <2>2. stale \in BOOLEAN /\ asking \in BOOLEAN
    BY <2>1
  <2>3. QED
    BY <1>1, <1>2, <1>3, <1>5, <2>1, <2>2 DEF FeedTypeOK
<1>8. QED
  BY <1>4, <1>6, <1>7 DEF FeedInv

LEMMA FeedSpecInv == FeedSpec => []FeedInv
<1>1. FeedInv /\ [FeedNext]_feedVars => FeedInv'
  BY FeedNextInv
<1>2. QED
  BY FeedInitInv, <1>1, PTL DEF FeedSpec

(* Every variable of the page's feed has its type, in whatever order the   *)
(* answers come.                                                           *)
THEOREM FeedTyping == FeedSpec => []FeedTypeOK
<1>1. FeedInv => FeedTypeOK
  BY Typed
<1>2. QED
  BY <1>1, FeedSpecInv, PTL

-----------------------------------------------------------------------------
(* What a step does to the list: it asks for another one, changes only     *)
(* what the server has, or leaves both and learns at most a marker; apart  *)
(* from the few steps that handle answers.                                 *)

Reloads == Loads /\ UNCHANGED <<server, polling>>
Changes == changes' = changes + 1 /\ UNCHANGED <<list, shown, polling, stale>>
Rests ==
  /\ UNCHANGED <<server, list, shown, lastMarker, polledAt>>
  /\ stale => stale'
  /\ poll' \in {poll, None} \/ Poll
Handles ==
  \/ \E t \in Tickets : AnswerList(t) \/ ReceiveList(t) \/ FailList(t)
  \/ ReceiveOverview \/ ReceivePoll
  \/ Merges /\ UNCHANGED <<server, polling>>

LEMMA Shapes ==
  ASSUME FeedInv, [FeedNext]_feedVars
  PROVE  Reloads \/ Changes \/ Rests \/ Handles
<1>1. CASE Hears
  <2>1. FailOverview \/ DropOverview => Rests
    BY DEF FailOverview, DropOverview, Rests
  <2>2. Poll \/ FailPoll => Rests
    BY DEF Poll, FailPoll, Rests
  <2>3. QED
    BY <1>1, <2>1, <2>2 DEF Hears, Handles
<1>2. CASE Moves
  <2>1. /\ UNCHANGED <<list, status>> \/ Loads
        /\ UNCHANGED <<server, items, total, lastQuery, trouble, polling, stale, act, touch>>
    BY <1>2, UserMoves DEF Moves
  <2>2. QED
    BY <2>1 DEF Reloads, Rests
<1>3. CASE Doing
  BY <1>3, DoingAsks DEF Rests
<1>4. CASE Elsewhere
  BY <1>4, ElsewhereWrites DEF Elsewhere, Changes
<1>5. CASE Serve
  <2>1. UNCHANGED <<list, shown, polling, stale>> /\ (changes' = changes + 1 \/ UNCHANGED server)
    BY <1>5, ServeTyped
  <2>2. QED
    BY <2>1 DEF Rests, Changes
<1>6. CASE FailAct
  BY <1>6 DEF FailAct, GiveUp, Rests
<1>7. CASE Finish
  <2>1. /\ Merges \/ UNCHANGED <<list, shown>> \/ Loads
        /\ UNCHANGED <<server, status, lastQuery, stale, polling, events>>
    BY <1>7, FinishTyped
  <2>2. QED
    BY <2>1 DEF Rests, Reloads, Handles
<1>8. CASE Touch \/ FailTouch
  BY <1>8, TouchTyped DEF Rests
<1>9. CASE ServeTouch
  <2>1. UNCHANGED <<list, shown, polling, stale>> /\ (changes' = changes + 1 \/ UNCHANGED server)
    BY <1>9, ServeTouchTyped
  <2>2. QED
    BY <2>1 DEF Rests, Changes
<1>10. CASE ReceiveTouch
  BY <1>10, ReceiveTouchMerges DEF Handles
<1>11. CASE UNCHANGED feedVars
  BY <1>11 DEF Rests
<1>12. QED
  BY <1>1, <1>2, <1>3, <1>4, <1>5, <1>6, <1>7, <1>8, <1>9, <1>10, <1>11, Kinds

LEMMA LoadsAsk ==
  ASSUME FeedInv, Loads
  PROVE  /\ reqs'[ticket'] # None /\ reqs'[ticket'] = Sent(filters')
         /\ reqs'[ticket'].query = filters' /\ reqs'[ticket'].answered = FALSE
<1>1. PICK query \in Filters : LoadListFor(query)
  BY DEF Loads
<1>2. /\ filters' = query /\ reqs'[ticket'] = Sent(query) /\ reqs'[ticket'] # None
  BY <1>1, Loading, Typed
<1>3. QED
  BY <1>2 DEF Sent

-----------------------------------------------------------------------------
(* The list is of its view.                                                *)

(* What is asked for last is asked for the filters that are shown.         *)
Asked == reqs[ticket] # None => reqs[ticket].query = filters

ListInv == Asked /\ ListIsOfItsView

LEMMA ListStep ==
  ASSUME FeedInv, ListInv, [FeedNext]_feedVars
  PROVE  ListInv'
<1>1. /\ reqs \in [Tickets -> Requests \cup {None}] /\ ticket \in Tickets
      /\ Asked /\ ListIsOfItsView
  BY DEF FeedInv, FeedTypeOK, ListInv
<1>2. ASSUME UNCHANGED <<list, status, lastQuery>>,
             trouble' \in {"none", "regressed"} => trouble \in {"none", "regressed"}
      PROVE  ListInv'
  BY <1>1, <1>2 DEF ListInv, Asked, ListIsOfItsView
<1>3. CASE Loads
  BY <1>3, LoadsAsk DEF ListInv, Asked, ListIsOfItsView
<1>4. CASE Rests \/ Changes
  BY <1>2, <1>4 DEF Rests, Changes
<1>5. ASSUME NEW t \in Tickets, AnswerList(t)
      PROVE  ListInv'
  <2>1. /\ reqs[t] # None /\ UNCHANGED <<filters, ticket, shown>>
        /\ \E a : reqs' = [reqs EXCEPT ![t] = a] /\ a # None /\ a.query = reqs[t].query
    <3> DEFINE q == reqs[t].query
               a == [query |-> q, answered |-> TRUE, total |-> Total(rows, q.view),
                     page |-> Page(rows, q.view, q.page)]
    <3>1. reqs' = [reqs EXCEPT ![t] = a] /\ reqs[t] # None /\ UNCHANGED <<filters, ticket, shown>>
      BY <1>5 DEF AnswerList
    <3>2. q \in Filters
      BY <1>1, <3>1 DEF Requests
    <3>3. a \in Requests
      BY <3>2, Answerable, TableTyped DEF Requests
    <3>4. a # None /\ a.query = reqs[t].query
      BY <3>3, RequestsAssumption
    <3>5. QED
      BY <3>1, <3>4
  <2>2. PICK a : reqs' = [reqs EXCEPT ![t] = a] /\ a # None /\ a.query = reqs[t].query
    BY <2>1
  <2>3. CASE t = ticket
    BY <1>1, <2>1, <2>2, <2>3 DEF ListInv, Asked, ListIsOfItsView
  <2>4. CASE t # ticket
    BY <1>1, <2>1, <2>2, <2>4 DEF ListInv, Asked, ListIsOfItsView
  <2>5. QED
    BY <2>3, <2>4
<1>6. ASSUME NEW t \in Tickets, ReceiveList(t)
      PROVE  ListInv'
  <2>1. CASE t # ticket
    <3>1. reqs' = [reqs EXCEPT ![t] = None] /\ UNCHANGED <<filters, ticket, shown>>
      BY <1>6, <2>1 DEF ReceiveList, IsCurrent
    <3>2. QED
      BY <1>1, <2>1, <3>1 DEF ListInv, Asked, ListIsOfItsView
  <2>2. CASE t = ticket /\ filters.page > Pages(reqs[t].total)
    BY <1>3, <1>6, <2>2, OverflowLoads
  <2>3. CASE t = ticket /\ ~(filters.page > Pages(reqs[t].total))
    <3>1. /\ reqs[t] # None /\ lastQuery' = reqs[t].query
          /\ reqs' = [reqs EXCEPT ![t] = None] /\ UNCHANGED <<filters, ticket>>
      BY <1>6, <2>3 DEF ReceiveList, IsCurrent
    <3>2. reqs'[ticket'] = None /\ lastQuery' = filters'
      BY <1>1, <2>3, <3>1 DEF Asked
    <3>3. QED
      BY <3>2 DEF ListInv, Asked, ListIsOfItsView
  <2>4. QED
    BY <2>1, <2>2, <2>3
<1>7. ASSUME NEW t \in Tickets, FailList(t)
      PROVE  ListInv'
  <2>1. /\ t = ticket /\ reqs' = [reqs EXCEPT ![t] = None] /\ trouble' \in {"failed", "refused"}
        /\ UNCHANGED <<filters, ticket>>
    BY <1>7 DEF FailList, IsCurrent
  <2>2. reqs'[ticket'] = None
    BY <1>1, <2>1
  <2>3. QED
    BY <2>1, <2>2 DEF ListInv, Asked, ListIsOfItsView
<1>8. CASE ReceiveOverview
  <2>1. /\ UNCHANGED <<status, lastQuery>>
        /\ trouble' \in {"none", "regressed"} => trouble \in {"none", "regressed"}
    BY <1>8 DEF ReceiveOverview
  <2>2. UNCHANGED list \/ Loads
    BY <1>8, FirstPage DEF ReceiveOverview, Loads, Views
  <2>3. QED
    BY <1>2, <1>3, <2>1, <2>2
<1>9. CASE ReceivePoll
  <2>1. UNCHANGED list \/ Loads
    BY <1>9, ReloadLoads, Typed DEF ReceivePoll, RefreshAll
  <2>2. UNCHANGED shown
    BY <1>9 DEF ReceivePoll
  <2>3. QED
    BY <1>2, <1>3, <2>1, <2>2
<1>10. CASE Merges
  <2>1. /\ UNCHANGED <<status, lastQuery, list>>
        /\ trouble' \in {"none", "regressed"} => trouble \in {"none", "regressed"}
    BY <1>10 DEF Merges, Merge
  <2>2. QED
    BY <1>2, <2>1
<1>11. QED
  BY <1>3, <1>4, <1>5, <1>6, <1>7, <1>8, <1>9, <1>10, Shapes DEF Reloads, Handles

(* Whatever order the answers come in, the list shown was loaded for the   *)
(* filters shown, unless its last load failed (loadList's ticket).         *)
THEOREM ListsAreOfTheirView == FeedSpec => []ListIsOfItsView
<1>1. FeedInit => ListInv
  BY SentTyped, FiltersAssumption DEF FeedInit, ListInv, Asked, ListIsOfItsView, Sent
<1>2. FeedInv /\ ListInv /\ [FeedNext]_feedVars => ListInv'
  BY ListStep
<1>3. ListInv => ListIsOfItsView
  BY DEF ListInv
<1>4. QED
  BY <1>1, <1>2, <1>3, FeedSpecInv, PTL DEF FeedSpec

-----------------------------------------------------------------------------
(* What is selected is shown.                                              *)

LEMMA Kept ==
  ASSUME SelectionIsShown, items' = items, selection' \subseteq selection
  PROVE  SelectionIsShown'
BY DEF SelectionIsShown, KeysOf

LEMMA MergeKeepsSelection ==
  ASSUME SelectionIsShown, NEW k \in Keys, NEW row \in Rows, Merge(k, row)
  PROVE  SelectionIsShown'
<1>1. /\ items' = Merged(k, row)
      /\ IF k \in KeysOf(items) /\ Leaves(row) THEN selection' = selection \ {k}
         ELSE selection' = selection
  BY DEF Merge
<1>2. \A i \in items : i.key # k => i.key \in KeysOf(items')
  BY <1>1 DEF Merged, KeysOf
<1>3. k \in KeysOf(items) /\ ~Leaves(row) => k \in KeysOf(items')
  <2>1. SUFFICES ASSUME k \in KeysOf(items), ~Leaves(row) PROVE k \in KeysOf(items')
    OBVIOUS
  <2>2. PICK i \in items : i.key = k
    BY <2>1 DEF KeysOf
  <2>3. [key |-> k, row |-> row] \in items'
    BY <1>1, <2>1, <2>2 DEF Merged
  <2>4. QED
    BY <2>3 DEF KeysOf
<1>4. \A j \in selection' : j \in selection /\ (j = k => ~Leaves(row))
  BY <1>1 DEF SelectionIsShown
<1>5. ASSUME NEW j \in selection' PROVE j \in KeysOf(items')
  <2>1. PICK i \in items : i.key = j
    BY <1>4, <1>5 DEF SelectionIsShown, KeysOf
  <2>2. CASE j = k
    BY <1>3, <1>4, <1>5, <2>1, <2>2 DEF KeysOf
  <2>3. CASE j # k
    BY <1>2, <2>1, <2>3
  <2>4. QED
    BY <2>2, <2>3
<1>6. KeysOf(items)' = KeysOf(items')
  BY DEF KeysOf
<1>7. QED
  BY <1>5, <1>6 DEF SelectionIsShown

LEMMA MoveKeepsSelection ==
  ASSUME FeedInv, SelectionIsShown, FinishMove
  PROVE  SelectionIsShown'
<1> DEFINE moved(i) == [i EXCEPT !.row.folder = act.value]
           left == {i.key : i \in {i \in items : i.key \in act.keys /\ Leaves(moved(i).row)}}
           kept(i) == IF i.key \in act.keys THEN moved(i) ELSE i
<1>1. items' = {kept(i) : i \in {i \in items : i.key \notin left}}
  BY DEF FinishMove
<1>2. selection' \subseteq selection \ left
  BY DEF FinishMove
<1>3. \A i \in items : kept(i).key = i.key
  <2>1. items \subseteq Items
    BY DEF FeedInv, FeedTypeOK
  <2>2. \A i \in items : moved(i).key = i.key
    BY <2>1 DEF Items
  <2>3. QED
    BY <2>2
<1> HIDE DEF left, kept
<1>4. ASSUME NEW j \in selection' PROVE \E i \in items' : i.key = j
  <2>1. PICK i \in items : i.key = j
    BY <1>2, <1>4 DEF SelectionIsShown, KeysOf
  <2>2. kept(i) \in items' /\ kept(i).key = j
    BY <1>1, <1>2, <1>3, <1>4, <2>1
  <2>3. QED
    BY <2>2
<1>5. QED
  BY <1>4 DEF SelectionIsShown, KeysOf

LEMMA BatchKeepsSelection ==
  ASSUME SelectionIsShown, FinishBatch
  PROVE  SelectionIsShown'
<1>1. CASE act.op = "batch" /\ act.flag = "deleted" /\ ~act.value /\ ~Trashing
  <2>1. items' = items /\ selection' = selection
    BY <1>1 DEF FinishBatch
  <2>2. QED
    BY <2>1, Kept
<1>2. CASE ~(act.op = "batch" /\ act.flag = "deleted" /\ ~act.value /\ ~Trashing)
  <2>1. selection' = {}
    BY <1>2 DEF FinishBatch
  <2>2. QED
    BY <2>1 DEF SelectionIsShown
<1>3. QED
  BY <1>1, <1>2

LEMMA SelectionStep ==
  ASSUME FeedInv, SelectionIsShown, [FeedNext]_feedVars
  PROVE  SelectionIsShown'
<1>1. CASE UNCHANGED <<items, selection>>
  BY <1>1, Kept
<1>2. ASSUME NEW t \in Tickets, AnswerList(t) \/ ReceiveList(t) \/ FailList(t)
      PROVE  SelectionIsShown'
  <2>1. AnswerList(t) \/ FailList(t) => UNCHANGED <<items, selection>>
    BY DEF AnswerList, FailList
  <2>2. CASE ReceiveList(t)
    <3>1. CASE ~IsCurrent(t) \/ filters.page > Pages(reqs[t].total)
      BY <1>1, <2>2, <3>1 DEF ReceiveList
    <3>2. CASE IsCurrent(t) /\ ~(filters.page > Pages(reqs[t].total))
      <4>1. items' = reqs[t].page /\ selection' = StillShown(reqs[t].page)
        BY <2>2, <3>2 DEF ReceiveList
      <4>2. QED
        BY <4>1 DEF StillShown, SelectionIsShown, KeysOf
    <3>3. QED
      BY <3>1, <3>2
  <2>3. QED
    BY <1>1, <1>2, <2>1, <2>2
<1>3. CASE ReceiveOverview
  BY <1>3, Kept DEF ReceiveOverview
<1>4. FailOverview \/ DropOverview \/ Poll \/ ReceivePoll \/ FailPoll
        => UNCHANGED <<items, selection>>
  BY DEF FailOverview, DropOverview, Poll, ReceivePoll, FailPoll
<1>5. CASE Navigate
  <2>1. items' = items /\ selection' \in {selection, {}}
    BY <1>5 DEF Navigate, ApplyFilters
  <2>2. QED
    BY <2>1, Kept
<1>6. CASE Back
  BY <1>6, Kept DEF Back
<1>7. Refresh => UNCHANGED <<items, selection>>
  BY DEF Refresh
<1>8. CASE Select
  BY <1>8 DEF Select, SelectionIsShown, KeysOf
<1>9. Doing \/ Elsewhere \/ Serve \/ FailAct \/ Touch \/ FailTouch \/ ServeTouch
        => items' = items /\ selection' \in {selection, {}}
  BY DoingAsks, ServeTyped, TouchTyped, ServeTouchTyped DEF Elsewhere, FailAct, GiveUp
<1>10. CASE Finish
  <2>1. act # None /\ act.op \in Ops
    BY <1>10 DEF Finish, FeedInv, FeedTypeOK, Acts
  <2>2. CASE act.op = "toggle"
    <3>1. PICK k \in Keys : act.row \in Rows /\ Merge(k, act.row)
      BY <1>10, <2>1, <2>2, ToggleMerges DEF Finish
    <3>2. QED
      BY <3>1, MergeKeepsSelection
  <2>3. CASE act.op = "move"
    BY <1>10, <2>3, MoveKeepsSelection DEF Finish
  <2>4. CASE act.op = "create"
    <3>1. items' = items /\ selection' \subseteq selection
      BY <1>10, <2>4 DEF Finish, FinishCreate
    <3>2. QED
      BY <3>1, Kept
  <2>5. CASE act.op = "deleteFolder"
    <3>1. items' = items /\ selection' \subseteq selection
      BY <1>10, <2>5 DEF Finish, FinishDeleteFolder
    <3>2. QED
      BY <3>1, Kept
  <2>6. CASE act.op \in {"batch", "purge", "clear"}
    BY <1>10, <2>6, BatchKeepsSelection DEF Finish
  <2>7. QED
    BY <2>1, <2>2, <2>3, <2>4, <2>5, <2>6 DEF Ops
<1>11. CASE ReceiveTouch
  BY <1>11, ReceiveTouchMerges, MergeKeepsSelection
<1>12. UNCHANGED feedVars => UNCHANGED <<items, selection>>
  OBVIOUS
<1>13. CASE items' = items /\ selection' \in {selection, {}}
  BY <1>13, Kept
<1>14. QED
  BY <1>1, <1>2, <1>3, <1>4, <1>5, <1>6, <1>7, <1>8, <1>9, <1>10, <1>11, <1>12, <1>13, Kinds
  DEF Hears, Moves

(* The records a batch acts on are as many as the page says are selected,  *)
(* whatever others do to them and whatever answers come late.              *)
THEOREM SelectionsAreShown == FeedSpec => []SelectionIsShown
<1>1. FeedInit => SelectionIsShown
  BY DEF FeedInit, SelectionIsShown
<1>2. FeedInv /\ SelectionIsShown /\ [FeedNext]_feedVars => SelectionIsShown'
  BY SelectionStep
<1>3. QED
  BY <1>1, <1>2, FeedSpecInv, PTL DEF FeedSpec

-----------------------------------------------------------------------------
(* A page that has heard of the last change shows what it left.            *)

(* A marker says no more than has happened, and one that was read after    *)
(* the last change is the one of the table as it is.                       *)
Polled ==
  /\ lastMarker <= changes /\ polledAt <= changes
  /\ polledAt = changes => lastMarker = Marker(rows)
  /\ poll # None =>
       /\ poll.marker <= changes /\ poll.at <= changes
       /\ poll.at = changes => poll.marker = Marker(rows)

(* The page knows of the last change, which has left a stamp.              *)
UpToDate == lastMarker = changes /\ Marker(rows) = changes

(* Since the marker of the last change was taken as seen, every list has   *)
(* been asked for anew: its answer is current, and so is what it left.     *)
Answers ==
  UpToDate /\ reqs[ticket] # None /\ reqs[ticket].answered =>
    /\ reqs[ticket].page = Page(rows, filters.view, filters.page)
    /\ reqs[ticket].total = Total(rows, filters.view)
Shows == UpToDate /\ reqs[ticket] = None => trouble # "none" \/ Fresh

(* A list that failed is owned up to, until an overview succeeds.          *)
Owned == trouble = "failed" /\ reqs[ticket] = None => stale \/ status = "error"

NewsInv == Polled /\ Answers /\ Shows /\ Owned

LEMMA Numbers ==
  ASSUME FeedInv
  PROVE  /\ changes \in Nat /\ lastMarker \in Nat /\ polledAt \in Nat
         /\ poll # None => poll.marker \in Nat /\ poll.at \in Nat
         /\ Marker(rows) \in Nat /\ Marker(rows) <= changes
<1>1. Marker(rows) \in Nat /\ Marker(rows) <= changes
  BY MarkerTyped, TableTyped DEF FeedInv
<1>2. QED
  BY <1>1 DEF FeedInv, FeedTypeOK

LEMMA PolledStep ==
  ASSUME FeedInv, Polled, [FeedNext]_feedVars
  PROVE  Polled'
<1>1. CASE UNCHANGED <<server, polling>>
  BY <1>1 DEF Polled
<1>2. CASE Changes
  BY <1>2, Numbers DEF Changes, Polled
<1>3. CASE Rests
  <2>1. UNCHANGED <<server, lastMarker, polledAt>>
    BY <1>3 DEF Rests
  <2>2. CASE poll' \in {poll, None}
    BY <2>1, <2>2 DEF Polled
  <2>3. CASE Poll
    BY <2>1, <2>3, Numbers DEF Poll, Polled
  <2>4. QED
    BY <1>3, <2>2, <2>3 DEF Rests
<1>4. CASE ReceivePoll
  <2>1. /\ poll # None /\ poll' = None /\ polledAt' = poll.at /\ UNCHANGED server
        /\ lastMarker' = poll.marker
    BY <1>4 DEF ReceivePoll, Newer
  <2>2. QED
    BY <2>1 DEF Polled
<1>5. \A t \in Tickets : AnswerList(t) \/ ReceiveList(t) \/ FailList(t) => UNCHANGED <<server, polling>>
  BY DEF AnswerList, ReceiveList, FailList
<1>6. ReceiveOverview => UNCHANGED <<server, polling>>
  BY DEF ReceiveOverview
<1>7. QED
  BY <1>1, <1>2, <1>3, <1>4, <1>5, <1>6, Shapes DEF Reloads, Handles

(* A row that is put where the same row is shown changes nothing.          *)
LEMMA MergeKeeps ==
  ASSUME FeedInv, Fresh, NEW k, NEW row, k \in KeysOf(items) => row = rows[k]
  PROVE  Merged(k, row) = items /\ ~(k \in KeysOf(items) /\ Leaves(row))
<1>1. items = {[key |-> j, row |-> rows[j]] :
                 j \in {j \in InView(rows, filters.view) :
                          Rank(rows, filters.view, j) \div PageSize = filters.page - 1}}
  BY DEF Fresh, Page
<1>2. \A i \in items : i.key \in InView(rows, filters.view)
                       /\ i = [key |-> i.key, row |-> rows[i.key]]
  BY <1>1
<1>3. CASE k \notin KeysOf(items)
  BY <1>3 DEF Merged, KeysOf
<1>4. CASE k \in KeysOf(items)
  <2>1. PICK i \in items : i.key = k
    BY <1>4 DEF KeysOf
  <2>2. i = [key |-> k, row |-> row] /\ k \in InView(rows, filters.view) /\ row = rows[k]
    BY <1>2, <1>4, <2>1
  <2>3. ~Leaves(row)
    BY <2>2 DEF InView, Leaves
  <2>4. \A j \in items : j.key = k => j = i
    BY <1>2, <1>4, <2>2
  <2>5. Merged(k, row) = items
    BY <2>1, <2>2, <2>3, <2>4 DEF Merged
  <2>6. QED
    BY <2>3, <2>5
<1>5. QED
  BY <1>3, <1>4

ShowsInv == Answers /\ Shows /\ Owned

LEMMA ReceiveListShows ==
  ASSUME FeedInv, ListInv, NewsInv, NEW t \in Tickets, ReceiveList(t), t = ticket,
         ~(filters.page > Pages(reqs[t].total))
  PROVE  ShowsInv'
<1>1. /\ reqs[t] # None /\ reqs[t].answered
      /\ items' = reqs[t].page /\ total' = reqs[t].total /\ trouble' = "none"
      /\ reqs' = [reqs EXCEPT ![t] = None] /\ UNCHANGED <<filters, ticket>>
      /\ UNCHANGED <<rows, changes, lastMarker>>
  BY DEF ReceiveList, IsCurrent
<1>2. reqs'[ticket'] = None
  BY <1>1 DEF FeedInv, FeedTypeOK
<1>3. filters.page \in Nat /\ Pages(reqs[t].total) \in Nat
  BY <1>1, PagesCount DEF FeedInv, FeedTypeOK, Requests, Filters
<1>4. ASSUME UpToDate'
      PROVE  Fresh'
  <2>1. UpToDate
    BY <1>1, <1>4 DEF UpToDate
  <2>2. /\ reqs[t].page = Page(rows, filters.view, filters.page)
        /\ reqs[t].total = Total(rows, filters.view)
    BY <1>1, <2>1 DEF NewsInv, Answers
  <2>3. QED
    BY <1>1, <1>3, <2>2 DEF Fresh
<1>5. QED
  BY <1>1, <1>2, <1>4 DEF ShowsInv, Answers, Shows, Owned

LEMMA ShowsStep ==
  ASSUME FeedInv, ListInv, NewsInv, [FeedNext]_feedVars
  PROVE  ShowsInv'
<1>1. /\ reqs \in [Tickets -> Requests \cup {None}] /\ ticket \in Tickets
      /\ Answers /\ Shows /\ Owned
  BY DEF FeedInv, FeedTypeOK, NewsInv
(* A request under way, unanswered, says nothing yet.                      *)
<1>2. CASE Loads
  BY <1>2, LoadsAsk DEF ShowsInv, Answers, Shows, Owned
<1>3. CASE Changes
  <2>1. ~UpToDate'
    BY <1>3, Numbers DEF Changes, UpToDate, NewsInv, Polled
  <2>2. Owned'
    BY <1>1, <1>3 DEF Changes, Owned
  <2>3. QED
    BY <2>1, <2>2 DEF ShowsInv, Answers, Shows
(* The page shows and has asked for what it did.                           *)
<1>4. ASSUME UNCHANGED <<rows, changes, filters, ticket, lastMarker>>, reqs'[ticket] = reqs[ticket],
             UNCHANGED <<items, total>>,
             trouble' = "none" => trouble = "none",
             trouble' = "failed" => trouble = "failed" /\ status' = status /\ (stale => stale')
      PROVE  ShowsInv'
  <2>1. UpToDate' <=> UpToDate
    BY <1>4 DEF UpToDate
  <2>2. Answers'
    BY <1>1, <1>4, <2>1 DEF Answers
  <2>3. Fresh' <=> Fresh
    BY <1>4 DEF Fresh
  <2>4. Shows'
    BY <1>1, <1>4, <2>1, <2>3 DEF Shows
  <2>5. Owned'
    BY <1>1, <1>4 DEF Owned
  <2>6. QED
    BY <2>2, <2>4, <2>5 DEF ShowsInv
<1>5. CASE Rests
  BY <1>4, <1>5 DEF Rests
<1>6. ASSUME NEW t \in Tickets, AnswerList(t)
      PROVE  ShowsInv'
  <2> DEFINE q == reqs[t].query
             a == [query |-> q, answered |-> TRUE, total |-> Total(rows, q.view),
                   page |-> Page(rows, q.view, q.page)]
  <2>1. /\ reqs' = [reqs EXCEPT ![t] = a] /\ reqs[t] # None
        /\ UNCHANGED <<rows, changes, filters, ticket, lastMarker, items, total, trouble, status, stale>>
    BY <1>6 DEF AnswerList
  <2>2. CASE t # ticket
    BY <1>1, <1>4, <2>1, <2>2
  <2>3. CASE t = ticket
    <3>1. q = filters
      BY <2>1, <2>3 DEF ListInv, Asked
    <3>2. a \in Requests /\ a.page = Page(rows, filters.view, filters.page)
          /\ a.total = Total(rows, filters.view)
      BY <3>1, Answerable, TableTyped, Typed DEF Requests, FeedTypeOK
    <3> HIDE DEF a
    <3>3. reqs'[ticket'] = a /\ a # None
      BY <1>1, <2>1, <2>3, <3>2, RequestsAssumption
    <3>4. QED
      BY <2>1, <3>2, <3>3 DEF ShowsInv, Answers, Shows, Owned
  <2>4. QED
    BY <2>2, <2>3
<1>7. ASSUME NEW t \in Tickets, ReceiveList(t)
      PROVE  ShowsInv'
  <2>1. CASE t # ticket
    <3>1. /\ reqs' = [reqs EXCEPT ![t] = None]
          /\ UNCHANGED <<rows, changes, filters, ticket, lastMarker, items, total, trouble, status, stale>>
      BY <1>7, <2>1 DEF ReceiveList, IsCurrent
    <3>2. QED
      BY <1>1, <1>4, <2>1, <3>1
  <2>2. CASE t = ticket /\ filters.page > Pages(reqs[t].total)
    BY <1>2, <1>7, <2>2, OverflowLoads
  <2>3. CASE t = ticket /\ ~(filters.page > Pages(reqs[t].total))
    BY <1>7, <2>3, ReceiveListShows
  <2>4. QED
    BY <2>1, <2>2, <2>3
<1>8. ASSUME NEW t \in Tickets, FailList(t)
      PROVE  ShowsInv'
  <2>1. /\ t = ticket /\ reqs' = [reqs EXCEPT ![t] = None] /\ UNCHANGED ticket
        /\ trouble' = "refused" \/ (trouble' = "failed" /\ (status' = "error" \/ stale' = TRUE))
    BY <1>8 DEF FailList, IsCurrent
  <2>2. reqs'[ticket'] = None
    BY <1>1, <2>1
  <2>3. QED
    BY <2>1, <2>2 DEF ShowsInv, Answers, Shows, Owned
<1>9. CASE ReceiveOverview
  <2>1. /\ UNCHANGED <<rows, changes, lastMarker, items, total>> /\ trouble' # "failed"
        /\ trouble' = "none" => trouble = "none"
    BY <1>9 DEF ReceiveOverview
  <2>2. UNCHANGED list \/ Loads
    BY <1>9, FirstPage DEF ReceiveOverview, Loads, Views
  <2>3. QED
    BY <1>2, <1>4, <2>1, <2>2
<1>10. CASE ReceivePoll
  <2>1. CASE Newer(poll.marker)
    BY <1>2, <1>10, <2>1, ReloadLoads, Typed DEF ReceivePoll, RefreshAll
  <2>2. CASE ~Newer(poll.marker)
    <3>1. ~stale /\ UNCHANGED <<rows, changes, list, lastMarker, shown>>
      BY <1>10, <2>2 DEF ReceivePoll, Newer
    <3>2. QED
      BY <1>4, <3>1
  <2>3. QED
    BY <2>1, <2>2
<1>11. CASE Merges /\ UNCHANGED <<server, polling>>
  <2> PICK k \in Keys, row \in Rows : Merge(k, row)
    BY <1>11 DEF Merges
  <2>1. /\ items' = Merged(k, row)
        /\ ~(k \in KeysOf(items) /\ Leaves(row)) => total' = total
        /\ trouble' = IF trouble = "none" /\ k \in KeysOf(items) /\ row # rows[k]
                      THEN "regressed" ELSE trouble
        /\ UNCHANGED <<status, stale, lastQuery, list>>
    BY DEF Merge
  <2>2. UpToDate' <=> UpToDate
    BY <1>11 DEF UpToDate
  <2>3. Answers' /\ Owned'
    BY <1>1, <1>11, <2>1, <2>2 DEF Answers, Owned
  <2>4. ASSUME Fresh, k \in KeysOf(items) => row = rows[k]
        PROVE  Fresh'
    <3>1. items' = items /\ total' = total
      BY <2>1, <2>4, MergeKeeps
    <3>2. QED
      BY <1>11, <2>1, <2>4, <3>1 DEF Fresh
  <2>5. Shows'
    BY <1>1, <2>1, <2>2, <2>4 DEF Shows
  <2>6. QED
    BY <2>3, <2>5 DEF ShowsInv
<1>12. QED
  BY <1>2, <1>3, <1>5, <1>6, <1>7, <1>8, <1>9, <1>10, <1>11, Shapes DEF Reloads, Handles

(* A page that has polled since the last change, if that left a stamp, and *)
(* waits for nothing, shows what it left or says that it was interrupted:  *)
(* for any table, any size of a page and any number of events.             *)
THEOREM PagesCatchUp == FeedSpec => []CaughtUp
<1>1. FeedInit => ListInv
  BY SentTyped, FiltersAssumption DEF FeedInit, ListInv, Asked, ListIsOfItsView, Sent
<1>2. FeedInit => NewsInv
  <2> SUFFICES ASSUME FeedInit PROVE NewsInv
    OBVIOUS
  <2>1. /\ changes = 0 /\ lastMarker = Marker(rows) /\ polledAt = 0 /\ poll = None
        /\ reqs[ticket] = Sent(filters) /\ filters \in Filters
    BY FiltersAssumption DEF FeedInit
  <2>2. reqs[ticket] # None /\ reqs[ticket].answered = FALSE
    BY <2>1, SentTyped DEF Sent
  <2>3. Polled
    BY <2>1, FeedInitInv, Numbers DEF Polled
  <2>4. QED
    BY <2>2, <2>3 DEF NewsInv, Answers, Shows, Owned
<1>3. FeedInv /\ ListInv /\ [FeedNext]_feedVars => ListInv'
  BY ListStep
<1>4. FeedInv /\ ListInv /\ NewsInv /\ [FeedNext]_feedVars => NewsInv'
  <2> SUFFICES ASSUME FeedInv, ListInv, NewsInv, [FeedNext]_feedVars PROVE NewsInv'
    OBVIOUS
  <2>1. Polled'
    BY PolledStep DEF NewsInv
  <2>2. QED
    BY <2>1, ShowsStep DEF NewsInv, ShowsInv
<1>5. FeedInv /\ NewsInv => CaughtUp
  <2> SUFFICES ASSUME FeedInv, NewsInv, Idle, Heard PROVE
                 stale \/ status = "error" \/ trouble \in {"refused", "masked", "regressed"} \/ Fresh
    BY DEF CaughtUp
  <2>1. UpToDate /\ reqs[ticket] = None
    BY DEF Idle, Heard, Stamp, Present, Marker, UpToDate, NewsInv, Polled
  <2>2. trouble # "none" \/ Fresh
    BY <2>1 DEF NewsInv, Shows
  <2>3. trouble = "failed" => stale \/ status = "error"
    BY <2>1 DEF NewsInv, Owned
  <2>4. trouble \in Troubles
    BY DEF FeedInv, FeedTypeOK
  <2>5. QED
    BY <2>2, <2>3, <2>4
<1>6. QED
  BY <1>1, <1>2, <1>3, <1>4, <1>5, FeedSpecInv, PTL DEF FeedSpec
=============================================================================
