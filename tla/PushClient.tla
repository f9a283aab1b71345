----------------------------- MODULE PushClient -----------------------------
(***************************************************************************)
(* The interface's end of the push channel (web/src/lib/push.ts): a page   *)
(* in view exchanges a ticket for a WebSocket, shakes hands, beats, and    *)
(* after a failure tries again, more and more rarely and after several     *)
(* failures in a row only when a pause is over.  A page out of view stops  *)
(* the channel, and starts it when it is back.                             *)
(*                                                                         *)
(* Everything here runs on one thread, one callback at a time; what is     *)
(* concurrent is the order in which tickets, events of old and new         *)
(* sockets, timers and the visibility of the page call back.               *)
(***************************************************************************)
EXTENDS Naturals, FiniteSets, Web

CONSTANTS Sockets,      \* WebSocket objects; one whose close event has been
                        \* handled is used again as a new one
          MaxFailures   \* MAX_CONSECUTIVE_FAILURES

ASSUME SocketsAssumption == None \notin Sockets
ASSUME FailuresAssumption == MaxFailures \in Nat \ {0}

VARIABLES
  socket,    \* the connection the channel refers to, or None
  pending,   \* a ticket is being fetched
  stopped,   \* stop() was called last
  state,     \* what the page is told: "offline", "connecting" or "live"
  failures,  \* consecutive failures
  retry,     \* the timer of the next attempt is set
  cooldown,  \* the timer of the pause after MaxFailures is set
  heartbeat, \* the interval of pings runs
  tickets,   \* requests for a ticket under way
  conn       \* per socket, what the browser makes of it

vars == <<socket, pending, stopped, state, failures, retry, cooldown, heartbeat,
          tickets, conn>>
timers == <<retry, cooldown, heartbeat>>

(* "opening" until the handshake is answered, "open", "closing" after a    *)
(* call of close(), "errored" between the error event and the close event, *)
(* "gone" when the close event has been handled.  Only a socket that is    *)
(* opening or open dispatches messages.                                    *)
Conditions == {"opening", "open", "closing", "errored", "gone"}
Speaks(s) == conn[s] \in {"opening", "open"}

TypeOK ==
  /\ socket \in Sockets \cup {None}
  /\ state \in {"offline", "connecting", "live"}
  /\ failures \in Nat /\ tickets \in Nat
  /\ pending \in BOOLEAN /\ stopped \in BOOLEAN
  /\ retry \in BOOLEAN /\ cooldown \in BOOLEAN /\ heartbeat \in BOOLEAN
  /\ conn \in [Sockets -> Conditions]

-----------------------------------------------------------------------------
(* open(): nothing if the channel is stopped, connected or connecting.     *)
MayOpen == ~stopped' /\ socket = None /\ ~pending

Open ==
  IF MayOpen
  THEN pending' = TRUE /\ tickets' = tickets + 1 /\ state' = "connecting"
  ELSE UNCHANGED <<pending, tickets, state>>

(* scheduleRetry(): one timer at most, the pause once failures are many.   *)
GivesUp == UNCHANGED cooldown /\ retry' = (~stopped /\ failures' < MaxFailures)
ScheduleRetry ==
  LET idle == ~stopped /\ ~retry /\ ~cooldown
  IN /\ cooldown' = (cooldown \/ (idle /\ failures' >= MaxFailures))
     /\ retry' = (retry \/ (idle /\ failures' < MaxFailures))

(* start(): boot, or back in view; a page opened out of view comes into    *)
(* view with its channel started already.  A retry timer is left running.  *)
Start ==
  /\ stopped' = FALSE /\ failures' = 0 /\ cooldown' = FALSE
  /\ Open
  /\ UNCHANGED <<socket, retry, heartbeat, conn>>

(* stop(): out of view, or the session is over.                            *)
JustForgotten == conn
HungUp == [s \in Sockets |-> IF s = socket /\ Speaks(s) THEN "closing" ELSE conn[s]]
Stop ==
  /\ ~stopped
  /\ stopped' = TRUE /\ socket' = None /\ state' = "offline"
  /\ retry' = FALSE /\ cooldown' = FALSE /\ heartbeat' = FALSE
  /\ conn' = HungUp
  /\ UNCHANGED <<pending, failures, tickets>>

(* The ticket is there: unless the channel was stopped meanwhile, a socket *)
(* is made with it.                                                        *)
TicketStillWanted == ~stopped /\ socket = None

TicketGranted ==
  /\ tickets > 0
  /\ tickets' = tickets - 1 /\ pending' = FALSE
  /\ IF TicketStillWanted
     THEN \E s \in Sockets :
            /\ conn[s] = "gone"
            /\ socket' = s /\ conn' = [conn EXCEPT ![s] = "opening"]
     ELSE UNCHANGED <<socket, conn>>
  /\ UNCHANGED <<stopped, state, failures, timers>>

TicketRefused ==
  /\ tickets > 0
  /\ tickets' = tickets - 1 /\ pending' = FALSE
  /\ failures' = failures + 1 /\ state' = "offline"
  /\ ScheduleRetry
  /\ UNCHANGED <<socket, stopped, heartbeat, conn>>

-----------------------------------------------------------------------------
(* Events of a socket.                                                     *)

(* The hub's answer to the handshake: the pings begin with it.             *)
Handshake(s) ==
  /\ conn[s] = "opening"
  /\ conn' = [conn EXCEPT ![s] = "open"]
  /\ failures' = 0 /\ state' = "live" /\ heartbeat' = TRUE
  /\ UNCHANGED <<socket, pending, stopped, retry, cooldown, tickets>>

(* The hub's close frame.                                                  *)
CloseFrame(s) ==
  /\ Speaks(s)
  /\ conn' = [conn EXCEPT ![s] = "closing"]
  /\ UNCHANGED <<socket, pending, stopped, state, failures, timers, tickets>>

(* The connection breaks: an error event, and the close event after it.    *)
Error(s) ==
  /\ conn[s] \in {"opening", "open", "closing"}
  /\ conn' = [conn EXCEPT ![s] = "errored"]
  /\ socket' = IF socket = s THEN None ELSE socket
  /\ UNCHANGED <<pending, stopped, state, failures, timers, tickets>>

(* teardown(s): by then another connection, or an attempt at one, may have *)
(* taken the place of s; its state is not to be touched.                   *)
NotCurrent(s) == pending \/ socket # s
Superseded(s) == pending \/ socket \notin {None, s}

Closed(s) ==
  /\ conn[s] # "gone"
  /\ conn' = [conn EXCEPT ![s] = "gone"]
  /\ IF Superseded(s)
     THEN UNCHANGED <<socket, state, failures, timers>>
     ELSE /\ socket' = None /\ heartbeat' = FALSE
          /\ failures' = failures + 1 /\ state' = "offline"
          /\ ScheduleRetry
  /\ UNCHANGED <<pending, stopped, tickets>>

RetryFires ==
  /\ retry /\ retry' = FALSE
  /\ UNCHANGED stopped /\ Open
  /\ UNCHANGED <<socket, failures, cooldown, heartbeat, conn>>

CooldownFires ==
  /\ cooldown /\ cooldown' = FALSE /\ failures' = 0
  /\ UNCHANGED stopped /\ Open
  /\ UNCHANGED <<socket, retry, heartbeat, conn>>

-----------------------------------------------------------------------------
(* The page is about to start the channel.                                 *)
Init ==
  /\ socket = None /\ state = "offline" /\ failures = 0 /\ tickets = 0
  /\ pending = FALSE /\ stopped = TRUE
  /\ retry = FALSE /\ cooldown = FALSE /\ heartbeat = FALSE
  /\ conn = [s \in Sockets |-> "gone"]

Next ==
  \/ Start \/ Stop \/ TicketGranted \/ TicketRefused \/ RetryFires \/ CooldownFires
  \/ \E s \in Sockets : Handshake(s) \/ CloseFrame(s) \/ Error(s) \/ Closed(s)

Spec == Init /\ [][Next]_vars

(* Timers fire and a socket that ended says so.  A network that keeps on   *)
(* being able to grant a ticket or to answer the handshake does so at last *)
(* (strong fairness: it may fail any number of times before).              *)
Fairness ==
  /\ WF_vars(RetryFires) /\ WF_vars(CooldownFires)
  /\ SF_vars(TicketGranted)
  /\ \A s \in Sockets :
       /\ WF_vars(conn[s] \in {"closing", "errored"} /\ Closed(s))
       /\ SF_vars(Handshake(s))

FairSpec == Spec /\ Fairness

-----------------------------------------------------------------------------
(* No connection is left behind: whatever can still speak is the one the   *)
(* channel refers to and could close.  (push.ts:62-63: two starts must not *)
(* make two connections, the first of which nobody can close.)             *)
NoStraySocket == \A s \in Sockets : Speaks(s) => socket = s

(* A channel that is called live has a connection whose end the page will  *)
(* still be told of, and it pings it (else the hub closes it for silence). *)
LiveIsTrue ==
  state = "live" =>
    /\ heartbeat
    /\ \E s \in Sockets : conn[s] \in {"open", "closing", "errored"} /\ socket \in {None, s}

(* A started channel always has something under way that leads to a        *)
(* connection: nothing short of stop() leaves it off line for good.        *)
NeverStranded ==
  ~stopped => \/ pending \/ retry \/ cooldown \/ socket # None
              \/ \E s \in Sockets : conn[s] = "errored"

(* A stopped channel is at rest: no timer, no ping, no connection.         *)
StoppedIsQuiet ==
  stopped => /\ state = "offline" /\ socket = None
             /\ ~retry /\ ~cooldown /\ ~heartbeat

(* While the page is in view the channel is live again and again.          *)
Reconnects == []<>(stopped \/ state = "live")
=============================================================================
