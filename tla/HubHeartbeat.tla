---------------------------- MODULE HubHeartbeat ----------------------------
(***************************************************************************)
(* The push connections of the durable object and the alarm that pings     *)
(* them and closes the silent ones (src/src/durable/SyncClipboardHub.ts).  *)
(*                                                                         *)
(* The platform keeps the WebSockets and the alarm, the object's memory    *)
(* keeps the event streams and the entries of long polling: memory is lost *)
(* when the object hibernates, everything but the alarm when it restarts.  *)
(* Setting the alarm is a read of the alarm in place and, when its answer  *)
(* has come, a write.  Time passes in ticks; what the object does between  *)
(* two ticks takes no time.                                                *)
(***************************************************************************)
EXTENDS Hub

CONSTANTS
  Heartbeat,   \* HEARTBEAT_INTERVAL_MS, in ticks
  IdleLimit,   \* IDLE_TIMEOUT_MS, in ticks
  EarlyPosts,  \* whether a client may POST before its first GET
  MaxFaults,   \* bound on reads of the alarm that fail
  MaxAge       \* bound on the ages told apart

ASSUME ConstantsAssumption ==
  /\ Heartbeat \in Nat \ {0} /\ IdleLimit \in Nat /\ None \notin Nat
  /\ EarlyPosts \in BOOLEAN /\ MaxFaults \in Nat /\ MaxAge \in Nat

Kinds == {"ws", "sse", "lp"}
Conns == Kinds \X Ids
Of(kind) == {kind} \X Ids

VARIABLES
  live,     \* what getWebSockets, sseClients and lpClients hold
  closing,  \* the WebSockets this side has closed
  age,      \* ticks since lastSeen
  alarm,    \* ticks until the alarm, or None
  reads,    \* answers of getAlarm on their way: "unset" or "set"
  faults

vars == <<live, closing, age, alarm, reads, faults>>

(* Every variable has its type; only WebSockets linger after their close.  *)
TypeOK ==
  /\ live \subseteq Conns
  /\ closing \subseteq live \cap Of("ws")
  /\ age \in [Conns -> 0..MaxAge]
  /\ alarm \in 0..Heartbeat \cup {None}
  /\ reads \subseteq {"unset", "set"}
  /\ faults \in 0..MaxFaults

Init ==
  /\ live = {} /\ closing = {}
  /\ age = [c \in Conns |-> 0]
  /\ alarm = None
  /\ reads = {}
  /\ faults = 0

Heard(conns) == age' = [c \in Conns |-> IF c \in conns THEN 0 ELSE age[c]]

----------------------------------------------------------------------------
(* scheduleHeartbeat, while the object holds conns: nothing without a      *)
(* connection; else it asks for the alarm.  A read that fails counts as    *)
(* "unset".                                                                *)

SocketsOnly(conns) == conns \cap Of("ws") # {}           \* a fault
HasClients(conns) == conns # {}

Schedule(conns) ==
  IF ~HasClients(conns) THEN UNCHANGED <<reads, faults>>
  ELSE \/ reads' = reads \cup {IF alarm = None THEN "unset" ELSE "set"} /\ UNCHANGED faults
       \/ faults < MaxFaults /\ faults' = faults + 1 /\ reads' = reads \cup {"unset"}

Regardless(answer) == TRUE                               \* a fault
MustSet(answer) == answer = "unset"

(* The rest of scheduleHeartbeat, when the answer has come.                *)
Resume(answer) ==
  /\ answer \in reads
  /\ reads' = reads \ {answer}
  /\ alarm' = IF MustSet(answer) THEN Heartbeat ELSE alarm
  /\ UNCHANGED <<live, closing, age, faults>>

----------------------------------------------------------------------------
(* Connections come, speak and go.                                         *)

(* handleWebSocket; handleSseConnect, which closes a stream of the same id *)
(* first; the first GET of handleLongPoll.                                 *)
Connect(c) ==
  /\ c \in live => c \in Of("sse")
  /\ live' = live \cup {c}
  /\ Heard({c})
  /\ Schedule(live')
  /\ UNCHANGED <<closing, alarm>>

(* replyToClientMessage: a refused handshake and a Close frame close, all  *)
(* else is answered or ignored.                                            *)
Reply(c) == closing' \in {closing, closing \cup {c}}

(* webSocketMessage                                                        *)
SocketSpeaks(c) ==
  /\ c \in (live \cap Of("ws")) \ closing
  /\ Heard({c})
  /\ Reply(c)
  /\ UNCHANGED <<live, alarm, reads, faults>>

(* webSocketClose, webSocketError: getWebSockets may still count it.       *)
SocketGone(c) ==
  /\ c \in live \cap Of("ws")
  /\ live' = live \ {c}
  /\ closing' = closing \ {c}
  /\ Heard({c})
  /\ \E counted \in {live, live'} : Schedule(counted)
  /\ UNCHANGED alarm

(* A later GET of handleLongPoll.                                          *)
Poll(c) ==
  /\ c \in live \cap Of("lp")
  /\ Heard({c})
  /\ UNCHANGED <<live, closing, alarm, reads, faults>>

(* writeSseRaw fails, or a client's Close frame: closeSseClient.           *)
CloseStream(c) ==
  /\ c \in live \cap Of("sse")
  /\ live' = live \ {c}
  /\ Heard({c})
  /\ Schedule(live')
  /\ UNCHANGED <<closing, alarm>>

(* DELETE: the entry of long polling goes first, then the stream.          *)
Delete(i) ==
  LET entry == <<"lp", i>>  stream == <<"sse", i>> IN
  /\ {entry, stream} \cap live # {}
  /\ live' = live \ {entry, stream}
  /\ Heard({entry, stream})
  /\ Schedule(live \ {IF entry \in live THEN entry ELSE stream})
  /\ UNCHANGED <<closing, alarm>>

(* handleClientMessage: it makes an entry of long polling for an id it     *)
(* does not know, and schedules nothing.                                   *)
Post(i) ==
  LET known == {<<"sse", i>>, <<"lp", i>>} \cap live
      conns == IF known = {} THEN {<<"lp", i>>} ELSE known IN
  /\ EarlyPosts \/ known # {}
  /\ live' = live \cup conns
  /\ Heard(conns)
  /\ UNCHANGED <<closing, alarm, reads, faults>>

(* broadcast: some sends fail, which closes their WebSockets, and some     *)
(* queues overflow, which schedules.                                       *)
Broadcast ==
  /\ \E broken \in SUBSET ((live \cap Of("ws")) \ closing) : closing' = closing \cup broken
  /\ UNCHANGED <<reads, faults>> \/ (live \cap Of("lp") # {} /\ Schedule(live))
  /\ UNCHANGED <<live, age, alarm>>

----------------------------------------------------------------------------
(* The alarm *)

SpareSockets(c) == c \notin Of("ws") /\ age[c] > IdleLimit   \* a fault
Idle(c) == age[c] > IdleLimit

(* rearmHeartbeatInAlarm *)
Unasked(conns) == TRUE                                   \* a fault
NeedsAlarm(conns) == HasClients(conns)

(* Streams and entries are dropped, WebSockets wait for their handshake.   *)
Everything(idle) == idle                                 \* a fault
Lingering(idle) == idle \cap Of("ws")

(* alarm: pings, then closes what was silent for too long, then sets the   *)
(* next alarm if a connection is left.  Overflowing queues and closed      *)
(* streams schedule on their own, while getAlarm says that none is set.    *)
Alarm ==
  LET idle == {c \in live : Idle(c)}
      gone == idle \ Of("ws")
      streams == gone \cap Of("sse") IN
  /\ alarm = 0
  /\ live' = live \ gone
  /\ \E broken \in SUBSET ((live \cap Of("ws")) \ closing) :
       closing' = closing \cup broken \cup Lingering(idle)
  /\ Heard(gone)
  /\ reads' \in {reads} \cup
       (IF live \cap Of("lp") # {} \/ (streams # {} /\ Cardinality(live) > 1)
        THEN {reads \cup {"unset"}} ELSE {})
  /\ alarm' = IF NeedsAlarm(live') THEN Heartbeat ELSE None
  /\ UNCHANGED faults

----------------------------------------------------------------------------
(* The platform *)

(* Memory is lost, the WebSockets and the alarm stay.  A stream keeps the  *)
(* object awake.                                                           *)
Hibernate ==
  /\ reads = {} /\ live \cap Of("sse") = {} /\ live \cap Of("lp") # {}
  /\ live' = live \cap Of("ws")
  /\ Heard(Of("lp"))
  /\ UNCHANGED <<closing, alarm, reads, faults>>

Restart ==
  /\ live # {}
  /\ live' = {} /\ closing' = {} /\ reads' = {}
  /\ Heard(Conns)
  /\ UNCHANGED <<alarm, faults>>

(* Time passes; an alarm that is due and an answer come first.             *)
Tick ==
  /\ alarm # 0 /\ reads = {}
  /\ \/ live # {} \/ alarm # None
  /\ age' = [c \in Conns |-> IF c \in live /\ age[c] < MaxAge THEN age[c] + 1 ELSE age[c]]
  /\ alarm' = IF alarm = None THEN None ELSE alarm - 1
  /\ UNCHANGED <<live, closing, reads, faults>>

Next ==
  \/ \E c \in Conns : Connect(c) \/ SocketSpeaks(c) \/ SocketGone(c) \/ Poll(c) \/ CloseStream(c)
  \/ \E i \in Ids : Post(i) \/ Delete(i)
  \/ \E answer \in {"unset", "set"} : Resume(answer)
  \/ Broadcast \/ Alarm \/ Hibernate \/ Restart \/ Tick

Spec == Init /\ [][Next]_vars

(* Time goes on whatever happens, answers come, the platform runs alarms. *)
Fairness ==
  /\ SF_vars(Tick) /\ WF_vars(Alarm)
  /\ \A answer \in {"unset", "set"} : WF_vars(Resume(answer))
FairSpec == Spec /\ Fairness

----------------------------------------------------------------------------
(* Properties *)

(* As long as a connection is left, the next alarm is set or about to be,  *)
(* so that it is pinged and, once silent, closed: through hibernation,     *)
(* restarts and alarms that find nobody (SyncClipboardHub.ts:12, 775-786). *)
Attended == live # {} => alarm # None \/ "unset" \in reads

(* A silent connection is closed by the second alarm after IDLE_TIMEOUT at *)
(* the latest, and one alarm later for each read of the alarm that failed  *)
(* (SyncClipboardHub.ts:58-61, 815).                                       *)
SilenceBounded ==
  \A c \in live \ closing : age[c] <= IdleLimit + Heartbeat * (faults + 1)

(* Connections that come and go never put the alarm off for ever           *)
(* (SyncClipboardHub.ts:772-774).                                          *)
PingsContinue == live # {} ~> alarm = 0 \/ live = {}

(* When the last connection is gone for good the alarm stops, and the      *)
(* object may be evicted (SyncClipboardHub.ts:740, 776).                   *)
StopsWhenAlone == <>[](live = {}) => <>[](alarm = None)
=============================================================================
