----------------------------- MODULE HubProofs ------------------------------
(* Theorems about the durable object, checked by TLAPS: HubHeartbeat for   *)
(* any number of connections, every heartbeat and every limit on silence,  *)
(* and LongPoll for any number of tokens, polls and messages, and every    *)
(* limit on the queue.                                                     *)
EXTENDS HubHeartbeat, LongPoll, SequenceTheorems, TLAPS

----------------------------------------------------------------------------
(* HubHeartbeat: types *)

(* Scheduling only adds answers, adds "unset" when no alarm is set, and    *)
(* otherwise adds it only at the price of a failed read.                   *)
LEMMA ScheduleEffect ==
  ASSUME TypeOK, NEW conns \in SUBSET Conns, Schedule(conns)
  PROVE  /\ reads \subseteq reads' /\ reads' \subseteq {"unset", "set"}
         /\ faults' \in 0..MaxFaults
         /\ conns # {} /\ alarm = None => "unset" \in reads'
         /\ \/ faults' = faults + 1
            \/ faults' = faults /\ ("unset" \in reads' => "unset" \in reads \/ alarm = None)
<1>1. MaxFaults \in Nat BY ConstantsAssumption
<1>2. CASE conns = {} BY <1>1, <1>2 DEF Schedule, HasClients, TypeOK
<1>3. CASE faults' = faults + 1 /\ faults < MaxFaults /\ reads' = reads \cup {"unset"}
  BY <1>1, <1>3 DEF TypeOK
<1>4. CASE UNCHANGED faults /\ alarm = None /\ reads' = reads \cup {"unset"}
  BY <1>1, <1>4 DEF TypeOK
<1>5. CASE UNCHANGED faults /\ alarm # None /\ reads' = reads \cup {"set"}
  BY <1>1, <1>5 DEF TypeOK
<1> QED BY <1>2, <1>3, <1>4, <1>5 DEF Schedule, HasClients

(* What is heard of has age 0.                                             *)
LEMMA HeardEffect ==
  ASSUME TypeOK, NEW conns, Heard(conns)
  PROVE  /\ age' \in [Conns -> 0..MaxAge]
         /\ \A c \in Conns : age'[c] = IF c \in conns THEN 0 ELSE age[c]
  BY ConstantsAssumption DEF TypeOK, Heard

(* The kinds are told apart.                                               *)
LEMMA KindsDiffer ==
  /\ \A kind \in Kinds : Of(kind) \subseteq Conns
  /\ Of("ws") \cap Of("sse") = {} /\ Of("ws") \cap Of("lp") = {} /\ Of("sse") \cap Of("lp") = {}
  /\ \A i \in Ids : <<"sse", i>> \in Of("sse") /\ <<"lp", i>> \in Of("lp")
  BY DEF Of, Conns, Kinds

(* Every action keeps the types.                                           *)
LEMMA TypeStep == ASSUME TypeOK, [Next]_vars PROVE TypeOK'
<1> USE ConstantsAssumption
<1>1. CASE UNCHANGED vars BY <1>1 DEF vars, TypeOK
<1>2. ASSUME NEW c \in Conns, Connect(c) PROVE TypeOK'
  <2>1. live' \in SUBSET Conns BY <1>2 DEF Connect, TypeOK
  <2> QED BY <1>2, <2>1, ScheduleEffect, HeardEffect DEF Connect, TypeOK
<1>3. ASSUME NEW c \in Conns, SocketSpeaks(c) PROVE TypeOK'
  BY <1>3, HeardEffect DEF SocketSpeaks, Reply, TypeOK
<1>4. ASSUME NEW c \in Conns, SocketGone(c) PROVE TypeOK'
  <2>1. live \in SUBSET Conns /\ live' \in SUBSET Conns BY <1>4 DEF SocketGone, TypeOK
  <2>2. PICK counted \in {live, live'} : Schedule(counted) BY <1>4 DEF SocketGone
  <2> QED BY <1>4, <2>1, <2>2, ScheduleEffect, HeardEffect DEF SocketGone, TypeOK
<1>5. ASSUME NEW c \in Conns, Poll(c) PROVE TypeOK'
  BY <1>5, HeardEffect DEF Poll, TypeOK
<1>6. ASSUME NEW c \in Conns, CloseStream(c) PROVE TypeOK'
  <2>1. live' \in SUBSET Conns BY <1>6 DEF CloseStream, TypeOK
  <2> QED BY <1>6, <2>1, KindsDiffer, ScheduleEffect, HeardEffect DEF CloseStream, TypeOK
<1>7. ASSUME NEW i \in Ids, Delete(i) PROVE TypeOK'
  <2> DEFINE counted == live \ {IF <<"lp", i>> \in live THEN <<"lp", i>> ELSE <<"sse", i>>}
  <2>1. counted \in SUBSET Conns /\ Schedule(counted) BY <1>7 DEF Delete, TypeOK
  <2>2. /\ live' = live \ {<<"lp", i>>, <<"sse", i>>} /\ UNCHANGED <<closing, alarm>>
        /\ Heard({<<"lp", i>>, <<"sse", i>>})
    BY <1>7 DEF Delete
  <2> HIDE DEF counted
  <2> QED BY <2>1, <2>2, KindsDiffer, ScheduleEffect, HeardEffect DEF TypeOK
<1>8. ASSUME NEW i \in Ids, Post(i) PROVE TypeOK'
  <2>1. PICK conns \in SUBSET Conns :
          live' = live \cup conns /\ Heard(conns) /\ UNCHANGED <<closing, alarm, reads, faults>>
    BY <1>8, KindsDiffer DEF Post, Kinds
  <2> QED BY <2>1, HeardEffect DEF TypeOK
<1>9. ASSUME NEW answer \in {"unset", "set"}, Resume(answer) PROVE TypeOK'
  BY <1>9 DEF Resume, TypeOK
<1>10. CASE Broadcast
  BY <1>10, ScheduleEffect DEF Broadcast, TypeOK
<1>11. CASE Alarm
  <2>1. live' \subseteq live /\ closing' \subseteq live' \cap Of("ws")
    BY <1>11 DEF Alarm, Lingering, TypeOK
  <2>2. age' \in [Conns -> 0..MaxAge] BY <1>11, HeardEffect DEF Alarm
  <2>3. /\ reads' \subseteq {"unset", "set"} /\ faults' = faults
        /\ alarm' \in {Heartbeat, None}
    BY <1>11 DEF Alarm, TypeOK
  <2> QED BY <2>1, <2>2, <2>3 DEF TypeOK
<1>12. CASE Hibernate
  BY <1>12, HeardEffect DEF Hibernate, TypeOK
<1>13. CASE Restart BY <1>13, HeardEffect DEF Restart, TypeOK
<1>14. CASE Tick
  <2>1. age' \in [Conns -> 0..MaxAge] BY <1>14 DEF Tick, TypeOK
  <2>2. alarm' \in 0..Heartbeat \cup {None} BY <1>14 DEF Tick, TypeOK
  <2> QED BY <1>14, <2>1, <2>2 DEF Tick, TypeOK
<1> QED BY <1>1, <1>2, <1>3, <1>4, <1>5, <1>6, <1>7, <1>8, <1>9, <1>10, <1>11, <1>12, <1>13,
           <1>14 DEF Next

(* Type correctness, for every value of the constants.                     *)
THEOREM Typing == Spec => []TypeOK
<1>1. Init => TypeOK BY ConstantsAssumption DEF Init, TypeOK
<1> QED BY <1>1, TypeStep, PTL DEF Spec

----------------------------------------------------------------------------
(* The alarm is always on its way *)

(* A client speaks only on a connection its first GET has made.            *)
Orderly == ~EarlyPosts

(* Every action keeps Attended.                                            *)
LEMMA AttendedStep == ASSUME Orderly, TypeOK, Attended, [Next]_vars PROVE Attended'
<1> USE ConstantsAssumption DEF Attended
<1>1. CASE UNCHANGED vars BY <1>1 DEF vars
<1>2. ASSUME NEW c \in Conns, Connect(c) PROVE Attended'
  <2>1. live' \in SUBSET Conns /\ Schedule(live') /\ alarm' = alarm BY <1>2 DEF Connect, TypeOK
  <2> QED BY <2>1, ScheduleEffect
<1>3. ASSUME NEW c \in Conns, SocketSpeaks(c) \/ Poll(c) PROVE Attended'
  BY <1>3 DEF SocketSpeaks, Reply, Poll
<1>4. ASSUME NEW c \in Conns, SocketGone(c) PROVE Attended'
  <2>1. live \in SUBSET Conns /\ live' \subseteq live /\ alarm' = alarm
    BY <1>4 DEF SocketGone, TypeOK
  <2>2. PICK counted \in {live, live'} : Schedule(counted) BY <1>4 DEF SocketGone
  <2> QED BY <2>1, <2>2, ScheduleEffect
<1>5. ASSUME NEW c \in Conns, CloseStream(c) PROVE Attended'
  <2>1. live' \in SUBSET Conns /\ Schedule(live') /\ alarm' = alarm
    BY <1>5 DEF CloseStream, TypeOK
  <2> QED BY <2>1, ScheduleEffect
<1>6. ASSUME NEW i \in Ids, Delete(i) PROVE Attended'
  <2> DEFINE counted == live \ {IF <<"lp", i>> \in live THEN <<"lp", i>> ELSE <<"sse", i>>}
  <2>1. counted \in SUBSET Conns /\ Schedule(counted) BY <1>6 DEF Delete, TypeOK
  <2>2. live' \subseteq live /\ alarm' = alarm BY <1>6 DEF Delete
  <2> HIDE DEF counted
  <2> QED BY <2>1, <2>2, ScheduleEffect
<1>7. ASSUME NEW i \in Ids, Post(i) PROVE Attended'
  BY <1>7 DEF Post, Orderly
<1>8. ASSUME NEW answer \in {"unset", "set"}, Resume(answer) PROVE Attended'
  BY <1>8 DEF Resume, MustSet, TypeOK
<1>9. CASE Broadcast
  BY <1>9, ScheduleEffect DEF Broadcast, TypeOK
<1>10. CASE Alarm
  BY <1>10 DEF Alarm, NeedsAlarm, HasClients
<1>11. CASE Hibernate BY <1>11 DEF Hibernate
<1>12. CASE Restart BY <1>12 DEF Restart
<1>13. CASE Tick BY <1>13 DEF Tick, TypeOK
<1> QED BY <1>1, <1>2, <1>3, <1>4, <1>5, <1>6, <1>7, <1>8, <1>9, <1>10, <1>11, <1>12, <1>13
        DEF Next

(* No connection is left without an alarm: as long as every connection is  *)
(* made by its own GET, whatever hibernates, restarts or fails.            *)
THEOREM NobodyForgotten == ASSUME Orderly PROVE Spec => []Attended
<1>1. Init => TypeOK /\ Attended BY ConstantsAssumption DEF Init, TypeOK, Attended
<1>2. TypeOK /\ Attended /\ [Next]_vars => TypeOK' /\ Attended' BY TypeStep, AttendedStep
<1> QED BY <1>1, <1>2, PTL DEF Spec

----------------------------------------------------------------------------
(* Silence *)

(* What the failed reads may add.                                          *)
Slack == Heartbeat * faults

(* Without an alarm there is nothing to wait for; before an alarm no open  *)
(* connection can reach the bound by the time it comes; and an answer that *)
(* will put the alarm off leaves room for one more heartbeat.              *)
SilenceInv ==
  /\ TypeOK /\ Attended
  /\ \A c \in Conns \ live : age[c] = 0
  /\ alarm = None => \A c \in Conns : age[c] = 0
  /\ alarm # None => \A c \in live \ closing : age[c] + alarm <= IdleLimit + Slack + Heartbeat
  /\ "unset" \in reads => \A c \in live \ closing : age[c] <= IdleLimit + Slack

(* The slack grows by one heartbeat with each failed read.                 *)
LEMMA SlackGrows ==
  ASSUME TypeOK, TypeOK'
  PROVE  /\ Slack \in Nat /\ Slack' \in Nat
         /\ Heartbeat * (faults + 1) = Slack + Heartbeat
         /\ faults' = faults => Slack' = Slack
         /\ faults' = faults + 1 => Slack' = Slack + Heartbeat
<1>1. Heartbeat \in Nat /\ faults \in Nat /\ faults' \in Nat
  BY ConstantsAssumption DEF TypeOK
<1>2. \A m \in Nat : Heartbeat * m \in Nat /\ Heartbeat * (m + 1) = Heartbeat * m + Heartbeat
  BY <1>1
<1> QED BY <1>1, <1>2 DEF Slack

(* Actions in which connections only fall silent, speak, come or go, and   *)
(* which may schedule: the time left is as before, or longer by a fault.   *)
LEMMA MildStep ==
  ASSUME SilenceInv, TypeOK', Attended', NEW heard \in SUBSET Conns, Heard(heard), alarm' = alarm,
         live' \ closing' \subseteq (live \ closing) \cup heard,
         live \ live' \subseteq heard,
         \/ faults' = faults + 1
         \/ faults' = faults /\ ("unset" \in reads' => "unset" \in reads \/ alarm = None)
  PROVE  SilenceInv'
<1>1. \A c \in Conns : age'[c] = IF c \in heard THEN 0 ELSE age[c]
  BY HeardEffect DEF SilenceInv
<1>2. alarm \in 0..Heartbeat \cup {None} /\ Heartbeat \in Nat \ {0} /\ IdleLimit \in Nat
      /\ None \notin Nat
  BY ConstantsAssumption DEF SilenceInv, TypeOK
<1>3. \A c \in Conns : age[c] \in Nat /\ age'[c] \in Nat
  BY ConstantsAssumption DEF SilenceInv, TypeOK
<1>4. Slack \in Nat /\ (Slack' = Slack \/ Slack' = Slack + Heartbeat)
      /\ (faults' = faults => Slack' = Slack)
      /\ (faults' = faults + 1 => Slack' = Slack + Heartbeat)
  BY SlackGrows DEF SilenceInv
<1>5. live \subseteq Conns /\ live' \subseteq Conns BY DEF SilenceInv, TypeOK
<1>6. \A c \in Conns \ live' : age'[c] = 0 BY <1>1 DEF SilenceInv
<1>7. alarm' = None => \A c \in Conns : age'[c] = 0 BY <1>1 DEF SilenceInv
<1>8. alarm' # None =>
        \A c \in live' \ closing' : age'[c] + alarm' <= IdleLimit + Slack' + Heartbeat
  <2> SUFFICES ASSUME alarm # None, NEW c \in live' \ closing'
               PROVE  age'[c] + alarm <= IdleLimit + Slack' + Heartbeat
    OBVIOUS
  <2>1. CASE c \in heard BY <1>1, <1>2, <1>4, <1>5, <2>1
  <2>2. CASE c \notin heard
    <3>1. age'[c] = age[c] /\ age[c] + alarm <= IdleLimit + Slack + Heartbeat
      BY <1>1, <1>5, <2>2 DEF SilenceInv
    <3> QED BY <1>2, <1>3, <1>4, <1>5, <3>1
  <2> QED BY <2>1, <2>2
<1>9. "unset" \in reads' => \A c \in live' \ closing' : age'[c] <= IdleLimit + Slack'
  <2> SUFFICES ASSUME "unset" \in reads', NEW c \in live' \ closing'
               PROVE  age'[c] <= IdleLimit + Slack'
    OBVIOUS
  <2>1. CASE c \in heard \/ alarm = None BY <1>1, <1>2, <1>4, <1>5, <1>7, <2>1
  <2>2. CASE c \notin heard /\ alarm # None
    <3>1. age'[c] = age[c] /\ c \in live \ closing BY <1>1, <1>5, <2>2
    <3>2. CASE faults' = faults + 1
      BY <1>2, <1>3, <1>4, <1>5, <2>2, <3>1, <3>2 DEF SilenceInv
    <3>3. CASE "unset" \in reads /\ faults' = faults
      BY <1>4, <3>1, <3>3 DEF SilenceInv
    <3> QED BY <2>2, <3>2, <3>3
  <2> QED BY <2>1, <2>2
<1> QED BY <1>6, <1>7, <1>8, <1>9 DEF SilenceInv

(* Every action keeps the bound on silence.                                *)
LEMMA SilenceStep == ASSUME Orderly, SilenceInv, [Next]_vars PROVE SilenceInv'
<1>0. TypeOK /\ TypeOK' /\ Attended /\ Attended'
  BY TypeStep, AttendedStep DEF SilenceInv
<1>15. /\ IdleLimit \in Nat /\ Heartbeat \in Nat \ {0} /\ None \notin Nat
      /\ Slack \in Nat /\ (faults' = faults => Slack' = Slack)
      /\ \A c \in Conns : age[c] \in Nat
  BY <1>0, ConstantsAssumption, SlackGrows DEF TypeOK
<1>16. live \subseteq Conns /\ closing \subseteq live BY <1>0 DEF TypeOK
<1>1. CASE UNCHANGED vars BY <1>1 DEF vars, SilenceInv, TypeOK, Attended, Slack
<1>2. ASSUME NEW c \in Conns, Connect(c) PROVE SilenceInv'
  <2>1. /\ live' = live \cup {c} /\ Schedule(live') /\ Heard({c}) /\ UNCHANGED <<closing, alarm>>
    BY <1>2 DEF Connect
  <2>2. \/ faults' = faults + 1
        \/ faults' = faults /\ ("unset" \in reads' => "unset" \in reads \/ alarm = None)
    BY <1>0, <1>16, <2>1, ScheduleEffect
  <2> QED BY <1>0, <1>16, <2>1, <2>2, MildStep
<1>3. ASSUME NEW c \in Conns, SocketSpeaks(c) PROVE SilenceInv'
  <2>1. /\ UNCHANGED <<live, alarm, reads, faults>> /\ Heard({c}) /\ closing \subseteq closing'
    BY <1>3 DEF SocketSpeaks, Reply
  <2> QED BY <1>0, <2>1, MildStep
<1>4. ASSUME NEW c \in Conns, SocketGone(c) PROVE SilenceInv'
  <2>1. /\ live' = live \ {c} /\ closing' = closing \ {c} /\ Heard({c}) /\ UNCHANGED alarm
    BY <1>4 DEF SocketGone
  <2>2. PICK counted \in {live, live'} : Schedule(counted) BY <1>4 DEF SocketGone
  <2>3. \/ faults' = faults + 1
        \/ faults' = faults /\ ("unset" \in reads' => "unset" \in reads \/ alarm = None)
    BY <1>0, <1>16, <2>1, <2>2, ScheduleEffect
  <2> QED BY <1>0, <2>1, <2>3, MildStep
<1>5. ASSUME NEW c \in Conns, Poll(c) PROVE SilenceInv'
  <2>1. Heard({c}) /\ UNCHANGED <<live, closing, alarm, reads, faults>> BY <1>5 DEF Poll
  <2> QED BY <1>0, <2>1, MildStep
<1>6. ASSUME NEW c \in Conns, CloseStream(c) PROVE SilenceInv'
  <2>1. /\ live' = live \ {c} /\ Schedule(live') /\ Heard({c}) /\ UNCHANGED <<closing, alarm>>
    BY <1>6 DEF CloseStream
  <2>2. \/ faults' = faults + 1
        \/ faults' = faults /\ ("unset" \in reads' => "unset" \in reads \/ alarm = None)
    BY <1>0, <1>16, <2>1, ScheduleEffect
  <2> QED BY <1>0, <2>1, <2>2, MildStep
<1>7. ASSUME NEW i \in Ids, Delete(i) PROVE SilenceInv'
  <2> DEFINE counted == live \ {IF <<"lp", i>> \in live THEN <<"lp", i>> ELSE <<"sse", i>>}
             heard == {<<"lp", i>>, <<"sse", i>>}
  <2>1. counted \in SUBSET Conns /\ Schedule(counted) BY <1>7, <1>16 DEF Delete
  <2>2. /\ live' = live \ heard /\ UNCHANGED <<closing, alarm>> /\ Heard(heard)
    BY <1>7 DEF Delete
  <2>3. heard \in SUBSET Conns BY KindsDiffer DEF Kinds
  <2> HIDE DEF counted, heard
  <2>4. \/ faults' = faults + 1
        \/ faults' = faults /\ ("unset" \in reads' => "unset" \in reads \/ alarm = None)
    BY <1>0, <2>1, ScheduleEffect
  <2> QED BY <1>0, <2>2, <2>3, <2>4, MildStep
<1>8. ASSUME NEW i \in Ids, Post(i) PROVE SilenceInv'
  <2>1. PICK conns \in SUBSET Conns :
          live' = live \cup conns /\ Heard(conns) /\ UNCHANGED <<closing, alarm, reads, faults>>
    BY <1>8, KindsDiffer DEF Post, Kinds
  <2> QED BY <1>0, <2>1, MildStep
<1>9. ASSUME NEW answer \in {"unset", "set"}, Resume(answer) PROVE SilenceInv'
  <2>1. reads' = reads \ {answer} /\ UNCHANGED <<live, closing, age, faults>> BY <1>9 DEF Resume
  <2>2. CASE answer = "set"
    <3>1. alarm' = alarm BY <1>9, <2>2 DEF Resume, MustSet
    <3> QED BY <1>0, <1>15, <2>1, <3>1 DEF SilenceInv
  <2>3. CASE answer = "unset"
    <3>1. alarm' = Heartbeat /\ "unset" \in reads BY <1>9, <2>3 DEF Resume, MustSet
    <3>2. \A c \in live' \ closing' : age'[c] + alarm' <= IdleLimit + Slack' + Heartbeat
      <4> SUFFICES ASSUME NEW c \in live \ closing
                   PROVE  age[c] + Heartbeat <= IdleLimit + Slack + Heartbeat
        BY <1>15, <2>1, <3>1
      <4>1. age[c] <= IdleLimit + Slack BY <3>1 DEF SilenceInv
      <4> QED BY <1>15, <1>16, <4>1
    <3> QED BY <1>0, <1>15, <2>1, <2>3, <3>1, <3>2 DEF SilenceInv
  <2> QED BY <2>2, <2>3
<1>10. CASE Broadcast
  <2>1. UNCHANGED <<live, age, alarm>> /\ closing \subseteq closing' BY <1>10 DEF Broadcast
  <2>2. Heard({}) BY <1>0, <2>1 DEF Heard, TypeOK
  <2>3. \/ faults' = faults + 1
        \/ faults' = faults /\ ("unset" \in reads' => "unset" \in reads \/ alarm = None)
    BY <1>0, <1>10, <1>16, ScheduleEffect DEF Broadcast
  <2> QED BY <1>0, <2>1, <2>2, <2>3, MildStep
<1>11. CASE Alarm
  <2> DEFINE idle == {c \in live : Idle(c)}
             gone == idle \ Of("ws")
  <2>1. /\ live' = live \ gone /\ closing \cup (idle \cap Of("ws")) \subseteq closing'
        /\ Heard(gone) /\ faults' = faults
        /\ alarm' = IF live' # {} THEN Heartbeat ELSE None
    BY <1>11 DEF Alarm, Lingering, NeedsAlarm, HasClients
  <2>2. \A c \in Conns : age'[c] = IF c \in gone THEN 0 ELSE age[c]
    BY <1>0, <2>1, HeardEffect
  <2>3. \A c \in Conns \ live' : age'[c] = 0 BY <2>1, <2>2 DEF SilenceInv
  <2>4. \A c \in live' \ closing' : age'[c] <= IdleLimit
    <3> SUFFICES ASSUME NEW c \in live' \ closing' PROVE age'[c] <= IdleLimit OBVIOUS
    <3>1. c \in live /\ c \notin idle BY <2>1
    <3>2. ~(age[c] > IdleLimit) BY <3>1 DEF Idle
    <3> QED BY <1>15, <1>16, <2>2, <3>1, <3>2
  <2>5. \A c \in live' \ closing' : age'[c] \in Nat BY <1>0, ConstantsAssumption DEF TypeOK
  <2>6. Slack' = Slack BY <1>15, <2>1
  <2>7. alarm' # None =>
          \A c \in live' \ closing' : age'[c] + alarm' <= IdleLimit + Slack' + Heartbeat
    <3> SUFFICES ASSUME alarm' = Heartbeat, NEW c \in live' \ closing'
                 PROVE  age'[c] + Heartbeat <= IdleLimit + Slack + Heartbeat
      BY <2>1, <2>6
    <3> HIDE DEF idle, gone
    <3> QED BY <1>15, <2>4, <2>5
  <2>8. "unset" \in reads' => \A c \in live' \ closing' : age'[c] <= IdleLimit + Slack'
    <3> HIDE DEF idle, gone
    <3> QED BY <1>15, <2>4, <2>5, <2>6
  <2>9. alarm' = None => \A c \in Conns : age'[c] = 0 BY <1>15, <2>1, <2>3
  <2> QED BY <1>0, <2>3, <2>7, <2>8, <2>9 DEF SilenceInv
<1>12. CASE Hibernate
  <2>1. /\ live' = live \cap Of("ws") /\ Heard(Of("lp")) /\ live \cap Of("sse") = {}
        /\ UNCHANGED <<closing, alarm, reads, faults>>
    BY <1>12 DEF Hibernate
  <2>2. live \ live' \subseteq Of("lp") BY <1>16, <2>1 DEF Conns, Kinds, Of
  <2> QED BY <1>0, <2>1, <2>2, KindsDiffer, MildStep DEF Kinds
<1>13. CASE Restart
  <2>1. live' = {} /\ Heard(Conns) /\ UNCHANGED <<alarm, faults>> /\ reads' = {}
    BY <1>13 DEF Restart
  <2> QED BY <1>0, <1>16, <2>1, MildStep
<1>14. CASE Tick
  <2>1. /\ alarm # 0 /\ reads = {} /\ UNCHANGED <<live, closing, reads, faults>>
        /\ alarm' = IF alarm = None THEN None ELSE alarm - 1
    BY <1>14 DEF Tick
  <2>2. \A c \in Conns : age'[c] = IF c \in live /\ age[c] < MaxAge THEN age[c] + 1 ELSE age[c]
    BY <1>14 DEF Tick
  <2>3. alarm # None
    BY <1>14, <1>0, <2>1 DEF Attended, Tick
  <2>4. alarm \in Nat /\ alarm' = alarm - 1 BY <1>0, <1>15, <2>1, <2>3 DEF TypeOK
  <2>5. \A c \in live' \ closing' : age'[c] + alarm' <= IdleLimit + Slack' + Heartbeat
    <3> SUFFICES ASSUME NEW c \in live \ closing
                 PROVE  age'[c] + alarm' <= IdleLimit + Slack + Heartbeat
      BY <1>15, <2>1
    <3>1. age[c] + alarm <= IdleLimit + Slack + Heartbeat BY <2>3 DEF SilenceInv
    <3>2. age'[c] <= age[c] + 1 /\ age[c] \in Nat /\ age'[c] \in Nat BY <1>15, <1>16, <2>2
    <3> QED BY <1>15, <2>4, <3>1, <3>2
  <2>6. \A c \in Conns \ live' : age'[c] = 0 BY <2>1, <2>2 DEF SilenceInv
  <2>7. alarm' # None BY <1>0, <1>15, <2>1, <2>4
  <2> QED BY <1>0, <2>1, <2>5, <2>6, <2>7 DEF SilenceInv
<1> QED BY <1>1, <1>2, <1>3, <1>4, <1>5, <1>6, <1>7, <1>8, <1>9, <1>10, <1>11, <1>12, <1>13,
           <1>14 DEF Next

(* No open connection is silent for longer than the limit and a heartbeat, *)
(* and one more heartbeat for each read of the alarm that failed.          *)
THEOREM SilenceEnds == ASSUME Orderly PROVE Spec => []SilenceBounded
<1>1. Init => SilenceInv
  BY ConstantsAssumption DEF Init, SilenceInv, TypeOK, Attended
<1>2. SilenceInv /\ [Next]_vars => SilenceInv' BY SilenceStep
<1>3. SilenceInv => SilenceBounded
  <2> SUFFICES ASSUME SilenceInv, NEW c \in live \ closing
               PROVE  age[c] <= IdleLimit + Heartbeat * (faults + 1)
    BY DEF SilenceBounded
  <2>1. Heartbeat * (faults + 1) = Slack + Heartbeat /\ Slack \in Nat
    <3>1. Heartbeat \in Nat /\ faults \in Nat BY ConstantsAssumption DEF SilenceInv, TypeOK
    <3> QED BY <3>1 DEF Slack
  <2>2. c \in Conns /\ age[c] \in Nat /\ IdleLimit \in Nat /\ Heartbeat \in Nat
    BY ConstantsAssumption DEF SilenceInv, TypeOK
  <2>3. CASE alarm = None BY <2>1, <2>2, <2>3 DEF SilenceInv
  <2>4. CASE alarm # None
    <3>1. alarm \in Nat BY <2>4 DEF SilenceInv, TypeOK
    <3> QED BY <2>1, <2>2, <2>4, <3>1 DEF SilenceInv
  <2> QED BY <2>3, <2>4
<1> QED BY <1>1, <1>2, <1>3, PTL DEF Spec

----------------------------------------------------------------------------
(* LongPoll: types *)

(* What settling some entries does to each entry and to each poll.         *)
LEMMA SettleEffect ==
  ASSUME PollTypeOK, NEW es \in SUBSET Entries, Settle(es)
  PROVE  /\ pollSeq' \in [Entries -> 0..MaxSeq]
         /\ pending' \in [Entries -> 0..MaxSeq]
         /\ wait' \in [Gets -> (Entries \X (1..MaxSeq)) \cup {None}]
         /\ \A e \in Entries : pending'[e] = IF e \in es THEN 0 ELSE pending[e]
         /\ \A e \in Entries : e \notin es \/ pending[e] = 0 => pollSeq'[e] = pollSeq[e]
         /\ \A g \in Gets : wait'[g] # None => wait'[g] = wait[g] /\ wait[g] \notin Waiting(es)
<1> USE PollAssumption
<1>1. pollSeq' \in [Entries -> 0..MaxSeq] BY DEF Settle, PollTypeOK
<1>2. pending' \in [Entries -> 0..MaxSeq] BY DEF Settle, PollTypeOK
<1>3. wait' = [g \in Gets |-> IF wait[g] \in Waiting(es) THEN None ELSE wait[g]]
  BY DEF Settle, Answer
<1>4. wait' \in [Gets -> (Entries \X (1..MaxSeq)) \cup {None}] BY <1>3 DEF PollTypeOK
<1>5. \A e \in Entries : pending'[e] = IF e \in es THEN 0 ELSE pending[e] BY DEF Settle
<1>6. \A e \in Entries : e \notin es \/ pending[e] = 0 => pollSeq'[e] = pollSeq[e] BY DEF Settle
<1> QED BY <1>1, <1>2, <1>3, <1>4, <1>5, <1>6

(* Who waits, waits for a poll of an entry.                                *)
LEMMA PollOf ==
  ASSUME PollTypeOK, NEW g \in Gets, wait[g] # None
  PROVE  \E e \in Entries, seq \in 1..MaxSeq : wait[g] = <<e, seq>>
<1>1. wait[g] \in Entries \X (1..MaxSeq) BY DEF PollTypeOK
<1> QED BY <1>1

(* A message settles the entries whose polls it answers.                   *)
LEMMA DeliverSettles ==
  ASSUME NEW receivers \in SUBSET Entries, NEW heavy, NEW shut \in SUBSET Entries,
         Deliver(receivers, heavy, shut)
  PROVE  \E es \in SUBSET Entries :
           /\ Settle(es) /\ shut \subseteq es
           /\ \A e \in receivers : pending[e] # 0 => e \in es
<1> DEFINE served == {e \in receivers : pending[e] # 0}
<1>1. Settle(served \cup shut) BY DEF Deliver
<1>2. served \cup shut \in SUBSET Entries OBVIOUS
<1>3. \A e \in receivers : pending[e] # 0 => e \in served OBVIOUS
<1> HIDE DEF served
<1> QED BY <1>1, <1>2, <1>3

(* What a message does, to each entry.                                     *)
LEMMA DeliverEffect ==
  ASSUME PollTypeOK, NEW receivers \in SUBSET Entries, NEW heavy, NEW shut \in SUBSET Entries,
         Deliver(receivers, heavy, shut)
  PROVE  /\ UNCHANGED <<lives, listed, timers>>
         /\ sent' \in [Entries -> 0..MaxSent]
         /\ out' \in [Entries -> Seq(1..MaxSent)]
         /\ queue' \in [Entries -> Seq(1..MaxSent)]
         /\ closed' \in SUBSET Entries /\ closed \subseteq closed'
         /\ \A e \in Entries :
              \/ e \notin receivers /\ sent'[e] = sent[e] /\ out'[e] = out[e] /\ queue'[e] = queue[e]
                 /\ (e \in closed' => e \in closed \/ e \in shut)
              \/ /\ e \in receivers /\ pending[e] # 0 /\ sent'[e] = sent[e] + 1
                 /\ out'[e] = Append(out[e], sent[e] + 1) /\ queue'[e] = queue[e]
                 /\ (e \in closed' => e \in closed \/ e \in shut)
              \/ /\ e \in receivers /\ pending[e] = 0 /\ sent'[e] = sent[e] + 1
                 /\ out'[e] = out[e] /\ queue'[e] = <<>> /\ e \in closed'
              \/ /\ e \in receivers /\ pending[e] = 0 /\ sent'[e] = sent[e] + 1
                 /\ out'[e] = out[e] /\ queue'[e] = Append(queue[e], sent[e] + 1)
                 /\ Len(queue[e]) + 1 <= MaxQueued
<1> USE PollAssumption
<1> DEFINE served == {e \in receivers : pending[e] # 0}
<1> DEFINE full == {e \in receivers \ served : TooLong(e) \/ e \in heavy}
<1>1. /\ UNCHANGED <<lives, listed, timers>>
      /\ \A e \in receivers : sent[e] < MaxSent
      /\ sent' = [e \in Entries |-> IF e \in receivers THEN sent[e] + 1 ELSE sent[e]]
      /\ out' = [e \in Entries |-> IF e \in served THEN Append(out[e], sent[e] + 1) ELSE out[e]]
      /\ queue' = [e \in Entries |->
                     IF e \in full THEN <<>>
                     ELSE IF e \in receivers \ served THEN Append(queue[e], sent[e] + 1) ELSE queue[e]]
      /\ closed' = closed \cup full \cup shut
      /\ Settle(served \cup shut)
  BY DEF Deliver
<1>2. \A e \in Entries : sent[e] \in 0..MaxSent /\ out[e] \in Seq(1..MaxSent) /\ queue[e] \in Seq(1..MaxSent)
  BY DEF PollTypeOK
<1>3. \A e \in receivers : sent[e] + 1 \in 1..MaxSent BY <1>1, <1>2
<1>4. sent' \in [Entries -> 0..MaxSent] BY <1>1, <1>2, <1>3
<1>10. \A e \in receivers : /\ Append(out[e], sent[e] + 1) \in Seq(1..MaxSent)
                            /\ Append(queue[e], sent[e] + 1) \in Seq(1..MaxSent)
  <2> SUFFICES ASSUME NEW e \in receivers
               PROVE  /\ Append(out[e], sent[e] + 1) \in Seq(1..MaxSent)
                      /\ Append(queue[e], sent[e] + 1) \in Seq(1..MaxSent)
    OBVIOUS
  <2>1. out[e] \in Seq(1..MaxSent) /\ queue[e] \in Seq(1..MaxSent) /\ sent[e] + 1 \in 1..MaxSent
    BY <1>2, <1>3
  <2> HIDE DEF served, full
  <2> QED BY <2>1
<1>5. out' \in [Entries -> Seq(1..MaxSent)]
  <2>1. \A e \in Entries : (IF e \in served THEN Append(out[e], sent[e] + 1) ELSE out[e]) \in Seq(1..MaxSent)
    BY <1>2, <1>10
  <2> QED BY <1>1, <2>1
<1>6. queue' \in [Entries -> Seq(1..MaxSent)]
  <2>2. <<>> \in Seq(1..MaxSent) OBVIOUS
  <2>1. \A e \in Entries :
          (IF e \in full THEN <<>>
           ELSE IF e \in receivers \ served THEN Append(queue[e], sent[e] + 1) ELSE queue[e]) \in Seq(1..MaxSent)
    <3> HIDE DEF full, served
    <3> QED BY <1>2, <1>10, <2>2
  <2> HIDE DEF full, served
  <2> QED BY <1>1, <2>1
<1>7. closed' \in SUBSET Entries /\ closed \subseteq closed' BY <1>1 DEF PollTypeOK
<1>9. ASSUME NEW e \in Entries
      PROVE  \/ e \notin receivers /\ sent'[e] = sent[e] /\ out'[e] = out[e] /\ queue'[e] = queue[e]
                /\ (e \in closed' => e \in closed \/ e \in shut)
             \/ /\ e \in receivers /\ pending[e] # 0 /\ sent'[e] = sent[e] + 1
                /\ out'[e] = Append(out[e], sent[e] + 1) /\ queue'[e] = queue[e]
                /\ (e \in closed' => e \in closed \/ e \in shut)
             \/ /\ e \in receivers /\ pending[e] = 0 /\ sent'[e] = sent[e] + 1
                /\ out'[e] = out[e] /\ queue'[e] = <<>> /\ e \in closed'
             \/ /\ e \in receivers /\ pending[e] = 0 /\ sent'[e] = sent[e] + 1
                /\ out'[e] = out[e] /\ queue'[e] = Append(queue[e], sent[e] + 1)
                /\ Len(queue[e]) + 1 <= MaxQueued
  <2>1. CASE e \notin receivers BY <1>1, <2>1
  <2>2. CASE e \in receivers /\ pending[e] # 0 BY <1>1, <2>2
  <2>3. CASE e \in full BY <1>1, <2>3
  <2>4. CASE e \in receivers /\ pending[e] = 0 /\ e \notin full
    <3>1. ~TooLong(e) BY <2>4
    <3>2. Len(queue[e]) + 1 <= MaxQueued BY <1>2, <3>1 DEF TooLong
    <3> QED BY <1>1, <2>4, <3>2
  <2> QED BY <2>1, <2>2, <2>3, <2>4
<1> HIDE DEF full, served
<1> QED BY <1>1, <1>4, <1>5, <1>6, <1>7, <1>9

(* A POST or a first poll makes an entry of a life the token has not had.  *)
LEMMA NewEntryEffect ==
  ASSUME PollTypeOK, NEW i \in Ids, Listed(i) = {}, lives[i] < MaxLives,
         lives' = [lives EXCEPT ![i] = @ + 1],
         listed' = listed \cup {<<i, lives[i] + 1>>}
  PROVE  /\ lives' \in [Ids -> 0..MaxLives]
         /\ listed' \subseteq {e \in Entries : e[2] = lives'[e[1]]}
         /\ <<i, lives[i] + 1>> \in Entries \ listed
<1> USE PollAssumption
<1>1. lives[i] \in 0..MaxLives BY DEF PollTypeOK
<1>2. lives' \in [Ids -> 0..MaxLives] BY <1>1 DEF PollTypeOK
<1>3. <<i, lives[i] + 1>> \in Entries BY <1>1 DEF Entries
<1>4. \A e \in listed : e \in Entries /\ e[1] \in Ids /\ e[1] # i /\ e[2] = lives[e[1]]
  BY DEF PollTypeOK, Listed, Entries
<1>5. \A e \in listed : e[2] = lives'[e[1]] BY <1>4 DEF PollTypeOK
<1>6. lives'[i] = lives[i] + 1 BY DEF PollTypeOK
<1>7. listed' \subseteq {e \in Entries : e[2] = lives'[e[1]]} BY <1>3, <1>4, <1>5, <1>6
<1>8. <<i, lives[i] + 1>> \notin listed BY <1>4
<1> QED BY <1>2, <1>3, <1>7, <1>8

(* A poll that begins to wait is the one its entry knows; of the others    *)
(* those that waited on the entry are answered.                            *)
LEMMA WaitEffect ==
  ASSUME PollTypeOK, NEW g \in Gets, NEW e \in Entries, WaitForMessage(g, e)
  PROVE  /\ wait' \in [Gets -> (Entries \X (1..MaxSeq)) \cup {None}]
         /\ \E seq \in 1..MaxSeq :
              /\ pollSeq' = [pollSeq EXCEPT ![e] = seq]
              /\ pending' = [pending EXCEPT ![e] = seq]
              /\ timers' = timers \cup {<<e, seq>>}
              /\ wait'[g] = <<e, seq>>
         /\ \A h \in Gets \ {g} :
              wait'[h] # None => wait'[h] = wait[h] /\ wait[h] \notin Waiting({e})
<1> USE PollAssumption
<1> DEFINE seq == pollSeq[e] + (IF pending[e] = 0 THEN 1 ELSE 2)
<1>1. seq \in Nat \ {0}
  <2>1. pollSeq[e] \in Nat BY DEF PollTypeOK
  <2>2. CASE pending[e] = 0 BY <2>1, <2>2
  <2>3. CASE pending[e] # 0 BY <2>1, <2>3
  <2> QED BY <2>2, <2>3
<1>2. /\ seq <= MaxSeq
      /\ pollSeq' = [pollSeq EXCEPT ![e] = seq]
      /\ pending' = [pending EXCEPT ![e] = seq]
      /\ timers' = timers \cup {<<e, seq>>}
      /\ wait' = [Answer(Superseded(e)) EXCEPT ![g] = <<e, seq>>]
  BY DEF WaitForMessage
<1> HIDE DEF seq
<1>3. seq \in 1..MaxSeq BY <1>1, <1>2
<1>4. wait' \in [Gets -> (Entries \X (1..MaxSeq)) \cup {None}] BY <1>2, <1>3 DEF Answer, PollTypeOK
<1>5. wait'[g] = <<e, seq>> BY <1>2 DEF Answer
<1>6. \A h \in Gets \ {g} :
        wait'[h] # None => wait'[h] = wait[h] /\ wait[h] \notin Waiting({e})
  BY <1>2 DEF Answer, Superseded
<1> QED BY <1>2, <1>3, <1>4, <1>5, <1>6

(* Every action keeps the types.                                           *)
LEMMA PollTypeStep == ASSUME PollTypeOK, [PollNext]_pollVars PROVE PollTypeOK'
<1> USE PollAssumption
<1>1. CASE UNCHANGED pollVars BY <1>1 DEF pollVars, entries, PollTypeOK
<1>2. ASSUME NEW i \in Ids, FirstPoll(i) PROVE PollTypeOK'
  BY <1>2, NewEntryEffect DEF FirstPoll, NewEntry, PollTypeOK
<1>3. ASSUME NEW e \in Entries, FetchQueue(e) PROVE PollTypeOK'
  <2>1. out[e] \o queue[e] \in Seq(1..MaxSent) BY DEF PollTypeOK
  <2>2. out' \in [Entries -> Seq(1..MaxSent)] BY <1>3, <2>1 DEF FetchQueue, Batch, PollTypeOK
  <2>3. queue' \in [Entries -> Seq(1..MaxSent)]
    <3>1. <<>> \in Seq(1..MaxSent) OBVIOUS
    <3> QED BY <1>3, <3>1 DEF FetchQueue, PollTypeOK
  <2> QED BY <1>3, <2>2, <2>3 DEF FetchQueue, PollTypeOK
<1>4. ASSUME NEW e \in Entries, CloseEntry(e) PROVE PollTypeOK'
  <2>1. {e} \in SUBSET Entries /\ Settle({e}) BY <1>4 DEF CloseEntry
  <2>2. /\ pollSeq' \in [Entries -> 0..MaxSeq] /\ pending' \in [Entries -> 0..MaxSeq]
        /\ wait' \in [Gets -> (Entries \X (1..MaxSeq)) \cup {None}]
    BY <2>1, SettleEffect
  <2>3. listed' \subseteq listed /\ closed' \subseteq Entries BY <1>4 DEF CloseEntry, PollTypeOK
  <2> QED BY <1>4, <2>2, <2>3 DEF CloseEntry, PollTypeOK
<1>5. ASSUME NEW g \in Gets, NEW e \in Entries, WaitForMessage(g, e) PROVE PollTypeOK'
  <2>1. PICK seq \in 1..MaxSeq :
          /\ pollSeq' = [pollSeq EXCEPT ![e] = seq]
          /\ pending' = [pending EXCEPT ![e] = seq]
          /\ timers' = timers \cup {<<e, seq>>}
    BY <1>5, WaitEffect
  <2>2. wait' \in [Gets -> (Entries \X (1..MaxSeq)) \cup {None}] BY <1>5, WaitEffect
  <2>3. UNCHANGED <<lives, listed, queue, closed, held, sent, out>> BY <1>5 DEF WaitForMessage
  <2>4. pollSeq' \in [Entries -> 0..MaxSeq] /\ pending' \in [Entries -> 0..MaxSeq]
    BY <2>1 DEF PollTypeOK
  <2>5. timers' \subseteq Entries \X (1..MaxSeq) BY <2>1 DEF PollTypeOK
  <2> QED BY <2>2, <2>3, <2>4, <2>5 DEF PollTypeOK
<1>6. ASSUME NEW g \in Gets, Abort(g) PROVE PollTypeOK'
  BY <1>6 DEF Abort, entries, PollTypeOK
<1>7. ASSUME NEW e \in Entries, NEW seq \in 1..MaxSeq, Timeout(e, seq) PROVE PollTypeOK'
  <2>1. CASE StillWaits(e, seq)
    <3>3. pending' = [pending EXCEPT ![e] = 0] BY <1>7, <2>1 DEF Timeout
    <3>1. pending' \in [Entries -> 0..MaxSeq] BY <3>3 DEF PollTypeOK
    <3>2. wait' \in [Gets -> (Entries \X (1..MaxSeq)) \cup {None}]
      BY <1>7, <2>1 DEF Timeout, Answer, PollTypeOK
    <3> QED BY <1>7, <3>1, <3>2 DEF Timeout, PollTypeOK
  <2>2. CASE ~StillWaits(e, seq) BY <1>7, <2>2 DEF Timeout, PollTypeOK
  <2> QED BY <2>1, <2>2
<1>8. ASSUME NEW p \in Posts, NEW i \in Ids, PostBegins(p, i) PROVE PollTypeOK'
  <2>1. CASE \E e \in Listed(i) : held' = [held EXCEPT ![p] = e] /\ UNCHANGED entries
    BY <1>8, <2>1 DEF PostBegins, Listed, entries, PollTypeOK
  <2>2. CASE NewEntry(i) /\ held' = [held EXCEPT ![p] = <<i, lives[i] + 1>>]
    BY <1>8, <2>2, NewEntryEffect DEF PostBegins, NewEntry, PollTypeOK
  <2> QED BY <1>8, <2>1, <2>2 DEF PostBegins
<1>9. ASSUME NEW receivers \in SUBSET Entries, NEW heavy, NEW shut \in SUBSET Entries,
             Deliver(receivers, heavy, shut), held' \in [Posts -> Entries \cup {None}]
      PROVE  PollTypeOK'
  <2>1. PICK es \in SUBSET Entries : Settle(es) BY <1>9, DeliverSettles
  <2>2. /\ pollSeq' \in [Entries -> 0..MaxSeq] /\ pending' \in [Entries -> 0..MaxSeq]
        /\ wait' \in [Gets -> (Entries \X (1..MaxSeq)) \cup {None}]
    BY <2>1, SettleEffect
  <2>3. /\ UNCHANGED <<lives, listed, timers>>
        /\ sent' \in [Entries -> 0..MaxSent] /\ out' \in [Entries -> Seq(1..MaxSent)]
        /\ queue' \in [Entries -> Seq(1..MaxSent)] /\ closed' \in SUBSET Entries
    BY <1>9, DeliverEffect
  <2> QED BY <1>9, <2>2, <2>3 DEF PollTypeOK
<1>10. ASSUME NEW p \in Posts, PostEnds(p) PROVE PollTypeOK'
  <2>1. PICK receivers \in {{}, Listed(held[p][1]) \ closed}, shut \in {{}, {held[p]}}, heavy \in SUBSET listed :
          Deliver(receivers, heavy, shut)
    BY <1>10 DEF PostEnds
  <2>2. receivers \in SUBSET Entries /\ shut \in SUBSET Entries /\ held' \in [Posts -> Entries \cup {None}]
    BY <1>10 DEF PostEnds, Listed, PollTypeOK
  <2> QED BY <1>9, <2>1, <2>2
<1>11. CASE PollBroadcast
  <2>1. PICK heavy \in SUBSET listed : Deliver(listed \ closed, heavy, {}) BY <1>11 DEF PollBroadcast
  <2>2. listed \ closed \in SUBSET Entries /\ held' \in [Posts -> Entries \cup {None}]
    BY <1>11 DEF PollBroadcast, PollTypeOK
  <2> QED BY <1>9, <2>1, <2>2
<1>12. CASE PollRestart BY <1>12 DEF PollRestart, PollTypeOK
<1> QED BY <1>1, <1>2, <1>3, <1>4, <1>5, <1>6, <1>7, <1>8, <1>10, <1>11, <1>12 DEF PollNext

(* Every variable has its type, whatever happens.                          *)
THEOREM PollTyping == PollSpec => []PollTypeOK
<1>1. PollInit => PollTypeOK BY PollAssumption DEF PollInit, PollTypeOK
<1> QED BY <1>1, PollTypeStep, PTL DEF PollSpec

----------------------------------------------------------------------------
(* Those who wait *)

(* The poll an entry knows is its last one; with this, what is said of the *)
(* polls that wait is inductive.                                           *)
Numbered == \A e \in Entries : pending[e] # 0 => pending[e] = pollSeq[e]
PollInv == PollTypeOK /\ WaitersAreReached /\ NoPollIsLost /\ Numbered

(* Settling answers the polls of the entries and leaves the others.        *)
LEMMA SettleKeeps ==
  ASSUME PollInv, NEW es \in SUBSET Entries, Settle(es), UNCHANGED timers
  PROVE  /\ NoPollIsLost' /\ Numbered'
         /\ \A e \in Entries : pending'[e] # 0 => e \notin es /\ pending'[e] = pending[e]
<1>1. \A e \in Entries : pending'[e] # 0 => e \notin es /\ pending'[e] = pending[e]
  BY SettleEffect DEF PollInv
<1>2. Numbered' BY <1>1, SettleEffect DEF PollInv, Numbered
<1>3. ASSUME NEW g \in Gets, wait'[g] # None
      PROVE  pending'[wait'[g][1]] = wait'[g][2] /\ wait'[g] \in timers'
  <2>1. wait'[g] = wait[g] /\ wait[g] \notin Waiting(es) BY <1>3, SettleEffect DEF PollInv
  <2>2. PICK e \in Entries, seq \in 1..MaxSeq : wait[g] = <<e, seq>>
    BY <1>3, <2>1, PollOf DEF PollInv
  <2>3. pending[e] = seq /\ <<e, seq>> \in timers BY <1>3, <2>1, <2>2 DEF PollInv, NoPollIsLost
  <2>4. seq # 0 BY PollAssumption
  <2>5. e \notin es BY <2>1, <2>2, <2>3, <2>4 DEF Waiting
  <2>6. pending'[e] = pending[e] BY <2>5, SettleEffect DEF PollInv
  <2> QED BY <2>1, <2>2, <2>3, <2>6
<1> QED BY <1>1, <1>2, <1>3 DEF NoPollIsLost

(* A message leaves nobody waiting on an entry it closes or queues for.    *)
LEMMA DeliverKeeps ==
  ASSUME PollInv, NEW receivers \in SUBSET Entries, NEW heavy, NEW shut \in SUBSET Entries,
         Deliver(receivers, heavy, shut)
  PROVE  WaitersAreReached' /\ NoPollIsLost' /\ Numbered'
<1>0. PollTypeOK BY DEF PollInv
<1>1. PICK es \in SUBSET Entries :
        /\ Settle(es) /\ shut \subseteq es
        /\ \A e \in receivers : pending[e] # 0 => e \in es
  BY DeliverSettles
<1>2. UNCHANGED <<listed, timers>> BY <1>0, DeliverEffect
<1>3. NoPollIsLost' /\ Numbered' BY <1>1, <1>2, SettleKeeps
<1>4. ASSUME NEW e \in Entries, pending'[e] # 0
      PROVE  e \in listed' \ closed' /\ queue'[e] = <<>>
  <2>1. e \notin es /\ pending[e] # 0 BY <1>1, <1>2, <1>4, SettleKeeps
  <2>2. e \notin receivers /\ e \notin shut BY <1>1, <2>1
  <2>3. queue'[e] = queue[e] /\ (e \in closed' => e \in closed) BY <1>0, <2>2, DeliverEffect
  <2>4. e \in listed \ closed /\ queue[e] = <<>> BY <2>1 DEF PollInv, WaitersAreReached
  <2> QED BY <1>2, <2>3, <2>4
<1> QED BY <1>3, <1>4 DEF WaitersAreReached

(* Every action keeps this.                                                *)
LEMMA PollStep == ASSUME PollInv, [PollNext]_pollVars PROVE PollInv'
<1>0. PollTypeOK' BY PollTypeStep DEF PollInv
<1> SUFFICES WaitersAreReached' /\ NoPollIsLost' /\ Numbered' BY <1>0 DEF PollInv
<1>t. PollTypeOK BY DEF PollInv
<1>1. CASE UNCHANGED pollVars
  BY <1>1 DEF pollVars, entries, PollInv, WaitersAreReached, NoPollIsLost, Numbered
<1>2. ASSUME NEW i \in Ids, NewEntry(i) PROVE WaitersAreReached' /\ NoPollIsLost' /\ Numbered'
  BY <1>2 DEF NewEntry, PollInv, WaitersAreReached, NoPollIsLost, Numbered
<1>3. ASSUME NEW e \in Entries, FetchQueue(e) PROVE WaitersAreReached' /\ NoPollIsLost' /\ Numbered'
  BY <1>3, <1>t DEF FetchQueue, PollTypeOK, PollInv, WaitersAreReached, NoPollIsLost, Numbered
<1>4. ASSUME NEW e \in Entries, CloseEntry(e) PROVE WaitersAreReached' /\ NoPollIsLost' /\ Numbered'
  <2>1. /\ Settle({e}) /\ {e} \in SUBSET Entries /\ UNCHANGED <<queue, timers>>
        /\ listed' = listed \ {e} /\ closed' = closed \cup {e}
    BY <1>4 DEF CloseEntry
  <2>2. NoPollIsLost' /\ Numbered' BY <2>1, SettleKeeps
  <2>3. \A d \in Entries : pending'[d] # 0 => d # e /\ pending[d] # 0 BY <2>1, SettleKeeps
  <2>4. WaitersAreReached' BY <2>1, <2>3 DEF PollInv, WaitersAreReached
  <2> QED BY <2>2, <2>4
<1>5. ASSUME NEW g \in Gets, NEW e \in Entries, WaitForMessage(g, e)
      PROVE  WaitersAreReached' /\ NoPollIsLost' /\ Numbered'
  <2>1. PICK seq \in 1..MaxSeq :
          /\ pollSeq' = [pollSeq EXCEPT ![e] = seq]
          /\ pending' = [pending EXCEPT ![e] = seq]
          /\ timers' = timers \cup {<<e, seq>>}
          /\ wait'[g] = <<e, seq>>
    BY <1>5, <1>t, WaitEffect
  <2>2. UNCHANGED <<listed, queue, closed>> /\ e \in listed \ closed /\ queue[e] = <<>>
    BY <1>5 DEF WaitForMessage, NothingQueued
  <2>3. /\ pending'[e] = seq /\ pollSeq'[e] = seq
        /\ \A d \in Entries \ {e} : pending'[d] = pending[d] /\ pollSeq'[d] = pollSeq[d]
    BY <2>1, <1>t DEF PollTypeOK
  <2>4. WaitersAreReached' BY <2>2, <2>3 DEF PollInv, WaitersAreReached
  <2>5. Numbered' BY <2>3 DEF PollInv, Numbered
  <2>6. ASSUME NEW h \in Gets \ {g}, wait'[h] # None
        PROVE  pending'[wait'[h][1]] = wait'[h][2] /\ wait'[h] \in timers'
    <3>1. wait'[h] = wait[h] /\ wait[h] \notin Waiting({e}) BY <1>5, <1>t, <2>6, WaitEffect
    <3>2. PICK d \in Entries, old \in 1..MaxSeq : wait[h] = <<d, old>>
      BY <1>t, <2>6, <3>1, PollOf
    <3>3. pending[d] = old /\ <<d, old>> \in timers /\ old # 0
      BY <2>6, <3>1, <3>2, PollAssumption DEF PollInv, NoPollIsLost
    <3>4. d # e BY <3>1, <3>2, <3>3 DEF Waiting
    <3> QED BY <2>1, <2>3, <3>1, <3>2, <3>3, <3>4
  <2>7. NoPollIsLost' BY <2>1, <2>3, <2>6 DEF NoPollIsLost
  <2> QED BY <2>4, <2>5, <2>7
<1>6. ASSUME NEW g \in Gets, Abort(g) PROVE WaitersAreReached' /\ NoPollIsLost' /\ Numbered'
  BY <1>6, <1>t DEF Abort, entries, PollTypeOK, PollInv, WaitersAreReached, NoPollIsLost, Numbered
<1>7. ASSUME NEW e \in Entries, NEW seq \in 1..MaxSeq, Timeout(e, seq)
      PROVE  WaitersAreReached' /\ NoPollIsLost' /\ Numbered'
  <2>1. timers' = timers \ {<<e, seq>>} /\ UNCHANGED <<listed, queue, closed, pollSeq>>
    BY <1>7 DEF Timeout
  <2>2. CASE StillWaits(e, seq)
    <3>1. pending' = [pending EXCEPT ![e] = 0] /\ wait' = Answer({<<e, seq>>})
      BY <1>7, <2>2 DEF Timeout
    <3>2. pending'[e] = 0 /\ \A d \in Entries \ {e} : pending'[d] = pending[d]
      BY <3>1, <1>t DEF PollTypeOK
    <3>3. pending[e] = seq BY <2>2 DEF StillWaits
    <3>4. WaitersAreReached' /\ Numbered' BY <2>1, <3>2 DEF PollInv, WaitersAreReached, Numbered
    <3>5. ASSUME NEW g \in Gets, wait'[g] # None
          PROVE  pending'[wait'[g][1]] = wait'[g][2] /\ wait'[g] \in timers'
      <4>1. wait'[g] = wait[g] /\ wait[g] # <<e, seq>> BY <3>1, <3>5 DEF Answer
      <4>2. PICK d \in Entries, old \in 1..MaxSeq : wait[g] = <<d, old>>
        BY <1>t, <3>5, <4>1, PollOf
      <4>3. pending[d] = old /\ <<d, old>> \in timers BY <3>5, <4>1, <4>2 DEF PollInv, NoPollIsLost
      <4>4. d # e BY <3>3, <4>1, <4>2, <4>3
      <4> QED BY <2>1, <3>2, <4>1, <4>2, <4>3, <4>4
    <3> QED BY <3>4, <3>5 DEF NoPollIsLost
  <2>3. CASE ~StillWaits(e, seq)
    <3>1. UNCHANGED <<pending, wait>> BY <1>7, <2>3 DEF Timeout
    <3>2. WaitersAreReached' /\ Numbered' BY <2>1, <3>1 DEF PollInv, WaitersAreReached, Numbered
    <3>3. pending[e] # seq
      <4>1. seq # 0 BY PollAssumption
      <4> QED BY <2>3, <4>1 DEF StillWaits, PollInv, Numbered
    <3>4. ASSUME NEW g \in Gets, wait[g] # None
          PROVE  pending[wait[g][1]] = wait[g][2] /\ wait[g] \in timers'
      <4>1. pending[wait[g][1]] = wait[g][2] /\ wait[g] \in timers
        BY <3>4 DEF PollInv, NoPollIsLost
      <4>2. wait[g] # <<e, seq>> BY <3>3, <4>1
      <4> QED BY <2>1, <4>1, <4>2
    <3> QED BY <3>1, <3>2, <3>4 DEF NoPollIsLost
  <2> QED BY <2>2, <2>3
<1>8. ASSUME NEW p \in Posts, NEW i \in Ids, PostBegins(p, i)
      PROVE  WaitersAreReached' /\ NoPollIsLost' /\ Numbered'
  <2>1. CASE UNCHANGED entries
    BY <1>8, <2>1 DEF PostBegins, entries, PollInv, WaitersAreReached, NoPollIsLost, Numbered
  <2> QED BY <1>2, <1>8, <2>1 DEF PostBegins
<1>9. ASSUME NEW p \in Posts, PostEnds(p) PROVE WaitersAreReached' /\ NoPollIsLost' /\ Numbered'
  <2>1. PICK receivers \in {{}, Listed(held[p][1]) \ closed}, shut \in {{}, {held[p]}}, heavy \in SUBSET listed :
          Deliver(receivers, heavy, shut)
    BY <1>9 DEF PostEnds
  <2>2. receivers \in SUBSET Entries /\ shut \in SUBSET Entries
    BY <1>9, <1>t DEF PostEnds, Listed, PollTypeOK
  <2> QED BY <2>1, <2>2, DeliverKeeps
<1>10. CASE PollBroadcast
  <2>1. PICK heavy \in SUBSET listed : Deliver(listed \ closed, heavy, {}) BY <1>10 DEF PollBroadcast
  <2>2. listed \ closed \in SUBSET Entries BY <1>t DEF PollTypeOK
  <2> QED BY <2>1, <2>2, DeliverKeeps
<1>11. CASE PollRestart BY <1>11 DEF PollRestart, WaitersAreReached, NoPollIsLost, Numbered
<1> QED BY <1>1, <1>2, <1>3, <1>4, <1>5, <1>6, <1>7, <1>8, <1>9, <1>10, <1>11 DEF PollNext, FirstPoll

(* No message is queued past a waiting poll, and no poll waits where none  *)
(* arrives.                                                                *)
THEOREM Reached == PollSpec => []WaitersAreReached
<1>1. PollInit => PollInv
  BY PollAssumption DEF PollInit, PollInv, PollTypeOK, WaitersAreReached, NoPollIsLost, Numbered
<1>2. PollInv => WaitersAreReached BY DEF PollInv
<1> QED BY <1>1, <1>2, PollStep, PTL DEF PollSpec

(* A poll that waits is the one its entry will answer, and its timeout is  *)
(* still to come.                                                          *)
THEOREM StillExpected == PollSpec => []NoPollIsLost
<1>1. PollInit => PollInv
  BY PollAssumption DEF PollInit, PollInv, PollTypeOK, WaitersAreReached, NoPollIsLost, Numbered
<1>2. PollInv => NoPollIsLost BY DEF PollInv
<1> QED BY <1>1, <1>2, PollStep, PTL DEF PollSpec

(* An away client costs no more than the limit, whatever it is.            *)
THEOREM AwayClientsAreBounded == PollSpec => []QueueBounded
<1>1. PollInit => PollTypeOK /\ QueueBounded
  BY PollAssumption DEF PollInit, PollTypeOK, QueueBounded
<1>2. ASSUME PollTypeOK, QueueBounded, [PollNext]_pollVars PROVE QueueBounded'
  <2> USE PollAssumption
  <2>1. ASSUME NEW receivers \in SUBSET Entries, NEW heavy, NEW shut \in SUBSET Entries,
               Deliver(receivers, heavy, shut)
        PROVE  QueueBounded'
    <3> SUFFICES ASSUME NEW e \in Entries PROVE Len(queue'[e]) <= MaxQueued BY DEF QueueBounded
    <3>1. queue[e] \in Seq(1..MaxSent) /\ Len(queue[e]) <= MaxQueued /\ sent[e] \in Nat
      BY <1>2 DEF PollTypeOK, QueueBounded
    <3>2. \/ queue'[e] = queue[e]
          \/ queue'[e] = <<>>
          \/ queue'[e] = Append(queue[e], sent[e] + 1) /\ Len(queue[e]) + 1 <= MaxQueued
      BY <1>2, <2>1, DeliverEffect
    <3>3. Len(Append(queue[e], sent[e] + 1)) = Len(queue[e]) + 1 BY <3>1
    <3>4. Len(<<>>) = 0 OBVIOUS
    <3> QED BY <3>1, <3>2, <3>3, <3>4
  <2>2. ASSUME NEW e \in Entries, FetchQueue(e) PROVE QueueBounded'
    BY <1>2, <2>2 DEF FetchQueue, QueueBounded, PollTypeOK
  <2>3. ASSUME NEW p \in Posts, PostEnds(p) PROVE QueueBounded'
    <3>1. PICK receivers \in {{}, Listed(held[p][1]) \ closed}, shut \in {{}, {held[p]}}, heavy \in SUBSET listed :
            Deliver(receivers, heavy, shut)
      BY <2>3 DEF PostEnds
    <3>2. receivers \in SUBSET Entries /\ shut \in SUBSET Entries
      BY <1>2, <2>3 DEF PostEnds, Listed, PollTypeOK
    <3> QED BY <2>1, <3>1, <3>2
  <2>4. CASE PollBroadcast
    <3>1. PICK heavy \in SUBSET listed : Deliver(listed \ closed, heavy, {}) BY <2>4 DEF PollBroadcast
    <3>2. listed \ closed \in SUBSET Entries BY <1>2 DEF PollTypeOK
    <3> QED BY <2>1, <3>1, <3>2
  <2>5. CASE UNCHANGED queue BY <1>2, <2>5 DEF QueueBounded
  <2> QED BY <1>2, <2>2, <2>3, <2>4, <2>5
        DEF PollNext, pollVars, entries, FirstPoll, NewEntry, CloseEntry, WaitForMessage, Abort, Timeout,
            PostBegins, PollRestart
<1> QED BY <1>1, <1>2, PollTypeStep, PTL DEF PollSpec

----------------------------------------------------------------------------
(* The channel *)

(* Nothing has happened to the entries of lives still to come, and nobody  *)
(* holds one; what has been handed out and what is queued are together all *)
(* the messages of an entry that is open.                                  *)
Untouched(e) ==
  sent[e] = 0 /\ out[e] = <<>> /\ queue[e] = <<>> /\ pending[e] = 0 /\ e \notin closed

ChannelInv ==
  /\ PollInv
  /\ \A e \in Entries : e[2] > lives[e[1]] => Untouched(e) /\ \A p \in Posts : held[p] # e
  /\ \A e \in listed \ closed : out[e] \o queue[e] = Channel!UpTo(sent[e])

(* The numbers up to n, and one more.                                      *)
LEMMA UpToNext ==
  ASSUME NEW n \in Nat
  PROVE  /\ Channel!UpTo(n) \in Seq(Nat)
         /\ Append(Channel!UpTo(n), n + 1) = Channel!UpTo(n + 1)
<1> DEFINE s == Channel!UpTo(n)
           t == Channel!UpTo(n + 1)
<1>1. s = [j \in 1..n |-> j] /\ t = [j \in 1..(n + 1) |-> j] BY DEF Channel!UpTo
<1> HIDE DEF s, t
<1>2. s \in Seq(Nat) /\ t \in Seq(Nat) /\ Len(s) = n /\ Len(t) = n + 1 BY <1>1
<1>3. Append(s, n + 1) \in Seq(Nat) /\ Len(Append(s, n + 1)) = n + 1 BY <1>2
<1>4. \A j \in 1..(n + 1) : Append(s, n + 1)[j] = t[j]
  <2> SUFFICES ASSUME NEW j \in 1..(n + 1) PROVE Append(s, n + 1)[j] = t[j] OBVIOUS
  <2>1. CASE j = n + 1 BY <1>1, <1>2, <2>1
  <2>2. CASE j # n + 1
    <3>1. j \in 1..n BY <2>2
    <3> QED BY <1>1, <1>2, <3>1
  <2> QED BY <2>1, <2>2
<1>5. Append(s, n + 1) = t BY <1>2, <1>3, <1>4, SeqEqual
<1> QED BY <1>2, <1>5 DEF s, t

LEMMA AppendToConcat ==
  ASSUME NEW S, NEW s \in Seq(S), NEW t \in Seq(S), NEW x \in S
  PROVE  s \o Append(t, x) = Append(s \o t, x)
<1>1. <<x>> \in Seq(S) OBVIOUS
<1>2. Append(t, x) = t \o <<x>> BY AppendIsConcat
<1>3. s \o t \in Seq(S) BY ConcatProperties
<1>4. Append(s \o t, x) = (s \o t) \o <<x>> BY <1>3, AppendIsConcat
<1> QED BY <1>1, <1>2, <1>4, ConcatAssociative

(* An entry that a poll waits on, or that was just emptied, has handed out *)
(* everything.                                                             *)
LEMMA EmptyHandedOut ==
  ASSUME PollTypeOK, NEW e \in Entries
  PROVE  out[e] \o <<>> = out[e] /\ <<>> \o <<>> = <<>>
  BY ConcatEmptySeq DEF PollTypeOK

(* A message advances the channel.                                         *)
LEMMA DeliverAdvances ==
  ASSUME ChannelInv, NEW receivers \in SUBSET (listed \ closed), NEW heavy, NEW shut \in SUBSET Entries,
         \A e \in shut : e[2] <= lives[e[1]],
         \A p \in Posts : held'[p] = held[p] \/ held'[p] = None,
         Deliver(receivers, heavy, shut), PollInv'
  PROVE  Channel!Advance /\ ChannelInv'
<1> USE PollAssumption
<1>1. PollInv /\ PollTypeOK BY DEF ChannelInv, PollInv
<1>2. receivers \in SUBSET Entries BY <1>1 DEF PollTypeOK
<1> DEFINE served == {e \in receivers : pending[e] # 0}
<1>3. served \in SUBSET (listed \ closed) /\ receivers \in SUBSET (listed \ closed) OBVIOUS
<1>4. sent' = [e \in Entries |-> IF e \in receivers THEN sent[e] + 1 ELSE sent[e]] BY DEF Deliver
<1>5. out' = [e \in Entries |-> IF e \in served THEN Append(out[e], sent[e] + 1) ELSE out[e]]
  BY DEF Deliver
<1>6. \A e \in receivers : sent[e] < MaxSent BY DEF Deliver
<1>7. /\ UNCHANGED <<lives, listed>> /\ closed \subseteq closed' /\ closed' \in SUBSET Entries
  BY <1>1, <1>2, DeliverEffect
<1>8. ASSUME NEW e \in receivers
      PROVE  /\ sent[e] \in Nat /\ sent[e] + 1 \in 1..MaxSent
             /\ out[e] \in Seq(1..MaxSent) /\ queue[e] \in Seq(1..MaxSent)
             /\ out[e] \o queue[e] = Channel!UpTo(sent[e])
  BY <1>1, <1>2, <1>6 DEF PollTypeOK, ChannelInv
<1>9. ASSUME NEW e \in served PROVE Append(out[e], sent[e] + 1) = Channel!UpTo(sent'[e])
  <2>1. e \in Entries /\ queue[e] = <<>> BY <1>1, <1>2 DEF PollInv, WaitersAreReached
  <2>2. out[e] = Channel!UpTo(sent[e]) BY <1>1, <1>8, <2>1, EmptyHandedOut
  <2>3. sent'[e] = sent[e] + 1 BY <1>4, <2>1
  <2> QED BY <1>8, <2>2, <2>3, UpToNext
<1>10. out' = [e \in Entries |-> IF e \in served THEN Channel!UpTo(sent'[e]) ELSE out[e]]
  <2> HIDE DEF served
  <2> QED BY <1>5, <1>9
<1>11. listed' \ closed' \subseteq listed \ closed BY <1>7
<1>12. Channel!Advance
  <2> HIDE DEF served
  <2> QED BY <1>3, <1>4, <1>10, <1>11 DEF Channel!Advance
<1>13. ASSUME NEW e \in Entries, e[2] > lives'[e[1]]
       PROVE  Untouched(e)' /\ \A p \in Posts : held'[p] # e
  <2>1. Untouched(e) /\ \A p \in Posts : held[p] # e BY <1>7, <1>13 DEF ChannelInv
  <2>2. e \notin listed /\ e \notin shut
    <3>1. lives[e[1]] \in Int /\ e[2] \in Int BY <1>1 DEF PollTypeOK, Entries
    <3> QED BY <1>1, <1>7, <1>13, <3>1 DEF PollTypeOK
  <2>3. e \notin receivers BY <2>2
  <2>4. sent'[e] = sent[e] /\ out'[e] = out[e] /\ queue'[e] = queue[e] /\ (e \in closed' => e \in closed)
    BY <1>1, <1>2, <2>2, <2>3, DeliverEffect
  <2>5. pending'[e] = 0
    <3>1. PICK es \in SUBSET Entries : Settle(es) BY <1>2, DeliverSettles
    <3> QED BY <1>1, <2>1, <3>1, SettleEffect DEF Untouched
  <2>6. e # None BY <1>1 DEF Entries
  <2> QED BY <2>1, <2>4, <2>5, <2>6 DEF Untouched
<1>14. ASSUME NEW e \in listed' \ closed'
       PROVE  out'[e] \o queue'[e] = Channel!UpTo(sent'[e])
  <2>1. e \in Entries /\ e \in listed \ closed BY <1>1, <1>7, <1>14 DEF PollTypeOK
  <2>2. out[e] \o queue[e] = Channel!UpTo(sent[e]) BY <2>1 DEF ChannelInv
  <2>3. CASE e \notin receivers BY <1>1, <1>2, <2>1, <2>2, <2>3, DeliverEffect
  <2>4. CASE e \in served
    <3>1. queue[e] = <<>> BY <1>1, <2>1, <2>4 DEF PollInv, WaitersAreReached
    <3>2. queue'[e] = <<>> BY <1>1, <1>2, <2>1, <2>4, <3>1, DeliverEffect
    <3>3. out'[e] = Channel!UpTo(sent'[e]) BY <1>10, <2>1, <2>4
    <3>4. out'[e] \o <<>> = out'[e]
      <4>1. out'[e] \in Seq(1..MaxSent) BY <2>1 DEF PollInv, PollTypeOK
      <4> QED BY <4>1, ConcatEmptySeq
    <3> QED BY <3>2, <3>3, <3>4
  <2>5. CASE e \in receivers \ served
    <3>1. /\ sent'[e] = sent[e] + 1 /\ out'[e] = out[e]
          /\ queue'[e] = Append(queue[e], sent[e] + 1)
      BY <1>1, <1>2, <1>14, <2>1, <2>5, DeliverEffect
    <3>2. out[e] \o Append(queue[e], sent[e] + 1) = Append(out[e] \o queue[e], sent[e] + 1)
      <4> DEFINE s == out[e]
                 t == queue[e]
                 x == sent[e] + 1
      <4>1. s \in Seq(1..MaxSent) /\ t \in Seq(1..MaxSent) /\ x \in 1..MaxSent BY <1>8, <2>5
      <4> HIDE DEF s, t, x
      <4>2. s \o Append(t, x) = Append(s \o t, x) BY ONLY <4>1, AppendToConcat, SMT
      <4> QED BY <4>2 DEF s, t, x
    <3> QED BY <1>8, <2>2, <2>5, <3>1, <3>2, UpToNext
  <2> QED BY <2>3, <2>4, <2>5
<1> QED BY <1>12, <1>13, <1>14 DEF ChannelInv

(* A new entry opens its session.                                          *)
LEMMA NewEntryOpens ==
  ASSUME ChannelInv, NEW i \in Ids, NewEntry(i), PollInv',
         \A p \in Posts : held'[p] \in {held[p], <<i, lives[i] + 1>>}
  PROVE  ChannelInv' /\ \E s \in Entries : Channel!Open(s)
<1> USE PollAssumption
<1> DEFINE new == <<i, lives[i] + 1>>
<1>1. PollTypeOK BY DEF ChannelInv, PollInv
<1>2. /\ Listed(i) = {} /\ lives[i] < MaxLives
      /\ lives' = [lives EXCEPT ![i] = @ + 1] /\ listed' = listed \cup {new}
      /\ UNCHANGED <<queue, pending, pollSeq, closed, timers, wait, sent, out>>
  BY DEF NewEntry
<1>3. new \in Entries \ listed BY <1>1, <1>2, NewEntryEffect
<1>4. lives[i] \in Nat /\ new[1] = i /\ new[2] = lives[i] + 1 BY <1>1 DEF PollTypeOK
<1> HIDE DEF new
<1>5. Untouched(new) BY <1>3, <1>4 DEF ChannelInv
<1>6. listed' \ closed' = (listed \ closed) \cup {new} BY <1>2, <1>5 DEF Untouched
<1>7. Channel!Open(new)
  BY <1>2, <1>3, <1>5, <1>6 DEF Channel!Open, Untouched
<1>8. ASSUME NEW e \in Entries, e[2] > lives'[e[1]]
      PROVE  Untouched(e)' /\ \A p \in Posts : held'[p] # e
  <2>1. e[1] \in Ids /\ e[2] \in Nat BY DEF Entries
  <2>2. e[2] > lives[e[1]] /\ e # new
    <3>1. CASE e[1] = i
      <4>1. lives'[i] = lives[i] + 1 BY <1>1, <1>2 DEF PollTypeOK
      <4> QED BY <1>4, <1>8, <2>1, <3>1, <4>1
    <3>2. CASE e[1] # i BY <1>1, <1>2, <1>4, <1>8, <2>1, <3>2 DEF PollTypeOK
    <3> QED BY <3>1, <3>2
  <2>3. Untouched(e) /\ \A p \in Posts : held[p] # e BY <2>2 DEF ChannelInv
  <2>4. \A p \in Posts : held'[p] # e BY <2>2, <2>3 DEF new
  <2> QED BY <1>2, <2>3, <2>4 DEF Untouched
<1>9. ASSUME NEW e \in listed' \ closed'
      PROVE  out'[e] \o queue'[e] = Channel!UpTo(sent'[e])
  <2>1. CASE e = new
    <3>1. Channel!UpTo(0) = <<>> BY DEF Channel!UpTo
    <3>2. <<>> \o <<>> = <<>> BY <1>1, <1>3, EmptyHandedOut
    <3> QED BY <1>2, <1>5, <2>1, <3>1, <3>2 DEF Untouched
  <2>2. CASE e # new BY <1>2, <1>6, <1>9, <2>2 DEF ChannelInv
  <2> QED BY <2>1, <2>2
<1> QED BY <1>3, <1>7, <1>8, <1>9 DEF ChannelInv

(* What sends and hands out nothing and opens no entry advances the        *)
(* channel, by ending sessions at most.                                    *)
LEMMA QuietStep ==
  ASSUME ChannelInv, PollInv', UNCHANGED <<lives, queue, sent, out>>,
         listed' \subseteq listed, closed \subseteq closed', closed' \subseteq closed \cup listed,
         \A e \in Entries : pending'[e] # 0 => e \in listed,
         \A p \in Posts : held'[p] = held[p] \/ held'[p] = None \/ held'[p] \in listed
  PROVE  ChannelInv' /\ Channel!Advance
<1>1. PollTypeOK BY DEF ChannelInv, PollInv
<1>2. listed' \ closed' \subseteq listed \ closed OBVIOUS
<1>3. \A e \in Entries : e[2] > lives[e[1]] => e \notin listed
  <2>1. \A e \in Entries : lives[e[1]] \in Int /\ e[2] \in Int BY <1>1 DEF PollTypeOK, Entries
  <2> QED BY <1>1, <2>1 DEF PollTypeOK
<1>4. \A e \in Entries : e # None BY PollAssumption DEF Entries
<1>5. ASSUME NEW e \in Entries, e[2] > lives'[e[1]]
      PROVE  Untouched(e)' /\ \A p \in Posts : held'[p] # e
  BY <1>3, <1>4, <1>5 DEF ChannelInv, Untouched
<1>6. \A e \in listed' \ closed' : out'[e] \o queue'[e] = Channel!UpTo(sent'[e])
  BY <1>2 DEF ChannelInv
<1>7. ChannelInv' BY <1>5, <1>6 DEF ChannelInv
<1>8. Channel!Advance
  <2>1. {} \in SUBSET (listed \ closed) OBVIOUS
  <2>2. sent' = [s \in Entries |-> IF s \in {} THEN sent[s] + 1 ELSE sent[s]] BY <1>1 DEF PollTypeOK
  <2>3. out' = [s \in Entries |-> IF s \in {} THEN Channel!UpTo(sent'[s]) ELSE out[s]]
    BY <1>1 DEF PollTypeOK
  <2> QED BY <1>2, <2>1, <2>2, <2>3 DEF Channel!Advance
<1> QED BY <1>7, <1>8

(* Every step is one of the channel, or none.                              *)
LEMMA ChannelStep ==
  ASSUME ChannelInv, [PollNext]_pollVars PROVE ChannelInv' /\ [Channel!Next]_(Channel!channel)
<1> USE PollAssumption
<1>0. PollInv' BY PollStep DEF ChannelInv
<1>t. PollTypeOK BY DEF ChannelInv, PollInv
<1>w. \A e \in Entries : pending[e] # 0 => e \in listed BY DEF ChannelInv, PollInv, WaitersAreReached
<1> SUFFICES ChannelInv' /\ (Channel!Advance \/ \E s \in Entries : Channel!Open(s))
  BY DEF Channel!Next
<1>1. CASE UNCHANGED pollVars BY <1>0, <1>1, <1>w, QuietStep DEF pollVars, entries
<1>2. ASSUME NEW i \in Ids, FirstPoll(i)
      PROVE  ChannelInv' /\ (Channel!Advance \/ \E s \in Entries : Channel!Open(s))
  BY <1>0, <1>2, NewEntryOpens DEF FirstPoll
<1>3. ASSUME NEW e \in Entries, FetchQueue(e) PROVE ChannelInv' /\ Channel!Advance
  <2>1. /\ e \in listed \ closed
        /\ out' = [out EXCEPT ![e] = out[e] \o queue[e]]
        /\ queue' = [queue EXCEPT ![e] = <<>>]
        /\ UNCHANGED <<lives, listed, pending, closed, held, sent>>
    BY <1>3 DEF FetchQueue, Batch
  <2>2. out[e] \o queue[e] = Channel!UpTo(sent[e]) BY <2>1 DEF ChannelInv
  <2>3. out' = [s \in Entries |-> IF s \in {e} THEN Channel!UpTo(sent'[s]) ELSE out[s]]
    BY <1>t, <2>1, <2>2 DEF PollTypeOK
  <2>4. sent' = [s \in Entries |-> IF s \in {} THEN sent[s] + 1 ELSE sent[s]]
    BY <1>t, <2>1 DEF PollTypeOK
  <2>5. Channel!Advance
    <3>1. {} \in SUBSET (listed \ closed) /\ {e} \in SUBSET (listed \ closed) BY <2>1
    <3>2. listed' \ closed' \subseteq listed \ closed BY <2>1
    <3> QED BY <2>3, <2>4, <3>1, <3>2 DEF Channel!Advance
  <2>6. ASSUME NEW d \in Entries, d[2] > lives'[d[1]]
        PROVE  Untouched(d)' /\ \A p \in Posts : held'[p] # d
    <3>1. d # e
      <4>1. lives[d[1]] \in Int /\ d[2] \in Int BY <1>t DEF PollTypeOK, Entries
      <4> QED BY <1>t, <2>1, <2>6, <4>1 DEF PollTypeOK
    <3> QED BY <1>t, <2>1, <2>6, <3>1 DEF ChannelInv, Untouched, PollTypeOK
  <2>7. ASSUME NEW d \in listed' \ closed' PROVE out'[d] \o queue'[d] = Channel!UpTo(sent'[d])
    <3>1. CASE d = e
      <4>1. out'[e] \in Seq(1..MaxSent) /\ out'[e] = Channel!UpTo(sent[e])
        BY <1>0, <2>1, <2>2, <1>t DEF PollInv, PollTypeOK
      <4>2. queue'[e] = <<>> BY <1>t, <2>1 DEF PollTypeOK
      <4>3. out'[e] \o <<>> = out'[e] BY <4>1, ConcatEmptySeq
      <4> QED BY <2>1, <3>1, <4>1, <4>2, <4>3
    <3>2. CASE d # e BY <1>t, <2>1, <2>7, <3>2 DEF ChannelInv, PollTypeOK
    <3> QED BY <3>1, <3>2
  <2> QED BY <1>0, <2>5, <2>6, <2>7 DEF ChannelInv
<1>4. ASSUME NEW e \in Entries, CloseEntry(e) PROVE ChannelInv' /\ Channel!Advance
  <2>1. /\ e \in listed /\ listed' = listed \ {e} /\ closed' = closed \cup {e}
        /\ Settle({e}) /\ UNCHANGED <<lives, queue, held, sent, out>>
    BY <1>4 DEF CloseEntry
  <2>2. \A d \in Entries : pending'[d] # 0 => d \in listed BY <1>t, <1>w, <2>1, SettleEffect
  <2> QED BY <1>0, <2>1, <2>2, QuietStep
<1>5. ASSUME NEW g \in Gets, NEW e \in Entries, WaitForMessage(g, e)
      PROVE  ChannelInv' /\ Channel!Advance
  <2>1. e \in listed /\ UNCHANGED <<lives, listed, queue, closed, held, sent, out>>
    BY <1>5 DEF WaitForMessage
  <2>2. \A d \in Entries : pending'[d] # 0 => d \in listed
    BY <1>5, <1>t, <1>w, <2>1 DEF WaitForMessage, PollTypeOK
  <2> QED BY <1>0, <2>1, <2>2, QuietStep
<1>6. ASSUME NEW g \in Gets, Abort(g) PROVE ChannelInv' /\ Channel!Advance
  BY <1>0, <1>6, <1>w, QuietStep DEF Abort, entries
<1>7. ASSUME NEW e \in Entries, NEW seq \in 1..MaxSeq, Timeout(e, seq)
      PROVE  ChannelInv' /\ Channel!Advance
  <2>1. UNCHANGED <<lives, listed, queue, closed, held, sent, out>> BY <1>7 DEF Timeout
  <2>2. \A d \in Entries : pending'[d] # 0 => d \in listed
    BY <1>7, <1>t, <1>w DEF Timeout, PollTypeOK
  <2> QED BY <1>0, <2>1, <2>2, QuietStep
<1>8. ASSUME NEW p \in Posts, NEW i \in Ids, PostBegins(p, i)
      PROVE  ChannelInv' /\ (Channel!Advance \/ \E s \in Entries : Channel!Open(s))
  <2>1. CASE \E e \in Listed(i) : held' = [held EXCEPT ![p] = e] /\ UNCHANGED entries
    <3>1. PICK e \in listed : held' = [held EXCEPT ![p] = e] BY <2>1 DEF Listed
    <3>2. \A q \in Posts : held'[q] = held[q] \/ held'[q] \in listed BY <1>t, <3>1 DEF PollTypeOK
    <3> QED BY <1>0, <1>8, <1>w, <2>1, <3>2, QuietStep DEF PostBegins, entries
  <2>2. CASE NewEntry(i) /\ held' = [held EXCEPT ![p] = <<i, lives[i] + 1>>]
    <3>1. \A q \in Posts : held'[q] \in {held[q], <<i, lives[i] + 1>>} BY <1>t, <2>2 DEF PollTypeOK
    <3> QED BY <1>0, <2>2, <3>1, NewEntryOpens
  <2> QED BY <1>8, <2>1, <2>2 DEF PostBegins
<1>9. ASSUME NEW p \in Posts, PostEnds(p) PROVE ChannelInv' /\ Channel!Advance
  <2>1. PICK receivers \in {{}, Listed(held[p][1]) \ closed}, shut \in {{}, {held[p]}}, heavy \in SUBSET listed :
          Deliver(receivers, heavy, shut)
    BY <1>9 DEF PostEnds
  <2>2. held[p] \in Entries /\ held' = [held EXCEPT ![p] = None] BY <1>9, <1>t DEF PostEnds, PollTypeOK
  <2>3. receivers \in SUBSET (listed \ closed) /\ shut \in SUBSET Entries BY <2>2 DEF Listed
  <2>4. \A e \in shut : e[2] <= lives[e[1]]
    <3>1. lives[held[p][1]] \in Int /\ held[p][2] \in Int BY <1>t, <2>2 DEF PollTypeOK, Entries
    <3>2. ~(held[p][2] > lives[held[p][1]]) BY <2>2 DEF ChannelInv
    <3> QED BY <3>1, <3>2
  <2>5. \A q \in Posts : held'[q] = held[q] \/ held'[q] = None BY <1>t, <2>2 DEF PollTypeOK
  <2> QED BY <1>0, <2>1, <2>3, <2>4, <2>5, DeliverAdvances
<1>10. CASE PollBroadcast
  <2>1. PICK heavy \in SUBSET listed : Deliver(listed \ closed, heavy, {}) BY <1>10 DEF PollBroadcast
  <2>2. {} \in SUBSET Entries /\ \A e \in {} : e[2] <= lives[e[1]] OBVIOUS
  <2>3. UNCHANGED held BY <1>10 DEF PollBroadcast
  <2> QED BY <1>0, <2>1, <2>2, <2>3, DeliverAdvances
<1>11. CASE PollRestart
  BY <1>0, <1>11, QuietStep DEF PollRestart
<1> QED BY <1>1, <1>2, <1>3, <1>4, <1>5, <1>6, <1>7, <1>8, <1>9, <1>10, <1>11 DEF PollNext

(* Long polling gives each session its messages once, in order, without a  *)
(* gap, whatever requests, timeouts and restarts come in between.          *)
THEOREM LongPollIsChannel == PollSpec => ImplementsChannel
<1>1. PollInit => ChannelInv /\ Channel!Init
  <2> SUFFICES ASSUME PollInit PROVE ChannelInv /\ Channel!Init OBVIOUS
  <2>1. PollInv
    BY PollAssumption DEF PollInit, PollInv, PollTypeOK, WaitersAreReached, NoPollIsLost, Numbered
  <2>2. \A e \in Entries : Untouched(e) /\ \A p \in Posts : held[p] # e
    BY PollAssumption DEF PollInit, Untouched, Entries
  <2> QED BY <2>1, <2>2 DEF PollInit, ChannelInv, Channel!Init
<1>2. ChannelInv /\ [PollNext]_pollVars => ChannelInv' /\ [Channel!Next]_(Channel!channel)
  BY ChannelStep
<1> QED BY <1>1, <1>2, PTL DEF PollSpec, ImplementsChannel, Channel!Spec
=============================================================================
