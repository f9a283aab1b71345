------------------------------ MODULE LongPoll ------------------------------
(***************************************************************************)
(* Long polling in the durable object: entries with their queues, the poll *)
(* that waits, its timeout, and the POSTs that hold on to an entry while   *)
(* their body is read (src/src/durable/SyncClipboardHub.ts).               *)
(*                                                                         *)
(* Each handler runs to its next await in one step; what an entry loses    *)
(* when it is deleted, those that still hold it keep: an entry is a token  *)
(* and the number of its life.  What is not about delivery is in           *)
(* HubHeartbeat; no event stream shares a token here.                      *)
(***************************************************************************)
EXTENDS Hub, Sequences

CONSTANTS
  Gets,       \* polls under way at a time
  Posts,      \* client messages under way at a time
  MaxQueued,  \* MAX_QUEUED_MESSAGES
  MaxLives,   \* bound on the entries a token has one after another
  MaxSent,    \* bound on the messages of an entry
  MaxSeq      \* bound on pollSeq

ASSUME PollAssumption ==
  /\ MaxQueued \in Nat /\ MaxLives \in Nat /\ MaxSent \in Nat /\ MaxSeq \in Nat
  /\ None \notin Ids \X (1..MaxLives) /\ None \notin (Ids \X (1..MaxLives)) \X Nat

Entries == Ids \X (1..MaxLives)

VARIABLES
  lives,    \* entries each token has had
  listed,   \* the entries in lpClients
  queue,    \* LongPollClient.queue: the numbers of the messages
  pending,  \* the pollSeq of the poll that waits, or 0
  pollSeq,
  closed,
  timers,   \* the timeouts of polls, by entry and pollSeq
  wait,     \* the entry and pollSeq each GET waits for, or None
  held,     \* the entry each POST holds, or None
  sent,     \* messages delivered to each entry
  out       \* what its polls were answered with

entries == <<lives, listed, queue, pending, pollSeq, closed>>
pollVars == <<entries, timers, wait, held, sent, out>>

(* Every variable has its type; a token has one entry at a time, its last. *)
PollTypeOK ==
  /\ lives \in [Ids -> 0..MaxLives]
  /\ listed \subseteq {e \in Entries : e[2] = lives[e[1]]}
  /\ queue \in [Entries -> Seq(1..MaxSent)]
  /\ pollSeq \in [Entries -> 0..MaxSeq]
  /\ pending \in [Entries -> 0..MaxSeq]
  /\ closed \subseteq Entries
  /\ timers \subseteq Entries \X (1..MaxSeq)
  /\ wait \in [Gets -> (Entries \X (1..MaxSeq)) \cup {None}]
  /\ held \in [Posts -> Entries \cup {None}]
  /\ sent \in [Entries -> 0..MaxSent]
  /\ out \in [Entries -> Seq(1..MaxSent)]

PollInit ==
  /\ lives = [i \in Ids |-> 0]
  /\ listed = {} /\ closed = {} /\ timers = {}
  /\ queue = [e \in Entries |-> <<>>]
  /\ pending = [e \in Entries |-> 0]
  /\ pollSeq = [e \in Entries |-> 0]
  /\ wait = [g \in Gets |-> None]
  /\ held = [p \in Posts |-> None]
  /\ sent = [e \in Entries |-> 0]
  /\ out = [e \in Entries |-> <<>>]

(* lpClients.get                                                           *)
Listed(i) == {e \in listed : e[1] = i}

(* The GETs that wait for one of these promises get their answers.         *)
Answer(ended) == [g \in Gets |-> IF wait[g] \in ended THEN None ELSE wait[g]]
Waiting(es) == {<<e, pending[e]>> : e \in {d \in es : pending[d] # 0}}

(* settlePoll, for each of these entries: pollSeq moves on, which disarms  *)
(* the timeout.                                                            *)
Settle(es) ==
  /\ \A e \in es : pending[e] # 0 => pollSeq[e] < MaxSeq
  /\ pollSeq' = [e \in Entries |->
                   IF e \in es /\ pending[e] # 0 THEN pollSeq[e] + 1 ELSE pollSeq[e]]
  /\ pending' = [e \in Entries |-> IF e \in es THEN 0 ELSE pending[e]]
  /\ wait' = Answer(Waiting(es))

----------------------------------------------------------------------------
(* GET *)

NewEntry(i) ==
  /\ Listed(i) = {} /\ lives[i] < MaxLives
  /\ lives' = [lives EXCEPT ![i] = @ + 1]
  /\ listed' = listed \cup {<<i, lives[i] + 1>>}
  /\ UNCHANGED <<queue, pending, pollSeq, closed, timers, wait, sent, out>>

(* The first poll makes the entry and returns.  (One of a closed entry     *)
(* returns 204 and changes nothing here.)                                  *)
FirstPoll(i) == NewEntry(i) /\ UNCHANGED held

OneMessage(e) == <<Head(queue[e])>>                      \* a fault
Batch(e) == queue[e]

FetchQueue(e) ==
  /\ e \in listed \ closed /\ queue[e] # <<>>
  /\ out' = [out EXCEPT ![e] = @ \o Batch(e)]
  /\ queue' = [queue EXCEPT ![e] = <<>>]
  /\ UNCHANGED <<lives, listed, pending, pollSeq, closed, timers, wait, held, sent>>

(* waitForClientMessage: a poll that waits already is answered first.      *)
Unanswered(e) == {}                                      \* a fault
Superseded(e) == Waiting({e})
Whenever(e) == TRUE                                      \* a fault
NothingQueued(e) == queue[e] = <<>>

WaitForMessage(g, e) ==
  LET seq == pollSeq[e] + (IF pending[e] = 0 THEN 1 ELSE 2) IN
  /\ wait[g] = None
  /\ e \in listed \ closed /\ NothingQueued(e)
  /\ seq <= MaxSeq
  /\ pollSeq' = [pollSeq EXCEPT ![e] = seq]
  /\ pending' = [pending EXCEPT ![e] = seq]
  /\ timers' = timers \cup {<<e, seq>>}
  /\ wait' = [Answer(Superseded(e)) EXCEPT ![g] = <<e, seq>>]
  /\ UNCHANGED <<lives, listed, queue, closed, held, sent, out>>

(* The callback of setTimeout.                                             *)
AnyPoll(e, seq) == pending[e] # 0                        \* a fault
StillWaits(e, seq) == pollSeq[e] = seq /\ pending[e] = seq

Timeout(e, seq) ==
  /\ <<e, seq>> \in timers
  /\ timers' = timers \ {<<e, seq>>}
  /\ IF StillWaits(e, seq)
     THEN pending' = [pending EXCEPT ![e] = 0] /\ wait' = Answer({<<e, seq>>})
     ELSE UNCHANGED <<pending, wait>>
  /\ UNCHANGED <<lives, listed, queue, pollSeq, closed, held, sent, out>>

(* The client breaks off; nothing tells the object.                        *)
Abort(g) ==
  /\ wait[g] # None
  /\ wait' = [wait EXCEPT ![g] = None]
  /\ UNCHANGED <<entries, timers, held, sent, out>>

----------------------------------------------------------------------------
(* deliverTo, for each of receivers: a poll that waits takes the message,  *)
(* else it is queued, and the entry is closed if its queue has become too  *)
(* long or, for those in heavy, too large.  The entries of shut are closed *)
(* after that.                                                             *)

TooLong(e) == Len(queue[e]) + 1 > MaxQueued

Deliver(receivers, heavy, shut) ==
  LET served == {e \in receivers : pending[e] # 0}
      full == {e \in receivers \ served : TooLong(e) \/ e \in heavy} IN
  /\ \A e \in receivers : sent[e] < MaxSent
  /\ sent' = [e \in Entries |-> IF e \in receivers THEN sent[e] + 1 ELSE sent[e]]
  /\ out' = [e \in Entries |-> IF e \in served THEN Append(out[e], sent[e] + 1) ELSE out[e]]
  /\ queue' = [e \in Entries |->
                 IF e \in full THEN <<>>
                 ELSE IF e \in receivers \ served THEN Append(queue[e], sent[e] + 1) ELSE queue[e]]
  /\ closed' = closed \cup full \cup shut
  /\ Settle(served \cup shut)
  /\ UNCHANGED <<lives, listed, timers>>

(* broadcast, and the pings of the alarm.                                  *)
PollBroadcast ==
  /\ listed \ closed # {}
  /\ \E heavy \in SUBSET listed : Deliver(listed \ closed, heavy, {})
  /\ UNCHANGED held

(* handleClientMessage up to the reading of the body, and from there on: a *)
(* Ping, a handshake that is accepted, Close, a handshake that is refused. *)
PostBegins(p, i) ==
  /\ held[p] = None
  /\ \/ \E e \in Listed(i) : held' = [held EXCEPT ![p] = e] /\ UNCHANGED entries
     \/ NewEntry(i) /\ held' = [held EXCEPT ![p] = <<i, lives[i] + 1>>]
  /\ UNCHANGED <<timers, wait, sent, out>>

PostEnds(p) ==
  /\ held[p] # None
  /\ held' = [held EXCEPT ![p] = None]
  /\ \E receivers \in {{}, Listed(held[p][1]) \ closed}, shut \in {{}, {held[p]}}, heavy \in SUBSET listed :
       Deliver(receivers, heavy, shut)

(* DELETE, and the closing of a silent entry.                              *)
CloseEntry(e) ==
  /\ e \in listed
  /\ listed' = listed \ {e}
  /\ closed' = closed \cup {e}
  /\ Settle({e})
  /\ UNCHANGED <<lives, queue, timers, held, sent, out>>

(* The object restarts, or hibernates when nothing waits.                  *)
PollRestart ==
  /\ listed' = {} /\ timers' = {}
  /\ pending' = [e \in Entries |-> 0]
  /\ wait' = [g \in Gets |-> None]
  /\ held' = [p \in Posts |-> None]
  /\ UNCHANGED <<lives, queue, pollSeq, closed, sent, out>>

PollNext ==
  \/ \E i \in Ids : FirstPoll(i)
  \/ \E e \in Entries : FetchQueue(e) \/ CloseEntry(e)
  \/ \E g \in Gets, e \in Entries : WaitForMessage(g, e)
  \/ \E g \in Gets : Abort(g)
  \/ \E e \in Entries, seq \in 1..MaxSeq : Timeout(e, seq)
  \/ \E p \in Posts, i \in Ids : PostBegins(p, i)
  \/ \E p \in Posts : PostEnds(p)
  \/ PollBroadcast \/ PollRestart

PollSpec == PollInit /\ [][PollNext]_pollVars

(* Timeouts fire.                                                          *)
PollFairSpec == PollSpec /\ \A e \in Entries, seq \in 1..MaxSeq : WF_pollVars(Timeout(e, seq))

----------------------------------------------------------------------------
(* Properties *)

(* A poll waits only on an entry that messages still reach, and only while *)
(* there is none to take: nothing is queued past a waiting client          *)
(* (SyncClipboardHub.ts:462-471, 587-590).                                 *)
WaitersAreReached ==
  \A e \in Entries : pending[e] # 0 => e \in listed \ closed /\ queue[e] = <<>>

(* Whoever still waits is the one the next message or timeout will answer: *)
(* no newer poll, no late timeout and no deletion has come in between      *)
(* (SyncClipboardHub.ts:475-498).                                          *)
NoPollIsLost ==
  \A g \in Gets : wait[g] # None =>
    /\ pending[wait[g][1]] = wait[g][2]
    /\ wait[g] \in timers

(* An away client costs no more than MAX_QUEUED_MESSAGES                   *)
(* (SyncClipboardHub.ts:118, 594).                                         *)
QueueBounded == \A e \in Entries : Len(queue[e]) <= MaxQueued

(* Every entry is a session of the channel: messages once, in order, and   *)
(* none after a gap (SyncClipboardHub.ts:448-471, 579-608).                *)
Channel == INSTANCE PushChannel WITH Sessions <- Entries, open <- listed \ closed
ImplementsChannel == Channel!Spec

(* Every poll is answered (SyncClipboardHub.ts:62-63).                     *)
PollsAreAnswered == \A g \in Gets : wait[g] # None ~> wait[g] = None
=============================================================================
