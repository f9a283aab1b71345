----------------------------- MODULE PushChannel -----------------------------
(***************************************************************************)
(* What a session of long polling promises (src/src/durable/               *)
(* SyncClipboardHub.ts): whatever is handed to the client are all the      *)
(* messages of the session so far, in order, each of them once; a session  *)
(* that has ended hands out nothing more and is never taken up again.      *)
(* Message n of a session is the number n.                                 *)
(***************************************************************************)
EXTENDS Integers, Sequences

CONSTANT Sessions

VARIABLES
  open,  \* the sessions that messages are sent to
  sent,  \* number of messages of each session
  out    \* what has been handed to its client

channel == <<open, sent, out>>

UpTo(n) == [j \in 1..n |-> j]

Init ==
  /\ open = {}
  /\ sent = [s \in Sessions |-> 0]
  /\ out = [s \in Sessions |-> <<>>]

Open(s) ==
  /\ s \notin open /\ sent[s] = 0
  /\ open' = open \cup {s}
  /\ UNCHANGED <<sent, out>>

(* A message for some sessions, some of which hand over all they have; any *)
(* number of sessions may end.                                             *)
Advance ==
  \E receivers, served \in SUBSET open :
    /\ sent' = [s \in Sessions |-> IF s \in receivers THEN sent[s] + 1 ELSE sent[s]]
    /\ out' = [s \in Sessions |-> IF s \in served THEN UpTo(sent'[s]) ELSE out[s]]
    /\ open' \subseteq open

Next == Advance \/ \E s \in Sessions : Open(s)

Spec == Init /\ [][Next]_channel
=============================================================================
