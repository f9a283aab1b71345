-------------------------------- MODULE Hub ---------------------------------
(***************************************************************************)
(* What the two views of the durable object SyncClipboardHub have in       *)
(* common: HubHeartbeat looks at its connections in time, LongPoll at the  *)
(* delivery over one kind of them.                                         *)
(***************************************************************************)
EXTENDS Integers, FiniteSets

CONSTANTS
  Ids,   \* connection tokens
  None   \* no alarm; no poll, no entry
=============================================================================
