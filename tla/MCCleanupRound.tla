--------------------------- MODULE MCCleanupRound ---------------------------
(* An instance of CleanupRound: a small budget with faults.                *)
EXTENDS CleanupRound

SmallReserve == [retention |-> 3, trim |-> 4, hardDelete |-> 3, orphans |-> 2]

Both == [retention |-> TRUE, maxCount |-> 1]
OnlyTrim == [retention |-> FALSE, maxCount |-> 1]

Backlog(l, a, p, e, t, o) ==
  [live |-> l, active |-> a, plain |-> p, expired |-> e, trash |-> t, orphans |-> o]

SmallBacklogs ==
  {Backlog(l, 4, p, e, t, o) : l \in {0, 4}, p \in {2, 4}, e \in {0, 2}, t \in {0, 3}, o \in {0, 3}}
=============================================================================
