--------------------------------- MODULE Web ----------------------------------
(***************************************************************************)
(* What the models of the web client and of what it is shown share.        *)
(***************************************************************************)
CONSTANT None  \* no row, no connection, nothing asked for
=============================================================================
