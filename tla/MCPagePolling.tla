---------------------------- MODULE MCPagePolling ----------------------------
(* Instance of PagePolling for TLC: sockets are plain model values.        *)
EXTENDS PagePolling
=============================================================================
