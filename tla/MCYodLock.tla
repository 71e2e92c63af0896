----------------------------- MODULE MCYodLock -----------------------------
(* Three goroutines: the main program, a background task and a callback.   *)
EXTENDS YodLock

CONSTANTS g1, g2, g3
=============================================================================
