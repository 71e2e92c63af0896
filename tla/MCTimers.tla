----------------------------- MODULE MCTimers -----------------------------
(* A one-shot timer, a repeating one, and a window.                        *)
EXTENDS Timers

CONSTANTS once, every
=============================================================================
