----------------------------- MODULE MCVmCalls -----------------------------
(* The main program and two goroutines that call into the machine.         *)
EXTENDS VmCalls, TLC

CONSTANTS o1, o2

MCSymmetry == Permutations({o1, o2})
=============================================================================
