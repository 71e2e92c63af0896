------------------------------ MODULE RunLock ------------------------------
(***************************************************************************)
(* What the global run lock of Yod promises, without saying how: of all    *)
(* goroutines that want to run Yod code one is chosen, it runs until it    *)
(* gives the engine up of its own accord, and the engine never stays idle  *)
(* while somebody waits for it.  YodLock implements this specification.    *)
(***************************************************************************)
CONSTANTS Goroutines, NoOwner

VARIABLES runner,   \* the goroutine that may run Yod code, or NoOwner
          pending   \* the goroutines blocked until they may run

vars == <<runner, pending>>

Init ==
    /\ runner = NoOwner
    /\ pending = {}

Block(g) ==
    /\ runner \notin {NoOwner, g}
    /\ pending' = pending \cup {g}
    /\ UNCHANGED runner

Grant(g) ==
    /\ runner = NoOwner
    /\ runner' = g
    /\ pending' = pending \ {g}

Yield(g) ==
    /\ runner = g
    /\ runner' = NoOwner
    /\ UNCHANGED pending

Next == \E g \in Goroutines : Block(g) \/ Grant(g) \/ Yield(g)

GrantSomebody == \E g \in pending : Grant(g)

Spec == Init /\ [][Next]_vars /\ WF_vars(GrantSomebody)
=============================================================================
