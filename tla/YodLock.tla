------------------------------ MODULE YodLock ------------------------------
(***************************************************************************)
(* The global run lock of Yod (internal/object/yodlock.go): a lock that is *)
(* re-entrant per goroutine, built from a sync.Mutex and a sync.Cond.      *)
(*                                                                         *)
(* Every critical section under the mutex is one step.  A goroutine that   *)
(* finds the lock taken parks on the condition variable; Signal moves the  *)
(* goroutine that parked first to `woken`, from where it tests the loop    *)
(* condition again, possibly after another goroutine has barged in.        *)
(*                                                                         *)
(* What a goroutine does between these calls is left open: it may nest     *)
(* LockYod/UnlockYod brackets, and it may nest WithoutYodLock calls whose  *)
(* function opens brackets of its own (a callback run by the message loop).*)
(* Layer n of a goroutine is the code inside its n-th open WithoutYodLock. *)
(***************************************************************************)
EXTENDS Naturals, Sequences

CONSTANTS Goroutines,   \* the goroutines that run Yod code
          NoOwner,      \* the owner field when the lock is free (0 in the code)
          MaxOpen,      \* bound: open LockYod brackets of one layer
          MaxNest       \* bound: open WithoutYodLock calls of one goroutine

ASSUME NoOwnerAssumption == NoOwner \notin Goroutines
ASSUME BoundsAssumption  == MaxOpen \in Nat /\ MaxNest \in Nat

Layers == 0 .. MaxNest

VARIABLES owner,    \* goroutine that holds the lock, or NoOwner
          depth,    \* how many times the owner holds it
          parked,   \* goroutines inside cond.Wait, in the order they parked
          woken,    \* goroutines signalled that have not yet tested the loop
          pc,       \* "run", or the call the goroutine is blocked in
          nest,     \* number of WithoutYodLock calls the goroutine is inside
          open,     \* open LockYod brackets of each layer
          saved     \* the depth each WithoutYodLock call keeps in its local d

lockVars == <<owner, depth, parked, woken>>
vars     == <<owner, depth, parked, woken, pc, nest, open, saved>>

Init ==
    /\ owner = NoOwner
    /\ depth = 0
    /\ parked = <<>>
    /\ woken = {}
    /\ pc    = [g \in Goroutines |-> "run"]
    /\ nest  = [g \in Goroutines |-> 0]
    /\ open  = [g \in Goroutines |-> [n \in Layers |-> 0]]
    /\ saved = [g \in Goroutines |-> [n \in Layers |-> 0]]

----------------------------------------------------------------------------
(* Helpers *)

FreeForAnybody(g) == g \in Goroutines

\* The negation of the loop condition of lock and reacquire.
FreeFor(g) == owner \in {NoOwner, g}

SignalNobody == UNCHANGED <<parked, woken>>

\* cond.Signal: the goroutine that has waited longest, if there is one.
Signal ==
    IF parked = <<>>
    THEN UNCHANGED <<parked, woken>>
    ELSE /\ parked' = Tail(parked)
         /\ woken' = woken \cup {Head(parked)}

\* Frees the lock, however deep it is held.
Release == owner' = NoOwner /\ Signal /\ depth' = 0

\* The body of the wait loop: join the notify list and let go of the mutex.
Park(g, call) ==
    /\ ~FreeFor(g)
    /\ parked' = Append(parked, g)
    /\ woken' = woken \ {g}
    /\ pc' = [pc EXCEPT ![g] = call]
    /\ UNCHANGED <<owner, depth, nest, open, saved>>

----------------------------------------------------------------------------
(* lock *)

\* What lock does once the loop condition lets it through.
Take(g) ==
    /\ FreeFor(g)
    /\ owner' = g
    /\ depth' = depth + 1
    /\ open' = [open EXCEPT ![g][nest[g]] = @ + 1]
    /\ pc' = [pc EXCEPT ![g] = "run"]
    /\ woken' = woken \ {g}
    /\ UNCHANGED <<parked, nest, saved>>

LockYod(g) ==
    /\ pc[g] = "run"
    /\ open[g][nest[g]] < MaxOpen
    /\ Take(g) \/ Park(g, "lock")

----------------------------------------------------------------------------
(* unlock *)

\* Gives the lock up at the first unlock, whatever the depth.
DropAtOnce == Release

\* One layer less; the last one frees the lock and signals.
Drop ==
    IF depth - 1 <= 0
    THEN Release
    ELSE /\ depth' = depth - 1
         /\ UNCHANGED <<owner, parked, woken>>

UnlockYod(g) ==
    /\ pc[g] = "run"
    /\ open[g][nest[g]] > 0
    /\ open' = [open EXCEPT ![g][nest[g]] = @ - 1]
    /\ IF owner = g THEN Drop ELSE UNCHANGED lockVars
    /\ UNCHANGED <<pc, nest, saved>>

----------------------------------------------------------------------------
(* WithoutYodLock: fullyRelease before the function, reacquire after it *)

\* The value fullyRelease returns.
SavedDepth(g) == IF owner = g THEN depth ELSE 0

WithoutYodLock(g) ==
    /\ pc[g] = "run"
    /\ nest[g] < MaxNest
    /\ nest' = [nest EXCEPT ![g] = @ + 1]
    /\ saved' = [saved EXCEPT ![g][nest[g] + 1] = SavedDepth(g)]
    /\ IF owner = g THEN Release ELSE UNCHANGED lockVars
    /\ UNCHANGED <<pc, open>>

LeaveLayer(g) ==
    /\ nest' = [nest EXCEPT ![g] = @ - 1]
    /\ saved' = [saved EXCEPT ![g][nest[g]] = 0]
    /\ pc' = [pc EXCEPT ![g] = "run"]
    /\ UNCHANGED open

\* What reacquire does once the loop condition lets it through.
Restore(g) ==
    /\ FreeFor(g)
    /\ owner' = g
    /\ depth' = saved[g][nest[g]]
    /\ woken' = woken \ {g}
    /\ UNCHANGED parked
    /\ LeaveLayer(g)

EndWithoutYodLock(g) ==
    /\ pc[g] = "run"
    /\ nest[g] > 0
    /\ open[g][nest[g]] = 0
    /\ IF saved[g][nest[g]] <= 0
       THEN LeaveLayer(g) /\ UNCHANGED lockVars
       ELSE Restore(g) \/ Park(g, "reacquire")

\* A signalled goroutine has the mutex back and tests the loop condition.
Wakeup(g) ==
    /\ g \in woken
    /\ \/ pc[g] = "lock" /\ (Take(g) \/ Park(g, "lock"))
       \/ pc[g] = "reacquire" /\ (Restore(g) \/ Park(g, "reacquire"))

----------------------------------------------------------------------------

Next ==
    \E g \in Goroutines :
        \/ LockYod(g)
        \/ UnlockYod(g)
        \/ WithoutYodLock(g)
        \/ EndWithoutYodLock(g)
        \/ Wakeup(g)

\* A goroutine that was signalled is runnable and the Go scheduler runs it.
Fairness == \A g \in Goroutines : WF_vars(Wakeup(g))

Spec     == Init /\ [][Next]_vars
FairSpec == Spec /\ Fairness

----------------------------------------------------------------------------
(* Properties *)

\* g is running code inside a LockYod bracket of its current layer.
Executing(g) == pc[g] = "run" /\ open[g][nest[g]] > 0

\* Goroutines blocked in lock or in reacquire.
Waiting == {g \in Goroutines : pc[g] # "run"}

\* The depth stays within what one layer may hold open.
TypeOK ==
    /\ owner \in Goroutines \cup {NoOwner}
    /\ depth \in 0 .. MaxOpen
    /\ parked \in Seq(Goroutines)
    /\ woken \in SUBSET Goroutines
    /\ pc \in [Goroutines -> {"run", "lock", "reacquire"}]
    /\ nest \in [Goroutines -> Layers]
    /\ open \in [Goroutines -> [Layers -> 0 .. MaxOpen]]
    /\ saved \in [Goroutines -> [Layers -> 0 .. MaxOpen]]

\* Whoever runs inside a LockYod bracket owns the lock, so no two goroutines
\* run Yod code at once (yodlock.go:10-15), however brackets, WithoutYodLock
\* calls and wake-ups interleave.
OneRunner == \A g \in Goroutines : Executing(g) => owner = g

\* The depth counter is the number of brackets the owner has open in the layer
\* it is in, so the unlock that frees the lock is the one that closes the
\* outermost bracket and the "not the owner" exit of unlock is never taken.
DepthCountsBrackets ==
    /\ owner = NoOwner => depth = 0
    /\ \A g \in Goroutines : owner = g => depth = open[g][nest[g]] /\ depth > 0

\* Each pending WithoutYodLock remembers exactly the brackets that were open
\* when it let go of the lock: 0 for a goroutine that did not hold it.
SavedMatchesLayer ==
    \A g \in Goroutines : \A n \in Layers :
        n > 0 => saved[g][n] = IF n <= nest[g] THEN open[g][n - 1] ELSE 0

\* Signal wakes one waiter only.  It is enough: while the lock is free and
\* somebody is blocked in lock or reacquire, some blocked goroutine has been
\* signalled and is on its way to test the loop condition.
NoLostWakeup ==
    owner = NoOwner /\ Waiting # {} => woken \cap Waiting # {}

\* The lock does not stay free while a goroutine waits for it.
NotIdleForever == (owner = NoOwner /\ Waiting # {}) ~> (owner # NoOwner)

Abstract == INSTANCE RunLock WITH runner <- owner, pending <- Waiting

\* The lock of yodlock.go implements RunLock, its fairness included.
ImplementsRunLock == Abstract!Spec

\* The same without fairness: every step maps to a step of RunLock or to none.
StepsAreRunLockSteps == Abstract!Init /\ [][Abstract!Next]_<<owner, Waiting>>
=============================================================================
