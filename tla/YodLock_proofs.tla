--------------------------- MODULE YodLock_proofs ---------------------------
(***************************************************************************)
(* Proofs about the run lock of YodLock, for every set of goroutines and   *)
(* every bound: the safety properties the runs check are invariants, no    *)
(* step takes the lock from its owner, and every step is a step of RunLock *)
(* or leaves its variables alone.                                          *)
(***************************************************************************)
EXTENDS YodLock, SequenceTheorems, TLAPS



InParked(g) == \E i \in 1 .. Len(parked) : parked[i] = g

\* A blocked goroutine is in exactly one place of the notify list: parked
\* once, or signalled and about to test the loop condition.
QueueOK ==
    /\ \A g \in Goroutines : pc[g] # "run" <=> (g \in woken \/ InParked(g))
    /\ \A g \in woken : ~InParked(g)
    /\ \A i, j \in 1 .. Len(parked) : parked[i] = parked[j] => i = j

\* What a blocked goroutine is waiting with, and that the layers a goroutine
\* has left are empty.
LayersOK ==
    \A g \in Goroutines :
        /\ pc[g] # "run" => owner # g /\ open[g][nest[g]] = 0
        /\ pc[g] = "lock" => MaxOpen > 0
        /\ pc[g] = "reacquire" => nest[g] > 0 /\ saved[g][nest[g]] > 0
        /\ \A n \in Layers : n > nest[g] => open[g][n] = 0

\* While the lock is free and somebody is parked, somebody has been signalled.
SignalPending == owner = NoOwner /\ parked # <<>> => woken # {}

IInv ==
    /\ TypeOK
    /\ DepthCountsBrackets
    /\ OneRunner
    /\ SavedMatchesLayer
    /\ LayersOK
    /\ QueueOK
    /\ SignalPending

-----------------------------------------------------------------------------
(* The notify list *)

\* Signal moves at most one goroutine and loses none (sync.Cond.Signal).
LEMMA SignalKeepsWaiters ==
    ASSUME TypeOK, QueueOK, Signal, pc' = pc
    PROVE  /\ parked' \in Seq(Goroutines)
           /\ woken' \in SUBSET Goroutines
           /\ QueueOK'
           /\ parked' # <<>> => woken' # {}
<1>1. CASE parked = <<>>
  BY <1>1 DEF TypeOK, QueueOK, InParked, Signal
<1>2. CASE parked # <<>>
  <2>1. /\ parked \in Seq(Goroutines)
        /\ Len(parked) \in Nat \ {0}
        /\ parked' = Tail(parked)
        /\ woken' = woken \cup {parked[1]}
    <3>1. parked \in Seq(Goroutines)
      BY DEF TypeOK
    <3>2. Len(parked) \in Nat \ {0}
      BY <1>2, <3>1, EmptySeq
    <3>. QED BY <1>2, <3>1, <3>2 DEF Signal
  <2>2. /\ parked' \in Seq(Goroutines)
        /\ Len(parked') = Len(parked) - 1
        /\ \A i \in 1 .. Len(parked') : parked'[i] = parked[i + 1]
    BY <2>1
  <2>3. parked[1] \in Goroutines
    BY <2>1
  <2>4. \A g : InParked(g) <=> InParked(g)' \/ g = parked[1]
    <3>1. ASSUME NEW g, InParked(g)
          PROVE  InParked(g)' \/ g = parked[1]
      <4>1. PICK i \in 1 .. Len(parked) : parked[i] = g
        BY <3>1 DEF InParked
      <4>2. CASE i = 1
        BY <4>1, <4>2
      <4>3. CASE i # 1
        <5>1. i - 1 \in 1 .. Len(parked') /\ parked'[i - 1] = g
          BY <2>1, <2>2, <4>1, <4>3
        <5>. QED BY <5>1 DEF InParked
      <4>. QED BY <4>2, <4>3
    <3>2. ASSUME NEW g, InParked(g)'
          PROVE  InParked(g)
      BY <2>1, <2>2, <3>2 DEF InParked
    <3>3. InParked(parked[1])
      BY <2>1 DEF InParked
    <3>. QED BY <3>1, <3>2, <3>3
  <2>5. \A h : h = parked[1] => ~InParked(h)'
    <3>1. ASSUME NEW i \in 1 .. Len(parked'), parked'[i] = parked[1]
          PROVE  FALSE
      <4>1. /\ i + 1 \in 1 .. Len(parked)
            /\ 1 \in 1 .. Len(parked)
            /\ i + 1 # 1
        BY <2>1, <2>2
      <4>2. parked[i + 1] = parked[1]
        BY <2>2, <3>1
      <4>. QED BY <4>1, <4>2 DEF QueueOK
    <3>. QED BY <3>1 DEF InParked
  <2>6. \A g \in woken' : ~InParked(g)'
    BY <2>1, <2>4, <2>5 DEF QueueOK
  <2>7. \A i, j \in 1 .. Len(parked') : parked'[i] = parked'[j] => i = j
    <3>1. ASSUME NEW i \in 1 .. Len(parked'), NEW j \in 1 .. Len(parked'),
                 parked'[i] = parked'[j]
          PROVE  i = j
      <4>1. /\ i \in Nat /\ j \in Nat
            /\ i + 1 \in 1 .. Len(parked) /\ j + 1 \in 1 .. Len(parked)
        BY <2>1, <2>2
      <4>2. parked[i + 1] = parked[j + 1]
        BY <2>2, <3>1
      <4>3. \A m, n \in 1 .. Len(parked) : parked[m] = parked[n] => m = n
        BY DEF QueueOK
      <4>4. i + 1 = j + 1
        BY ONLY <4>1, <4>2, <4>3
      <4>. QED BY ONLY <4>1, <4>4
    <3>. QED BY <3>1
  <2>8. \A g \in Goroutines : pc'[g] # "run" <=> (g \in woken' \/ InParked(g)')
    BY <2>1, <2>4 DEF QueueOK
  <2>. QED BY <2>1, <2>2, <2>3, <2>6, <2>7, <2>8 DEF QueueOK, TypeOK
<1>. QED BY <1>1, <1>2

\* A goroutine that parks joins the end of the list, once (sync.Cond.Wait).
LEMMA ParkQueues ==
    ASSUME TypeOK, QueueOK, NEW g \in Goroutines, NEW c \in {"lock", "reacquire"},
           pc[g] = "run" \/ g \in woken, Park(g, c)
    PROVE  /\ parked' \in Seq(Goroutines)
           /\ woken' \in SUBSET Goroutines
           /\ QueueOK'
<1>1. /\ parked \in Seq(Goroutines)
      /\ parked' = Append(parked, g)
      /\ woken' = woken \ {g}
      /\ pc' = [pc EXCEPT ![g] = c]
  BY DEF TypeOK, Park
<1>2. /\ parked' \in Seq(Goroutines)
      /\ Len(parked) \in Nat
      /\ Len(parked') = Len(parked) + 1
      /\ parked'[Len(parked) + 1] = g
      /\ \A i \in 1 .. Len(parked) : parked'[i] = parked[i]
  BY <1>1
<1>3. ~InParked(g)
  BY DEF QueueOK
<1>4. \A h : InParked(h)' <=> InParked(h) \/ h = g
  <2>1. ASSUME NEW h, InParked(h)'
        PROVE  InParked(h) \/ h = g
    BY <1>2, <2>1 DEF InParked
  <2>2. ASSUME NEW h, InParked(h) \/ h = g
        PROVE  InParked(h)'
    BY <1>2, <2>2 DEF InParked
  <2>. QED BY <2>1, <2>2
<1>5. \A i, j \in 1 .. Len(parked') : parked'[i] = parked'[j] => i = j
  BY <1>2, <1>3 DEF QueueOK, InParked
<1>6. \A h \in Goroutines : pc'[h] # "run" <=> (h \in woken' \/ InParked(h)')
  BY <1>1, <1>4 DEF QueueOK, TypeOK
<1>7. \A h \in woken' : ~InParked(h)'
  BY <1>1, <1>4 DEF QueueOK
<1>8. woken' \in SUBSET Goroutines
  BY <1>1 DEF TypeOK
<1>. QED BY <1>2, <1>5, <1>6, <1>7, <1>8 DEF QueueOK

\* A goroutine that goes on running leaves the list.
LEMMA LeaveQueue ==
    ASSUME TypeOK, QueueOK, NEW g \in Goroutines,
           pc[g] = "run" \/ g \in woken,
           pc' = [pc EXCEPT ![g] = "run"], woken' = woken \ {g}, parked' = parked
    PROVE  QueueOK'
<1>1. \A h : InParked(h)' <=> InParked(h)
  BY DEF InParked
<1>2. ~InParked(g)
  BY DEF QueueOK
<1>. QED BY <1>1, <1>2 DEF QueueOK, TypeOK

-----------------------------------------------------------------------------
(* The pieces the actions are made of *)

\* A goroutine passes the loop of lock (yodlock.go:42-44).
LEMMA TakeStep ==
    ASSUME IInv, NEW g \in Goroutines, Take(g),
           \/ pc[g] = "run" /\ open[g][nest[g]] < MaxOpen
           \/ pc[g] = "lock" /\ g \in woken
    PROVE  IInv'
<1> USE BoundsAssumption DEF Layers
<1>1. /\ owner' = g /\ depth' = depth + 1
      /\ open' = [open EXCEPT ![g][nest[g]] = @ + 1]
      /\ pc' = [pc EXCEPT ![g] = "run"]
      /\ woken' = woken \ {g}
      /\ parked' = parked /\ nest' = nest /\ saved' = saved
      /\ owner \in {NoOwner, g}
  BY DEF Take, FreeFor
<1>2. /\ depth = open[g][nest[g]]
      /\ open[g][nest[g]] \in 0 .. MaxOpen - 1
      /\ nest[g] \in 0 .. MaxNest
  <2>1. /\ nest[g] \in 0 .. MaxNest
        /\ open[g] \in [0 .. MaxNest -> 0 .. MaxOpen]
        /\ depth \in 0 .. MaxOpen
    BY DEF IInv, TypeOK
  <2>2. open[g][nest[g]] \in 0 .. MaxOpen
    BY <2>1
  <2>3. CASE owner = g
    <3>1. depth = open[g][nest[g]] /\ pc[g] = "run"
      BY <2>3 DEF IInv, DepthCountsBrackets, LayersOK
    <3>. QED BY <2>1, <2>2, <3>1
  <2>4. CASE owner = NoOwner
    <3>1. owner # g
      BY <2>4, NoOwnerAssumption
    <3>2. pc[g] = "run" => open[g][nest[g]] = 0 /\ MaxOpen > 0
      BY <2>2, <3>1 DEF IInv, OneRunner, Executing
    <3>3. pc[g] = "lock" => open[g][nest[g]] = 0 /\ MaxOpen > 0
      BY DEF IInv, LayersOK
    <3>4. depth = 0
      BY <2>4 DEF IInv, DepthCountsBrackets
    <3>. QED BY <2>1, <3>2, <3>3, <3>4
  <2>. QED BY <1>1, <2>3, <2>4
<1>3. /\ depth + 1 \in 1 .. MaxOpen
      /\ open \in [Goroutines -> [Layers -> 0 .. MaxOpen]]
      /\ pc \in [Goroutines -> {"run", "lock", "reacquire"}]
      /\ \A h \in Goroutines : nest[h] \in Layers
  <2>1. depth + 1 \in 1 .. MaxOpen
    BY ONLY <1>2, BoundsAssumption
  <2>2. /\ open \in [Goroutines -> [Layers -> 0 .. MaxOpen]]
        /\ pc \in [Goroutines -> {"run", "lock", "reacquire"}]
        /\ nest \in [Goroutines -> Layers]
    BY DEF IInv, TypeOK
  <2>. QED BY ONLY <2>1, <2>2
<1>4. open' = [open EXCEPT ![g] = [open[g] EXCEPT ![nest[g]] = depth + 1]]
  BY <1>1, <1>2
<1>5. [open[g] EXCEPT ![nest[g]] = depth + 1] \in [Layers -> 0 .. MaxOpen]
  BY <1>2, <1>3
<1>6. open' \in [Goroutines -> [Layers -> 0 .. MaxOpen]]
  BY ONLY <1>3, <1>4, <1>5
<1>7. \A h \in Goroutines, n \in Layers :
        open'[h][n] = IF h = g /\ n = nest[g] THEN depth + 1 ELSE open[h][n]
  BY ONLY <1>3, <1>4, g \in Goroutines
<1>8. \A h \in Goroutines : pc'[h] = IF h = g THEN "run" ELSE pc[h]
  BY <1>1, <1>3
<1>9. TypeOK'
  <2>1. depth' \in 0 .. MaxOpen
    BY ONLY <1>1, <1>3, BoundsAssumption
  <2>2. /\ parked \in Seq(Goroutines)
        /\ woken \in SUBSET Goroutines
        /\ nest \in [Goroutines -> Layers]
        /\ saved \in [Goroutines -> [Layers -> 0 .. MaxOpen]]
    BY DEF IInv, TypeOK
  <2>3. pc' \in [Goroutines -> {"run", "lock", "reacquire"}]
    BY ONLY <1>1, <1>3
  <2>. QED BY <1>1, <1>6, <2>1, <2>2, <2>3 DEF TypeOK
<1>10. DepthCountsBrackets'
  BY <1>1, <1>3, <1>7, NoOwnerAssumption DEF DepthCountsBrackets
<1>13. ASSUME NEW h \in Goroutines
       PROVE  /\ Executing(h)' => h = g
              /\ h # g => open'[h][nest[h]] = open[h][nest[h]]
  <2>1. h # g => open'[h][nest[h]] = open[h][nest[h]]
    BY ONLY <1>3, <1>7, h \in Goroutines, g \in Goroutines
  <2>2. h # g /\ pc[h] = "run" => open[h][nest[h]] = 0
    <3>1. ASSUME h # g PROVE owner # h
      BY <1>1, <3>1, NoOwnerAssumption
    <3>2. pc[h] = "run" /\ open[h][nest[h]] > 0 => owner = h
      BY DEF IInv, OneRunner, Executing
    <3>3. open[h][nest[h]] \in 0 .. MaxOpen
      BY ONLY <1>3, h \in Goroutines
    <3>. QED BY <3>1, <3>2, <3>3
  <2>. QED BY <1>1, <1>8, <2>1, <2>2 DEF Executing
<1>14. OneRunner'
  BY <1>1, <1>13 DEF OneRunner
<1>15. SavedMatchesLayer'
  <2>1. \A h \in Goroutines, n \in Layers : n < nest[h] => open'[h][n] = open[h][n]
    BY ONLY <1>3, <1>7
  <2>2. \A h \in Goroutines, n \in Layers :
          n > 0 => saved[h][n] = IF n <= nest[h] THEN open[h][n - 1] ELSE 0
    BY DEF IInv, SavedMatchesLayer
  <2>3. ASSUME NEW h \in Goroutines, NEW n \in Layers, n > 0
        PROVE  saved[h][n] = IF n <= nest[h] THEN open'[h][n - 1] ELSE 0
    <3>1. CASE n <= nest[h]
      <4>1. n - 1 \in Layers /\ n - 1 < nest[h]
        BY <1>3, <2>3, <3>1
      <4>. QED BY <2>1, <2>2, <2>3, <3>1, <4>1
    <3>2. CASE ~(n <= nest[h])
      BY <2>2, <2>3, <3>2
    <3>. QED BY <3>1, <3>2
  <2>. QED BY <1>1, <2>3 DEF SavedMatchesLayer
<1>16. LayersOK'
  <2>. SUFFICES ASSUME NEW h \in Goroutines
       PROVE  /\ pc'[h] # "run" => owner' # h /\ open'[h][nest'[h]] = 0
              /\ pc'[h] = "lock" => MaxOpen > 0
              /\ pc'[h] = "reacquire" => nest'[h] > 0 /\ saved'[h][nest'[h]] > 0
              /\ \A n \in Layers : n > nest'[h] => open'[h][n] = 0
    BY DEF LayersOK
  <2>1. \A n \in Layers : n > nest[h] => open'[h][n] = 0
    <3>1. \A n \in Layers : n > nest[h] => open[h][n] = 0
      BY DEF IInv, LayersOK
    <3>. QED BY ONLY <1>3, <1>7, <3>1, h \in Goroutines
  <2>2. CASE h = g
    BY <1>1, <1>8, <2>1, <2>2
  <2>3. CASE h # g
    <3>1. /\ pc[h] # "run" => open[h][nest[h]] = 0
          /\ pc[h] = "lock" => MaxOpen > 0
          /\ pc[h] = "reacquire" => nest[h] > 0 /\ saved[h][nest[h]] > 0
      BY DEF IInv, LayersOK
    <3>. QED BY <1>1, <1>8, <1>13, <2>1, <2>3, <3>1
  <2>. QED BY <2>2, <2>3
<1>11. QueueOK'
  BY <1>1, LeaveQueue DEF IInv
<1>12. SignalPending'
  BY <1>1, NoOwnerAssumption DEF SignalPending
<1>. QED BY <1>9, <1>10, <1>11, <1>12, <1>14, <1>15, <1>16 DEF IInv

\* A goroutine waits in the loop of lock or reacquire (yodlock.go:39-41, 87-89).
LEMMA ParkStep ==
    ASSUME IInv, NEW g \in Goroutines, NEW c \in {"lock", "reacquire"}, Park(g, c),
           \/ pc[g] = "run" 
           \/ pc[g] = c /\ g \in woken,
           open[g][nest[g]] = 0,
           c = "lock" => MaxOpen > 0,
           c = "reacquire" => nest[g] > 0 /\ saved[g][nest[g]] > 0
    PROVE  IInv'
<1>1. /\ owner \notin {NoOwner, g}
      /\ pc' = [pc EXCEPT ![g] = c]
      /\ UNCHANGED <<owner, depth, nest, open, saved>>
  BY DEF Park, FreeFor
<1>2. QueueOK' /\ parked' \in Seq(Goroutines) /\ woken' \in SUBSET Goroutines
  BY ParkQueues DEF IInv
<1>3. TypeOK'
  BY <1>1, <1>2 DEF IInv, TypeOK
<1>4. DepthCountsBrackets' /\ SavedMatchesLayer'
  BY <1>1 DEF IInv, DepthCountsBrackets, SavedMatchesLayer
<1>5. OneRunner'
  BY <1>1 DEF IInv, OneRunner, Executing, TypeOK
<1>6. LayersOK'
  BY <1>1 DEF IInv, LayersOK, TypeOK
<1>7. SignalPending'
  BY <1>1 DEF SignalPending
<1>. QED BY <1>2, <1>3, <1>4, <1>5, <1>6, <1>7 DEF IInv

\* A WithoutYodLock call ends (yodlock.go:81-93, 102-109): of a goroutine that
\* did not hold the lock, or of one that takes it back as deep as it was.
LEMMA LeaveStep ==
    ASSUME IInv, NEW g \in Goroutines, nest[g] > 0, open[g][nest[g]] = 0,
           \/ pc[g] = "run"
           \/ pc[g] = "reacquire" /\ g \in woken,
           \/ pc[g] = "run" /\ saved[g][nest[g]] = 0 /\ LeaveLayer(g) /\ UNCHANGED lockVars
           \/ saved[g][nest[g]] > 0 /\ Restore(g)
    PROVE  IInv'
<1> USE BoundsAssumption DEF Layers
<1>1. /\ nest' = [nest EXCEPT ![g] = @ - 1]
      /\ saved' = [saved EXCEPT ![g][nest[g]] = 0]
      /\ pc' = [pc EXCEPT ![g] = "run"]
      /\ open' = open
      /\ parked' = parked
      /\ woken' = woken \ {g}
  <2>1. pc[g] = "run" => woken = woken \ {g}
    BY DEF IInv, QueueOK
  <2>. QED BY <2>1 DEF LeaveLayer, Restore, lockVars
<1>2. /\ nest[g] \in 1 .. MaxNest
      /\ saved[g][nest[g]] = open[g][nest[g] - 1]
      /\ nest'[g] = nest[g] - 1
      /\ pc'[g] = "run"
      /\ \A n \in Layers : saved'[g][n] = IF n = nest[g] THEN 0 ELSE saved[g][n]
      /\ \A h \in Goroutines : h # g => saved'[h] = saved[h] /\ pc'[h] = pc[h] /\ nest'[h] = nest[h]
  BY <1>1 DEF IInv, TypeOK, SavedMatchesLayer
<1>3. owner # g
  BY DEF IInv, DepthCountsBrackets, LayersOK
<1>4. \/ /\ saved[g][nest[g]] = 0 /\ owner' = owner /\ depth' = depth
      \/ /\ saved[g][nest[g]] > 0 /\ owner = NoOwner
         /\ owner' = g /\ depth' = saved[g][nest[g]]
  BY <1>3 DEF lockVars, Restore, FreeFor
<1>5. TypeOK'
  <2>1. owner' \in Goroutines \cup {NoOwner} /\ depth' \in 0 .. MaxOpen
    <3>1. owner \in Goroutines \cup {NoOwner} /\ depth \in 0 .. MaxOpen
      BY DEF IInv, TypeOK
    <3>2. saved[g][nest[g]] \in 0 .. MaxOpen
      BY <1>2 DEF IInv, TypeOK
    <3>. QED BY <1>4, <3>1, <3>2
  <2>2. nest' \in [Goroutines -> Layers]
    BY <1>1, <1>2 DEF IInv, TypeOK
  <2>3. saved' \in [Goroutines -> [Layers -> 0 .. MaxOpen]]
    BY <1>1 DEF IInv, TypeOK
  <2>. QED BY <1>1, <2>1, <2>2, <2>3 DEF IInv, TypeOK
<1>6. DepthCountsBrackets'
  <2>1. CASE owner' = g
    BY <1>1, <1>2, <1>3, <1>4, <2>1, NoOwnerAssumption DEF DepthCountsBrackets
  <2>2. CASE owner' # g
    <3>1. owner' = owner /\ depth' = depth
      BY <1>4, <2>2
    <3>2. \A h \in Goroutines : owner = h => depth = open[h][nest[h]] /\ depth > 0
      BY DEF IInv, DepthCountsBrackets
    <3>3. owner = NoOwner => depth = 0
      BY DEF IInv, DepthCountsBrackets
    <3>. QED BY <1>1, <1>2, <2>2, <3>1, <3>2, <3>3 DEF DepthCountsBrackets
  <2>. QED BY <2>1, <2>2
<1>7. OneRunner'
  <2>. SUFFICES ASSUME NEW h \in Goroutines, pc'[h] = "run", open'[h][nest'[h]] > 0
       PROVE  owner' = h
    BY DEF OneRunner, Executing
  <2>1. CASE h = g
    BY <1>1, <1>2, <1>4, <2>1
  <2>2. CASE h # g
    <3>1. pc[h] = "run" /\ open[h][nest[h]] > 0
      BY <1>1, <1>2, <2>2
    <3>2. owner = h
      BY <3>1 DEF IInv, OneRunner, Executing
    <3>. QED BY <1>4, <3>2, NoOwnerAssumption
  <2>. QED BY <2>1, <2>2
<1>8. SavedMatchesLayer'
  <2>. SUFFICES ASSUME NEW h \in Goroutines, NEW n \in Layers, n > 0
       PROVE  saved'[h][n] = IF n <= nest'[h] THEN open'[h][n - 1] ELSE 0
    BY DEF SavedMatchesLayer
  <2>1. saved[h][n] = IF n <= nest[h] THEN open[h][n - 1] ELSE 0
    BY DEF IInv, SavedMatchesLayer
  <2>2. CASE h = g
    BY <1>1, <1>2, <2>1, <2>2
  <2>3. CASE h # g
    BY <1>1, <1>2, <2>1, <2>3
  <2>. QED BY <2>2, <2>3
<1>9. LayersOK'
  <2>1. \A n \in Layers : n > nest'[g] => open'[g][n] = 0
    BY <1>1, <1>2 DEF IInv, LayersOK, TypeOK
  <2>2. ASSUME NEW h \in Goroutines, h # g, pc[h] # "run" PROVE owner' # h
    BY <1>4, <2>2 DEF IInv, LayersOK
  <2>. QED BY <1>1, <1>2, <2>1, <2>2 DEF IInv, LayersOK, TypeOK
<1>10. QueueOK'
  BY <1>1, LeaveQueue DEF IInv
<1>11. SignalPending'
  <2>1. CASE owner' = g
    BY <2>1, NoOwnerAssumption DEF SignalPending
  <2>2. CASE owner' # g
    <3>1. owner' = owner /\ pc[g] = "run"
      BY <1>4, <2>2 DEF Restore
    <3>2. g \notin woken
      BY <3>1 DEF IInv, QueueOK
    <3>. QED BY <1>1, <3>1, <3>2 DEF IInv, SignalPending
  <2>. QED BY <2>1, <2>2
<1>. QED BY <1>5, <1>6, <1>7, <1>8, <1>9, <1>10, <1>11 DEF IInv
\* The owner frees the lock by WithoutYodLock (yodlock.go:66-79).
LEMMA ReleaseStep ==
    ASSUME IInv, NEW g \in Goroutines, WithoutYodLock(g), owner = g
    PROVE  IInv'
<1> USE BoundsAssumption DEF Layers
<1>1. /\ pc[g] = "run" /\ nest[g] < MaxNest
      /\ nest' = [nest EXCEPT ![g] = @ + 1]
      /\ saved' = [saved EXCEPT ![g][nest[g] + 1] = depth]
      /\ owner' = NoOwner /\ depth' = 0 /\ Signal
      /\ pc' = pc /\ open' = open
  BY DEF WithoutYodLock, SavedDepth, Release
<1>2. /\ nest[g] \in Layers /\ nest[g] + 1 \in Layers
      /\ depth = open[g][nest[g]]
      /\ depth \in 0 .. MaxOpen
      /\ nest \in [Goroutines -> Layers]
      /\ open \in [Goroutines -> [Layers -> 0 .. MaxOpen]]
      /\ saved \in [Goroutines -> [Layers -> 0 .. MaxOpen]]
  <2>1. /\ nest \in [Goroutines -> Layers]
        /\ open \in [Goroutines -> [Layers -> 0 .. MaxOpen]]
        /\ saved \in [Goroutines -> [Layers -> 0 .. MaxOpen]]
        /\ depth \in 0 .. MaxOpen
    BY DEF IInv, TypeOK
  <2>2. nest[g] \in Layers /\ nest[g] + 1 \in Layers
    BY <1>1, <2>1
  <2>3. depth = open[g][nest[g]]
    BY DEF IInv, DepthCountsBrackets
  <2>. QED BY <2>1, <2>2, <2>3
<1>3. /\ QueueOK' /\ parked' \in Seq(Goroutines) /\ woken' \in SUBSET Goroutines
      /\ parked' # <<>> => woken' # {}
  BY <1>1, SignalKeepsWaiters DEF IInv
<1>4. \A h \in Goroutines : nest'[h] = IF h = g THEN nest[h] + 1 ELSE nest[h]
  BY <1>1, <1>2
<1>5. \A h \in Goroutines, n \in Layers :
        saved'[h][n] = IF h = g /\ n = nest[g] + 1 THEN depth ELSE saved[h][n]
  BY <1>1, <1>2
<1>6. TypeOK'
  <2>1. nest' \in [Goroutines -> Layers]
    BY <1>1, <1>2
  <2>2. saved' = [saved EXCEPT ![g] = [saved[g] EXCEPT ![nest[g] + 1] = depth]]
    BY <1>1
  <2>3. [saved[g] EXCEPT ![nest[g] + 1] = depth] \in [Layers -> 0 .. MaxOpen]
    BY <1>2
  <2>4. saved' \in [Goroutines -> [Layers -> 0 .. MaxOpen]]
    BY <1>2, <2>2, <2>3
  <2>5. owner' \in Goroutines \cup {NoOwner} /\ depth' \in 0 .. MaxOpen
    BY <1>1
  <2>6. /\ pc' \in [Goroutines -> {"run", "lock", "reacquire"}]
        /\ open' \in [Goroutines -> [Layers -> 0 .. MaxOpen]]
    BY <1>1 DEF IInv, TypeOK
  <2>. QED BY ONLY <1>3, <2>1, <2>4, <2>5, <2>6 DEF TypeOK
<1>7. DepthCountsBrackets'
  BY <1>1, NoOwnerAssumption DEF DepthCountsBrackets
<1>8. \A n \in Layers : n > nest[g] => open[g][n] = 0
  BY DEF IInv, LayersOK
<1>9. open'[g][nest'[g]] = 0
  BY <1>1, <1>2, <1>4, <1>8
<1>10. OneRunner'
  <2>. SUFFICES ASSUME NEW h \in Goroutines, pc'[h] = "run", open'[h][nest'[h]] > 0
       PROVE  FALSE
    BY DEF OneRunner, Executing
  <2>1. h # g
    BY <1>9
  <2>2. owner = h
    BY <1>1, <1>4, <2>1 DEF IInv, OneRunner, Executing
  <2>. QED BY <2>1, <2>2
<1>11. SavedMatchesLayer'
  <2>. SUFFICES ASSUME NEW h \in Goroutines, NEW n \in Layers, n > 0
       PROVE  saved'[h][n] = IF n <= nest'[h] THEN open'[h][n - 1] ELSE 0
    BY DEF SavedMatchesLayer
  <2>1. saved[h][n] = IF n <= nest[h] THEN open[h][n - 1] ELSE 0
    BY DEF IInv, SavedMatchesLayer
  <2>2. CASE h = g
    <3>1. CASE n = nest[g] + 1
      BY <1>1, <1>2, <1>4, <1>5, <2>2, <3>1
    <3>2. CASE n # nest[g] + 1
      <4>0. nest[g] \in Int /\ n \in Int
        BY <1>2
      <4>1. n <= nest[g] <=> n <= nest[g] + 1
        BY ONLY <4>0, <3>2
      <4>. QED BY <1>1, <1>4, <1>5, <2>1, <2>2, <3>2, <4>1
    <3>. QED BY <3>1, <3>2
  <2>3. CASE h # g
    BY <1>1, <1>4, <1>5, <2>1, <2>3
  <2>. QED BY <2>2, <2>3
<1>12. LayersOK'
  <2>. SUFFICES ASSUME NEW h \in Goroutines
       PROVE  /\ pc'[h] # "run" => owner' # h /\ open'[h][nest'[h]] = 0
              /\ pc'[h] = "lock" => MaxOpen > 0
              /\ pc'[h] = "reacquire" => nest'[h] > 0 /\ saved'[h][nest'[h]] > 0
              /\ \A n \in Layers : n > nest'[h] => open'[h][n] = 0
    BY DEF LayersOK
  <2>1. CASE h = g
    BY <1>1, <1>2, <1>4, <1>8, <2>1
  <2>2. CASE h # g
    <3>1. /\ pc[h] # "run" => open[h][nest[h]] = 0
          /\ pc[h] = "lock" => MaxOpen > 0
          /\ pc[h] = "reacquire" => nest[h] > 0 /\ saved[h][nest[h]] > 0
          /\ \A n \in Layers : n > nest[h] => open[h][n] = 0
      BY DEF IInv, LayersOK
    <3>2. nest[h] \in Layers
      BY <1>2
    <3>. QED BY <1>1, <1>4, <1>5, <2>2, <3>1, <3>2, NoOwnerAssumption
  <2>. QED BY <2>1, <2>2
<1>13. SignalPending'
  BY <1>3 DEF SignalPending
<1>. QED BY <1>3, <1>6, <1>7, <1>10, <1>11, <1>12, <1>13 DEF IInv

\* The same call by a goroutine that does not own the lock (yodlock.go:69-72).
LEMMA WithoutStep ==
    ASSUME IInv, NEW g \in Goroutines, WithoutYodLock(g), owner # g
    PROVE  IInv'
<1> USE BoundsAssumption DEF Layers
<1>1. /\ pc[g] = "run" /\ nest[g] < MaxNest
      /\ nest' = [nest EXCEPT ![g] = @ + 1]
      /\ saved' = [saved EXCEPT ![g][nest[g] + 1] = 0]
      /\ UNCHANGED <<owner, depth, parked, woken, pc, open>>
  BY DEF WithoutYodLock, SavedDepth, lockVars
<1>2. /\ nest[g] \in Layers /\ nest[g] + 1 \in Layers
      /\ nest \in [Goroutines -> Layers]
      /\ open \in [Goroutines -> [Layers -> 0 .. MaxOpen]]
      /\ saved \in [Goroutines -> [Layers -> 0 .. MaxOpen]]
  <2>1. /\ nest \in [Goroutines -> Layers]
        /\ open \in [Goroutines -> [Layers -> 0 .. MaxOpen]]
        /\ saved \in [Goroutines -> [Layers -> 0 .. MaxOpen]]
    BY DEF IInv, TypeOK
  <2>2. nest[g] \in Layers /\ nest[g] + 1 \in Layers
    BY <1>1, <2>1
  <2>. QED BY <2>1, <2>2
<1>3. open[g][nest[g]] = 0
  <2>1. open[g][nest[g]] \in 0 .. MaxOpen
    BY <1>2
  <2>. QED BY <1>1, <2>1 DEF IInv, OneRunner, Executing
<1>4. \A h \in Goroutines : nest'[h] = IF h = g THEN nest[h] + 1 ELSE nest[h]
  BY <1>1, <1>2
<1>5. \A n \in Layers : n > nest[g] => open[g][n] = 0
  BY DEF IInv, LayersOK
<1>6. \A n \in Layers : n > 0 => saved[g][n] = IF n <= nest[g] THEN open[g][n - 1] ELSE 0
  BY DEF IInv, SavedMatchesLayer
<1>7. saved[g][nest[g] + 1] = 0
  BY <1>2, <1>6
<1>8. saved' = saved
  BY <1>1, <1>2, <1>7
<1>9. TypeOK'
  BY <1>1, <1>2, <1>8 DEF IInv, TypeOK
<1>10. \A h \in Goroutines : open'[h][nest'[h]] # open[h][nest[h]] => h = g
  BY <1>1, <1>4
<1>11. open'[g][nest'[g]] = 0
  BY <1>1, <1>2, <1>4, <1>5
<1>12. DepthCountsBrackets'
  BY <1>1, <1>10 DEF IInv, DepthCountsBrackets
<1>13. OneRunner'
  BY <1>1, <1>10, <1>11 DEF IInv, OneRunner, Executing
<1>14. SavedMatchesLayer'
  <2>. SUFFICES ASSUME NEW h \in Goroutines, NEW n \in Layers, n > 0
       PROVE  saved[h][n] = IF n <= nest'[h] THEN open[h][n - 1] ELSE 0
    BY <1>1, <1>8 DEF SavedMatchesLayer
  <2>1. saved[h][n] = IF n <= nest[h] THEN open[h][n - 1] ELSE 0
    BY DEF IInv, SavedMatchesLayer
  <2>2. CASE h = g
    <3>1. CASE n = nest[g] + 1
      BY <1>2, <1>3, <1>4, <1>7, <2>2, <3>1
    <3>2. CASE n # nest[g] + 1
      <4>0. nest[g] \in Int /\ n \in Int
        BY <1>2
      <4>1. n <= nest[g] <=> n <= nest[g] + 1
        BY ONLY <4>0, <3>2
      <4>. QED BY <1>4, <2>1, <2>2, <4>1
    <3>. QED BY <3>1, <3>2
  <2>3. CASE h # g
    BY <1>4, <2>1, <2>3
  <2>. QED BY <2>2, <2>3
<1>15. LayersOK'
  <2>. SUFFICES ASSUME NEW h \in Goroutines
       PROVE  /\ pc'[h] # "run" => owner' # h /\ open'[h][nest'[h]] = 0
              /\ pc'[h] = "lock" => MaxOpen > 0
              /\ pc'[h] = "reacquire" => nest'[h] > 0 /\ saved'[h][nest'[h]] > 0
              /\ \A n \in Layers : n > nest'[h] => open'[h][n] = 0
    BY DEF LayersOK
  <2>1. /\ pc[h] # "run" => owner # h /\ open[h][nest[h]] = 0
        /\ pc[h] = "lock" => MaxOpen > 0
        /\ pc[h] = "reacquire" => nest[h] > 0 /\ saved[h][nest[h]] > 0
        /\ \A n \in Layers : n > nest[h] => open[h][n] = 0
    BY DEF IInv, LayersOK
  <2>2. CASE h = g
    BY <1>1, <1>2, <1>4, <1>5, <2>2
  <2>3. CASE h # g
    BY <1>1, <1>4, <1>8, <2>1, <2>3
  <2>. QED BY <2>2, <2>3
<1>16. QueueOK' /\ SignalPending'
  BY <1>1 DEF IInv, QueueOK, InParked, SignalPending
<1>. QED BY <1>9, <1>12, <1>13, <1>14, <1>15, <1>16 DEF IInv

\* A bracket closes (yodlock.go:47-62): the lock is freed with the last one.
LEMMA UnlockStep ==
    ASSUME IInv, NEW g \in Goroutines, UnlockYod(g)
    PROVE  IInv'
<1> USE BoundsAssumption DEF Layers
<1>1. /\ nest \in [Goroutines -> Layers]
      /\ open \in [Goroutines -> [Layers -> 0 .. MaxOpen]]
      /\ depth \in 0 .. MaxOpen
  BY DEF IInv, TypeOK
<1>2. pc[g] = "run" /\ owner = g /\ depth = open[g][nest[g]] /\ depth > 0
  BY DEF UnlockYod, IInv, OneRunner, Executing, DepthCountsBrackets
<1>3. /\ open' = [open EXCEPT ![g][nest[g]] = @ - 1]
      /\ pc' = pc /\ nest' = nest /\ saved' = saved
      /\ Drop
  BY <1>2 DEF UnlockYod
<1>4. /\ open' = [open EXCEPT ![g] = [open[g] EXCEPT ![nest[g]] = depth - 1]]
      /\ depth - 1 \in 0 .. MaxOpen
      /\ depth' = depth - 1
      /\ IF depth = 1 THEN owner' = NoOwner /\ Signal
                      ELSE owner' = owner /\ parked' = parked /\ woken' = woken
  BY <1>1, <1>2, <1>3 DEF Drop, Release
<1>5. /\ QueueOK' /\ parked' \in Seq(Goroutines) /\ woken' \in SUBSET Goroutines
      /\ SignalPending'
  <2>1. CASE depth = 1
    BY <1>3, <1>4, <2>1, SignalKeepsWaiters DEF IInv, SignalPending
  <2>2. CASE depth # 1
    BY <1>3, <1>4, <2>2 DEF IInv, QueueOK, InParked, SignalPending, TypeOK
  <2>. QED BY <2>1, <2>2
<1>6. [open[g] EXCEPT ![nest[g]] = depth - 1] \in [Layers -> 0 .. MaxOpen]
  BY <1>1, <1>4
<1>7. \A h \in Goroutines, n \in Layers :
        open'[h][n] = IF h = g /\ n = nest[g] THEN depth - 1 ELSE open[h][n]
  BY <1>1, <1>4
<1>8. TypeOK'
  <2>1. open' \in [Goroutines -> [Layers -> 0 .. MaxOpen]]
    BY <1>1, <1>4, <1>6
  <2>2. owner' \in Goroutines \cup {NoOwner}
    BY <1>4 DEF IInv, TypeOK
  <2>. QED BY <1>3, <1>4, <1>5, <2>1, <2>2 DEF IInv, TypeOK
<1>9. nest[g] \in Layers /\ open'[g][nest[g]] = depth - 1
  BY <1>1, <1>7
<1>10. DepthCountsBrackets'
  BY <1>1, <1>2, <1>3, <1>4, <1>9, NoOwnerAssumption DEF DepthCountsBrackets
<1>11. \A h \in Goroutines : h # g => open'[h] = open[h] /\ ~Executing(h)
  BY <1>1, <1>2, <1>4 DEF IInv, OneRunner
<1>12. OneRunner'
  BY <1>1, <1>2, <1>3, <1>4, <1>9, <1>11 DEF OneRunner, Executing
<1>13. SavedMatchesLayer'
  <2>. SUFFICES ASSUME NEW h \in Goroutines, NEW n \in Layers, n > 0
       PROVE  saved[h][n] = IF n <= nest[h] THEN open'[h][n - 1] ELSE 0
    BY <1>3 DEF SavedMatchesLayer
  <2>1. saved[h][n] = IF n <= nest[h] THEN open[h][n - 1] ELSE 0
    BY DEF IInv, SavedMatchesLayer
  <2>2. n <= nest[h] => n - 1 \in Layers /\ n - 1 # nest[h]
    BY <1>1
  <2>. QED BY <1>7, <2>1, <2>2
<1>14. LayersOK'
  <2>. SUFFICES ASSUME NEW h \in Goroutines
       PROVE  /\ pc[h] # "run" => owner' # h /\ open'[h][nest[h]] = 0
              /\ pc[h] = "lock" => MaxOpen > 0
              /\ pc[h] = "reacquire" => nest[h] > 0 /\ saved[h][nest[h]] > 0
              /\ \A n \in Layers : n > nest[h] => open'[h][n] = 0
    BY <1>3 DEF LayersOK
  <2>1. /\ pc[h] # "run" => owner # h /\ open[h][nest[h]] = 0
        /\ pc[h] = "lock" => MaxOpen > 0
        /\ pc[h] = "reacquire" => nest[h] > 0 /\ saved[h][nest[h]] > 0
        /\ \A n \in Layers : n > nest[h] => open[h][n] = 0
    BY DEF IInv, LayersOK
  <2>2. \A n \in Layers : n > nest[h] => open'[h][n] = 0
    <3>1. nest[h] \in Int
      BY <1>1
    <3>2. \A n \in Layers : n > nest[h] => n # nest[h]
      BY ONLY <3>1
    <3>. QED BY <1>7, <2>1, <3>2
  <2>3. pc[h] # "run" => open'[h][nest[h]] = 0 /\ owner' # h
    BY <1>2, <1>4, <1>11, <2>1, NoOwnerAssumption
  <2>. QED BY <2>1, <2>2, <2>3
<1>. QED BY <1>5, <1>8, <1>10, <1>12, <1>13, <1>14 DEF IInv
-----------------------------------------------------------------------------
(* The inductive invariant *)

\* Before the first call the lock is free and nobody waits (yodlock.go:28-34).
LEMMA InitIInv == Init => IInv
<1> SUFFICES ASSUME Init PROVE IInv
  OBVIOUS
<1> USE BoundsAssumption, NoOwnerAssumption DEF Init, Layers
<1>1. TypeOK
  BY DEF TypeOK
<1>2. DepthCountsBrackets /\ OneRunner /\ LayersOK
  BY DEF DepthCountsBrackets, OneRunner, Executing, LayersOK
<1>3. SavedMatchesLayer
  <2>. SUFFICES ASSUME NEW g \in Goroutines, NEW n \in Layers, n > 0
       PROVE  saved[g][n] = IF n <= nest[g] THEN open[g][n - 1] ELSE 0
    BY DEF SavedMatchesLayer
  <2>1. saved[g][n] = 0 /\ nest[g] = 0 /\ ~(n <= 0)
    OBVIOUS
  <2>. QED BY ONLY <2>1
<1>4. QueueOK /\ SignalPending
  BY DEF QueueOK, InParked, SignalPending
<1>. QED BY <1>1, <1>2, <1>3, <1>4 DEF IInv

\* Every call of the lock keeps the inductive invariant.
LEMMA NextIInv == IInv /\ [Next]_vars => IInv'
<1> SUFFICES ASSUME IInv, [Next]_vars PROVE IInv'
  OBVIOUS
<1>1. ASSUME NEW g \in Goroutines, LockYod(g) PROVE IInv'
  <2>1. CASE Take(g)
    <3>1. pc[g] = "run" /\ open[g][nest[g]] < MaxOpen
      BY <1>1 DEF LockYod
    <3>. QED BY <2>1, <3>1, TakeStep
  <2>2. CASE Park(g, "lock")
    <3>1. pc[g] = "run" /\ open[g][nest[g]] < MaxOpen
      BY <1>1 DEF LockYod
    <3>2. owner # g
      BY <2>2 DEF Park, FreeFor
    <3>3. open[g][nest[g]] \in 0 .. MaxOpen
      BY DEF IInv, TypeOK
    <3>4. open[g][nest[g]] = 0 /\ MaxOpen > 0
      BY <3>1, <3>2, <3>3, BoundsAssumption DEF IInv, OneRunner, Executing
    <3>. QED BY <2>2, <3>1, <3>4, ParkStep
  <2>. QED BY <1>1, <2>1, <2>2 DEF LockYod
<1>2. ASSUME NEW g \in Goroutines, UnlockYod(g) PROVE IInv'
  BY <1>2, UnlockStep
<1>3. ASSUME NEW g \in Goroutines, WithoutYodLock(g) PROVE IInv'
  BY <1>3, ReleaseStep, WithoutStep
<1>4. ASSUME NEW g \in Goroutines, EndWithoutYodLock(g) PROVE IInv'
  <2>1. pc[g] = "run" /\ nest[g] > 0 /\ open[g][nest[g]] = 0
    BY <1>4 DEF EndWithoutYodLock
  <2>2. saved[g][nest[g]] \in 0 .. MaxOpen
    BY DEF IInv, TypeOK
  <2>3. CASE saved[g][nest[g]] <= 0
    BY <1>4, <2>1, <2>2, <2>3, BoundsAssumption, LeaveStep DEF EndWithoutYodLock
  <2>4. CASE ~(saved[g][nest[g]] <= 0)
    <3>1. saved[g][nest[g]] > 0
      BY <2>2, <2>4, BoundsAssumption
    <3>2. CASE Restore(g)
      BY <2>1, <3>1, <3>2, LeaveStep
    <3>3. CASE Park(g, "reacquire")
      BY <2>1, <3>1, <3>3, ParkStep
    <3>. QED BY <1>4, <2>4, <3>2, <3>3 DEF EndWithoutYodLock
  <2>. QED BY <2>3, <2>4
<1>5. ASSUME NEW g \in Goroutines, Wakeup(g) PROVE IInv'
  <2>1. g \in woken
    BY <1>5 DEF Wakeup
  <2>2. CASE pc[g] = "lock" /\ Take(g)
    BY <2>1, <2>2, TakeStep
  <2>3. CASE pc[g] = "lock" /\ Park(g, "lock")
    <3>1. open[g][nest[g]] = 0 /\ MaxOpen > 0
      BY <2>3 DEF IInv, LayersOK
    <3>. QED BY <2>1, <2>3, <3>1, ParkStep
  <2>4. CASE pc[g] = "reacquire" /\ Restore(g)
    <3>1. open[g][nest[g]] = 0 /\ nest[g] > 0 /\ saved[g][nest[g]] > 0
      BY <2>4 DEF IInv, LayersOK
    <3>. QED BY <2>1, <2>4, <3>1, LeaveStep
  <2>5. CASE pc[g] = "reacquire" /\ Park(g, "reacquire")
    <3>1. open[g][nest[g]] = 0 /\ nest[g] > 0 /\ saved[g][nest[g]] > 0
      BY <2>5 DEF IInv, LayersOK
    <3>. QED BY <2>1, <2>5, <3>1, ParkStep
  <2>. QED BY <1>5, <2>2, <2>3, <2>4, <2>5 DEF Wakeup
<1>6. ASSUME UNCHANGED vars PROVE IInv'
  <2>. USE <1>6 DEF vars
  <2>1. TypeOK' /\ DepthCountsBrackets' /\ OneRunner'
    BY DEF IInv, TypeOK, DepthCountsBrackets, OneRunner, Executing
  <2>2. SavedMatchesLayer' /\ LayersOK'
    BY DEF IInv, SavedMatchesLayer, LayersOK
  <2>3. QueueOK' /\ SignalPending'
    BY DEF IInv, QueueOK, InParked, SignalPending
  <2>. QED BY <2>1, <2>2, <2>3 DEF IInv
<1>. QED BY <1>1, <1>2, <1>3, <1>4, <1>5, <1>6 DEF Next

\* A signalled goroutine is a blocked one, so a pending signal is never wasted.
LEMMA SignalReachesWaiter == IInv => NoLostWakeup
<1> SUFFICES ASSUME IInv, owner = NoOwner, NEW g \in Waiting
             PROVE  woken \cap Waiting # {}
  BY DEF NoLostWakeup
<1>1. g \in woken \/ InParked(g)
  BY DEF IInv, QueueOK, Waiting
<1>2. woken \subseteq Waiting
  BY DEF IInv, QueueOK, Waiting, TypeOK
<1>3. CASE InParked(g)
  <2>1. parked \in Seq(Goroutines)
    BY DEF IInv, TypeOK
  <2>2. parked # <<>>
    BY <1>3, <2>1, EmptySeq DEF InParked
  <2>. QED BY <1>2, <2>2 DEF IInv, SignalPending
<1>. QED BY <1>1, <1>2, <1>3

\* The inductive invariant holds in every reachable state.
THEOREM Invariance == Spec => []IInv
<1>. QED BY InitIInv, NextIInv, PTL DEF Spec

-----------------------------------------------------------------------------
(* The results *)

\* The variables of the lock stay within their types, the depth within the
\* brackets of one layer, whatever the number of goroutines and of brackets.
THEOREM TypeCorrect == Spec => []TypeOK
<1>1. IInv => TypeOK
  BY DEF IInv
<1>. QED BY <1>1, Invariance, PTL

\* At most one goroutine runs Yod code: the promise of yodlock.go:12-15.
THEOREM MutualExclusion == Spec => []OneRunner
<1>1. IInv => OneRunner
  BY DEF IInv
<1>. QED BY <1>1, Invariance, PTL

\* The depth of the lock is the number of open brackets of its owner, and what
\* WithoutYodLock keeps aside is the number of brackets it interrupted.
THEOREM DepthsMatchBrackets == Spec => [](DepthCountsBrackets /\ SavedMatchesLayer)
<1>1. IInv => DepthCountsBrackets /\ SavedMatchesLayer
  BY DEF IInv
<1>. QED BY <1>1, Invariance, PTL

\* One Signal for each release suffices: a free lock with a waiter has a waiter
\* that is on its way to take it.
THEOREM WakeupsSuffice == Spec => []NoLostWakeup
<1>. QED BY SignalReachesWaiter, Invariance, PTL

-----------------------------------------------------------------------------
(* The lock implements RunLock *)

\* What RunLock sees of one step of one goroutine.
LEMMA StepRefines ==
    ASSUME IInv, [Next]_vars
    PROVE  [Abstract!Next]_<<owner, Waiting>>
<1>1. pc \in [Goroutines -> {"run", "lock", "reacquire"}]
  BY DEF IInv, TypeOK
<1>2. ASSUME NEW g \in Goroutines, Take(g), pc[g] # "run" => owner # g
      PROVE  Abstract!Grant(g) \/ UNCHANGED <<owner, Waiting>>
  <2>1. owner' = g /\ Waiting' = Waiting \ {g} /\ owner \in {NoOwner, g}
    BY <1>1, <1>2 DEF Take, FreeFor, Waiting
  <2>2. CASE owner = NoOwner
    BY <2>1, <2>2 DEF Abstract!Grant
  <2>3. CASE owner = g
    BY <1>2, <2>1, <2>3 DEF Waiting
  <2>. QED BY <2>1, <2>2, <2>3
<1>3. ASSUME NEW g \in Goroutines, NEW c \in {"lock", "reacquire"}, Park(g, c)
      PROVE  Abstract!Block(g)
  BY <1>1, <1>3 DEF Park, FreeFor, Waiting, Abstract!Block
<1>4. ASSUME NEW g \in Goroutines, Restore(g), owner # g
      PROVE  Abstract!Grant(g)
  BY <1>1, <1>4 DEF Restore, LeaveLayer, FreeFor, Waiting, Abstract!Grant
<1>5. ASSUME NEW g \in Goroutines, owner = g, Release, pc' = pc
      PROVE  Abstract!Yield(g)
  BY <1>5 DEF Release, Waiting, Abstract!Yield
<1>6. ASSUME NEW g \in Goroutines, LockYod(g)
      PROVE  [Abstract!Next]_<<owner, Waiting>>
  BY <1>2, <1>3, <1>6 DEF LockYod, Abstract!Next
<1>7. ASSUME NEW g \in Goroutines, UnlockYod(g)
      PROVE  [Abstract!Next]_<<owner, Waiting>>
  <2>1. CASE owner = g /\ Release
    BY <1>5, <1>7, <2>1 DEF UnlockYod, Abstract!Next
  <2>2. CASE UNCHANGED owner
    BY <1>7, <2>2 DEF UnlockYod, Waiting
  <2>. QED BY <1>7, <2>1, <2>2 DEF UnlockYod, Drop, lockVars
<1>8. ASSUME NEW g \in Goroutines, WithoutYodLock(g)
      PROVE  [Abstract!Next]_<<owner, Waiting>>
  <2>1. CASE owner = g
    BY <1>5, <1>8, <2>1 DEF WithoutYodLock, Abstract!Next
  <2>2. CASE owner # g
    BY <1>8, <2>2 DEF WithoutYodLock, lockVars, Waiting
  <2>. QED BY <2>1, <2>2
<1>9. ASSUME NEW g \in Goroutines, EndWithoutYodLock(g)
      PROVE  [Abstract!Next]_<<owner, Waiting>>
  <2>1. pc[g] = "run" /\ owner # g
    BY <1>9 DEF EndWithoutYodLock, IInv, DepthCountsBrackets
  <2>2. CASE LeaveLayer(g) /\ UNCHANGED lockVars
    BY <1>1, <2>1, <2>2 DEF LeaveLayer, lockVars, Waiting
  <2>3. CASE Restore(g)
    BY <1>4, <2>1, <2>3 DEF Abstract!Next
  <2>4. CASE Park(g, "reacquire")
    BY <1>3, <2>4 DEF Abstract!Next
  <2>. QED BY <1>9, <2>2, <2>3, <2>4 DEF EndWithoutYodLock
<1>10. ASSUME NEW g \in Goroutines, Wakeup(g)
       PROVE  [Abstract!Next]_<<owner, Waiting>>
  <2>1. pc[g] # "run" => owner # g
    BY DEF IInv, LayersOK
  <2>2. CASE Take(g)
    BY <1>2, <2>1, <2>2 DEF Abstract!Next
  <2>3. CASE Restore(g) /\ pc[g] = "reacquire"
    BY <1>4, <2>1, <2>3 DEF Abstract!Next
  <2>4. CASE \E c \in {"lock", "reacquire"} : Park(g, c)
    BY <1>3, <2>4 DEF Abstract!Next
  <2>. QED BY <1>10, <2>2, <2>3, <2>4 DEF Wakeup
<1>11. CASE UNCHANGED vars
  BY <1>11 DEF vars, Waiting
<1>. QED BY <1>6, <1>7, <1>8, <1>9, <1>10, <1>11 DEF Next

\* Every behaviour of the lock is, without its fairness, one of RunLock: a
\* goroutine is let in only when nobody runs, and it alone lets go.
THEOREM Refinement == Spec => StepsAreRunLockSteps
<1>1. Init => Abstract!Init
  BY DEF Init, Abstract!Init, Waiting
<1>. QED BY <1>1, StepRefines, Invariance, PTL DEF Spec, StepsAreRunLockSteps
=============================================================================
