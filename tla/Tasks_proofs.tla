---------------------------- MODULE Tasks_proofs ----------------------------
(***************************************************************************)
(* Background tasks, for any number of tasks, any length of the list and   *)
(* any number of calls at a time.  Nothing is asked of the program: it may *)
(* let several goroutines wait for one task, and change the list while     *)
(* ParallelTasks reads it; what the properties except is what the history  *)
(* variables crowded and resized name.                                     *)
(***************************************************************************)
EXTENDS Tasks, SequenceTheorems, TLAPS

\* Executors and workers are at places of their own.
PlacesOK ==
    /\ \A e \in Executors : pc[e] \notin {"idle", "check", "done"}
    /\ \A w \in Workers :
          pc[w] \in {"idle", "check", "read", "recv", "store", "mark", "done"}

\* A channel has nothing but the result of its task, and that once it is sent.
ChannelOK ==
    \A t \in Tasks :
        /\ ch[t] \in {<<>>, <<t>>}
        /\ ch[t] # <<>> => pc[t] = "sent"

\* Whoever waits, waits for a task; what it has received is that task's result.
WaitOK ==
    \A a \in Awaiters :
        /\ pc[a] \in {"read", "recv", "relock", "store", "mark"} => arg[a] \in Tasks
        /\ pc[a] \in {"relock", "store", "mark"} => got[a] = arg[a]

\* A task that is marked done has its own value, and so has one that is about to be
\* marked, or was found marked by somebody who is about to read the value.
ValueOK ==
    /\ \A t \in Tasks : done[t] => val[t] = t
    /\ \A a \in Awaiters : pc[a] \in {"read", "mark"} => val[arg[a]] = arg[a]

IInv ==
    /\ TypeOK
    /\ PlacesOK
    /\ ChannelOK
    /\ WaitOK
    /\ ValueOK
    /\ AwaitGivesOwnResult

\* A call to ParallelTasks whose list was left alone has one worker for each slot of
\* its result, and only another call can end the process.
CallOK ==
    /\ process = "crashed" => resized # {}
    /\ \A e \in Executors \ resized : pc[e] = "fork" => size[e] = Len(arr)
    /\ \A w \in Workers :
          /\ pc[w] # "idle" => pc[w[1]] = "join"
          /\ w[1] \notin resized =>
                /\ pc[w[1]] = "join" => (pc[w] = "idle" <=> w[2] > size[w[1]])
                /\ pc[w] = "done" => out[w] = IF arg[w] \in Tasks THEN arg[w] ELSE Error

\* Two wait for one task only where that is noted; a result that is gone has been stored
\* or is about to be; nobody waits alone for a task that is done.
AloneOK ==
    /\ \A t \in Tasks : \A a, b \in Waiters(t) : a = b \/ t \in crowded
    /\ \A t \in Tasks :
          pc[t] = "sent" /\ ch[t] = <<>> =>
              \/ done[t]
              \/ \E a \in Waiters(t) : pc[a] # "recv"
    /\ \A t \in Tasks : done[t] /\ Waiters(t) # {} => t \in crowded

-----------------------------------------------------------------------------
(* What the program's runs may rely on *)

LEMMA Actors ==
    /\ Main \in Executors /\ Tasks \subseteq Executors
    /\ Executors \subseteq Awaiters /\ Workers \subseteq Awaiters
    /\ \A a \in Awaiters : a \in Executors \/ a \in Workers
    /\ \A w \in Workers : w \notin Executors /\ w[1] \in Executors /\ w[2] \in 1 .. MaxLen
    /\ Tasks \subseteq Values /\ Tasks \subseteq Elements
    /\ Error \in Values /\ NoValue \in Values /\ NotATask \in Elements
    /\ NotATask \notin Tasks /\ NoValue \notin Tasks /\ Error \notin Tasks
  BY TasksAssumption DEF Executors, Workers, Awaiters, Values, Elements

\* What Pop leaves of the list.
LEMMA Cut ==
    ASSUME NEW s \in Seq(Elements), NEW n \in Nat, n <= Len(s)
    PROVE  SubSeq(s, 1, n) \in Seq(Elements) /\ Len(SubSeq(s, 1, n)) = n
<1>1. \A i \in 1 .. n : s[i] \in Elements
  OBVIOUS
<1>2. /\ SubSeq(s, 1, n) \in Seq(Elements)
      /\ Len(SubSeq(s, 1, n)) = IF 1 <= n THEN n - 1 + 1 ELSE 0
  BY <1>1, SubSeqProperties
<1> QED BY <1>2

LEMMA InitIInv == Init => IInv
<1>1. Init => TypeOK
  BY Actors, TasksAssumption DEF Init, TypeOK, Places
<1>2. Init => PlacesOK
  <2> SUFFICES ASSUME Init PROVE PlacesOK
    OBVIOUS
  <2>1. \A e \in Executors : pc[e] \in {"run", "unborn"}
    BY Actors DEF Init, Executors
  <2>2. \A w \in Workers : pc[w] = "idle"
    BY Actors DEF Init
  <2> QED BY <2>1, <2>2 DEF PlacesOK
<1>3. Init => ChannelOK /\ WaitOK
  BY Actors DEF Init, ChannelOK, WaitOK
<1>4. Init => ValueOK /\ AwaitGivesOwnResult
  BY Actors DEF Init, ValueOK, AwaitGivesOwnResult
<1> QED BY <1>1, <1>2, <1>3, <1>4 DEF IInv

-----------------------------------------------------------------------------
(* IInv is kept, whatever the program does *)

LEMMA SpawnIInv ==
    ASSUME IInv, NEW e \in Executors, NEW t \in Tasks, Spawn(e, t)
    PROVE  IInv'
  BY Actors
  DEF Spawn, Goto, IInv, TypeOK, PlacesOK, ChannelOK, WaitOK, ValueOK, AwaitGivesOwnResult,
      Places, taskVars, history

LEMMA TaskIInv ==
    ASSUME IInv, NEW t \in Tasks, StartTask(t) \/ FinishTask(t)
    PROVE  IInv'
<1>1. TypeOK'
  <2>1. pc' \in [Awaiters -> Places]
    BY Actors DEF StartTask, FinishTask, Goto, IInv, TypeOK, Places
  <2>2. runner' \in Executors \cup {Nobody}
    BY Actors DEF StartTask, FinishTask, Lock!Grant, Lock!Yield
  <2>3. UNCHANGED <<arg, got, ch, done, val, arr, size, out, ret, process, crowded, resized>>
    BY DEF StartTask, FinishTask, taskVars, history
  <2> QED BY <2>1, <2>2, <2>3 DEF IInv, TypeOK
<1>2. PlacesOK'
  BY Actors
  DEF StartTask, FinishTask, Running, Up, Lock!Grant, Lock!Yield, Goto, IInv, TypeOK,
      PlacesOK
<1>3. ChannelOK'
  BY Actors
  DEF StartTask, FinishTask, Running, Up, Lock!Grant, Lock!Yield, Goto, IInv, TypeOK,
      ChannelOK, taskVars
<1>4. WaitOK'
  BY Actors
  DEF StartTask, FinishTask, Running, Up, Lock!Grant, Lock!Yield, Goto, IInv, TypeOK,
      PlacesOK, WaitOK
<1>5. ValueOK' /\ AwaitGivesOwnResult'
  BY Actors
  DEF StartTask, FinishTask, Running, Up, Lock!Grant, Lock!Yield, Goto, IInv, TypeOK,
      ValueOK, AwaitGivesOwnResult, taskVars
<1> QED BY <1>1, <1>2, <1>3, <1>4, <1>5 DEF IInv

LEMMA SendIInv ==
    ASSUME IInv, NEW t \in Tasks, Send(t)
    PROVE  IInv'
<1>1. ch[t] = <<>>
  BY DEF Send, IInv, ChannelOK
<1>2. ch' = [ch EXCEPT ![t] = <<t>>]
  BY <1>1 DEF Send, Deliver
<1> QED
  BY <1>2, Actors
  DEF Send, Goto, IInv, TypeOK, PlacesOK, ChannelOK, WaitOK, ValueOK, AwaitGivesOwnResult,
      Places, history

LEMMA AwaitIInv ==
    ASSUME IInv, NEW e \in Executors, NEW t \in Tasks, Await(e, t)
    PROVE  IInv'
<1>1. TypeOK'
  <2>1. arg' \in [Awaiters -> Elements] /\ pc' \in [Awaiters -> Places]
    BY Actors DEF Await, Goto, IInv, TypeOK, Places
  <2>2. crowded' \subseteq Tasks
    BY DEF Await, WaitsToo, IInv, TypeOK
  <2> QED
    BY <2>1, <2>2 DEF Await, LetGo, Running, Lock!Yield, IInv, TypeOK, taskVars
<1>2. PlacesOK'
  BY Actors DEF Await, LetGo, Running, Lock!Yield, Goto, IInv, TypeOK, PlacesOK
<1>3. ChannelOK'
  BY Actors DEF Await, LetGo, Running, Lock!Yield, Goto, IInv, TypeOK, ChannelOK, taskVars
<1>4. WaitOK'
  BY Actors DEF Await, LetGo, Running, Lock!Yield, Goto, IInv, TypeOK, PlacesOK, WaitOK
<1>5. ValueOK' /\ AwaitGivesOwnResult'
  BY Actors
  DEF Await, LetGo, Running, Lock!Yield, Goto, IInv, TypeOK, ValueOK, AwaitGivesOwnResult,
      taskVars
<1> QED BY <1>1, <1>2, <1>3, <1>4, <1>5 DEF IInv

\* The two ways AwaitTask comes back: with the value that is in the task, or with the
\* one it has just kept there.
LEMMA ReturnIInv ==
    ASSUME IInv, NEW e \in Executors, Read(e) \/ Mark(e)
    PROVE  IInv'
<1>1. arg[e] \in Tasks /\ pc[e] \in {"read", "mark"} /\ val[arg[e]] = arg[e]
  BY Actors DEF Read, Mark, IInv, WaitOK, ValueOK
<1>2. /\ ret' = [ret EXCEPT ![e] = <<arg[e], arg[e]>>]
      /\ arg' = [arg EXCEPT ![e] = NotATask] /\ got' = [got EXCEPT ![e] = NoValue]
      /\ pc' = [pc EXCEPT ![e] = "run"]
  BY <1>1, Actors DEF Read, Mark, Return, Goto, IInv, WaitOK
<1>3. /\ done' = done \/ done' = [done EXCEPT ![arg[e]] = TRUE]
      /\ UNCHANGED <<runner, ch, val, arr, size, out, process, history>>
  BY DEF Read, Mark, Write, SetDone, taskVars
<1>4. TypeOK'
  BY <1>1, <1>2, <1>3, Actors DEF IInv, TypeOK, Places, history
<1>5. PlacesOK' /\ ChannelOK' /\ WaitOK'
  BY <1>1, <1>2, <1>3, Actors DEF IInv, TypeOK, PlacesOK, ChannelOK, WaitOK
<1>6. ValueOK'
  <2>1. \A t \in Tasks : done'[t] => val[t] = t
    BY <1>1, <1>3 DEF IInv, TypeOK, ValueOK
  <2>2. \A a \in Awaiters : pc'[a] \in {"read", "mark"} => val[arg'[a]] = arg'[a]
    BY <1>1, <1>2, Actors DEF IInv, TypeOK, ValueOK
  <2> QED BY <1>3, <2>1, <2>2 DEF ValueOK
<1>7. AwaitGivesOwnResult'
  BY <1>1, <1>2 DEF IInv, TypeOK, AwaitGivesOwnResult
<1> QED BY <1>4, <1>5, <1>6, <1>7 DEF IInv

LEMMA ReceiveIInv ==
    ASSUME IInv, NEW a \in Awaiters, Receive(a)
    PROVE  IInv'
<1> DEFINE t == arg[a]
<1>1. t \in Tasks /\ ch[t] = <<t>>
  BY DEF Receive, IInv, WaitOK, ChannelOK
<1>2. ch' = [ch EXCEPT ![t] = <<>>] /\ got' = [got EXCEPT ![a] = t]
  BY <1>1 DEF Receive, TakeValue
<1> QED
  BY <1>1, <1>2, Actors
  DEF Receive, Goto, IInv, TypeOK, PlacesOK, ChannelOK, WaitOK, ValueOK, AwaitGivesOwnResult,
      Places, history

LEMMA RelockIInv ==
    ASSUME IInv, NEW e \in Executors, Relock(e)
    PROVE  IInv'
  BY Actors
  DEF Relock, Lock!Grant, Goto, IInv, TypeOK, PlacesOK, ChannelOK, WaitOK, ValueOK,
      AwaitGivesOwnResult, Places, taskVars, history

LEMMA StoreIInv ==
    ASSUME IInv, NEW a \in Awaiters, Store(a)
    PROVE  IInv'
<1>1. pc[a] = "store" /\ arg[a] \in Tasks /\ got[a] = arg[a]
  BY DEF Store, IInv, WaitOK
<1>2. /\ val' = [val EXCEPT ![arg[a]] = arg[a]] /\ pc' = [pc EXCEPT ![a] = "mark"]
      /\ UNCHANGED <<runner, arg, got, ch, done, arr, size, out, ret, process, history>>
  BY <1>1 DEF Store, Write, SetVal, Goto
<1>3. TypeOK'
  BY <1>1, <1>2, Actors DEF IInv, TypeOK, Places, history
<1>4. PlacesOK' /\ ChannelOK' /\ WaitOK'
  BY <1>1, <1>2, Actors DEF IInv, TypeOK, PlacesOK, ChannelOK, WaitOK
<1>5. ValueOK' /\ AwaitGivesOwnResult'
  BY <1>1, <1>2, Actors DEF IInv, TypeOK, ValueOK, AwaitGivesOwnResult, WaitOK
<1> QED BY <1>3, <1>4, <1>5 DEF IInv

LEMMA ParallelIInv ==
    ASSUME IInv, NEW e \in Executors, Parallel(e)
    PROVE  IInv'
<1>1. Len(arr) \in 0 .. MaxLen
  BY TasksAssumption DEF IInv, TypeOK
<1> QED
  BY <1>1, Actors
  DEF Parallel, OutSize, LetGo, Lock!Yield, Running, Goto,
      IInv, TypeOK, PlacesOK, ChannelOK, WaitOK, ValueOK, AwaitGivesOwnResult, Places, taskVars,
      history

LEMMA ForkIInv ==
    ASSUME IInv, NEW e \in Executors, Fork(e)
    PROVE  IInv'
  BY Actors
  DEF Fork, WorkersOf, IInv, TypeOK, PlacesOK, ChannelOK, WaitOK, ValueOK, AwaitGivesOwnResult,
      Places, taskVars, history

LEMMA WorkerIInv ==
    ASSUME IInv, NEW w \in Workers, WorkerCheck(w) \/ WorkerRead(w) \/ WorkerMark(w)
    PROVE  IInv'
<1>1. ASSUME NEW v \in Values, Deposit(w, v)
      PROVE  out' \in [Workers -> Values] /\ process' \in {"up", "exited", "crashed"}
  BY <1>1 DEF Deposit, IInv, TypeOK
<1>2. CASE WorkerCheck(w)
  <2>1. TypeOK'
    <3>1. /\ out' \in [Workers -> Values] /\ process' \in {"up", "exited", "crashed"}
          /\ pc' \in [Awaiters -> Places]
      BY <1>1, <1>2, Actors DEF WorkerCheck, Goto, IInv, TypeOK, Places
    <3>2. crowded' \subseteq Tasks
      BY <1>2 DEF WorkerCheck, WaitsToo, IInv, TypeOK
    <3> QED BY <1>2, <3>1, <3>2 DEF WorkerCheck, IInv, TypeOK, taskVars
  <2>2. PlacesOK'
    BY <1>2, Actors DEF WorkerCheck, Deposit, Goto, IInv, TypeOK, PlacesOK
  <2>3. ChannelOK'
    BY <1>2, Actors DEF WorkerCheck, Deposit, Goto, IInv, TypeOK, ChannelOK, taskVars
  <2>4. WaitOK'
    BY <1>2, Actors DEF WorkerCheck, Deposit, Goto, IInv, TypeOK, PlacesOK, WaitOK
  <2>5. ValueOK' /\ AwaitGivesOwnResult'
    BY <1>2, Actors
    DEF WorkerCheck, Deposit, Goto, IInv, TypeOK, ValueOK, AwaitGivesOwnResult, taskVars
  <2> QED BY <2>1, <2>2, <2>3, <2>4, <2>5 DEF IInv
<1>3. CASE WorkerRead(w) \/ WorkerMark(w)
  <2>1. arg[w] \in Tasks /\ val[arg[w]] = arg[w]
    BY <1>3, Actors DEF WorkerRead, WorkerMark, IInv, WaitOK, ValueOK
  <2>2. /\ pc' = [pc EXCEPT ![w] = "done"]
        /\ done' = done \/ done' = [done EXCEPT ![arg[w]] = TRUE]
        /\ UNCHANGED <<runner, arg, got, ch, val, arr, size, ret, history>>
    BY <1>3 DEF WorkerRead, WorkerMark, Write, SetDone, Goto, taskVars
  <2>6. val[arg[w]] \in Values /\ got[w] \in Values
    BY <2>1, Actors DEF IInv, TypeOK
  <2>7. \E v \in Values : Deposit(w, v)
    BY <1>3, <2>6 DEF WorkerRead, WorkerMark
  <2>3. TypeOK'
    BY <1>1, <2>1, <2>2, <2>7, Actors DEF IInv, TypeOK, Places, history
  <2>4. PlacesOK' /\ ChannelOK' /\ WaitOK'
    BY <2>1, <2>2, Actors DEF IInv, TypeOK, PlacesOK, ChannelOK, WaitOK
  <2>5. ValueOK' /\ AwaitGivesOwnResult'
    <3>1. \A t \in Tasks : done'[t] => val[t] = t
      BY <2>1, <2>2 DEF IInv, TypeOK, ValueOK
    <3>2. \A a \in Awaiters : pc'[a] \in {"read", "mark"} => val[arg[a]] = arg[a]
      BY <2>2 DEF IInv, TypeOK, ValueOK
    <3> QED BY <2>2, <3>1, <3>2 DEF ValueOK, AwaitGivesOwnResult, IInv
  <2> QED BY <2>3, <2>4, <2>5 DEF IInv
<1> QED BY <1>2, <1>3

LEMMA JoinIInv ==
    ASSUME IInv, NEW e \in Executors, Join(e)
    PROVE  IInv'
<1>1. TypeOK'
  BY Actors, TasksAssumption DEF Join, Lock!Grant, IInv, TypeOK, Places, taskVars
<1>2. PlacesOK'
  BY Actors DEF Join, WorkersOf, Lock!Grant, IInv, TypeOK, PlacesOK
<1>3. ChannelOK'
  BY Actors DEF Join, WorkersOf, Lock!Grant, IInv, TypeOK, ChannelOK, taskVars
<1>4. WaitOK'
  BY Actors DEF Join, WorkersOf, Lock!Grant, IInv, TypeOK, PlacesOK, WaitOK
<1>5. ValueOK' /\ AwaitGivesOwnResult'
  BY Actors
  DEF Join, WorkersOf, Lock!Grant, IInv, TypeOK, ValueOK, AwaitGivesOwnResult, taskVars
<1> QED BY <1>1, <1>2, <1>3, <1>4, <1>5 DEF IInv

LEMMA ListIInv ==
    ASSUME IInv, NEW e \in Executors, Pop(e) \/ \E x \in Elements : Push(e, x)
    PROVE  IInv'
<1>1. arr' \in Seq(Elements) /\ Len(arr') <= MaxLen
  <2>1. arr \in Seq(Elements) /\ Len(arr) \in Nat /\ Len(arr) <= MaxLen
    BY DEF IInv, TypeOK
  <2>2. CASE Pop(e)
    <3>1. Len(arr) # 0
      BY <2>1, <2>2, EmptySeq DEF Pop
    <3>2. PICK n \in Nat : n = Len(arr) - 1
      BY <2>1, <3>1
    <3>3. arr' \in Seq(Elements) /\ Len(arr') = n
      BY <2>1, <2>2, <3>2, Cut DEF Pop, Change
    <3> QED BY <2>1, <3>2, <3>3, TasksAssumption
  <2>3. CASE \E x \in Elements : Push(e, x)
    BY <2>1, <2>3, TasksAssumption DEF Push, Change
  <2> QED BY <2>2, <2>3
<1> QED
  BY <1>1
  DEF Pop, Push, Change, IInv, TypeOK, PlacesOK, ChannelOK, WaitOK, ValueOK,
      AwaitGivesOwnResult, taskVars

LEMMA EndIInv ==
    ASSUME IInv, FinishMain \/ Exit
    PROVE  IInv'
<1>1. TypeOK'
  BY Actors, TasksAssumption
  DEF FinishMain, Exit, Running, Lock!Yield, Goto, IInv, TypeOK, Places, taskVars, history
<1>2. PlacesOK'
  BY Actors, TasksAssumption
  DEF FinishMain, Exit, Running, Lock!Yield, Goto, IInv, TypeOK, PlacesOK
<1>3. ChannelOK'
  BY Actors, TasksAssumption
  DEF FinishMain, Exit, Running, Lock!Yield, Goto, IInv, TypeOK, ChannelOK, taskVars
<1>4. WaitOK'
  BY Actors, TasksAssumption
  DEF FinishMain, Exit, Running, Lock!Yield, Goto, IInv, TypeOK, PlacesOK, WaitOK
<1>5. ValueOK' /\ AwaitGivesOwnResult'
  BY Actors, TasksAssumption
  DEF FinishMain, Exit, Running, Lock!Yield, Goto, IInv, TypeOK, ValueOK,
      AwaitGivesOwnResult, taskVars
<1> QED BY <1>1, <1>2, <1>3, <1>4, <1>5 DEF IInv

LEMMA NextIInv == IInv /\ [Next]_vars => IInv'
<1> SUFFICES ASSUME IInv, [Next]_vars PROVE IInv'
  OBVIOUS
<1>1. CASE UNCHANGED vars
  BY <1>1
  DEF vars, history, taskVars, IInv, TypeOK, PlacesOK, ChannelOK, WaitOK, ValueOK, AwaitGivesOwnResult
<1>2. CASE Next
  BY <1>2, SpawnIInv, TaskIInv, SendIInv, AwaitIInv, ReturnIInv, ReceiveIInv, RelockIInv,
     StoreIInv, ParallelIInv, ForkIInv, WorkerIInv, JoinIInv, ListIInv, EndIInv
  DEF Next, ExecutorStep
<1> QED BY <1>1, <1>2

\* The inductive invariant holds in every reachable state.
THEOREM Invariance == Spec => []IInv
  BY InitIInv, NextIInv, PTL DEF Spec

\* Types.
THEOREM TypeCorrect == Spec => []TypeOK
<1>1. IInv => TypeOK
  BY DEF IInv
<1> QED BY <1>1, Invariance, PTL

\* A call to AwaitTask gives the result of the task it was given, however many
\* goroutines wait for it and wherever a worker is in its two writes to the task.
THEOREM OwnResult == Spec => []AwaitGivesOwnResult
<1>1. IInv => AwaitGivesOwnResult
  BY DEF IInv
<1> QED BY <1>1, Invariance, PTL

-----------------------------------------------------------------------------
(* The results of ParallelTasks are in order *)

LEMMA InitCallOK == Init => CallOK
<1> SUFFICES ASSUME Init PROVE CallOK
  OBVIOUS
<1>1. \A e \in Executors : pc[e] \notin {"fork", "join"}
  BY Actors DEF Init, Executors
<1>2. \A w \in Workers : pc[w] = "idle"
  BY Actors DEF Init
<1> QED BY <1>1, <1>2, Actors DEF Init, CallOK

\* A step that is not about a call of ParallelTasks.
LEMMA OtherCallOK ==
    ASSUME CallOK, UNCHANGED <<arr, size, out, resized>>,
           process' = "crashed" => process = "crashed",
           \A e \in Executors :
              pc[e] \in {"fork", "join"} \/ pc'[e] \in {"fork", "join"} => pc'[e] = pc[e],
           \A w \in Workers : pc'[w] = pc[w] /\ arg'[w] = arg[w]
    PROVE  CallOK'
<1>1. \A w \in Workers : w[1] \in Executors
  BY Actors
<1> QED BY <1>1 DEF CallOK

LEMMA ExecutorCallOK ==
    ASSUME IInv, CallOK,
           \/ \E e \in Executors : \/ Read(e) \/ Relock(e) \/ Store(e) \/ Mark(e)
                                   \/ \E t \in Tasks : Spawn(e, t) \/ Await(e, t)
           \/ \E t \in Tasks : StartTask(t) \/ FinishTask(t) \/ Send(t)
           \/ FinishMain \/ Exit
    PROVE  CallOK'
<1>1. UNCHANGED <<arr, size, out, resized>> /\ (process' = "crashed" => process = "crashed")
  BY DEF Spawn, StartTask, FinishTask, Send, Await, Read, Relock, Store, Mark, FinishMain, Exit,
         history
<1>2. PICK e \in Executors, to \in Places \ {"fork", "join"} :
         /\ pc[e] \notin {"fork", "join"}
         /\ pc' = pc \/ pc' = [pc EXCEPT ![e] = to]
         /\ arg' = arg \/ \E t \in Elements : arg' = [arg EXCEPT ![e] = t]
  BY Actors
  DEF Spawn, StartTask, FinishTask, Send, Await, Read, Relock, Store, Mark, Return, FinishMain,
      Exit, Running, Goto, Places
<1>3. \A x \in Executors :
         pc[x] \in {"fork", "join"} \/ pc'[x] \in {"fork", "join"} => pc'[x] = pc[x]
  BY <1>2, Actors DEF IInv, TypeOK
<1>4. \A w \in Workers : pc'[w] = pc[w] /\ arg'[w] = arg[w]
  BY <1>2, Actors DEF IInv, TypeOK
<1> QED BY <1>1, <1>3, <1>4, OtherCallOK

\* A worker goes on towards its result.
LEMMA ReceiveCallOK ==
    ASSUME IInv, CallOK, NEW a \in Awaiters, Receive(a) \/ Store(a)
    PROVE  CallOK'
<1>1. UNCHANGED <<arr, size, out, arg, process, resized>>
  BY DEF Receive, Store, history
<1>2. pc[a] \in {"recv", "store"}
  BY DEF Receive, Store
<1>3. PICK to \in {"relock", "store", "mark"} : pc' = [pc EXCEPT ![a] = to]
  BY DEF Receive, Store, Goto
<1>4. CASE a \in Executors
  <2>1. \A w \in Workers : pc'[w] = pc[w]
    BY <1>3, <1>4, Actors DEF IInv, TypeOK
  <2>2. \A e \in Executors : pc'[e] = IF e = a THEN to ELSE pc[e]
    BY <1>3, <1>4, Actors DEF IInv, TypeOK
  <2> QED BY <1>1, <1>2, <2>1, <2>2, OtherCallOK
<1>5. CASE a \in Workers
  <2>1. \A e \in Executors : pc'[e] = pc[e]
    BY <1>3, <1>5, Actors DEF IInv, TypeOK
  <2>2. \A w \in Workers : w # a => pc'[w] = pc[w]
    BY <1>3, Actors DEF IInv, TypeOK
  <2>3. pc'[a] = to
    BY <1>3 DEF IInv, TypeOK
  <2> QED BY <1>1, <1>2, <2>1, <2>2, <2>3, Actors DEF CallOK
<1> QED BY <1>4, <1>5, Actors

LEMMA ParallelCallOK ==
    ASSUME IInv, CallOK, NEW e \in Executors, Parallel(e)
    PROVE  CallOK'
<1>1. /\ pc[e] = "run" /\ pc' = [pc EXCEPT ![e] = "fork"]
      /\ size' = [size EXCEPT ![e] = Len(arr)]
      /\ UNCHANGED <<arr, arg, out, process, resized>>
  BY DEF Parallel, Running, Goto, OutSize, history
<1>2. /\ \A w \in Workers : pc'[w] = pc[w]
      /\ \A x \in Executors \ {e} : pc'[x] = pc[x] /\ size'[x] = size[x]
      /\ pc'[e] = "fork" /\ size'[e] = Len(arr)
  BY <1>1, Actors DEF IInv, TypeOK
<1>3. \A w \in Workers : w[1] = e => pc[w] = "idle"
  BY <1>1, Actors DEF CallOK
<1> QED BY <1>1, <1>2, <1>3, Actors DEF CallOK

LEMMA ForkCallOK ==
    ASSUME IInv, CallOK, NEW e \in Executors, Fork(e)
    PROVE  CallOK'
<1>1. pc[e] = "fork" /\ UNCHANGED <<arr, size, out, process, resized>>
  BY DEF Fork, history
<1>2. /\ DOMAIN arr = 1 .. Len(arr) /\ Len(arr) \in Nat
      /\ e \notin resized => size[e] = Len(arr)
  BY <1>1 DEF IInv, TypeOK, CallOK
<1>3. /\ pc'[e] = "join" /\ \A x \in Executors \ {e} : pc'[x] = pc[x]
      /\ \A w \in Workers : w[1] # e => pc'[w] = pc[w] /\ arg'[w] = arg[w]
      /\ \A w \in Workers : w[1] = e => pc'[w] = IF w[2] <= Len(arr) THEN "check" ELSE pc[w]
  BY <1>2, Actors DEF Fork, WorkersOf
<1>4. \A w \in Workers : w[1] = e => pc[w] = "idle"
  BY <1>1, Actors DEF CallOK
<1>5. \A w \in Workers : w[2] \in Nat
  BY Actors
<1> QED BY <1>1, <1>2, <1>3, <1>4, <1>5, Actors DEF CallOK

LEMMA WorkerCallOK ==
    ASSUME IInv, CallOK, NEW w \in Workers, WorkerCheck(w) \/ WorkerRead(w) \/ WorkerMark(w)
    PROVE  CallOK'
<1> DEFINE v == IF arg[w] \in Tasks THEN arg[w] ELSE Error
<1>1. pc[w] # "idle" /\ pc[w] # "done" /\ pc[w[1]] = "join"
  BY Actors DEF WorkerCheck, WorkerRead, WorkerMark, CallOK
<1>2. w[1] \notin resized => w[2] <= size[w[1]]
  BY <1>1, Actors, TasksAssumption DEF CallOK, IInv, TypeOK
<1>3. UNCHANGED <<arr, size, arg, resized>>
  BY DEF WorkerCheck, WorkerRead, WorkerMark, history
<1>4. \/ pc' \in {[pc EXCEPT ![w] = "recv"], [pc EXCEPT ![w] = "read"]}
         /\ UNCHANGED <<out, process>>
      \/ pc' = [pc EXCEPT ![w] = "done"] /\ Deposit(w, v)
  <2>1. CASE WorkerCheck(w)
    BY <2>1 DEF WorkerCheck, Goto
  <2>2. CASE WorkerRead(w) \/ WorkerMark(w)
    <3>1. arg[w] \in Tasks /\ (pc[w] = "mark" => got[w] = arg[w]) /\ val[arg[w]] = arg[w]
      BY <2>2, Actors DEF WorkerRead, WorkerMark, IInv, WaitOK, ValueOK
    <3> QED BY <2>2, <3>1 DEF WorkerRead, WorkerMark, Goto
  <2> QED BY <2>1, <2>2
<1> HIDE DEF v
<1>5. \A x \in Executors : pc'[x] = pc[x]
  BY <1>4, Actors DEF IInv, TypeOK
<1>6. \A x \in Workers \ {w} : pc'[x] = pc[x] /\ out'[x] = out[x]
  BY <1>4, Actors DEF Deposit, IInv, TypeOK
<1>7. /\ pc'[w] \in {"recv", "read", "done"}
      /\ w[1] \notin resized /\ pc'[w] = "done" => out'[w] = v
  <2>1. w \in Awaiters /\ DOMAIN pc = Awaiters /\ DOMAIN out = Workers
    BY Actors DEF IInv, TypeOK
  <2> QED BY <1>2, <1>4, <2>1 DEF Deposit
<1>8. process' = "crashed" => resized # {}
  <2>1. UNCHANGED process \/ w[1] \in resized
    BY <1>2, <1>4 DEF Deposit
  <2> QED BY <2>1 DEF CallOK
<1> QED BY <1>1, <1>3, <1>5, <1>6, <1>7, <1>8, Actors DEF CallOK, v

LEMMA JoinCallOK ==
    ASSUME IInv, CallOK, NEW e \in Executors, Join(e)
    PROVE  CallOK'
<1>1. /\ pc'[e] = "run" /\ \A x \in Executors \ {e} : pc'[x] = pc[x] /\ size'[x] = size[x]
      /\ \A w \in Workers : w[1] # e => pc'[w] = pc[w] /\ out'[w] = out[w] /\ arg'[w] = arg[w]
      /\ \A w \in Workers : w[1] = e => pc'[w] = "idle"
      /\ UNCHANGED <<arr, process>> /\ process # "crashed" /\ resized' = resized \ {e}
  BY Actors DEF Join, Up, WorkersOf, IInv, TypeOK
<1> QED BY <1>1, Actors DEF CallOK

LEMMA ListCallOK ==
    ASSUME IInv, CallOK, NEW e \in Executors, Pop(e) \/ \E x \in Elements : Push(e, x)
    PROVE  CallOK'
<1>1. /\ UNCHANGED <<pc, arg, size, out, process>>
      /\ resized' = resized \cup {x \in Executors : pc[x] = "fork"}
  BY DEF Pop, Push, Change
<1> QED BY <1>1, Actors DEF CallOK

LEMMA NextCallOK == IInv /\ CallOK /\ [Next]_vars => CallOK'
<1> SUFFICES ASSUME IInv, CallOK, [Next]_vars PROVE CallOK'
  OBVIOUS
<1>1. CASE UNCHANGED vars
  BY <1>1 DEF vars, CallOK
<1>2. CASE Next
  <2>1. CASE \E e \in Executors : ExecutorStep(e)
    BY <2>1, ExecutorCallOK, ParallelCallOK, ForkCallOK, JoinCallOK, ListCallOK
    DEF ExecutorStep
  <2>2. CASE \E t \in Tasks : StartTask(t) \/ FinishTask(t) \/ Send(t)
    BY <2>2, ExecutorCallOK
  <2>3. CASE FinishMain \/ Exit
    BY <2>3, ExecutorCallOK
  <2> QED BY <1>2, <2>1, <2>2, <2>3, ReceiveCallOK, WorkerCallOK DEF Next
<1> QED BY <1>1, <1>2

\* No worker writes beyond the end of the result, and slot i of the result is that of
\* element i, for every call during whose two readings of the list it was left alone.
THEOREM InOrder == Spec => []ResultsInOrder
<1>1. IInv /\ CallOK => ResultsInOrder
  <2> SUFFICES ASSUME IInv, CallOK, NEW e \in Executors \ resized, pc[e] = "join", AllDone(e),
                      NEW i \in 1 .. size[e]
               PROVE  out[<<e, i>>] = IF arg[<<e, i>>] \in Tasks THEN arg[<<e, i>>] ELSE Error
    BY DEF ResultsInOrder, CallOK
  <2> DEFINE w == <<e, i>>
  <2>1. w \in Workers /\ w[1] = e /\ w[2] = i
    BY TasksAssumption DEF IInv, TypeOK, Workers
  <2>2. pc[w] \in {"idle", "done"}
    BY <2>1 DEF AllDone, WorkersOf
  <2>3. ~(w[2] > size[w[1]])
    BY <2>1, TasksAssumption DEF IInv, TypeOK
  <2>4. pc[w] = "done"
    BY <2>1, <2>2, <2>3 DEF CallOK
  <2> QED BY <2>1, <2>4 DEF CallOK
<1> QED BY <1>1, InitIInv, NextIInv, InitCallOK, NextCallOK, PTL DEF Spec

-----------------------------------------------------------------------------
(* Who waits for a result that is gone *)

LEMMA InitAloneOK == Init => AloneOK
<1> SUFFICES ASSUME Init PROVE AloneOK
  OBVIOUS
<1>1. \A a \in Awaiters : pc[a] \in {"run", "unborn", "idle"}
  BY DEF Init
<1> QED BY <1>1, Actors DEF Init, AloneOK, Waiters

\* A step in which nobody begins or ends to wait, and no result comes or goes.
LEMMA OtherAloneOK ==
    ASSUME AloneOK, UNCHANGED <<ch, done, crowded>>,
           \A t \in Tasks : Waiters(t)' = Waiters(t),
           \A t \in Tasks : pc'[t] = "sent" => pc[t] = "sent",
           \A t \in Tasks : \A a \in Waiters(t) : pc[a] # "recv" => pc'[a] # "recv"
    PROVE  AloneOK'
  BY DEF AloneOK

LEMMA QuietAloneOK ==
    ASSUME IInv, CallOK, AloneOK,
           \/ \E e \in Executors : \/ \E t \in Tasks : Spawn(e, t)
                                   \/ Read(e) \/ Relock(e)
                                   \/ Parallel(e) \/ Fork(e) \/ Join(e) \/ Pop(e)
                                   \/ \E x \in Elements : Push(e, x)
           \/ \E t \in Tasks : StartTask(t) \/ FinishTask(t)
           \/ \E a \in Awaiters : Store(a)
           \/ \E w \in Workers : WorkerRead(w)
           \/ FinishMain \/ Exit
    PROVE  AloneOK'
<1>1. CASE \E e \in Executors : Fork(e) \/ Join(e)
  <2> PICK e \in Executors : Fork(e) \/ Join(e)
    BY <1>1
  <2>1. UNCHANGED <<ch, done, crowded>> /\ pc[e] \in {"fork", "join"} /\ pc'[e] \in {"join", "run"}
    BY Actors DEF Fork, Join, taskVars, history
  <2>2. \A w \in WorkersOf(e) : pc[w] \in {"idle", "done"} /\ pc'[w] \in {"idle", "done", "check"}
    <3>1. CASE Fork(e)
      BY <3>1, Actors DEF Fork, WorkersOf, CallOK
    <3>2. CASE Join(e)
      BY <3>2, Actors DEF Join, AllDone, WorkersOf
    <3> QED BY <3>1, <3>2
  <2>3. \A a \in Awaiters : a # e /\ a \notin WorkersOf(e) => pc'[a] = pc[a] /\ arg'[a] = arg[a]
    BY DEF Fork, Join
  <2>4. \A t \in Tasks : Waiters(t)' = Waiters(t)
    BY <2>1, <2>2, <2>3, Actors DEF Waiters
  <2>5. \A t \in Tasks : pc'[t] = "sent" => pc[t] = "sent"
    BY <2>1, <2>3, Actors DEF WorkersOf
  <2>6. \A t \in Tasks : \A a \in Waiters(t) : pc[a] # "recv" => pc'[a] # "recv"
    BY <2>1, <2>2, <2>3, Actors DEF Waiters
  <2> QED BY <2>1, <2>4, <2>5, <2>6, OtherAloneOK
<1>2. CASE \E e \in Executors : Pop(e) \/ \E x \in Elements : Push(e, x)
  <2>1. UNCHANGED <<ch, done, arg, pc, crowded>>
    BY <1>2 DEF Pop, Push, taskVars
  <2>2. \A t \in Tasks : Waiters(t)' = Waiters(t)
    BY <2>1 DEF Waiters
  <2> QED BY <2>1, <2>2, OtherAloneOK
<1>3. CASE \/ \E e \in Executors, t \in Tasks : Spawn(e, t)
           \/ \E e \in Executors : Read(e) \/ Parallel(e)
           \/ \E t \in Tasks : StartTask(t) \/ FinishTask(t)
           \/ \E w \in Workers : WorkerRead(w)
           \/ FinishMain \/ Exit
  <2>1. UNCHANGED <<ch, done, crowded>>
    BY <1>3
    DEF Spawn, Read, Parallel, StartTask, FinishTask, WorkerRead, FinishMain, Exit, taskVars,
        history
  <2>2. PICK a \in Awaiters, to \in {"queued", "run", "send", "over", "fork", "done"} :
           /\ \/ UNCHANGED <<pc, arg>>
              \/ /\ pc[a] \in {"unborn", "queued", "run", "read"}
                 /\ pc' = [pc EXCEPT ![a] = to]
           /\ \A b \in Awaiters \ {a} : arg'[b] = arg[b]
    <3>1. CASE \E e \in Executors, t \in Tasks : Spawn(e, t)
      BY <3>1, Actors DEF Spawn, Goto
    <3>2. CASE \E e \in Executors : Read(e)
      <4> PICK e \in Executors : Read(e)
        BY <3>2
      <4>1. /\ pc[e] = "read" /\ pc' = [pc EXCEPT ![e] = "run"]
            /\ arg' = [arg EXCEPT ![e] = NotATask]
        BY DEF Read, Return, Goto
      <4>2. \A b \in Awaiters \ {e} : arg'[b] = arg[b]
        BY <4>1 DEF IInv, TypeOK
      <4> QED BY <4>1, <4>2, Actors
    <3>3. CASE \E e \in Executors : Parallel(e)
      BY <3>3, Actors DEF Parallel, Running, Goto
    <3>4. CASE \E t \in Tasks : StartTask(t) \/ FinishTask(t)
      BY <3>4, Actors DEF StartTask, FinishTask, Running, Goto
    <3>5. CASE \E w \in Workers : WorkerRead(w)
      BY <3>5, Actors DEF WorkerRead, Goto
    <3>6. CASE FinishMain \/ Exit
      BY <3>6, Actors DEF FinishMain, Exit, Running, Goto
    <3> QED BY <1>3, <3>1, <3>2, <3>3, <3>4, <3>5, <3>6
  <2>3. \A t \in Tasks : Waiters(t)' = Waiters(t)
    BY <2>2 DEF Waiters, IInv, TypeOK
  <2>4. \A t \in Tasks : pc'[t] = "sent" => pc[t] = "sent"
    BY <2>2, Actors DEF IInv, TypeOK
  <2>5. \A t \in Tasks : \A b \in Waiters(t) : pc[b] # "recv" => pc'[b] # "recv"
    BY <2>2 DEF Waiters, IInv, TypeOK
  <2> QED BY <2>1, <2>3, <2>4, <2>5, OtherAloneOK
<1>4. CASE (\E e \in Executors : Relock(e)) \/ (\E a \in Awaiters : Store(a))
  <2>1. UNCHANGED <<ch, done, arg, crowded>>
    BY <1>4 DEF Relock, Store, Write, SetVal, taskVars, history
  <2>2. PICK a \in Awaiters, to \in {"store", "mark"} :
           pc[a] \in {"relock", "store"} /\ pc' = [pc EXCEPT ![a] = to]
    BY <1>4, Actors DEF Relock, Store, Goto
  <2>3. \A t \in Tasks : Waiters(t)' = Waiters(t)
    BY <2>1, <2>2 DEF Waiters, IInv, TypeOK
  <2>4. \A t \in Tasks : pc'[t] = "sent" => pc[t] = "sent"
    BY <2>2, Actors DEF IInv, TypeOK
  <2>5. \A t \in Tasks : \A b \in Waiters(t) : pc[b] # "recv" => pc'[b] # "recv"
    BY <2>2 DEF Waiters, IInv, TypeOK
  <2> QED BY <2>1, <2>3, <2>4, <2>5, OtherAloneOK
<1> QED BY <1>1, <1>2, <1>3, <1>4

LEMMA SendAloneOK ==
    ASSUME IInv, AloneOK, NEW u \in Tasks, Send(u)
    PROVE  AloneOK'
<1>1. ch[u] = <<>> /\ pc[u] = "send" /\ UNCHANGED <<done, arg, crowded>>
  BY DEF Send, IInv, ChannelOK, history
<1>2. ch' = [ch EXCEPT ![u] = <<u>>] /\ pc' = [pc EXCEPT ![u] = "sent"]
  BY <1>1 DEF Send, Deliver, Goto
<1>3. \A a \in Awaiters : pc'[a] = IF a = u THEN "sent" ELSE pc[a]
  BY <1>2, Actors DEF IInv, TypeOK
<1>4. \A t \in Tasks : Waiters(t)' = Waiters(t)
  BY <1>1, <1>3, Actors DEF Waiters
<1>5. \A t \in Tasks : ch'[t] = IF t = u THEN <<u>> ELSE ch[t]
  BY <1>2 DEF IInv, TypeOK
<1>6. \A t \in Tasks : u \notin Waiters(t)
  BY <1>1 DEF Waiters
<1> QED BY <1>1, <1>3, <1>4, <1>5, <1>6, Actors DEF AloneOK, Waiters

\* One more begins to wait for u, or finds it done.
LEMMA JoinsAloneOK ==
    ASSUME IInv, AloneOK, NEW a \in Awaiters, NEW u \in Tasks,
           UNCHANGED <<ch, done>>, pc[a] \in {"run", "check"},
           \A b \in Awaiters \ {a} : pc'[b] = pc[b] /\ arg'[b] = arg[b],
           \/ pc'[a] \in {"read", "done"} /\ UNCHANGED crowded
           \/ pc'[a] = "recv" /\ arg'[a] = u /\ ~done[u] /\ WaitsToo(u)
    PROVE  AloneOK'
<1>1. \A t \in Tasks : pc'[t] = "sent" => pc[t] = "sent"
  BY Actors
<1>2. \A t \in Tasks : a \notin Waiters(t)
  BY DEF Waiters
<1>3. CASE pc'[a] \in {"read", "done"} /\ UNCHANGED crowded
  <2>1. \A t \in Tasks : Waiters(t)' = Waiters(t)
    BY <1>3 DEF Waiters
  <2>2. \A t \in Tasks : \A b \in Waiters(t) : pc[b] # "recv" => pc'[b] # "recv"
    BY <1>2 DEF Waiters
  <2> QED BY <1>1, <1>3, <2>1, <2>2, OtherAloneOK
<1>4. CASE pc'[a] = "recv" /\ arg'[a] = u /\ ~done[u] /\ WaitsToo(u)
  <2>1. \A t \in Tasks : Waiters(t)' = IF t = u THEN Waiters(t) \cup {a} ELSE Waiters(t)
    BY <1>4 DEF Waiters
  <2>2. crowded' = IF Waiters(u) = {} THEN crowded ELSE crowded \cup {u}
    BY <1>4 DEF WaitsToo
  <2>3. (\A t \in Tasks : \A x, y \in Waiters(t) : x = y \/ t \in crowded)'
    BY <2>1, <2>2 DEF AloneOK
  <2>4. (\A t \in Tasks : done[t] /\ Waiters(t) # {} => t \in crowded)'
    BY <1>4, <2>1, <2>2 DEF AloneOK
  <2>5. \A t \in Tasks : \A b \in Waiters(t) : b \in Waiters(t)' /\ pc'[b] = pc[b]
    BY <1>2, <2>1 DEF Waiters
  <2>6. (\A t \in Tasks : pc[t] = "sent" /\ ch[t] = <<>> =>
            done[t] \/ \E b \in Waiters(t) : pc[b] # "recv")'
    BY <1>1, <2>5 DEF AloneOK
  <2> QED BY <2>3, <2>4, <2>6 DEF AloneOK
<1> QED BY <1>3, <1>4

LEMMA AwaitAloneOK ==
    ASSUME IInv, AloneOK, NEW e \in Executors, NEW u \in Tasks, Await(e, u)
    PROVE  AloneOK'
<1>1. pc[e] = "run" /\ UNCHANGED <<ch, done>>
  BY DEF Await, Running, taskVars
<1>2. /\ \A b \in Awaiters \ {e} : pc'[b] = pc[b] /\ arg'[b] = arg[b]
      /\ \/ pc'[e] = "read" /\ UNCHANGED crowded
         \/ pc'[e] = "recv" /\ arg'[e] = u /\ ~done[u] /\ WaitsToo(u)
  BY Actors DEF Await, Goto, IInv, TypeOK
<1> QED BY <1>1, <1>2, JoinsAloneOK, Actors

LEMMA CheckAloneOK ==
    ASSUME IInv, AloneOK, NEW w \in Workers, WorkerCheck(w)
    PROVE  AloneOK'
<1>1. pc[w] = "check" /\ UNCHANGED <<ch, done, arg>>
  BY DEF WorkerCheck, taskVars
<1>2. /\ \A b \in Awaiters \ {w} : pc'[b] = pc[b]
      /\ \/ pc'[w] \in {"read", "done"} /\ UNCHANGED crowded
         \/ /\ arg[w] \in Tasks
            /\ pc'[w] = "recv" /\ arg'[w] = arg[w] /\ ~done[arg[w]] /\ WaitsToo(arg[w])
  BY Actors DEF WorkerCheck, Goto, IInv, TypeOK
<1>3. CASE arg[w] \in Tasks
  BY <1>1, <1>2, <1>3, JoinsAloneOK, Actors
<1>4. CASE arg[w] \notin Tasks
  <2>1. \A t \in Tasks : Waiters(t)' = Waiters(t)
    BY <1>1, <1>2, <1>4 DEF Waiters
  <2>2. \A t \in Tasks : \A b \in Waiters(t) : pc[b] # "recv" => pc'[b] # "recv"
    BY <1>1, <1>2, <1>4 DEF Waiters
  <2> QED BY <1>1, <1>2, <1>4, <2>1, <2>2, Actors, OtherAloneOK
<1> QED BY <1>3, <1>4

LEMMA ReceiveAloneOK ==
    ASSUME IInv, AloneOK, NEW r \in Awaiters, Receive(r)
    PROVE  AloneOK'
<1>1. /\ pc[r] = "recv" /\ arg[r] \in Tasks /\ ch[arg[r]] = <<arg[r]>>
      /\ UNCHANGED <<done, arg, crowded>>
  BY DEF Receive, IInv, WaitOK, ChannelOK, history
<1>2. \A t \in Tasks : ch'[t] = IF t = arg[r] THEN <<>> ELSE ch[t]
  BY <1>1 DEF Receive, TakeValue, IInv, TypeOK
<1>3. /\ pc'[r] \in {"relock", "store"}
      /\ \A a \in Awaiters : a # r => pc'[a] = pc[a]
  BY DEF Receive, Goto, IInv, TypeOK
<1>4. \A t \in Tasks : Waiters(t)' = Waiters(t)
  BY <1>1, <1>3 DEF Waiters
<1>5. r \in Waiters(arg[r]) /\ pc'[r] # "recv"
  BY <1>1, <1>3 DEF Waiters
<1>6. \A t \in Tasks : pc'[t] = "sent" => pc[t] = "sent"
  BY <1>3, Actors
<1> QED BY <1>1, <1>2, <1>3, <1>4, <1>5, <1>6 DEF AloneOK, Waiters

\* s has marked the task done, and waits no longer.
LEMMA MarkAloneOK ==
    ASSUME IInv, AloneOK,
           \/ \E e \in Executors : Mark(e)
           \/ \E w \in Workers : WorkerMark(w)
    PROVE  AloneOK'
<1>1. PICK s \in Awaiters :
         /\ pc[s] = "mark" /\ UNCHANGED <<ch, crowded>>
         /\ done' = [done EXCEPT ![arg[s]] = TRUE]
         /\ pc' = [pc EXCEPT ![s] = "run"] \/ pc' = [pc EXCEPT ![s] = "done"]
         /\ arg' = arg \/ arg' = [arg EXCEPT ![s] = NotATask]
  BY Actors DEF Mark, WorkerMark, Return, Write, SetDone, Goto, history
<1>2. arg[s] \in Tasks /\ s \in Waiters(arg[s])
  BY <1>1 DEF IInv, WaitOK, Waiters
<1>3. /\ pc'[s] \in {"run", "done"}
      /\ \A a \in Awaiters : a # s => pc'[a] = pc[a] /\ arg'[a] = arg[a]
  BY <1>1 DEF IInv, TypeOK
<1>4. \A t \in Tasks : done'[t] = IF t = arg[s] THEN TRUE ELSE done[t]
  BY <1>1 DEF IInv, TypeOK
<1>5. \A t \in Tasks : Waiters(t)' = Waiters(t) \ {s}
  BY <1>3 DEF Waiters
<1>6. \A t \in Tasks : pc'[t] = "sent" => pc[t] = "sent"
  BY <1>3, Actors
<1>7. (\A t \in Tasks : \A a, b \in Waiters(t) : a = b \/ t \in crowded)'
  BY <1>1, <1>5 DEF AloneOK
<1>8. (\A t \in Tasks : done[t] /\ Waiters(t) # {} => t \in crowded)'
  BY <1>1, <1>2, <1>4, <1>5 DEF AloneOK
<1>9. (\A t \in Tasks : pc[t] = "sent" /\ ch[t] = <<>> =>
          done[t] \/ \E a \in Waiters(t) : pc[a] # "recv")'
  <2> SUFFICES ASSUME NEW t \in Tasks, pc[t] = "sent", ch[t] = <<>>, t # arg[s], ~done[t]
               PROVE  \E a \in Waiters(t)' : pc'[a] # "recv"
    BY <1>1, <1>4, <1>6
  <2>1. PICK a \in Waiters(t) : pc[a] # "recv"
    BY DEF AloneOK
  <2>2. a # s /\ a \in Awaiters
    BY DEF Waiters
  <2> QED BY <1>3, <1>5, <2>1, <2>2
<1> QED BY <1>7, <1>8, <1>9 DEF AloneOK

LEMMA NextAloneOK == IInv /\ CallOK /\ AloneOK /\ [Next]_vars => AloneOK'
<1> SUFFICES ASSUME IInv, CallOK, AloneOK, [Next]_vars PROVE AloneOK'
  OBVIOUS
<1>1. CASE UNCHANGED vars
  BY <1>1 DEF vars, taskVars, AloneOK, Waiters
<1>2. CASE Next
  BY <1>2, QuietAloneOK, SendAloneOK, AwaitAloneOK, CheckAloneOK, ReceiveAloneOK, MarkAloneOK
  DEF Next, ExecutorStep
<1> QED BY <1>1, <1>2

\* Nobody waits at the channel of a task whose result has been taken from it, but where
\* two goroutines waited for one task at once.
THEOREM NobodyStranded == Spec => []ResultWaiting
<1>1. IInv /\ AloneOK => ResultWaiting
  <2> SUFFICES ASSUME IInv, AloneOK, NEW a \in Awaiters, pc[a] = "recv",
                      pc[arg[a]] = "sent", ch[arg[a]] = <<>>
               PROVE  arg[a] \in crowded
    BY DEF ResultWaiting
  <2>1. arg[a] \in Tasks /\ a \in Waiters(arg[a])
    BY DEF IInv, WaitOK, Waiters
  <2> QED BY <2>1 DEF AloneOK
<1> QED BY <1>1, InitIInv, NextIInv, InitCallOK, NextCallOK, InitAloneOK, NextAloneOK, PTL
        DEF Spec
=============================================================================
