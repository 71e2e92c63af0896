------------------------------- MODULE Tasks -------------------------------
(***************************************************************************)
(* Background tasks: SpawnTask, AwaitTask and ParallelTasks of             *)
(* internal/object/task.go, over the run lock (RunLock: what YodLock is    *)
(* shown to implement).                                                    *)
(*                                                                         *)
(* An executor is a goroutine that runs Yod code: the main program, or a   *)
(* task.  The Yod program is left open: while it holds the lock an         *)
(* executor may spawn a task, wait for any task it can name, change the    *)
(* list that is passed to ParallelTasks, or end.  A worker is one of the   *)
(* goroutines ParallelTasks starts: worker <<e, i>> waits for element i of *)
(* the list e passed, and it does so without the run lock.                 *)
(*                                                                         *)
(* Task.Val and Task.Done are plain fields: a worker writes them, and      *)
(* reads them, beside the goroutine that has the run lock, so each write   *)
(* and each read is a step of its own.  That the writes are seen in the    *)
(* order they are made is what the processor the releases are built for    *)
(* (amd64, tools/pack_windows_release.ps1:16) does; Go promises it to      *)
(* nobody.                                                                 *)
(*                                                                         *)
(* The result of a task is named by the task itself.                       *)
(***************************************************************************)
EXTENDS Naturals, Sequences, FiniteSets

CONSTANTS Tasks, Main, Nobody,
          NoValue,        \* Go's nil: a value not there yet
          NotATask,       \* a list element that is not a task
          Error,          \* the *Error that AwaitTask gives for it
          MaxLen,         \* bound: length of the list
          MaxParallel     \* bound: calls of ParallelTasks at a time

Executors == Tasks \cup {Main}
Workers   == Executors \X (1 .. MaxLen)
Awaiters  == Executors \cup Workers
Elements  == Tasks \cup {NotATask}
Values    == Tasks \cup {Error, NoValue}

ASSUME TasksAssumption ==
    /\ Main \notin Tasks
    /\ Nobody \notin Executors
    /\ {NoValue, NotATask, Error} \cap Executors = {}
    /\ Executors \cap Workers = {}
    /\ NoValue # Error
    /\ MaxLen \in Nat /\ MaxParallel \in Nat

VARIABLES runner,   \* who holds the run lock
          pc,       \* where each executor and worker is
          arg,      \* the task (or element) an awaiter asked for
          got,      \* what an awaiter received and has not stored yet
          ch,       \* the channel of each task, capacity 1
          done,     \* Task.Done
          val,      \* Task.Val
          arr,      \* the list that is passed to ParallelTasks
          size,     \* len(out) of the ParallelTasks call an executor is in
          out,      \* out[i] of that call, by worker
          ret,      \* the task last waited for and the value AwaitTask gave
          process,  \* "up", "exited" or "crashed"
          crowded,  \* history: the tasks two goroutines waited for at once
          resized   \* history: whose list changed while ParallelTasks read it

taskVars == <<ch, done, val>>
history  == <<crowded, resized>>
vars == <<runner, pc, arg, got, ch, done, val, arr, size, out, ret, process,
          crowded, resized>>

Lock == INSTANCE RunLock
            WITH Goroutines <- Executors, NoOwner <- Nobody, pending <- {}

Init ==
    /\ runner = Main
    /\ pc   = [a \in Awaiters |-> IF a = Main THEN "run"
                                  ELSE IF a \in Tasks THEN "unborn" ELSE "idle"]
    /\ arg  = [a \in Awaiters |-> NotATask]
    /\ got  = [a \in Awaiters |-> NoValue]
    /\ ch   = [t \in Tasks |-> <<>>]
    /\ done = [t \in Tasks |-> FALSE]
    /\ val  = [t \in Tasks |-> NoValue]
    /\ arr  = <<>>
    /\ size = [e \in Executors |-> 0]
    /\ out  = [w \in Workers |-> NoValue]
    /\ ret  = [e \in Executors |-> <<NotATask, NoValue>>]
    /\ process = "up"
    /\ crowded = {} /\ resized = {}

----------------------------------------------------------------------------
(* Helpers *)

Up == process = "up"

Goto(a, where) == pc' = [pc EXCEPT ![a] = where]

\* e runs Yod code: it holds the run lock and is in no call.
Running(e) == Up /\ pc[e] = "run" /\ runner = e

WorkersOf(e) == {w \in Workers : w[1] = e}

\* Who has found t not done and has not marked it done yet.
Waiters(t) ==
    {a \in Awaiters : arg[a] = t /\ pc[a] \in {"recv", "relock", "store", "mark"}}

\* One more waits for t.
WaitsToo(t) == crowded' = IF Waiters(t) = {} THEN crowded ELSE crowded \cup {t}

SetVal(a)  == val'  = [val EXCEPT ![arg[a]] = got[a]] /\ UNCHANGED done
SetDone(a) == done' = [done EXCEPT ![arg[a]] = TRUE] /\ UNCHANGED val

\* Done is set before the value is there.
WriteSwapped(a, first) == IF first THEN SetDone(a) ELSE SetVal(a)

\* A task that does not keep that it is done.
WriteNoDone(a, first) == IF first THEN SetVal(a) ELSE UNCHANGED <<val, done>>

\* t.Val = val, then t.Done = true: the first and the second write of a.
Write(a, first) == IF first THEN SetVal(a) ELSE SetDone(a)

----------------------------------------------------------------------------
(* SpawnTask *)

Spawn(e, t) ==
    /\ Running(e)
    /\ pc[t] = "unborn"
    /\ Goto(t, "queued")
    /\ UNCHANGED <<runner, arg, got, taskVars, arr, size, out, ret, process, history>>

\* The goroutine of the task: LockYod ...
StartTask(t) ==
    /\ Up /\ pc[t] = "queued"
    /\ Lock!Grant(t)
    /\ Goto(t, "run")
    /\ UNCHANGED <<arg, got, taskVars, arr, size, out, ret, process, history>>

\* ... UnlockYod once the function has returned ...
FinishTask(t) ==
    /\ Running(t)
    /\ Lock!Yield(t)
    /\ Goto(t, "send")
    /\ UNCHANGED <<arg, got, taskVars, arr, size, out, ret, process, history>>

Deliver(t) == ch' = [ch EXCEPT ![t] = Append(@, t)]

\* ... and the send, which blocks while the channel is full.
Send(t) ==
    /\ Up /\ pc[t] = "send"
    /\ Len(ch[t]) < 1
    /\ Deliver(t)
    /\ Goto(t, "sent")
    /\ UNCHANGED <<runner, arg, got, done, val, arr, size, out, ret, process, history>>

----------------------------------------------------------------------------
(* AwaitTask, called by Yod code *)

\* WithoutYodLock lets go of the lock for the receive.
LetGo(e) == Lock!Yield(e)

\* The test of t.Done.
Await(e, t) ==
    /\ Running(e)
    /\ pc[t] # "unborn"
    /\ arg' = [arg EXCEPT ![e] = t]
    /\ \/ /\ done[t]
          /\ Goto(e, "read")
          /\ UNCHANGED <<runner, crowded>>
       \/ /\ ~done[t]
          /\ LetGo(e)
          /\ WaitsToo(t)
          /\ Goto(e, "recv")
    /\ UNCHANGED <<got, taskVars, arr, size, out, ret, process, resized>>

\* The call is over, and with it what it kept in arg and got.
Return(e, v) ==
    /\ ret' = [ret EXCEPT ![e] = <<arg[e], v>>]
    /\ arg' = [arg EXCEPT ![e] = NotATask]
    /\ got' = [got EXCEPT ![e] = NoValue]
    /\ Goto(e, "run")

\* return t.Val, of a task that is done.
Read(e) ==
    /\ Up /\ pc[e] = "read"
    /\ Return(e, val[arg[e]])
    /\ UNCHANGED <<runner, taskVars, arr, size, out, process, history>>

TakeValue(a) ==
    /\ got' = [got EXCEPT ![a] = Head(ch[arg[a]])]
    /\ ch'  = [ch EXCEPT ![arg[a]] = Tail(@)]

\* val = <-t.Ch, of an executor or of a worker.
Receive(a) ==
    /\ Up /\ pc[a] = "recv"
    /\ ch[arg[a]] # <<>>
    /\ TakeValue(a)
    /\ Goto(a, IF a \in Executors THEN "relock" ELSE "store")
    /\ UNCHANGED <<runner, arg, done, val, arr, size, out, ret, process, history>>

\* WithoutYodLock returns with the lock held again (an executor's only).
Relock(e) ==
    /\ Up /\ pc[e] = "relock"
    /\ Lock!Grant(e)
    /\ Goto(e, "store")
    /\ UNCHANGED <<arg, got, taskVars, arr, size, out, ret, process, history>>

\* The task keeps its value for later calls; a worker does this without the lock.
Store(a) ==
    /\ Up /\ pc[a] = "store"
    /\ Write(a, TRUE)
    /\ Goto(a, "mark")
    /\ UNCHANGED <<runner, arg, got, ch, arr, size, out, ret, process, history>>

Mark(e) ==
    /\ Up /\ pc[e] = "mark"
    /\ Write(e, FALSE)
    /\ Return(e, got[e])
    /\ UNCHANGED <<runner, ch, arr, size, out, process, history>>

----------------------------------------------------------------------------
(* ParallelTasks *)

OutSize == Len(arr)

\* out is made as long as the list is now; then the lock is let go of.
Parallel(e) ==
    /\ Running(e)
    /\ Cardinality({x \in Executors : pc[x] \in {"fork", "join"}}) < MaxParallel
    /\ size' = [size EXCEPT ![e] = OutSize]
    /\ LetGo(e)
    /\ Goto(e, "fork")
    /\ UNCHANGED <<arg, got, taskVars, arr, out, ret, process, history>>

\* The range loop reads the list and starts a worker for each element.
Fork(e) ==
    /\ Up /\ pc[e] = "fork"
    /\ pc' = [a \in Awaiters |->
                 IF a = e THEN "join"
                 ELSE IF a \in WorkersOf(e) /\ a[2] \in DOMAIN arr THEN "check"
                 ELSE pc[a]]
    /\ arg' = [a \in Awaiters |->
                 IF a \in WorkersOf(e) /\ a[2] \in DOMAIN arr THEN arr[a[2]]
                 ELSE arg[a]]
    /\ UNCHANGED <<runner, got, taskVars, arr, size, out, ret, process, history>>

\* A worker that writes next to its own slot.
DepositNext(w, v) ==
    /\ out' = [x \in Workers |-> IF x[1] = w[1] /\ x[2] = 1 THEN v ELSE out[x]]
    /\ UNCHANGED process

\* out[i] = value: a panic, and the end of the process, when i is too large.
Deposit(w, v) ==
    IF w[2] <= size[w[1]]
    THEN out' = [out EXCEPT ![w] = v] /\ UNCHANGED process
    ELSE process' = "crashed" /\ UNCHANGED out

\* AwaitTask in a worker, up to the receive.
WorkerCheck(w) ==
    /\ Up /\ pc[w] = "check"
    /\ \/ /\ arg[w] \notin Tasks
          /\ Deposit(w, Error)
          /\ Goto(w, "done")
          /\ UNCHANGED crowded
       \/ /\ arg[w] \in Tasks /\ done[arg[w]]
          /\ Goto(w, "read")
          /\ UNCHANGED <<out, process, crowded>>
       \/ /\ arg[w] \in Tasks /\ ~done[arg[w]]
          /\ WaitsToo(arg[w])
          /\ Goto(w, "recv")
          /\ UNCHANGED <<out, process>>
    /\ UNCHANGED <<runner, arg, got, taskVars, arr, size, ret, resized>>

WorkerRead(w) ==
    /\ Up /\ pc[w] = "read"
    /\ Deposit(w, val[arg[w]])
    /\ Goto(w, "done")
    /\ UNCHANGED <<runner, arg, got, taskVars, arr, size, ret, history>>

WorkerMark(w) ==
    /\ Up /\ pc[w] = "mark"
    /\ Write(w, FALSE)
    /\ Deposit(w, got[w])
    /\ Goto(w, "done")
    /\ UNCHANGED <<runner, arg, got, ch, arr, size, ret, history>>

FirstDone(e) == \E w \in WorkersOf(e) : pc[w] \in {"idle", "done"}

\* wg.Wait: every worker that was started has called wg.Done.
AllDone(e) == \A w \in WorkersOf(e) : pc[w] \in {"idle", "done"}

\* The call returns the list with the lock held again.
Join(e) ==
    /\ Up /\ pc[e] = "join"
    /\ AllDone(e)
    /\ Lock!Grant(e)
    /\ pc' = [a \in Awaiters |-> IF a = e THEN "run"
                                 ELSE IF a \in WorkersOf(e) THEN "idle" ELSE pc[a]]
    /\ out' = [w \in Workers |-> IF w \in WorkersOf(e) THEN NoValue ELSE out[w]]
    /\ arg' = [a \in Awaiters |-> IF a \in WorkersOf(e) THEN NotATask ELSE arg[a]]
    /\ got' = [a \in Awaiters |-> IF a \in WorkersOf(e) THEN NoValue ELSE got[a]]
    /\ size' = [size EXCEPT ![e] = 0]
    /\ resized' = resized \ {e}
    /\ UNCHANGED <<taskVars, arr, ret, process, crowded>>

----------------------------------------------------------------------------
(* The list, and the end of the program *)

\* The list changes; whoever is between its two readings meets that.
Change(new) ==
    /\ arr' = new
    /\ resized' = resized \cup {e \in Executors : pc[e] = "fork"}

\* arr.הוסף(x)
Push(e, x) ==
    /\ Running(e)
    /\ Len(arr) < MaxLen
    /\ x \in Tasks => pc[x] # "unborn"
    /\ Change(Append(arr, x))
    /\ UNCHANGED <<runner, pc, arg, got, taskVars, size, out, ret, process, crowded>>

\* The list method that removes the last element.
Pop(e) ==
    /\ Running(e)
    /\ arr # <<>>
    /\ Change(SubSeq(arr, 1, Len(arr) - 1))
    /\ UNCHANGED <<runner, pc, arg, got, taskVars, size, out, ret, process, crowded>>

\* The main program ends and unlocks; the process exits some time later,
\* whatever the tasks are doing.
FinishMain ==
    /\ Running(Main)
    /\ Lock!Yield(Main)
    /\ Goto(Main, "over")
    /\ UNCHANGED <<arg, got, taskVars, arr, size, out, ret, process, history>>

Exit ==
    /\ Up /\ pc[Main] = "over"
    /\ process' = "exited"
    /\ UNCHANGED <<runner, pc, arg, got, taskVars, arr, size, out, ret, history>>

ExecutorStep(e) ==
    \/ \E t \in Tasks : Spawn(e, t) \/ Await(e, t)
    \/ Read(e) \/ Relock(e) \/ Mark(e)
    \/ Parallel(e) \/ Fork(e) \/ Join(e)
    \/ \E x \in Elements : Push(e, x)
    \/ Pop(e)

Next ==
    \/ \E e \in Executors : ExecutorStep(e)
    \/ \E t \in Tasks : StartTask(t) \/ FinishTask(t) \/ Send(t)
    \/ \E a \in Awaiters : Receive(a) \/ Store(a)
    \/ \E w \in Workers : WorkerCheck(w) \/ WorkerRead(w) \/ WorkerMark(w)
    \/ FinishMain
    \/ Exit

\* A goroutine whose receive or send can go on is scheduled: it does not wait for
\* the run lock.
Fairness ==
    /\ \A e \in Executors : WF_vars(Receive(e))
    /\ \A t \in Tasks : WF_vars(Send(t))

Spec     == Init /\ [][Next]_vars
FairSpec == Spec /\ Fairness

----------------------------------------------------------------------------
(* Properties *)

Places == {"run", "unborn", "queued", "send", "sent", "recv", "relock", "fork",
           "join", "over", "idle", "check", "read", "store", "mark", "done"}

TypeOK ==
    /\ runner \in Executors \cup {Nobody}
    /\ pc \in [Awaiters -> Places]
    /\ arg \in [Awaiters -> Elements]
    /\ got \in [Awaiters -> Values]
    /\ ch \in [Tasks -> {<<>>} \cup {<<v>> : v \in Values}]
    /\ done \in [Tasks -> BOOLEAN]
    /\ val \in [Tasks -> Values]
    /\ arr \in Seq(Elements) /\ Len(arr) <= MaxLen
    /\ size \in [Executors -> 0 .. MaxLen]
    /\ out \in [Workers -> Values]
    /\ ret \in [Executors -> Elements \X Values]
    /\ process \in {"up", "exited", "crashed"}
    /\ crowded \subseteq Tasks /\ resized \subseteq Executors

\* Whoever waits at the channel of a task that has sent its result finds it there,
\* unless two goroutines waited for that task at once: then the second is left behind
\* (task.go:29 tests Done, :37 sets it after the only value is taken).
ResultWaiting ==
    \A a \in Awaiters :
        pc[a] = "recv" /\ pc[arg[a]] = "sent" =>
            ch[arg[a]] # <<>> \/ arg[a] \in crowded

\* What a call to AwaitTask returns is the result of the task it was given, even if a
\* worker is between its two writes to the task, which nothing keeps apart from the
\* two readings (task.go:29, 30, 36, 37).
AwaitGivesOwnResult ==
    \A e \in Executors : ret[e][1] \in Tasks => ret[e][2] = ret[e][1]

\* When ParallelTasks is ready to return, slot i has the result of element i, or the
\* error for an element that is not a task, and no worker has written beyond the end
\* of the results, unless the list changed between the two readings of it
\* (task.go:45, 50).
ResultsInOrder ==
    /\ process = "crashed" => resized # {}
    /\ \A e \in Executors \ resized :
          pc[e] = "join" /\ AllDone(e) =>
              \A i \in 1 .. size[e] :
                  out[<<e, i>>] = IF arg[<<e, i>>] \in Tasks
                                  THEN arg[<<e, i>>] ELSE Error

\* A call to AwaitTask for a task that is over comes back to the run lock with
\* the result, unless somebody waits for the task at the same time or the process
\* ends first.
AwaitAnswered ==
    \A e \in Executors :
        (pc[e] = "recv" /\ pc[arg[e]] \in {"send", "sent"})
            ~> (pc[e] # "recv" \/ arg[e] \in crowded \/ process # "up")
=============================================================================
