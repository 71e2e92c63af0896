--------------------------- MODULE Timers_proofs ---------------------------
(***************************************************************************)
(* Timers, for any set of timers and any length of the queue of the UI     *)
(* thread: a timer calls back as often as it may, and a repeating timer    *)
(* that lives can be stopped.                                              *)
(***************************************************************************)
EXTENDS Timers, SequenceTheorems, TLAPS

Queued(t) == \E i \in DOMAIN queue : queue[i] = t

\* The UI thread has a callback only from the moment it takes it to its return.
CurrentOK == at \notin {"uilock", "cb"} => current = NoTimer

\* A one-shot has one call to make.  Until it makes it, it is with its goroutine, or
\* once in the queue, or with the UI thread.
OnceOK ==
    \A t \in Once :
        /\ pc[t] \in {"off", "wait", "fire", "send", "check", "lock"} => starts[t] = 0
        /\ pc[t] \notin {"end", "gone"} => ~Queued(t) /\ current # t
        /\ \A i, j \in DOMAIN queue : queue[i] = t /\ queue[j] = t => i = j
        /\ Queued(t) => starts[t] = 0 /\ current # t
        /\ at = "uilock" /\ current = t => starts[t] = 0
        /\ starts[t] <= 1
        /\ late[t] <= starts[t]

\* A repeating timer stops for no other reason than a stop call.
RepeatOK ==
    \A t \in Timers \ Once :
        /\ t \in stopped <=> t \in canceled
        /\ t \in closed => t \in canceled
        /\ t \in asked => t \in canceled
        /\ pc[t] \in {"end", "gone"} => t \in canceled
        /\ t \in table \/ t \in canceled => pc[t] # "off"

AtLock(t) == IF pc[t] = "lock" THEN 1 ELSE 0
AtUiLock(t) == IF at = "uilock" /\ current = t THEN 1 ELSE 0

\* The calls that start after the stop are those that were past their last test.
LateOK ==
    \A t \in Timers \ Once :
        /\ t \notin asked => late[t] = 0
        /\ t \in canceled => late[t] + AtLock(t) + AtUiLock(t) <= 2

IInv ==
    /\ TypeOK
    /\ LiveTimersStoppable
    /\ CurrentOK
    /\ OnceOK
    /\ RepeatOK
    /\ LateOK

LEMMA Actors ==
    /\ Once \subseteq Timers
    /\ Timers \subseteq Executors /\ Program \in Executors
    /\ NoTimer \notin Timers /\ Program \notin Timers /\ MaxQueue \in Nat
  BY TimersAssumption DEF Executors

\* What posting a callback and taking one make of the queue.
LEMMA Queue ==
    ASSUME TypeOK
    PROVE  /\ DOMAIN queue = 1 .. Len(queue) /\ Len(queue) \in Nat
           /\ \A i \in DOMAIN queue : queue[i] \in Timers
           /\ \A t \in Timers :
                 Post(t) => /\ queue' \in Seq(Timers) /\ Len(queue') = Len(queue) + 1
                            /\ DOMAIN queue' = 1 .. Len(queue) + 1
                            /\ \A i \in DOMAIN queue :
                                  i \in DOMAIN queue' /\ queue'[i] = queue[i]
                            /\ queue'[Len(queue) + 1] = t
           /\ queue # <<>> /\ queue' = Tail(queue) =>
                 /\ queue' \in Seq(Timers) /\ Len(queue') = Len(queue) - 1
                 /\ 1 \in DOMAIN queue /\ Head(queue) = queue[1]
                 /\ \A i \in DOMAIN queue' : i + 1 \in DOMAIN queue /\ queue'[i] = queue[i + 1]
<1> USE DEF TypeOK
<1>1. \A t \in Timers : Post(t) =>
         /\ queue' \in Seq(Timers) /\ Len(queue') = Len(queue) + 1
         /\ DOMAIN queue' = 1 .. Len(queue) + 1
         /\ \A i \in DOMAIN queue : i \in DOMAIN queue' /\ queue'[i] = queue[i]
         /\ queue'[Len(queue) + 1] = t
  BY DEF Post
<1>2. queue # <<>> /\ queue' = Tail(queue) =>
         /\ queue' \in Seq(Timers) /\ Len(queue') = Len(queue) - 1
         /\ 1 \in DOMAIN queue /\ Head(queue) = queue[1]
         /\ \A i \in DOMAIN queue' : i + 1 \in DOMAIN queue /\ queue'[i] = queue[i + 1]
  BY EmptySeq
<1> QED BY <1>1, <1>2

LEMMA InitIInv == Init => IInv
<1> SUFFICES ASSUME Init PROVE IInv
  OBVIOUS
<1>1. TypeOK
  <2>1. <<>> \in Seq(Timers) /\ Len(<<>>) = 0
    BY EmptySeq
  <2>2. queue \in Seq(Timers) /\ Len(queue) <= MaxQueue
    BY <2>1, Actors DEF Init
  <2>3. \A s \in {table, paused, stopped, canceled, closed, asked} : s \subseteq Timers
    BY DEF Init
  <2>4. starts \in [Timers -> 0 .. 3] /\ late \in [Timers -> 0 .. 3]
    BY DEF Init
  <2> QED BY <2>2, <2>3, <2>4, Actors DEF Init, TypeOK
<1>2. LiveTimersStoppable /\ CurrentOK /\ OnceOK
  BY Actors DEF Init, LiveTimersStoppable, CurrentOK, OnceOK, Queued
<1>3. RepeatOK /\ LateOK
  BY Actors DEF Init, RepeatOK, LateOK, AtLock, AtUiLock
<1> QED BY <1>1, <1>2, <1>3 DEF IInv

-----------------------------------------------------------------------------
(* The goroutine of a timer *)

LEMMA TickIInv ==
    ASSUME IInv, NEW t \in Timers, Tick(t) \/ StopSeen(t)
    PROVE  IInv'
<1>1. TypeOK'
  BY Actors
  DEF Tick, StopSeen, MayFire, Goto, progVars, flagVars, countVars, IInv, TypeOK
<1>2. LiveTimersStoppable'
  BY Actors
  DEF Tick, StopSeen, MayFire, Goto, progVars, flagVars, countVars, IInv, TypeOK,
      LiveTimersStoppable
<1>3. CurrentOK'
  BY Actors
  DEF Tick, StopSeen, MayFire, Goto, progVars, flagVars, countVars, IInv, CurrentOK
<1>4. OnceOK'
  BY Actors
  DEF Tick, StopSeen, MayFire, Goto, progVars, flagVars, countVars, IInv, TypeOK, OnceOK,
      Queued
<1>5. RepeatOK'
  BY Actors
  DEF Tick, StopSeen, MayFire, Goto, progVars, flagVars, countVars, IInv, TypeOK, RepeatOK
<1>6. LateOK'
  BY Actors
  DEF Tick, StopSeen, MayFire, Goto, progVars, flagVars, countVars, IInv, TypeOK, RepeatOK,
      LateOK, AtLock, AtUiLock
<1> QED BY <1>1, <1>2, <1>3, <1>4, <1>5, <1>6 DEF IInv

LEMMA CheckIInv ==
    ASSUME IInv, NEW t \in Timers, ReadSync(t) \/ Check(t)
    PROVE  IInv'
<1>1. TypeOK'
  BY Actors
  DEF ReadSync, Check, AfterFire, Goto, progVars, flagVars, countVars, IInv, TypeOK
<1>2. LiveTimersStoppable'
  BY Actors
  DEF ReadSync, Check, AfterFire, Goto, progVars, flagVars, countVars, IInv, TypeOK,
      LiveTimersStoppable
<1>3. CurrentOK'
  BY Actors
  DEF ReadSync, Check, AfterFire, Goto, progVars, flagVars, countVars, IInv, CurrentOK
<1>4. OnceOK'
  BY Actors
  DEF ReadSync, Check, AfterFire, Goto, progVars, flagVars, countVars, IInv, TypeOK, OnceOK,
      Queued
<1>5. RepeatOK'
  BY Actors
  DEF ReadSync, Check, AfterFire, Goto, progVars, flagVars, countVars, IInv, TypeOK,
      RepeatOK
<1>6. LateOK'
  BY Actors
  DEF ReadSync, Check, AfterFire, Goto, progVars, flagVars, countVars, IInv, TypeOK,
      RepeatOK, LateOK, AtLock, AtUiLock
<1> QED BY <1>1, <1>2, <1>3, <1>4, <1>5, <1>6 DEF IInv

LEMMA EnterIInv ==
    ASSUME IInv, NEW t \in Timers, Enter(t)
    PROVE  IInv'
<1>1. TypeOK'
  BY Actors
  DEF Enter, Lock!Grant, CountStart, UpTo3, Goto, progVars, flagVars, countVars, IInv,
      TypeOK
<1>2. LiveTimersStoppable'
  BY Actors
  DEF Enter, Lock!Grant, CountStart, UpTo3, Goto, progVars, flagVars, countVars, IInv,
      TypeOK, LiveTimersStoppable
<1>3. CurrentOK'
  BY Actors
  DEF Enter, Lock!Grant, CountStart, UpTo3, Goto, progVars, flagVars, countVars, IInv,
      CurrentOK
<1>4. OnceOK'
  BY Actors
  DEF Enter, Lock!Grant, CountStart, UpTo3, Goto, progVars, flagVars, countVars, IInv,
      TypeOK, OnceOK, Queued
<1>5. RepeatOK'
  BY Actors
  DEF Enter, Lock!Grant, CountStart, UpTo3, Goto, progVars, flagVars, countVars, IInv,
      TypeOK, RepeatOK
<1>6. LateOK'
  BY Actors
  DEF Enter, Lock!Grant, CountStart, UpTo3, Goto, progVars, flagVars, countVars, IInv,
      TypeOK, RepeatOK, LateOK, AtLock, AtUiLock
<1> QED BY <1>1, <1>2, <1>3, <1>4, <1>5, <1>6 DEF IInv

LEMMA LeaveIInv ==
    ASSUME IInv, NEW t \in Timers, Leave(t) \/ End(t)
    PROVE  IInv'
<1>1. TypeOK'
  BY Actors
  DEF Leave, End, Lock!Yield, AfterFire, Goto, progVars, flagVars, countVars, IInv, TypeOK
<1>2. LiveTimersStoppable'
  BY Actors
  DEF Leave, End, Lock!Yield, AfterFire, Goto, progVars, flagVars, countVars, IInv, TypeOK,
      LiveTimersStoppable
<1>3. CurrentOK'
  BY Actors
  DEF Leave, End, Lock!Yield, AfterFire, Goto, progVars, flagVars, countVars, IInv,
      CurrentOK
<1>4. OnceOK'
  BY Actors
  DEF Leave, End, Lock!Yield, AfterFire, Goto, progVars, flagVars, countVars, IInv, TypeOK,
      OnceOK, Queued
<1>5. RepeatOK'
  BY Actors
  DEF Leave, End, Lock!Yield, AfterFire, Goto, progVars, flagVars, countVars, IInv, TypeOK,
      RepeatOK
<1>6. LateOK'
  BY Actors
  DEF Leave, End, Lock!Yield, AfterFire, Goto, progVars, flagVars, countVars, IInv, TypeOK,
      RepeatOK, LateOK, AtLock, AtUiLock
<1> QED BY <1>1, <1>2, <1>3, <1>4, <1>5, <1>6 DEF IInv

LEMMA SendIInv ==
    ASSUME IInv, NEW t \in Timers, Send(t)
    PROVE  IInv'
<1>1. TypeOK'
  BY Queue, Actors DEF Send, AfterFire, Goto, IInv, TypeOK, progVars, countVars
<1>2. LiveTimersStoppable'
  BY Actors
  DEF Send, Post, AfterFire, Goto, progVars, flagVars, countVars, IInv, TypeOK,
      LiveTimersStoppable
<1>3. CurrentOK'
  BY Actors
  DEF Send, Post, AfterFire, Goto, progVars, flagVars, countVars, IInv, CurrentOK
<1>4. OnceOK'
  <2>1. CASE sync[t] /\ window
    <3>1. pc[t] = "send" /\ pc' = [pc EXCEPT ![t] = IF t \in Once THEN "end" ELSE "wait"]
          /\ UNCHANGED <<at, current, starts, late>>
      BY <2>1 DEF Send, AfterFire, Goto, progVars, countVars
    <3>2. \A u \in Timers : Queued(u)' <=> Queued(u) \/ u = t
      BY <2>1, Queue DEF Send, Queued, IInv, TypeOK
    <3>3. \A u \in Timers \ {t} : \A i \in DOMAIN queue' :
             queue'[i] = u => i \in DOMAIN queue /\ queue[i] = u
      BY <2>1, Queue DEF Send, IInv, TypeOK
    <3>4. t \in Once => \A i \in DOMAIN queue' : queue'[i] = t => i = Len(queue) + 1
      BY <2>1, <3>1, Queue DEF Send, Queued, IInv, TypeOK, OnceOK
    <3> QED BY <3>1, <3>2, <3>3, <3>4, Actors DEF IInv, TypeOK, OnceOK
  <2>2. CASE ~(sync[t] /\ window)
    BY <2>2, Actors
    DEF Send, Goto, IInv, TypeOK, OnceOK, Queued, progVars, countVars
  <2> QED BY <2>1, <2>2
<1>5. RepeatOK'
  BY Actors
  DEF Send, Post, AfterFire, Goto, progVars, flagVars, countVars, IInv, TypeOK, RepeatOK
<1>6. LateOK'
  BY Actors
  DEF Send, Post, AfterFire, Goto, progVars, flagVars, countVars, IInv, TypeOK, RepeatOK,
      LateOK, AtLock, AtUiLock
<1> QED BY <1>1, <1>2, <1>3, <1>4, <1>5, <1>6 DEF IInv

-----------------------------------------------------------------------------
(* The library *)

LEMMA StartIInv ==
    ASSUME IInv, NEW e \in Executors, NEW t \in Timers, Start(e, t)
    PROVE  IInv'
<1>1. TypeOK'
  BY Actors
  DEF Start, Goto, progVars, flagVars, countVars, IInv, TypeOK
<1>2. LiveTimersStoppable'
  BY Actors
  DEF Start, Goto, progVars, flagVars, countVars, IInv, TypeOK, LiveTimersStoppable
<1>3. CurrentOK'
  BY Actors
  DEF Start, Goto, progVars, flagVars, countVars, IInv, CurrentOK
<1>4. OnceOK'
  BY Actors
  DEF Start, Goto, progVars, flagVars, countVars, IInv, TypeOK, OnceOK, Queued
<1>5. RepeatOK'
  BY Actors
  DEF Start, Goto, progVars, flagVars, countVars, IInv, TypeOK, RepeatOK
<1>6. LateOK'
  BY Actors
  DEF Start, Goto, progVars, flagVars, countVars, IInv, TypeOK, RepeatOK, LateOK, AtLock,
      AtUiLock
<1> QED BY <1>1, <1>2, <1>3, <1>4, <1>5, <1>6 DEF IInv

LEMMA StopIInv ==
    ASSUME IInv, NEW e \in Executors, NEW t \in Timers, Stop(e, t)
    PROVE  IInv'
<1>1. TypeOK'
  BY Actors
  DEF Stop, Cancel, progVars, flagVars, countVars, IInv, TypeOK
<1>2. LiveTimersStoppable'
  BY Actors
  DEF Stop, Cancel, progVars, flagVars, countVars, IInv, TypeOK, LiveTimersStoppable
<1>3. CurrentOK'
  BY Actors
  DEF Stop, Cancel, progVars, flagVars, countVars, IInv, CurrentOK
<1>4. OnceOK'
  BY Actors
  DEF Stop, Cancel, progVars, flagVars, countVars, IInv, TypeOK, OnceOK, Queued
<1>5. RepeatOK'
  BY Actors DEF Stop, Cancel, IInv, TypeOK, RepeatOK, LiveTimersStoppable
<1>6. LateOK'
  BY Actors
  DEF Stop, Cancel, progVars, flagVars, countVars, IInv, TypeOK, RepeatOK, LateOK, AtLock,
      AtUiLock
<1> QED BY <1>1, <1>2, <1>3, <1>4, <1>5, <1>6 DEF IInv

LEMMA StopAllIInv ==
    ASSUME IInv, CleanUp \/ \E e \in Executors : StopAll(e)
    PROVE  IInv'
<1>1. TypeOK'
  BY Actors
  DEF CleanUp, StopAll, StopEverything, Cancel, AtProgram, progVars, flagVars, countVars,
      IInv, TypeOK
<1>2. LiveTimersStoppable'
  BY Actors
  DEF CleanUp, StopAll, StopEverything, Cancel, AtProgram, progVars, flagVars, countVars,
      IInv, TypeOK, LiveTimersStoppable
<1>3. CurrentOK'
  BY Actors
  DEF CleanUp, StopAll, StopEverything, Cancel, AtProgram, progVars, flagVars, countVars,
      IInv, CurrentOK
<1>4. OnceOK'
  BY Actors
  DEF CleanUp, StopAll, StopEverything, Cancel, AtProgram, progVars, flagVars, countVars,
      IInv, TypeOK, OnceOK, Queued
<1>5. RepeatOK'
  BY Actors
  DEF CleanUp, StopAll, StopEverything, Cancel, AtProgram, IInv, TypeOK, RepeatOK,
      LiveTimersStoppable
<1>6. LateOK'
  BY Actors
  DEF CleanUp, StopAll, StopEverything, Cancel, AtProgram, progVars, flagVars, countVars,
      IInv, TypeOK, RepeatOK, LateOK, AtLock, AtUiLock
<1> QED BY <1>1, <1>2, <1>3, <1>4, <1>5, <1>6 DEF IInv

LEMMA PauseIInv ==
    ASSUME IInv, NEW e \in Executors, NEW t \in Timers, Pause(e, t) \/ Resume(e, t)
    PROVE  IInv'
<1>1. TypeOK'
  BY Actors
  DEF Pause, Resume, progVars, flagVars, countVars, IInv, TypeOK
<1>2. LiveTimersStoppable'
  BY Actors
  DEF Pause, Resume, progVars, flagVars, countVars, IInv, TypeOK, LiveTimersStoppable
<1>3. CurrentOK'
  BY Actors
  DEF Pause, Resume, progVars, flagVars, countVars, IInv, CurrentOK
<1>4. OnceOK'
  BY Actors
  DEF Pause, Resume, progVars, flagVars, countVars, IInv, TypeOK, OnceOK, Queued
<1>5. RepeatOK'
  BY Actors
  DEF Pause, Resume, progVars, flagVars, countVars, IInv, TypeOK, RepeatOK
<1>6. LateOK'
  BY Actors
  DEF Pause, Resume, progVars, flagVars, countVars, IInv, TypeOK, RepeatOK, LateOK, AtLock,
      AtUiLock
<1> QED BY <1>1, <1>2, <1>3, <1>4, <1>5, <1>6 DEF IInv

-----------------------------------------------------------------------------
(* The program and its window *)

LEMMA ProgramIInv ==
    ASSUME IInv, Block \/ Unblock \/ OpenWindow \/ CloseWindow \/ ClearSync \/ UiEvent
    PROVE  IInv'
<1>1. TypeOK'
  BY Actors
  DEF Block, Unblock, OpenWindow, CloseWindow, ClearSync, UiEvent, Lock!Grant, Lock!Yield,
      Running, AtProgram, progVars, flagVars, countVars, IInv, TypeOK
<1>2. LiveTimersStoppable'
  BY Actors
  DEF Block, Unblock, OpenWindow, CloseWindow, ClearSync, UiEvent, Lock!Grant, Lock!Yield,
      Running, AtProgram, progVars, flagVars, countVars, IInv, TypeOK, LiveTimersStoppable
<1>3. CurrentOK'
  BY Actors
  DEF Block, Unblock, OpenWindow, CloseWindow, ClearSync, UiEvent, Lock!Grant, Lock!Yield,
      Running, AtProgram, progVars, flagVars, countVars, IInv, CurrentOK
<1>4. OnceOK'
  BY Actors
  DEF Block, Unblock, OpenWindow, CloseWindow, ClearSync, UiEvent, Running, AtProgram, IInv,
      TypeOK,
      CurrentOK, OnceOK, Queued, progVars, flagVars, countVars
<1>5. RepeatOK'
  BY Actors
  DEF Block, Unblock, OpenWindow, CloseWindow, ClearSync, UiEvent, Lock!Grant, Lock!Yield,
      Running, AtProgram, progVars, flagVars, countVars, IInv, TypeOK, RepeatOK
<1>6. LateOK'
  BY Actors
  DEF Block, Unblock, OpenWindow, CloseWindow, ClearSync, UiEvent, Running, AtProgram, IInv,
      TypeOK,
      CurrentOK, LateOK, AtLock, AtUiLock, progVars, flagVars, countVars
<1> QED BY <1>1, <1>2, <1>3, <1>4, <1>5, <1>6 DEF IInv

LEMMA UiTakeIInv ==
    ASSUME IInv, UiTake
    PROVE  IInv'
<1>1. TypeOK'
  BY Queue, Actors DEF UiTake, AtProgram, IInv, TypeOK, flagVars, countVars
<1>2. LiveTimersStoppable'
  BY Actors
  DEF UiTake, AtProgram, progVars, flagVars, countVars, IInv, TypeOK, LiveTimersStoppable
<1>3. CurrentOK'
  BY Actors
  DEF UiTake, AtProgram, progVars, flagVars, countVars, IInv, CurrentOK
<1>4. OnceOK'
  <2> DEFINE h == queue[1]
  <2>1. /\ \A i \in DOMAIN queue' : i + 1 \in DOMAIN queue /\ queue'[i] = queue[i + 1]
        /\ 1 \in DOMAIN queue /\ h \in Timers /\ Head(queue) = h
        /\ \A i \in DOMAIN queue' : i \in Nat \ {0}
    BY Queue DEF UiTake, IInv, TypeOK
  <2>2. UNCHANGED <<pc, starts, late>> /\ at = "loop" /\ current = NoTimer
    BY DEF UiTake, IInv, CurrentOK, countVars
  <2>3. \/ UNCHANGED <<at, current>>
        \/ current' = h /\ at' = "uilock"
    BY <2>1 DEF UiTake, AtProgram
  <2>4. \A t \in Once : Queued(t)' => Queued(t) /\ t # h
    BY <2>1, Actors DEF Queued, IInv, OnceOK
  <2>5. \A t \in Once : \A i, j \in DOMAIN queue' :
           queue'[i] = t /\ queue'[j] = t => i = j
    BY <2>1, Actors DEF IInv, OnceOK
  <2>6. Queued(h)
    BY <2>1 DEF Queued
  <2> QED BY <2>2, <2>3, <2>4, <2>5, <2>6, Actors DEF IInv, OnceOK
<1>5. RepeatOK'
  BY Actors
  DEF UiTake, AtProgram, progVars, flagVars, countVars, IInv, TypeOK, RepeatOK
<1>6. LateOK'
  <2>1. /\ UNCHANGED <<pc, asked, canceled, late>> /\ at = "loop"
        /\ at' = "uilock" /\ current' \in canceled => FALSE
    BY DEF UiTake, AtProgram, flagVars, countVars, IInv, CurrentOK
  <2> QED BY <2>1 DEF IInv, LateOK, AtLock, AtUiLock, TypeOK
<1> QED BY <1>1, <1>2, <1>3, <1>4, <1>5, <1>6 DEF IInv

LEMMA UiEnterIInv ==
    ASSUME IInv, UiEnter
    PROVE  IInv'
<1>1. TypeOK'
  BY Actors
  DEF UiEnter, Lock!Grant, CountStart, UpTo3, AtProgram, progVars, flagVars, countVars,
      IInv, TypeOK
<1>2. LiveTimersStoppable'
  BY Actors
  DEF UiEnter, Lock!Grant, CountStart, UpTo3, AtProgram, progVars, flagVars, countVars,
      IInv, TypeOK, LiveTimersStoppable
<1>3. CurrentOK'
  BY Actors
  DEF UiEnter, Lock!Grant, CountStart, UpTo3, AtProgram, progVars, flagVars, countVars,
      IInv, CurrentOK
<1>4. OnceOK'
  BY Actors
  DEF UiEnter, Lock!Grant, CountStart, UpTo3, AtProgram, progVars, flagVars, countVars,
      IInv, TypeOK, OnceOK, Queued
<1>5. RepeatOK'
  BY Actors
  DEF UiEnter, Lock!Grant, CountStart, UpTo3, AtProgram, progVars, flagVars, countVars,
      IInv, TypeOK, RepeatOK
<1>6. LateOK'
  BY Actors
  DEF UiEnter, Lock!Grant, CountStart, UpTo3, AtProgram, progVars, flagVars, countVars,
      IInv, TypeOK, RepeatOK, LateOK, AtLock, AtUiLock
<1> QED BY <1>1, <1>2, <1>3, <1>4, <1>5, <1>6 DEF IInv

LEMMA UiLeaveIInv ==
    ASSUME IInv, UiLeave \/ LoopEnds
    PROVE  IInv'
<1>1. TypeOK'
  <2>1. <<>> \in Seq(Timers) /\ Len(<<>>) = 0
    BY EmptySeq
  <2>2. queue' = queue \/ queue' = <<>>
    BY DEF UiLeave, LoopEnds
  <2>3. queue \in Seq(Timers) /\ Len(queue) <= MaxQueue
    BY DEF IInv, TypeOK
  <2>4. queue' \in Seq(Timers) /\ Len(queue') <= MaxQueue
    <3>1. CASE queue' = queue
      BY <2>3, <3>1
    <3>2. CASE queue' = <<>>
      <4>1. 0 <= MaxQueue
        BY Actors
      <4> QED BY <2>1, <3>2, <4>1, Zenon
    <3> QED BY <2>2, <3>1, <3>2
  <2> QED
    BY <2>4, Actors
  DEF UiLeave, LoopEnds, Lock!Yield, Running, AtProgram, IInv, TypeOK, progVars, flagVars,
      countVars
<1>2. LiveTimersStoppable'
  BY Actors
  DEF UiLeave, LoopEnds, Lock!Yield, Running, AtProgram, progVars, flagVars, countVars,
      IInv, TypeOK, LiveTimersStoppable
<1>3. CurrentOK'
  BY Actors
  DEF UiLeave, LoopEnds, Lock!Yield, Running, AtProgram, progVars, flagVars, countVars,
      IInv, CurrentOK
<1>4. OnceOK'
  BY Actors
  DEF UiLeave, LoopEnds, Lock!Yield, Running, AtProgram, progVars, flagVars, countVars,
      IInv, TypeOK, OnceOK, Queued
<1>5. RepeatOK'
  BY Actors
  DEF UiLeave, LoopEnds, Lock!Yield, Running, AtProgram, progVars, flagVars, countVars,
      IInv, TypeOK, RepeatOK
<1>6. LateOK'
  BY Actors
  DEF UiLeave, LoopEnds, Lock!Yield, Running, AtProgram, progVars, flagVars, countVars,
      IInv, TypeOK, RepeatOK, LateOK, AtLock, AtUiLock
<1> QED BY <1>1, <1>2, <1>3, <1>4, <1>5, <1>6 DEF IInv

LEMMA NextIInv == IInv /\ [Next]_vars => IInv'
<1> SUFFICES ASSUME IInv, [Next]_vars PROVE IInv'
  OBVIOUS
<1>1. CASE UNCHANGED vars
  BY <1>1
  DEF vars, progVars, flagVars, countVars, IInv, TypeOK, LiveTimersStoppable, CurrentOK,
      OnceOK, Queued, RepeatOK, LateOK, AtLock, AtUiLock
<1>2. CASE Next
  BY <1>2, TickIInv, CheckIInv, EnterIInv, LeaveIInv, SendIInv, StartIInv, StopIInv,
     StopAllIInv, PauseIInv, ProgramIInv, UiTakeIInv, UiEnterIInv, UiLeaveIInv
  DEF Next
<1> QED BY <1>1, <1>2

\* The inductive invariant holds in every reachable state.
THEOREM Invariance == Spec => []IInv
  BY InitIInv, NextIInv, PTL DEF Spec

\* Types.
THEOREM TypeCorrect == Spec => []TypeOK
<1>1. IInv => TypeOK
  BY DEF IInv
<1> QED BY <1>1, Invariance, PTL

\* The program can stop every repeating timer that lives, and so does the closing of
\* the window.
THEOREM Stoppable == Spec => []LiveTimersStoppable
<1>1. IInv => LiveTimersStoppable
  BY DEF IInv
<1> QED BY <1>1, Invariance, PTL

\* A one-shot calls back once at most, and no timer is called more than twice after a
\* stop call has returned.
THEOREM Counted == Spec => []CallsCounted
<1>1. IInv => CallsCounted
  <2> SUFFICES ASSUME IInv PROVE CallsCounted
    OBVIOUS
  <2>1. \A t \in Once : starts[t] <= 1 /\ late[t] <= 1
    BY Actors DEF IInv, TypeOK, OnceOK
  <2>2. \A t \in Timers \ Once : late[t] <= 2
    <3> SUFFICES ASSUME NEW t \in Timers \ Once PROVE late[t] <= 2
      OBVIOUS
    <3>1. late[t] \in Nat /\ AtLock(t) \in Nat /\ AtUiLock(t) \in Nat
      BY DEF IInv, TypeOK, AtLock, AtUiLock
    <3>2. t \notin canceled => late[t] = 0
      BY DEF IInv, RepeatOK, LateOK
    <3>3. t \in canceled => late[t] + AtLock(t) + AtUiLock(t) <= 2
      BY DEF IInv, LateOK
    <3> QED BY <3>1, <3>2, <3>3
  <2> QED BY <2>1, <2>2 DEF CallsCounted, OneShotFiresOnce, FewLate
<1> QED BY <1>1, Invariance, PTL
=============================================================================
