------------------------------ MODULE Timers ------------------------------
(***************************************************************************)
(* The timers of internal/stdlib/timers.go and their meeting with the      *)
(* window (internal/stdlib/windows.go): each timer has a goroutine, which  *)
(* fires the callback itself or, while a window is open, posts it to the   *)
(* queue of the UI thread.  The program (which is also the UI thread), and *)
(* every callback while it runs, may start, stop, pause and resume timers. *)
(*                                                                         *)
(* Intervals are left out: a timer that waits may tick at any moment.      *)
(***************************************************************************)
EXTENDS Naturals, Sequences

CONSTANTS Timers,
          Once,       \* the one-shot timers among them
          Program,    \* the goroutine of the program and of the UI thread
          Nobody,
          NoTimer,
          MaxQueue    \* bound: callbacks waiting in the queue of the UI thread

Executors == Timers \cup {Program}

ASSUME TimersAssumption ==
    /\ Once \subseteq Timers
    /\ Program \notin Timers /\ Nobody \notin Executors /\ NoTimer \notin Timers
    /\ MaxQueue \in Nat

VARIABLES runner,     \* holder of the run lock
          at,         \* where the program is
          current,    \* the timer whose callback the UI thread has taken
          window,     \* st.mw is set and not st.closed
          uiSync,     \* uiSyncFn is set
          queue,      \* callbacks posted with Synchronize
          pc,         \* where the goroutine of each timer is
          sync,       \* syncFn as fireTimer read it
          table,      \* timersByID
          paused, stopped, canceled,   \* the flags of the timers
          closed,     \* timers whose stopCh is closed
          asked,      \* history: timers a stop call has been made for
          starts,     \* history: callbacks started, counted up to 3
          late        \* history: those started after a stop had returned

progVars  == <<at, current, window, uiSync>>
flagVars  == <<table, paused, stopped, canceled, closed, asked>>
countVars == <<starts, late>>
vars == <<runner, progVars, queue, pc, sync, flagVars, countVars>>

Lock == INSTANCE RunLock
            WITH Goroutines <- Executors, NoOwner <- Nobody, pending <- {}

Init ==
    /\ runner = Program
    /\ at = "run"
    /\ current = NoTimer
    /\ window = FALSE
    /\ uiSync = FALSE
    /\ queue = <<>>
    /\ pc = [t \in Timers |-> "off"]
    /\ sync = [t \in Timers |-> FALSE]
    /\ table = {} /\ paused = {} /\ stopped = {} /\ canceled = {} /\ closed = {}
    /\ asked = {}
    /\ starts = [t \in Timers |-> 0]
    /\ late = [t \in Timers |-> 0]

----------------------------------------------------------------------------
(* Helpers *)

\* e runs Yod code, so it may call the timers library.
Running(e) ==
    /\ runner = e
    /\ IF e = Program THEN at \in {"run", "cb"} ELSE pc[e] = "in"

Goto(t, where) == pc' = [pc EXCEPT ![t] = where]

\* Where runTimer goes on after fireTimer: a one-shot is done.
AfterFire(t) ==
    /\ Goto(t, IF t \in Once THEN "end" ELSE "wait")
    /\ stopped' = IF t \in Once THEN stopped \cup {t} ELSE stopped

UpTo3(n) == IF n < 3 THEN n + 1 ELSE 3

\* The callback of t starts (history only); a handler of the window is none.
CountStart(t) ==
    IF t \in Timers
    THEN /\ starts' = [starts EXCEPT ![t] = UpTo3(@)]
         /\ late' = IF t \in asked THEN [late EXCEPT ![t] = UpTo3(@)] ELSE late
    ELSE UNCHANGED countVars

----------------------------------------------------------------------------
(* The goroutine of a timer: runTimer and fireTimer *)

FireAlways(t) == TRUE

\* A one-shot fires unless stopped or paused; so does each tick of a ticker.
MayFire(t) == t \notin stopped /\ t \notin paused

Tick(t) ==
    /\ pc[t] = "wait"
    /\ \/ MayFire(t) /\ Goto(t, "fire") /\ UNCHANGED stopped
       \/ ~MayFire(t) /\ t \in Once /\ Goto(t, "end") /\ stopped' = stopped \cup {t}
       \/ t \in stopped \ Once /\ Goto(t, "end") /\ UNCHANGED stopped
    /\ UNCHANGED <<runner, progVars, queue, sync, table, paused, canceled, closed, asked,
                   countVars>>

\* select sees the closed stopCh.
StopSeen(t) ==
    /\ pc[t] = "wait" /\ t \in closed
    /\ Goto(t, "end")
    /\ stopped' = IF t \in Once THEN stopped \cup {t} ELSE stopped
    /\ UNCHANGED <<runner, progVars, queue, sync, table, paused, canceled, closed, asked,
                   countVars>>

ReadSync(t) ==
    /\ pc[t] = "fire"
    /\ sync' = [sync EXCEPT ![t] = uiSync]
    /\ Goto(t, "send")
    /\ UNCHANGED <<runner, progVars, queue, flagVars, countVars>>

PostTwice(t) == queue' = queue \o <<t, t>>

Post(t) == queue' = Append(queue, t)

\* syncFn(run): posted to a window that is open, run here otherwise.
Send(t) ==
    /\ pc[t] = "send"
    /\ IF sync[t] /\ window
       THEN Len(queue) < MaxQueue /\ Post(t) /\ AfterFire(t)
       ELSE Goto(t, "check") /\ UNCHANGED <<queue, stopped>>
    /\ UNCHANGED <<runner, progVars, sync, table, paused, canceled, closed, asked,
                   countVars>>

\* run(): a canceled timer does not call; the call then waits for the lock.
Check(t) ==
    /\ pc[t] = "check"
    /\ IF t \in canceled
       THEN AfterFire(t)
       ELSE Goto(t, "lock") /\ UNCHANGED stopped
    /\ UNCHANGED <<runner, progVars, queue, sync, table, paused, canceled, closed, asked,
                   countVars>>

Enter(t) ==
    /\ pc[t] = "lock"
    /\ Lock!Grant(t)
    /\ Goto(t, "in")
    /\ CountStart(t)
    /\ UNCHANGED <<progVars, queue, sync, flagVars>>

Leave(t) ==
    /\ pc[t] = "in"
    /\ Lock!Yield(t)
    /\ AfterFire(t)
    /\ UNCHANGED <<progVars, queue, sync, table, paused, canceled, closed, asked, countVars>>

\* The deferred delete of runTimer.
End(t) ==
    /\ pc[t] = "end"
    /\ Goto(t, "gone")
    /\ table' = table \ {t}
    /\ UNCHANGED <<runner, progVars, queue, sync, paused, stopped, canceled, closed, asked,
                   countVars>>

----------------------------------------------------------------------------
(* The library, called by the program or by a callback *)

\* registerTimer
Start(e, t) ==
    /\ Running(e) /\ pc[t] = "off"
    /\ table' = table \cup {t}
    /\ Goto(t, "wait")
    /\ UNCHANGED <<runner, progVars, queue, sync, paused, stopped, canceled, closed, asked,
                   countVars>>

\* A cancel that leaves a goroutine that is waiting for its tick alone.
CancelQuietly(ts) ==
    /\ canceled' = canceled \cup ts
    /\ stopped' = stopped \cup ts
    /\ UNCHANGED closed

ForgetCancel(ts) ==
    /\ stopped' = stopped \cup ts
    /\ closed' = closed \cup (ts \ stopped)
    /\ UNCHANGED canceled

\* canceled is set; the first to set stopped closes the channel.
Cancel(ts) ==
    /\ canceled' = canceled \cup ts
    /\ stopped' = stopped \cup ts
    /\ closed' = closed \cup (ts \ stopped)

\* timerStop: a timer that is no longer in the table is left alone.
Stop(e, t) ==
    /\ Running(e) /\ pc[t] # "off"
    /\ table' = table \ {t}
    /\ IF t \in table THEN Cancel({t}) ELSE UNCHANGED <<canceled, stopped, closed>>
    /\ asked' = asked \cup {t}
    /\ UNCHANGED <<runner, progVars, queue, pc, sync, paused, countVars>>

StopEverything ==
    /\ table' = {}
    /\ Cancel(table)
    /\ asked' = {t \in Timers : pc[t] # "off"}

StopAll(e) ==
    /\ Running(e)
    /\ StopEverything
    /\ UNCHANGED <<runner, progVars, queue, pc, sync, paused, countVars>>

Pause(e, t) ==
    /\ Running(e) /\ t \in table
    /\ paused' = paused \cup {t}
    /\ UNCHANGED <<runner, progVars, queue, pc, sync, table, stopped, canceled, closed, asked,
                   countVars>>

Resume(e, t) ==
    /\ Running(e) /\ t \in table
    /\ paused' = paused \ {t}
    /\ UNCHANGED <<runner, progVars, queue, pc, sync, table, stopped, canceled, closed, asked,
                   countVars>>

----------------------------------------------------------------------------
(* The program and its window *)

AtProgram(where) == at' = where

\* The program waits for something without the lock (AwaitTask, the network).
Block ==
    /\ Running(Program) /\ at = "run"
    /\ Lock!Yield(Program)
    /\ AtProgram("blocked")
    /\ UNCHANGED <<current, window, uiSync, queue, pc, sync, flagVars, countVars>>

Unblock ==
    /\ at = "blocked"
    /\ Lock!Grant(Program)
    /\ AtProgram("run")
    /\ UNCHANGED <<current, window, uiSync, queue, pc, sync, flagVars, countVars>>

\* The window is shown; mw.Run pumps its messages without the lock.
OpenWindow ==
    /\ Running(Program) /\ at = "run"
    /\ window' = TRUE
    /\ uiSync' = TRUE
    /\ Lock!Yield(Program)
    /\ AtProgram("loop")
    /\ UNCHANGED <<current, queue, pc, sync, flagVars, countVars>>

\* The message loop takes the oldest posted callback and calls run().
UiTake ==
    /\ at = "loop" /\ queue # <<>>
    /\ queue' = Tail(queue)
    /\ IF Head(queue) \in canceled
       THEN UNCHANGED <<at, current>>
       ELSE AtProgram("uilock") /\ current' = Head(queue)
    /\ UNCHANGED <<runner, window, uiSync, pc, sync, flagVars, countVars>>

UiEnter ==
    /\ at = "uilock"
    /\ Lock!Grant(Program)
    /\ AtProgram("cb")
    /\ CountStart(current)
    /\ UNCHANGED <<current, window, uiSync, queue, pc, sync, flagVars>>

UiLeave ==
    /\ Running(Program) /\ at = "cb"
    /\ Lock!Yield(Program)
    /\ AtProgram("loop")
    /\ current' = NoTimer
    /\ UNCHANGED <<window, uiSync, queue, pc, sync, flagVars, countVars>>

\* A handler of the window (a click, a key) is called by the message loop.
UiEvent ==
    /\ at = "loop" /\ window
    /\ AtProgram("uilock")
    /\ UNCHANGED <<runner, current, window, uiSync, queue, pc, sync, flagVars, countVars>>

\* st.closed is set: by the Closing handler, or by a callback that closes the
\* window.
CloseWindow ==
    /\ \/ at = "loop"
       \/ Running(Program) /\ at = "cb"
    /\ window
    /\ window' = FALSE
    /\ UNCHANGED <<runner, at, current, uiSync, queue, pc, sync, flagVars, countVars>>

\* mw.Run returns: what was posted to the window and not yet run is never run.
LoopEnds ==
    /\ at = "loop" /\ ~window
    /\ queue' = <<>>
    /\ AtProgram("relock")
    /\ UNCHANGED <<runner, current, window, uiSync, pc, sync, flagVars, countVars>>

\* WithoutYodLock ends, then setTimerUISync(nil) ...
ClearSync ==
    /\ at = "relock"
    /\ Lock!Grant(Program)
    /\ uiSync' = FALSE
    /\ AtProgram("cleanup")
    /\ UNCHANGED <<current, window, queue, pc, sync, flagVars, countVars>>

\* ... and timerStopAll.
CleanUp ==
    /\ at = "cleanup"
    /\ StopEverything
    /\ AtProgram("run")
    /\ UNCHANGED <<runner, current, window, uiSync, queue, pc, sync, paused, countVars>>

Next ==
    \/ \E t \in Timers :
          \/ Tick(t) \/ StopSeen(t) \/ ReadSync(t) \/ Send(t) \/ Check(t)
          \/ Enter(t) \/ Leave(t) \/ End(t)
    \/ \E e \in Executors :
          \/ \E t \in Timers : Start(e, t) \/ Stop(e, t) \/ Pause(e, t) \/ Resume(e, t)
          \/ StopAll(e)
    \/ Block \/ Unblock
    \/ OpenWindow \/ UiTake \/ UiEvent \/ UiEnter \/ UiLeave
    \/ CloseWindow \/ LoopEnds \/ ClearSync \/ CleanUp

\* A goroutine whose stopCh is closed is scheduled, and so is its end.
Fairness == \A t \in Timers : WF_vars(StopSeen(t)) /\ WF_vars(End(t))

Spec     == Init /\ [][Next]_vars
FairSpec == Spec /\ Fairness

----------------------------------------------------------------------------
(* Properties *)

TypeOK ==
    /\ runner \in Executors \cup {Nobody}
    /\ at \in {"run", "blocked", "loop", "uilock", "cb", "relock", "cleanup"}
    /\ current \in Timers \cup {NoTimer}
    /\ window \in BOOLEAN /\ uiSync \in BOOLEAN
    /\ queue \in Seq(Timers) /\ Len(queue) <= MaxQueue
    /\ pc \in [Timers -> {"off", "wait", "fire", "send", "check", "lock", "in", "end",
                          "gone"}]
    /\ sync \in [Timers -> BOOLEAN]
    /\ \A s \in {table, paused, stopped, canceled, closed, asked} : s \subseteq Timers
    /\ starts \in [Timers -> 0 .. 3] /\ late \in [Timers -> 0 .. 3]

\* The callback of a one-shot timer is called once at most, by its goroutine or
\* by the window, whenever the window opens or closes.
OneShotFiresOnce == \A t \in Once : starts[t] <= 1

\* After a stop has returned few callbacks of the timer still start: the one its
\* goroutine had on its way to the run lock and, of a repeating timer, the one the
\* UI thread had.  None of them is a tick that came after the stop.
FewLate == \A t \in Timers : late[t] <= IF t \in Once THEN 1 ELSE 2

\* A timer calls back as often as it may.
CallsCounted == OneShotFiresOnce /\ FewLate

\* A repeating timer that is neither stopped nor finished is in the table: the
\* program can stop it, and closing the window does.
LiveTimersStoppable ==
    \A t \in Timers \ Once :
        pc[t] \in {"wait", "fire", "send", "check", "lock", "in"} =>
            t \in table \/ t \in canceled

\* After a stop the goroutine of the timer ends, it does not wait out its
\* interval.
StoppedGoroutineEnds ==
    \A t \in Timers : (t \in canceled /\ pc[t] = "wait") ~> (pc[t] = "gone")
=============================================================================
