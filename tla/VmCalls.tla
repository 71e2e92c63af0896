------------------------------ MODULE VmCalls ------------------------------
(***************************************************************************)
(* The frame stack, the value stack and the exception handlers of the      *)
(* bytecode machine (internal/vm/vm.go), which every goroutine that runs   *)
(* Yod code shares.  The main program runs in the outermost Run; a task, a *)
(* timer, an event or a builtin that takes a function enters through       *)
(* CallCallable, which pushes a frame and starts a Run of its own that is  *)
(* to stop when the frame stack is back at runBase.  Each loop of Run      *)
(* executes whatever frame is on top.                                      *)
(*                                                                         *)
(* Of the instructions those are kept that move the three stacks; the      *)
(* program is any that the compiler can emit.  A frame knows what its code *)
(* knows statically: how many of its temporaries are on the value stack    *)
(* and how many of its try blocks are open.  Allowed says which of four    *)
(* things the programs of a run may do besides:                            *)
(*   "block"     a callback or task lets go of the run lock (WithoutYodLock) *)
(*   "return"    a function returns from inside a try block                *)
(*   "across"    a callback throws to a try block of its caller            *)
(*   "uncaught"  a callback throws with no try block open                  *)
(***************************************************************************)
EXTENDS Naturals, Sequences, FiniteSets, SequencesExt

CONSTANTS Main, Others,   \* the goroutine of the program, and the other ones
          Nobody,
          Calls,          \* names for the function calls in progress
          MaxFrames,      \* bound: frames on the stack
          MaxTry,         \* bound: open try blocks of one frame
          MaxTemps,       \* bound: temporaries of one frame
          MaxLeft,        \* bound: values that failed calls have left on the stack
          Allowed         \* see above

Goroutines == {Main} \cup Others
MainCall   == 0

ASSUME VmAssumption ==
    /\ Main \notin Others /\ Nobody \notin Goroutines
    /\ Calls \subseteq Nat \ {MainCall}
    /\ MaxFrames \in Nat \ {0} /\ MaxTry \in Nat
    /\ MaxTemps \in Nat /\ MaxLeft \in Nat
    /\ Allowed \subseteq {"block", "return", "across", "uncaught"}

VARIABLES runner,    \* holder of the run lock
          at,        \* what each goroutine does in the machine
          runs,      \* the CallCallable calls each goroutine is inside
          frames,    \* vm.frames[0 .. framesIndex-1]
          stack,     \* vm.stack[0 .. sp-1]
          handlers,  \* vm.handlers
          runBase,   \* vm.runBase
          answer,    \* the call CallCallable made last, and what it returned
          caught,    \* what the catch variable was last set to
          ended      \* how the Run of the main program ended

vars == <<runner, at, runs, frames, stack, handlers, runBase, answer, caught, ended>>

Lock == INSTANCE RunLock
            WITH Goroutines <- Goroutines, NoOwner <- Nobody, pending <- {}

\* What is on the value stack: a value the code of a frame computed, the string
\* handleError pushes, the result of a call, the *Error CallCallable returns, and what a
\* CallCallable pushed that then could not enter its function.
Temp      == <<"temp", MainCall>>
Left      == <<"left", MainCall>>
Message   == <<"message", MainCall>>
Failure   == <<"error", MainCall>>
Result(c) == <<"result", c>>

NewFrame(c, g, base) ==
    [call |-> c, owner |-> g, base |-> base, temps |-> 0, tries |-> 0,
     catching |-> FALSE]

Init ==
    /\ runner = Main
    /\ at = [g \in Goroutines |-> IF g = Main THEN "loop" ELSE "out"]
    /\ runs = [g \in Goroutines |-> <<>>]
    /\ frames = <<NewFrame(MainCall, Main, 0)>>
    /\ stack = <<>>
    /\ handlers = <<>>
    /\ runBase = 0
    /\ answer = <<MainCall, Failure>>
    /\ caught = Message
    /\ ended = "no"

----------------------------------------------------------------------------
(* Helpers *)

Top == Last(frames)

\* A Run that goes on into the frame it was called from.
StoppedLate == runBase > 0 /\ Len(frames) < runBase

\* The test at the head of the loop of Run.
Stopped == runBase > 0 /\ Len(frames) <= runBase

\* g, in the loop of Run, is about to execute an instruction of the top frame.
Executes(g) == runner = g /\ at[g] = "loop" /\ ~Stopped

\* An instruction of the program's choice: the frame is not entering a catch.
Chooses(g) == Executes(g) /\ ~Top.catching

SetTop(f) == [frames EXCEPT ![Len(frames)] = f]

Used == {frames[i].call : i \in DOMAIN frames}
        \cup UNION {{runs[g][i].call : i \in DOMAIN runs[g]} : g \in Goroutines}
        \cup {stack[i][2] : i \in DOMAIN stack}

Fresh == Calls \ Used

NextCall == CHOOSE c \in Fresh : \A d \in Fresh : c <= d

\* The stack cut or stretched to n slots; stretching uncovers old values.
Resize(s, n) == [i \in 1 .. n |-> IF i <= Len(s) THEN s[i] ELSE Temp]

Go(g, where) == at' = [at EXCEPT ![g] = where]

----------------------------------------------------------------------------
(* CallCallable *)

\* Pushes the function and its frame and starts a Run with its own base.
EnterRun(g) ==
    /\ Fresh # {} /\ Len(frames) < MaxFrames
    /\ stack' = Append(stack, Temp)
    /\ runs' = [runs EXCEPT ![g] =
                   Append(@, [base |-> Len(frames), prev |-> runBase, call |-> NextCall])]
    /\ frames' = Append(frames, NewFrame(NextCall, g, Len(stack) + 1))
    /\ runBase' = Len(frames)
    /\ Go(g, "loop")

\* CallCallable gives up before Run: its argument is no function, the stack overflows, or
\* callFunction refuses the arguments.  What it has pushed stays.
GivesUp ==
    /\ \E n \in 0 .. MaxLeft :
          /\ Cardinality({i \in DOMAIN stack : stack[i] = Left}) + n <= MaxLeft
          /\ stack' = stack \o [i \in 1 .. n |-> Left]
    /\ answer' = <<MainCall, Failure>>
    /\ UNCHANGED <<runner, at, runs, frames, handlers, runBase, caught, ended>>

\* A task, timer or event: LockYod, then CallCallable.
Enter(g) ==
    /\ ended = "no" /\ at[g] = "out" /\ g # Main
    /\ Lock!Grant(g)
    /\ EnterRun(g)
    /\ UNCHANGED <<handlers, answer, caught, ended>>

EnterFails(g) ==
    /\ ended = "no" /\ at[g] = "out" /\ g # Main
    /\ runner = Nobody
    /\ GivesUp

\* A builtin calls the function it was given.
Callback(g) ==
    /\ runner = g /\ at[g] = "builtin"
    /\ EnterRun(g)
    /\ UNCHANGED <<runner, handlers, answer, caught, ended>>

CallbackFails(g) ==
    /\ runner = g /\ at[g] = "builtin"
    /\ GivesUp

\* The caller of CallCallable gets v: the builtin goes on, or the lock is let
\* go of by a goroutine that ran nothing else.
Answer(g, v) ==
    /\ answer' = <<Last(runs[g]).call, v>>
    /\ runs' = [runs EXCEPT ![g] = Front(@)]
    /\ IF Len(runs[g]) > 1 \/ g = Main
       THEN Go(g, "builtin") /\ UNCHANGED runner
       ELSE Go(g, "out") /\ Lock!Yield(g)

RestoreBase(g) == runBase' = Last(runs[g]).prev

\* Run returned nil: the value on top of the stack is the result.
RunReturns(g) ==
    /\ RestoreBase(g)
    /\ IF stack = <<>>
       THEN Answer(g, Temp) /\ UNCHANGED stack
       ELSE Answer(g, Last(stack)) /\ stack' = Front(stack)
    /\ UNCHANGED <<frames, handlers, caught, ended>>

\* Run returned an error: CallCallable returns it, the stacks stay as they are.
RunFails(g) ==
    /\ RestoreBase(g)
    /\ Answer(g, Failure)
    /\ UNCHANGED <<frames, stack, handlers, caught, ended>>

\* The outermost Run ends and the process with it: nobody enters any more.
EndProgram(g, how) ==
    /\ ended' = how
    /\ Go(g, "over")
    /\ Lock!Yield(g)
    /\ UNCHANGED <<runs, frames, stack, handlers, runBase, answer, caught>>

\* The head of the loop finds the frame stack back at runBase.
Stop(g) ==
    /\ runner = g /\ at[g] = "loop" /\ Stopped
    /\ IF runs[g] = <<>> THEN EndProgram(g, "early") ELSE RunReturns(g)

\* The first frame has no instruction left: Run returns nil.
LastInstruction(g) ==
    /\ Chooses(g) /\ Len(frames) = 1
    /\ Top.tries = 0 /\ Top.temps = 0
    /\ IF runs[g] = <<>> THEN EndProgram(g, "end") ELSE RunReturns(g)

----------------------------------------------------------------------------
(* Instructions *)

\* OpCall of a Yod function; its result will be a temporary of the caller.
OpCall(g) ==
    /\ Chooses(g) /\ Fresh # {} /\ Len(frames) < MaxFrames /\ Top.temps < MaxTemps
    /\ stack' = Append(stack, Temp)
    /\ frames' = Append(SetTop([Top EXCEPT !.temps = @ + 1]),
                        NewFrame(NextCall, Top.owner, Len(stack) + 1))
    /\ UNCHANGED <<runner, at, runs, handlers, runBase, answer, caught, ended>>

\* A return that pushes first and cuts then.
CutLate(f) == Resize(Append(stack, Result(f.call)), f.base - 1)

\* sp = basePointer - 1, then the result is pushed.
CutBack(f) == Append(Resize(stack, f.base - 1), Result(f.call))

OpReturnValue(g) ==
    /\ Chooses(g) /\ Len(frames) > 1
    /\ Top.tries = 0 \/ "return" \in Allowed
    /\ stack' = CutBack(Top)
    /\ frames' = Front(frames)
    /\ UNCHANGED <<runner, at, runs, handlers, runBase, answer, caught, ended>>

\* An instruction that takes a value; which one it finds on top is not told apart.
OpPop(g) ==
    /\ Chooses(g) /\ Top.temps > 0
    /\ stack' = Front(stack)
    /\ frames' = SetTop([Top EXCEPT !.temps = @ - 1])
    /\ UNCHANGED <<runner, at, runs, handlers, runBase, answer, caught, ended>>

OpSetupTry(g) ==
    /\ Chooses(g) /\ Top.tries < MaxTry
    /\ handlers' = Append(handlers, [frame |-> Len(frames), sp |-> Len(stack),
                                     call |-> Top.call, tries |-> Top.tries,
                                     temps |-> Top.temps])
    /\ frames' = SetTop([Top EXCEPT !.tries = @ + 1])
    /\ UNCHANGED <<runner, at, runs, stack, runBase, answer, caught, ended>>

DropHandler == handlers' = IF handlers = <<>> THEN <<>> ELSE Front(handlers)

OpEndTry(g) ==
    /\ Chooses(g) /\ Top.tries > 0
    /\ DropHandler
    /\ frames' = SetTop([Top EXCEPT !.tries = @ - 1])
    /\ UNCHANGED <<runner, at, runs, stack, runBase, answer, caught, ended>>

\* A handleError that leaves the frames above the handler in place.
UnwindNothing(h) == frames

\* Frames above the handler's are popped; the frame then on top goes on at the
\* catch block, with the blocks open there and the message on the stack.
Unwind(h) ==
    LET kept == SubSeq(frames, 1, IF h.frame < Len(frames) THEN h.frame ELSE Len(frames))
    IN  [kept EXCEPT ![Len(kept)] =
            [@ EXCEPT !.catching = TRUE, !.tries = h.tries, !.temps = h.temps + 1]]

\* The message pushed before the stack is cut back.
LandEarly(h) == Resize(Append(stack, Message), h.sp + 1)

\* The stack as it was when the block was entered, and the message.
Land(h) == Append(Resize(stack, h.sp), Message)

\* handleError with a handler registered.
HandleError(g) ==
    LET h == Last(handlers) IN
    /\ handlers # <<>>
    /\ h.frame > runBase \/ "across" \in Allowed
    /\ handlers' = Front(handlers)
    /\ frames' = Unwind(h)
    /\ stack' = Land(h)
    /\ Go(g, "loop")
    /\ UNCHANGED <<runner, runs, runBase, answer, caught, ended>>

\* An instruction fails, or OpThrow: to the nearest handler, or out of Run.
Raise(g) ==
    \/ HandleError(g)
    \/ /\ handlers = <<>>
       /\ IF runs[g] = <<>>
          THEN EndProgram(g, "error")
          ELSE "uncaught" \in Allowed /\ RunFails(g)

OpThrow(g) == Chooses(g) /\ Raise(g)

\* The catch block starts by storing the message in its variable.
StoreCaught(g) ==
    /\ Executes(g) /\ Top.catching
    /\ caught' = Last(stack)
    /\ stack' = Front(stack)
    /\ frames' = SetTop([Top EXCEPT !.catching = FALSE, !.temps = @ - 1])
    /\ UNCHANGED <<runner, at, runs, handlers, runBase, answer, ended>>

\* OpCallBuiltin; the value it gives will be a temporary of the frame.
OpCallBuiltin(g) ==
    /\ Chooses(g) /\ Top.temps < MaxTemps
    /\ frames' = SetTop([Top EXCEPT !.temps = @ + 1])
    /\ Go(g, "builtin")
    /\ UNCHANGED <<runner, runs, stack, handlers, runBase, answer, caught, ended>>

BuiltinReturns(g) ==
    /\ runner = g /\ at[g] = "builtin"
    /\ stack' = Append(stack, Temp)
    /\ Go(g, "loop")
    /\ UNCHANGED <<runner, runs, frames, handlers, runBase, answer, caught, ended>>

BuiltinFails(g) ==
    /\ runner = g /\ at[g] = "builtin"
    /\ Raise(g)

\* The builtin waits (for a task, the network, the window) without the lock.
Block(g) ==
    /\ runner = g /\ at[g] = "builtin"
    /\ g = Main \/ "block" \in Allowed
    /\ Lock!Yield(g)
    /\ Go(g, "blocked")
    /\ UNCHANGED <<runs, frames, stack, handlers, runBase, answer, caught, ended>>

Unblock(g) ==
    /\ ended = "no" /\ at[g] = "blocked"
    /\ Lock!Grant(g)
    /\ Go(g, "builtin")
    /\ UNCHANGED <<runs, frames, stack, handlers, runBase, answer, caught, ended>>

Next ==
    \E g \in Goroutines :
        \/ Enter(g) \/ EnterFails(g) \/ Callback(g) \/ CallbackFails(g) \/ Stop(g) \/ LastInstruction(g)
        \/ OpCall(g) \/ OpReturnValue(g) \/ OpPop(g)
        \/ OpSetupTry(g) \/ OpEndTry(g) \/ OpThrow(g) \/ StoreCaught(g)
        \/ OpCallBuiltin(g) \/ BuiltinReturns(g) \/ BuiltinFails(g)
        \/ Block(g) \/ Unblock(g)

Spec == Init /\ [][Next]_vars

----------------------------------------------------------------------------
(* Properties *)

Frame == [call : Calls \cup {MainCall}, owner : Goroutines, base : Nat,
          temps : 0 .. MaxTemps + 1, tries : 0 .. MaxTry,
          catching : BOOLEAN]

Value == {Temp, Left, Message, Failure} \cup {Result(c) : c \in Calls \cup {MainCall}}

TypeOK ==
    /\ runner \in Goroutines \cup {Nobody}
    /\ at \in [Goroutines -> {"out", "loop", "builtin", "blocked", "over"}]
    /\ \A i \in DOMAIN frames : frames[i] \in Frame
    /\ Len(frames) \in 1 .. MaxFrames
    /\ \A i \in DOMAIN stack : stack[i] \in Value
    /\ \A g \in Goroutines : \A i \in DOMAIN runs[g] :
          runs[g][i] \in [base : 1 .. MaxFrames, prev : 0 .. MaxFrames, call : Calls]
    /\ \A i \in DOMAIN handlers :
          handlers[i] \in [frame : 1 .. MaxFrames, sp : Nat, tries : 0 .. MaxTry,
                           call : Calls \cup {MainCall}, temps : 0 .. MaxTemps + 1]
    /\ runBase \in 0 .. MaxFrames
    /\ answer \in (Calls \cup {MainCall}) \X Value
    /\ caught \in Value
    /\ ended \in {"no", "end", "error", "early"}

\* A goroutine only executes code of its own calls, although all of them take
\* the frame on top of one shared stack.
OwnCode == \A g \in Goroutines : Executes(g) => Top.owner = g

\* CallCallable returns the result of the function it called, or its failure, although the
\* calls of all goroutines share one value stack and those that could not be entered leave
\* values there that nobody knows of (vm.go:586-604, 609-616).
CallsAnswered == answer[2] \in {Result(answer[1]), Failure}

\* Every registered handler is that of a try block that is still open, in a
\* frame that is still on the stack: an error goes to an active try block.
HandlersLive ==
    \A i \in DOMAIN handlers :
        LET h == handlers[i] IN
        /\ h.frame <= Len(frames)
        /\ frames[h.frame].call = h.call
        /\ h.tries < frames[h.frame].tries

\* The variable of a catch block is set to the message of the error.
CatchGetsMessage == caught = Message

\* The program ends because it came to its end or failed, and not because the
\* loop of the main program stopped at the base of somebody else's call.
RunsToTheEnd == ended # "early"

\* The nested loops do not get into each other's way.
LoopsApart == OwnCode /\ HandlersLive /\ RunsToTheEnd
=============================================================================
