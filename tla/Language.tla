------------------------------ MODULE Language ------------------------------
(***************************************************************************)
(* A program run from the command line (cmd/yod/main.go): compiled and     *)
(* executed by the bytecode machine, walked by the evaluator, or both,     *)
(* when the machine gives up and the evaluator takes over.  The machine    *)
(* takes one instruction a step; a compilation and an evaluation take one  *)
(* step each, since nothing happens between theirs.                        *)
(***************************************************************************)
EXTENDS Vm

\* The two engines: what compiling a program gives, what one instruction of the
\* machine gives and what evaluating a program gives, each with the state after
\* it (CompileSource and Step of Vm, RunSource of Evaluator).
CONSTANTS Compilation(_, _), Instruction(_), Evaluation(_, _, _)

\* What is run: [body, parses, command, backward], the command being "smart" (a
\* file alone), "run" or "machine", and backward the order Go's maps have then.
CONSTANT Programs

VARIABLES program, phase, machine, result

vars == <<program, phase, machine, result>>

\* What the process ends with: the error it reports, Null when there is none.
Outcome(v) == IF IsError(v) THEN v ELSE Null

Init ==
    /\ program \in Programs
    /\ machine = NewState(program.backward, FALSE)
    /\ phase = IF program.command = "run" THEN "evaluate" ELSE "compile"
    /\ result = Nil

\* runSmart: what the machine does not support is left to the evaluator, which
\* starts the program again; forced, the error is reported.
AfterMachine(v) ==
    IF IsError(v) /\ program.command = "smart" /\ Contains(v.msg, Unsupported)
    THEN phase' = "evaluate" /\ result' = Nil
    ELSE phase' = "finished" /\ result' = Outcome(v)

CompileProgram ==
    /\ phase = "compile"
    /\ LET r == Compilation(program.body, machine)
       IN  IF ~program.parses
           THEN phase' = "finished" /\ result' = Err(<<Failed>>) /\ UNCHANGED machine
           ELSE IF r.v = Nil THEN phase' = "run" /\ machine' = r.s /\ UNCHANGED result
           ELSE AfterMachine(r.v) /\ UNCHANGED machine
    /\ UNCHANGED program

Execute ==
    /\ phase = "run"
    /\ LET r == Instruction(machine)
       IN  /\ machine' = r.s
           /\ IF r.v = Nil THEN UNCHANGED <<phase, result>> ELSE AfterMachine(r.v)
    /\ UNCHANGED program

\* runFile: a new global environment; what was printed stays printed.
EvaluateProgram ==
    /\ phase = "evaluate"
    /\ LET r == Evaluation(program.body, program.backward, FALSE)
       IN  /\ phase' = "finished"
           /\ result' = IF program.parses THEN Outcome(r.v) ELSE Err(<<Failed>>)
           /\ machine' = IF program.parses THEN [machine EXCEPT !.out = @ \o r.s.out] ELSE machine
    /\ UNCHANGED program

Finished == phase = "finished" /\ UNCHANGED vars

Next == CompileProgram \/ Execute \/ EvaluateProgram \/ Finished

Spec == Init /\ [][Next]_vars

----------------------------------------------------------------------------
(* Properties *)

TypeOK ==
    /\ program.command \in {"smart", "run", "machine"}
    /\ phase \in {"compile", "run", "evaluate", "finished"}
    /\ result = Nil \/ result = Null \/ IsError(result)
    /\ (result = Nil) <=> phase # "finished"
    /\ phase = "run" => /\ machine.sp \in 0 .. StackSize
                        /\ Len(machine.frames) \in 1 .. MaxFrames

\* The error of a process without the lines the evaluator puts before it, and in
\* one wording: the engines word their own errors differently.
Message(msg) ==
    LET text == SelectSeq(msg, LAMBDA c : c # Line)
    IN  [i \in DOMAIN text |-> IF text[i] = Unsupported THEN Failed ELSE text[i]]

\* The machine was asked for by name and does not support the program.
RefusedByName == program.command = "machine" /\ result = Err(<<Unsupported>>)

\* A program prints the same lines, to the letter, and ends with the same error or
\* with none wherever it runs: the table of the guide promises loops and classes
\* from both engines.  What a catch variable holds is not the same (the evaluator
\* puts "line N: " before the message, the machine does not); no program of the
\* stock shows one.
SameOnBothEngines ==
    phase = "finished" /\ program.parses /\ ~RefusedByName =>
        LET r == Evaluation(program.body, program.backward, FALSE)
        IN  /\ machine.out = r.s.out
            /\ IsError(result) <=> IsError(r.v)
            /\ IsError(result) => Message(result.msg) = Message(r.v.msg)

\* The operands of a function stay above its local variables, whichever way
\* its branches are taken: a pop too many would write over a variable.
LocalsKept ==
    phase = "run" =>
        LET f == currentFrame(machine)
        IN  machine.sp >= f.basePointer + Object(f.fn, machine).numLocals

\* An open try belongs to a function that is still running, and its operands
\* are those the function had: a handler left behind would jump into the code
\* of another function.
HandlersLive ==
    phase = "run" =>
        \A i \in DOMAIN machine.handlers :
            LET h == machine.handlers[i]
            IN  /\ h.frameIndex <= Len(machine.frames)
                /\ h.stackPointer <= machine.sp
                /\ i > 1 => machine.handlers[i - 1].frameIndex <= h.frameIndex

\* Wherever a jump or a handler of the running code goes, an instruction
\* begins: the compiler cuts instructions off after it has aimed jumps at them.
JumpsLand ==
    phase = "run" /\ currentFrame(machine).ip = -1 =>
        LET ins == Code(machine)
            Jumps == {"Jump", "JumpNotTruthy", "JumpTruthy", "JumpFalsyKeep", "JumpTruthyKeep",
                      "JumpNotNullKeep", "SetupTry"}
        IN  \A i \in DOMAIN ins :
               ins[i].op \in Jumps =>
                  \/ ins[i].args[1] = Len(ins)
                  \/ ins[i].args[1] + 1 \in DOMAIN ins /\ ins[ins[i].args[1] + 1] # Operand

\* Two lists never show the same buffer: what is pushed to, sorted in or cut off
\* one of them is not seen in the other, though both grew out of one (slices of
\* Go share what they are cut from).
ListsApart ==
    phase = "run" =>
        LET values == {Slot(i, machine) : i \in 0 .. machine.sp - 1}
                      \cup {machine.globals[i] : i \in DOMAIN machine.globals}
            lists == {v \in values : v.t = "array"}
        IN  \A v, w \in lists : v # w => Object(v, machine).buf # Object(w, machine).buf

\* When the code of the program has run to its end, no operand and no open try
\* is left of it.
NothingLeft ==
    phase = "finished" /\ Has(machine, "sp") =>
        (Len(machine.frames) = 1 /\ currentFrame(machine).ip + 1 >= Len(Code(machine)) =>
            machine.sp = 0 /\ machine.handlers = <<>>)

\* The stacks are those of the functions that run: no pop too many and none too
\* few, no handler of a function that is gone, no jump between instructions.
StacksSound == LocalsKept /\ HandlersLive /\ JumpsLand /\ NothingLeft
=============================================================================
