--------------------------- MODULE VmCalls_proofs ---------------------------
(***************************************************************************)
(* The shared frame stack of the machine, for any number of goroutines and *)
(* any depth of calls, as long as the programs keep to what Allowed = {}   *)
(* says: what a callback started is over before anybody else goes on, and  *)
(* so the nested loops of Run share one stack as if each had its own.      *)
(***************************************************************************)
EXTENDS VmCalls, SequenceTheorems, WellFoundedInduction, TLAPS

Runs == [base : Nat \ {0}, prev : Nat, call : Calls]
Handlers == [frame : Nat \ {0}, sp : Nat, call : Calls \cup {MainCall}, tries : Nat, temps : Nat]

Types ==
    /\ runner \in Goroutines \cup {Nobody}
    /\ at \in [Goroutines -> {"out", "loop", "builtin", "blocked", "over"}]
    /\ runs \in [Goroutines -> Seq(Runs)]
    /\ frames \in Seq(Frame) /\ frames # <<>> /\ Len(frames) <= MaxFrames
    /\ stack \in Seq(Value)
    /\ handlers \in Seq(Handlers)
    /\ runBase \in Nat
    /\ answer \in (Calls \cup {MainCall}) \X Value
    /\ caught \in Value
    /\ ended \in {"no", "end", "error"}

\* Whose loop is the innermost one.
Inner == IF runner \in Others THEN runner ELSE Main

\* One goroutine at a time is inside the machine besides the main program, which is
\* blocked in a builtin all the while.
LockOK ==
    /\ \A g \in Others :
          /\ at[g] \in {"out", "loop", "builtin"}
          /\ at[g] = "out" <=> runs[g] = <<>>
          /\ at[g] # "out" <=> runner = g
    /\ at[Main] \in {"loop", "builtin"} <=> runner = Main
    /\ at[Main] # "out"
    /\ at[Main] = "over" <=> ended # "no"
    /\ ended # "no" => runner = Nobody

\* The bases of nested calls go up, and each remembers the one before.
Chain(q, b) ==
    /\ \A i \in DOMAIN q : b < q[i].base
                           /\ q[i].prev = IF i = 1 THEN b ELSE q[i - 1].base
    /\ \A i, j \in DOMAIN q : i < j => q[i].base < q[j].base

BaseOf(q) == IF q = <<>> THEN 0 ELSE q[Len(q)].base

RunsOK ==
    /\ Chain(runs[Main], 0)
    /\ \A g \in Others : Chain(runs[g], BaseOf(runs[Main]))
    /\ runBase = BaseOf(runs[Inner])
    /\ runBase <= Len(frames)
    /\ \A g \in Goroutines : \A i \in DOMAIN runs[g] :
          runs[g][i].base < Len(frames) => frames[runs[g][i].base + 1].call = runs[g][i].call

\* Frames of the goroutine that is inside lie above those of the main program.
OwnersOK ==
    \A i \in DOMAIN frames :
        frames[i].owner = IF runner \in Others /\ i > runs[runner][1].base THEN runner ELSE Main

\* A frame begins where the temporaries of the one below end, or above that, where calls
\* that could not be entered left values; what the one below waits for, the result of the
\* call, is the last of its temporaries.
FramesOK ==
    /\ frames[1].base = 0
    /\ \A i \in DOMAIN frames : i < Len(frames) =>
          /\ frames[i].temps \in 1 .. MaxTemps /\ ~frames[i].catching
          /\ frames[i].base + frames[i].temps <= frames[i + 1].base

\* The value stack has room for the temporaries of the top frame, but for the one a builtin
\* is still to give, and for what was left there.  A loop that has come to its end finds the
\* result of its call on top, and a catch block the message.
InLoop == runner # Nobody /\ at[runner] = "loop"

StackOK ==
    ended = "no" =>
        /\ InLoop => Top.base + Top.temps <= Len(stack)
        /\ ~InLoop => Top.base + Top.temps <= Len(stack) + 1 /\ ~Top.catching /\ Top.temps > 0
        /\ Len(frames) = runBase =>
              /\ InLoop /\ ~Top.catching /\ Top.temps > 0
              /\ stack[Len(stack)] = Result(runs[Inner][Len(runs[Inner])].call)
        /\ Top.catching => Top.temps > 0 /\ stack[Len(stack)] = Message
        /\ ~Top.catching => Top.temps <= MaxTemps

\* The handlers are those of open blocks of frames that are there, innermost last.
HandlersOK ==
    /\ \A i \in DOMAIN handlers :
          LET h == handlers[i] IN
          /\ h.frame <= Len(frames) /\ frames[h.frame].call = h.call
          /\ h.tries < frames[h.frame].tries
          /\ frames[h.frame].base + h.temps <= h.sp /\ h.temps <= MaxTemps
    /\ \A i, j \in DOMAIN handlers : i < j =>
          \/ handlers[i].frame < handlers[j].frame
          \/ handlers[i].frame = handlers[j].frame /\ handlers[i].tries < handlers[j].tries

AnswersOK == CallsAnswered /\ CatchGetsMessage

VmInv == Types /\ LockOK /\ RunsOK /\ OwnersOK /\ FramesOK /\ StackOK /\ HandlersOK /\ AnswersOK

-----------------------------------------------------------------------------
(* Sequences and frames *)

LEMMA SeqEnds ==
    ASSUME NEW S, NEW q \in Seq(S), q # <<>>
    PROVE  /\ Len(q) \in Nat \ {0} /\ DOMAIN q = 1 .. Len(q) /\ Len(q) \in DOMAIN q
           /\ Last(q) = q[Len(q)] /\ Last(q) \in S
           /\ Front(q) \in Seq(S) /\ Len(Front(q)) = Len(q) - 1
           /\ DOMAIN Front(q) = 1 .. Len(q) - 1
           /\ \A i \in DOMAIN Front(q) : i \in DOMAIN q /\ Front(q)[i] = q[i]
<1>1. /\ Len(q) \in Nat \ {0} /\ DOMAIN q = 1 .. Len(q) /\ Len(q) \in DOMAIN q
      /\ Last(q) = q[Len(q)] /\ Last(q) \in S
  BY EmptySeq DEF Last
<1>2. /\ Front(q) \in Seq(S) /\ Len(Front(q)) = Len(q) - 1
      /\ \A i \in 1 .. Len(q) - 1 : Front(q)[i] = q[i]
  BY <1>1 DEF Front
<1>3. DOMAIN Front(q) = 1 .. Len(q) - 1
  BY <1>2
<1> QED BY <1>1, <1>2, <1>3

LEMMA SeqAppend ==
    ASSUME NEW S, NEW q \in Seq(S), NEW e \in S
    PROVE  /\ Append(q, e) \in Seq(S) /\ Len(q) \in Nat /\ DOMAIN q = 1 .. Len(q)
           /\ Len(Append(q, e)) = Len(q) + 1 /\ DOMAIN Append(q, e) = 1 .. Len(q) + 1
           /\ \A i \in DOMAIN q : Append(q, e)[i] = q[i]
           /\ Append(q, e)[Len(q) + 1] = e
           /\ Append(q, e) # <<>>
  OBVIOUS

LEMMA OneOrMore == \A n \in Nat \ {0} : n # 1 <=> (n > 1 /\ 1 < n)
  OBVIOUS

LEMMA Resized ==
    ASSUME NEW q \in Seq(Value), NEW n \in Nat
    PROVE  Resize(q, n) \in Seq(Value) /\ Len(Resize(q, n)) = n
<1>1. \A i \in 1 .. n : (IF i <= Len(q) THEN q[i] ELSE Temp) \in Value
  BY DEF Value
<1> HIDE DEF Value
<1> QED BY <1>1 DEF Resize

LEMMA Actors ==
    /\ Main \in Goroutines /\ Main \notin Others /\ Others \subseteq Goroutines
    /\ Nobody \notin Goroutines /\ Nobody # Main /\ Nobody \notin Others
    /\ \A g \in Goroutines : g = Main \/ g \in Others
    /\ MaxTemps \in Nat /\ MaxTry \in Nat /\ MaxFrames \in Nat
    /\ Calls \subseteq Nat /\ MainCall \notin Calls
  BY VmAssumption DEF Goroutines

\* The name for a new call is one of those that are free.
LEMMA Named == Fresh # {} => NextCall \in Calls /\ NextCall \in Fresh
<1> SUFFICES ASSUME Fresh # {} PROVE NextCall \in Fresh
  BY DEF Fresh
<1>1. Fresh \subseteq Nat
  BY Actors DEF Fresh
<1>2. PICK c \in Fresh : \A d \in Fresh : ~(<<d, c>> \in OpToRel(<, Nat))
  BY <1>1, NatLessThanWellFounded, WFMin
<1>3. \A d \in Fresh : c <= d
  <2>1. \A d \in Nat : d < c => <<d, c>> \in OpToRel(<, Nat)
    BY <1>1 DEF OpToRel
  <2>2. \A d \in Fresh : ~(d < c)
    BY <1>1, <1>2, <2>1, Zenon
  <2> QED BY <1>1, <2>2
<1> QED BY <1>2, <1>3 DEF NextCall

LEMMA Values ==
    /\ Temp \in Value /\ Left \in Value /\ Message \in Value /\ Failure \in Value
    /\ \A c \in Calls \cup {MainCall} : Result(c) \in Value
  BY DEF Value

\* What a step may change of a frame.
LEMMA FrameFields ==
    ASSUME NEW f \in Frame
    PROVE  /\ f.call \in Calls \cup {MainCall} /\ f.owner \in Goroutines /\ f.base \in Nat
           /\ f.temps \in 0 .. MaxTemps + 1 /\ f.tries \in 0 .. MaxTry /\ f.catching \in BOOLEAN
  BY DEF Frame

Alike(f, e) == f.call = e.call /\ f.owner = e.owner /\ f.base = e.base

LEMMA FrameTemps ==
    ASSUME NEW f \in Frame, NEW n \in 0 .. MaxTemps + 1
    PROVE  LET e == [f EXCEPT !.temps = n] IN
           /\ e \in Frame /\ Alike(e, f)
           /\ e.temps = n /\ e.tries = f.tries /\ e.catching = f.catching
  BY DEF Frame, Alike

LEMMA FrameTries ==
    ASSUME NEW f \in Frame, NEW n \in 0 .. MaxTry
    PROVE  LET e == [f EXCEPT !.tries = n] IN
           /\ e \in Frame /\ Alike(e, f)
           /\ e.tries = n /\ e.temps = f.temps /\ e.catching = f.catching
  BY DEF Frame, Alike

LEMMA FrameStored ==
    ASSUME NEW f \in Frame, NEW n \in 0 .. MaxTemps + 1
    PROVE  LET e == [f EXCEPT !.catching = FALSE, !.temps = n] IN
           /\ e \in Frame /\ Alike(e, f)
           /\ e.temps = n /\ e.tries = f.tries /\ e.catching = FALSE
  BY DEF Frame, Alike

LEMMA FrameCatches ==
    ASSUME NEW f \in Frame, NEW n \in 0 .. MaxTemps + 1, NEW m \in 0 .. MaxTry
    PROVE  LET e == [f EXCEPT !.catching = TRUE, !.tries = m, !.temps = n] IN
           /\ e \in Frame /\ Alike(e, f)
           /\ e.temps = n /\ e.tries = m /\ e.catching = TRUE
  BY DEF Frame, Alike

\* The parts of the state are of their types, and so are the frames.
LEMMA Parts ==
    ASSUME Types
    PROVE  /\ Len(frames) \in Nat \ {0} /\ DOMAIN frames = 1 .. Len(frames)
           /\ Top = frames[Len(frames)] /\ Top \in Frame
           /\ \A i \in DOMAIN frames : i \in Nat /\ frames[i] \in Frame
           /\ Len(stack) \in Nat /\ DOMAIN stack = 1 .. Len(stack)
           /\ Len(handlers) \in Nat /\ DOMAIN handlers = 1 .. Len(handlers)
           /\ \A i \in DOMAIN handlers : i \in Nat /\ handlers[i] \in Handlers
           /\ \A g \in Goroutines :
                 /\ runs[g] \in Seq(Runs)
                 /\ Len(runs[g]) \in Nat /\ DOMAIN runs[g] = 1 .. Len(runs[g])
                 /\ \A i \in DOMAIN runs[g] : i \in Nat /\ runs[g][i] \in Runs
                                              /\ runs[g][i].base \in Nat \ {0}
                                              /\ runs[g][i].call \in Calls
<1>1. /\ Len(frames) \in Nat \ {0} /\ DOMAIN frames = 1 .. Len(frames)
      /\ Top = frames[Len(frames)] /\ Top \in Frame
  BY SeqEnds DEF Types, Top
<1>2. \A q \in Seq(Runs) :
         /\ Len(q) \in Nat /\ DOMAIN q = 1 .. Len(q)
         /\ \A i \in DOMAIN q : i \in Nat /\ q[i] \in Runs
  OBVIOUS
<1>3. \A r \in Runs : r.base \in Nat \ {0} /\ r.call \in Calls
  BY DEF Runs
<1>4. \A g \in Goroutines : runs[g] \in Seq(Runs)
  BY DEF Types
<1>5. /\ \A i \in DOMAIN frames : i \in Nat /\ frames[i] \in Frame
      /\ Len(stack) \in Nat /\ DOMAIN stack = 1 .. Len(stack)
      /\ Len(handlers) \in Nat /\ DOMAIN handlers = 1 .. Len(handlers)
      /\ \A i \in DOMAIN handlers : i \in Nat /\ handlers[i] \in Handlers
  BY DEF Types
<1> QED BY <1>1, <1>2, <1>3, <1>4, <1>5

LEMMA Setting ==
    ASSUME Types, NEW f \in Frame
    PROVE  /\ SetTop(f) \in Seq(Frame) /\ SetTop(f) # <<>> /\ Len(SetTop(f)) = Len(frames)
           /\ DOMAIN SetTop(f) = DOMAIN frames
           /\ \A i \in DOMAIN frames : SetTop(f)[i] = IF i = Len(frames) THEN f ELSE frames[i]
  BY Parts DEF Types, SetTop

LEMMA Changed ==
    ASSUME Types, NEW f \in Frame, Alike(f, Top), frames' = SetTop(f)
    PROVE  /\ Len(frames') = Len(frames) /\ Len(frames) \in DOMAIN frames
           /\ \A i \in DOMAIN frames : Alike(frames'[i], frames[i])
           /\ \A i \in DOMAIN frames : i # Len(frames) => frames'[i] = frames[i]
           /\ frames'[Len(frames)] = f /\ Top = frames[Len(frames)]
           /\ DOMAIN frames = 1 .. Len(frames) /\ Len(frames) \in Nat
<1>1. /\ Len(frames) \in DOMAIN frames /\ Top = frames[Len(frames)]
      /\ DOMAIN frames = 1 .. Len(frames) /\ Len(frames) \in Nat
  BY Parts
<1>2. /\ Len(frames') = Len(frames)
      /\ \A i \in DOMAIN frames : frames'[i] = IF i = Len(frames) THEN f ELSE frames[i]
  BY Setting
<1>3. \A i \in DOMAIN frames : Alike(frames'[i], frames[i])
  BY <1>1, <1>2 DEF Alike
<1> QED BY <1>1, <1>2, <1>3

-----------------------------------------------------------------------------
(* Whoever runs is the innermost *)

\* A goroutine that runs is the one whose call began last; the top frame is of its own
\* calls unless its loop has come to its end.
LEMMA Running ==
    ASSUME VmInv, NEW g \in Goroutines, runner = g, at[g] \in {"loop", "builtin"}
    PROVE  /\ Inner = g /\ ended = "no" /\ runner # Nobody
           /\ InLoop <=> at[g] = "loop"
           /\ runBase = BaseOf(runs[g]) /\ runBase \in Nat /\ runBase <= Len(frames)
           /\ g \in Others => runs[g] # <<>> /\ runs[g][1].base \in Nat \ {0} /\ runs[g][1].base <= runBase
           /\ runBase < Len(frames) => Top.owner = g
           /\ at[g] = "builtin" => runBase < Len(frames)
           /\ Stopped <=> runBase > 0 /\ Len(frames) = runBase
           /\ ~Stopped => runBase < Len(frames)
<1> USE Actors
<1>1. Types /\ LockOK /\ RunsOK /\ OwnersOK /\ StackOK
  BY DEF VmInv
<1>2. Inner = g /\ ended = "no" /\ runner # Nobody /\ (InLoop <=> at[g] = "loop")
  BY <1>1 DEF LockOK, Inner, InLoop
<1>3. runBase = BaseOf(runs[g]) /\ runBase \in Nat /\ runBase <= Len(frames)
  BY <1>1, <1>2 DEF RunsOK, Types
<1>4. g \in Others => runs[g] # <<>> /\ runs[g][1].base \in Nat \ {0} /\ runs[g][1].base <= runBase
  <2> SUFFICES ASSUME g \in Others
               PROVE  runs[g] # <<>> /\ runs[g][1].base \in Nat \ {0} /\ runs[g][1].base <= runBase
    OBVIOUS
  <2>1. runs[g] # <<>> /\ runs[g] \in Seq(Runs)
    BY <1>1 DEF LockOK, Types
  <2>2. 1 \in DOMAIN runs[g] /\ Len(runs[g]) \in DOMAIN runs[g] /\ Len(runs[g]) \in Nat \ {0}
    BY <2>1, SeqEnds
  <2>3. runs[g][1].base \in Nat \ {0} /\ runs[g][Len(runs[g])].base \in Nat
    BY <1>1, <2>2, Parts
  <2>4. 1 < Len(runs[g]) => runs[g][1].base < runs[g][Len(runs[g])].base
    BY <1>1, <2>2 DEF RunsOK, Chain
  <2>6. Len(runs[g]) = 1 \/ 1 < Len(runs[g])
    BY <2>2, OneOrMore, Zenon
  <2>7. runBase = runs[g][Len(runs[g])].base
    BY <1>3, <2>1 DEF BaseOf
  <2>8. Len(runs[g]) = 1 => runs[g][1].base = runs[g][Len(runs[g])].base
    OBVIOUS
  <2> QED BY <2>1, <2>3, <2>4, <2>6, <2>7, <2>8
<1>5. runBase < Len(frames) => Top.owner = g
  <2>1. Len(frames) \in DOMAIN frames /\ Top = frames[Len(frames)]
    BY <1>1, Parts
  <2>2. g \in Others /\ runBase < Len(frames) => Len(frames) > runs[g][1].base
    BY <1>1, <1>3, <1>4, Parts, SeqEnds
  <2> QED BY <1>1, <2>1, <2>2 DEF OwnersOK
<1>6. at[g] = "builtin" => runBase < Len(frames)
  BY <1>1, <1>2, <1>3, Parts DEF StackOK
<1>7. (Stopped <=> runBase > 0 /\ Len(frames) = runBase) /\ (~Stopped => runBase < Len(frames))
  BY <1>1, <1>3, Parts DEF Stopped
<1> QED BY <1>2, <1>3, <1>4, <1>5, <1>6, <1>7

\* A step that changes of the frames only what the top one does keeps the calls apart.
LEMMA TopOnly ==
    ASSUME VmInv, NEW f \in Frame, Alike(f, Top), frames' = SetTop(f),
           UNCHANGED <<runner, runs, runBase>>
    PROVE  /\ frames' \in Seq(Frame) /\ frames' # <<>> /\ Len(frames') = Len(frames)
           /\ DOMAIN frames' = DOMAIN frames /\ Top' = f
           /\ \A i \in DOMAIN frames : i # Len(frames) => frames'[i] = frames[i]
           /\ RunsOK' /\ OwnersOK' /\ FramesOK'
<1>0. Types /\ RunsOK /\ OwnersOK /\ FramesOK
  BY DEF VmInv
<1>1. /\ frames' \in Seq(Frame) /\ frames' # <<>> /\ Len(frames') = Len(frames)
      /\ DOMAIN frames' = DOMAIN frames
      /\ \A i \in DOMAIN frames : frames'[i] = IF i = Len(frames) THEN f ELSE frames[i]
  BY <1>0, Setting
<1>2. Len(frames) \in DOMAIN frames /\ Top = frames[Len(frames)] /\ DOMAIN frames = 1 .. Len(frames)
      /\ Len(frames) \in Nat
  BY <1>0, Parts
<1>3. \A i \in DOMAIN frames : Alike(frames'[i], frames[i])
  BY <1>1, <1>2 DEF Alike
<1>4. Top' = f
  BY <1>1, <1>2 DEF Top, Last
<1>5. RunsOK'
  <2>1. \A g \in Goroutines : \A i \in DOMAIN runs[g] :
           runs[g][i].base < Len(frames) => runs[g][i].base + 1 \in DOMAIN frames
    BY <1>0, <1>2, Parts
  <2> QED BY <1>0, <1>1, <1>3, <2>1 DEF RunsOK, Chain, BaseOf, Inner, Alike
<1>6. OwnersOK'
  BY <1>0, <1>1, <1>3 DEF OwnersOK, Alike
<1>7. FramesOK'
  <2>1. \A i \in DOMAIN frames : i < Len(frames) => i + 1 \in DOMAIN frames
    BY <1>2
  <2>2. 1 \in DOMAIN frames
    BY <1>2
  <2> QED BY <1>0, <1>1, <1>3, <2>1, <2>2 DEF FramesOK, Alike
<1> QED BY <1>1, <1>4, <1>5, <1>6, <1>7

\* A step inside a loop leaves the others where they are.
LEMMA LockStays ==
    ASSUME VmInv, NEW g \in Goroutines, runner = g, at[g] \in {"loop", "builtin"},
           NEW w \in {"loop", "builtin"}, at' = [at EXCEPT ![g] = w],
           UNCHANGED <<runner, ended>>,
           \A h \in Others : runs'[h] = <<>> <=> runs[h] = <<>>
    PROVE  LockOK' /\ at' \in [Goroutines -> {"out", "loop", "builtin", "blocked", "over"}]
  BY Actors DEF VmInv, Types, LockOK

-----------------------------------------------------------------------------
(* Instructions that stay in their frame *)

\* A goroutine that is about to execute an instruction.
LEMMA Executing ==
    ASSUME VmInv, NEW g \in Goroutines, Executes(g)
    PROVE  /\ runner = g /\ at[g] = "loop" /\ Inner = g /\ ended = "no" /\ InLoop
           /\ runBase = BaseOf(runs[g]) /\ runBase \in Nat /\ runBase < Len(frames)
           /\ Top.owner = g
           /\ Top.base + Top.temps <= Len(stack)
           /\ Types /\ Top \in Frame /\ Top.base \in Nat /\ Top.temps \in 0 .. MaxTemps + 1
           /\ Len(stack) \in Nat
           /\ Top.tries \in 0 .. MaxTry
           /\ ~Top.catching => Top.temps <= MaxTemps
           /\ Top.catching => Top.temps > 0 /\ stack[Len(stack)] = Message
           /\ Top.temps > 0 => stack # <<>>
<1>1. runner = g /\ at[g] = "loop" /\ ~Stopped
  BY DEF Executes
<1>2. /\ Inner = g /\ ended = "no" /\ InLoop /\ runBase = BaseOf(runs[g]) /\ runBase \in Nat
      /\ runBase < Len(frames) /\ Top.owner = g
  BY <1>1, Running
<1>3. Types /\ StackOK
  BY DEF VmInv
<1>4. /\ Top \in Frame /\ Top.base \in Nat /\ Top.temps \in 0 .. MaxTemps + 1
      /\ Len(stack) \in Nat
      /\ Top.tries \in 0 .. MaxTry
  BY <1>3, Parts, FrameFields
<1>5. /\ Top.base + Top.temps <= Len(stack)
      /\ ~Top.catching => Top.temps <= MaxTemps
      /\ Top.catching => Top.temps > 0 /\ stack[Len(stack)] = Message
  BY <1>2, <1>3 DEF StackOK
<1>6. Top.temps > 0 => stack # <<>>
  BY <1>3, <1>4, <1>5, Parts
<1> QED BY <1>1, <1>2, <1>3, <1>4, <1>5, <1>6

\* Handlers of blocks that stay as they are stay right.
LEMMA HandlersStay ==
    ASSUME VmInv, Len(frames') \in Nat, Len(frames) <= Len(frames'), UNCHANGED handlers,
           \A i \in DOMAIN frames :
              Alike(frames'[i], frames[i]) /\ frames'[i].tries = frames[i].tries
    PROVE  HandlersOK'
<1>1. \A i \in DOMAIN handlers : handlers[i].frame \in Nat \ {0}
  BY Parts DEF VmInv, Handlers
<1>2. \A i \in DOMAIN handlers : handlers[i].frame \in DOMAIN frames
  BY <1>1, Parts DEF VmInv, HandlersOK
<1> QED BY <1>2 DEF VmInv, HandlersOK, Alike

\* An instruction that leaves the frame on top, and the stack as the frame says.
LEMMA StaysInFrame ==
    ASSUME VmInv, NEW g \in Goroutines, Executes(g),
           NEW f \in Frame, Alike(f, Top), ~f.catching, f.temps <= MaxTemps,
           frames' = SetTop(f), UNCHANGED <<runner, runs, runBase, ended, answer>>,
           stack' \in Seq(Value), handlers' \in Seq(Handlers), caught' = Message,
           NEW w \in {"loop", "builtin"}, at' = [at EXCEPT ![g] = w],
           w = "loop" => f.base + f.temps <= Len(stack'),
           w = "builtin" => f.base + f.temps <= Len(stack') + 1 /\ f.temps > 0,
           HandlersOK'
    PROVE  VmInv'
<1>1. /\ runner = g /\ at[g] = "loop" /\ runBase \in Nat /\ runBase < Len(frames) /\ Types
      /\ ended = "no"
  BY Executing
<1>2. /\ frames' \in Seq(Frame) /\ frames' # <<>> /\ Len(frames') = Len(frames) /\ Top' = f
      /\ RunsOK' /\ OwnersOK' /\ FramesOK'
  BY TopOnly
<1>3. LockOK' /\ at' \in [Goroutines -> {"out", "loop", "builtin", "blocked", "over"}]
  BY <1>1, LockStays
<1>4. Types'
  BY <1>1, <1>2, <1>3, Values DEF Types
<1>5. at'[g] = w
  BY <1>1 DEF Types
<1>6. StackOK'
  <2>1. Len(frames') # runBase'
    BY <1>1, <1>2, Parts
  <2>2. InLoop' <=> w = "loop"
    BY <1>1, <1>5, Actors DEF InLoop
  <2> QED BY <1>2, <2>1, <2>2 DEF StackOK
<1>7. AnswersOK'
  BY DEF VmInv, AnswersOK, CallsAnswered, CatchGetsMessage
<1> QED BY <1>2, <1>3, <1>4, <1>6, <1>7 DEF VmInv

\* In the loop nothing is to be done for a goroutine to stay there.
LEMMA StaysInLoop ==
    ASSUME VmInv, NEW g \in Goroutines, at[g] = "loop", UNCHANGED at
    PROVE  at' = [at EXCEPT ![g] = "loop"]
  BY DEF VmInv, Types

LEMMA PopKeeps ==
    ASSUME VmInv, NEW g \in Goroutines, OpPop(g)
    PROVE  VmInv'
<1> DEFINE f == [Top EXCEPT !.temps = @ - 1]
<1>1. /\ Executes(g) /\ ~Top.catching /\ Top.temps > 0
      /\ stack' = Front(stack) /\ frames' = SetTop(f)
      /\ UNCHANGED <<runner, at, runs, handlers, runBase, answer, caught, ended>>
  BY DEF OpPop, Chooses
<1>2. /\ Types /\ Top \in Frame /\ stack # <<>> /\ Top.temps - 1 \in 0 .. MaxTemps + 1
      /\ Top.temps \in Nat /\ Top.base \in Nat /\ Top.base + Top.temps <= Len(stack)
      /\ Top.temps <= MaxTemps /\ at[g] = "loop"
  BY <1>1, Executing, Actors
<1>3. /\ f \in Frame /\ Alike(f, Top) /\ f.temps = Top.temps - 1 /\ f.tries = Top.tries
      /\ f.catching = Top.catching
  BY <1>2, FrameTemps
<1> HIDE DEF f
<1>4. stack' \in Seq(Value) /\ Len(stack') = Len(stack) - 1
  BY <1>1, <1>2, SeqEnds DEF Types
<1>5. /\ Len(frames') = Len(frames)
      /\ \A i \in DOMAIN frames :
            Alike(frames'[i], frames[i]) /\ frames'[i].tries = frames[i].tries
  BY <1>1, <1>2, <1>3, Setting, Parts DEF Alike
<1>6. HandlersOK'
  BY <1>1, <1>5, HandlersStay
<1>7. f.temps <= MaxTemps /\ f.base + f.temps <= Len(stack')
  BY <1>2, <1>3, <1>4, Actors DEF Alike
<1>8. handlers' \in Seq(Handlers) /\ caught' = Message
  BY <1>1 DEF VmInv, Types, AnswersOK, CatchGetsMessage
<1>9. at' = [at EXCEPT ![g] = "loop"]
  BY <1>1, <1>2, StaysInLoop
<1> QED BY <1>1, <1>3, <1>4, <1>6, <1>7, <1>8, <1>9, StaysInFrame

LEMMA StoreKeeps ==
    ASSUME VmInv, NEW g \in Goroutines, StoreCaught(g)
    PROVE  VmInv'
<1> DEFINE f == [Top EXCEPT !.catching = FALSE, !.temps = @ - 1]
<1>1. /\ Executes(g) /\ Top.catching
      /\ caught' = Last(stack) /\ stack' = Front(stack) /\ frames' = SetTop(f)
      /\ UNCHANGED <<runner, at, runs, handlers, runBase, answer, ended>>
  BY DEF StoreCaught
<1>2. /\ Types /\ Top \in Frame /\ stack # <<>> /\ Top.temps \in 0 .. MaxTemps + 1
      /\ Top.temps > 0 /\ stack[Len(stack)] = Message
      /\ Top.base \in Nat /\ Top.base + Top.temps <= Len(stack) /\ at[g] = "loop"
  BY <1>1, Executing
<1>3. Top.temps - 1 \in 0 .. MaxTemps + 1 /\ Top.temps - 1 <= MaxTemps
  BY <1>2, Actors
<1>4. /\ f \in Frame /\ Alike(f, Top) /\ f.temps = Top.temps - 1 /\ f.tries = Top.tries
      /\ f.catching = FALSE
  BY <1>2, <1>3, FrameStored
<1> HIDE DEF f
<1>5. stack' \in Seq(Value) /\ Len(stack') = Len(stack) - 1 /\ caught' = Message
  BY <1>1, <1>2, SeqEnds DEF Types
<1>6. /\ Len(frames') = Len(frames)
      /\ \A i \in DOMAIN frames :
            Alike(frames'[i], frames[i]) /\ frames'[i].tries = frames[i].tries
  BY <1>1, <1>2, <1>4, Setting, Parts DEF Alike
<1>7. HandlersOK'
  BY <1>1, <1>6, HandlersStay
<1>8. f.temps <= MaxTemps /\ f.base + f.temps <= Len(stack')
  BY <1>2, <1>3, <1>4, <1>5, Actors DEF Alike
<1>9. handlers' \in Seq(Handlers)
  BY <1>1 DEF VmInv, Types
<1>10. at' = [at EXCEPT ![g] = "loop"]
  BY <1>1, <1>2, StaysInLoop
<1> QED BY <1>1, <1>4, <1>5, <1>7, <1>8, <1>9, <1>10, StaysInFrame

LEMMA BuiltinKeeps ==
    ASSUME VmInv, NEW g \in Goroutines, OpCallBuiltin(g)
    PROVE  VmInv'
<1> DEFINE f == [Top EXCEPT !.temps = @ + 1]
<1>1. /\ Executes(g) /\ ~Top.catching /\ Top.temps < MaxTemps
      /\ frames' = SetTop(f) /\ at' = [at EXCEPT ![g] = "builtin"]
      /\ UNCHANGED <<runner, runs, stack, handlers, runBase, answer, caught, ended>>
  BY DEF OpCallBuiltin, Chooses, Go
<1>2. /\ Types /\ Top \in Frame /\ Top.temps + 1 \in 0 .. MaxTemps + 1
      /\ Top.temps \in Nat /\ Top.base \in Nat /\ Top.base + Top.temps <= Len(stack)
      /\ Top.temps + 1 <= MaxTemps
  BY <1>1, Executing, Actors
<1>3. /\ f \in Frame /\ Alike(f, Top) /\ f.temps = Top.temps + 1 /\ f.tries = Top.tries
      /\ f.catching = Top.catching
  BY <1>2, FrameTemps
<1> HIDE DEF f
<1>4. stack' \in Seq(Value) /\ handlers' \in Seq(Handlers) /\ caught' = Message
  BY <1>1 DEF VmInv, Types, AnswersOK, CatchGetsMessage
<1>5. /\ Len(frames') = Len(frames)
      /\ \A i \in DOMAIN frames :
            Alike(frames'[i], frames[i]) /\ frames'[i].tries = frames[i].tries
  BY <1>1, <1>2, <1>3, Setting, Parts DEF Alike
<1>6. HandlersOK'
  BY <1>1, <1>5, HandlersStay
<1>7. f.temps <= MaxTemps /\ f.base + f.temps <= Len(stack') + 1 /\ f.temps > 0
  BY <1>1, <1>2, <1>3 DEF Alike
<1> QED BY <1>1, <1>3, <1>4, <1>6, <1>7, StaysInFrame

LEMMA SetupKeeps ==
    ASSUME VmInv, NEW g \in Goroutines, OpSetupTry(g)
    PROVE  VmInv'
<1> DEFINE f == [Top EXCEPT !.tries = @ + 1]
<1> DEFINE h == [frame |-> Len(frames), sp |-> Len(stack), call |-> Top.call,
                 tries |-> Top.tries, temps |-> Top.temps]
<1>1. /\ Executes(g) /\ ~Top.catching /\ Top.tries < MaxTry
      /\ handlers' = Append(handlers, h) /\ frames' = SetTop(f)
      /\ UNCHANGED <<runner, at, runs, stack, runBase, answer, caught, ended>>
  BY DEF OpSetupTry, Chooses
<1>2. /\ Types /\ Top \in Frame /\ Top.tries + 1 \in 0 .. MaxTry /\ Top.tries \in Nat
      /\ Top.temps \in Nat /\ Top.base \in Nat /\ Top.base + Top.temps <= Len(stack)
      /\ Top.temps <= MaxTemps /\ at[g] = "loop" /\ Top.call \in Calls \cup {MainCall}
  BY <1>1, Executing, FrameFields, Actors
<1>3. /\ f \in Frame /\ Alike(f, Top) /\ f.temps = Top.temps /\ f.tries = Top.tries + 1
      /\ f.catching = Top.catching
  BY <1>2, FrameTries
<1>4. h \in Handlers
  BY <1>2, Parts DEF Handlers
<1>5. /\ h.frame = Len(frames) /\ Top.base + h.temps <= h.sp /\ h.call = Top.call
      /\ h.tries = Top.tries /\ h.temps <= MaxTemps
  BY <1>2
<1> HIDE DEF f, h
<1>6. /\ handlers' \in Seq(Handlers) /\ Len(handlers') = Len(handlers) + 1
      /\ DOMAIN handlers' = 1 .. Len(handlers) + 1 /\ Len(handlers) \in Nat
      /\ DOMAIN handlers = 1 .. Len(handlers)
      /\ \A i \in DOMAIN handlers : handlers'[i] = handlers[i]
      /\ handlers'[Len(handlers) + 1] = h
  BY <1>1, <1>2, <1>4, SeqAppend DEF Types
<1>7. /\ Len(frames') = Len(frames) /\ Len(frames) \in DOMAIN frames
      /\ \A i \in DOMAIN frames : Alike(frames'[i], frames[i])
      /\ \A i \in DOMAIN frames : i # Len(frames) => frames'[i] = frames[i]
      /\ frames'[Len(frames)] = f /\ Top = frames[Len(frames)]
      /\ DOMAIN frames = 1 .. Len(frames) /\ Len(frames) \in Nat
  BY <1>1, <1>2, <1>3, Changed
<1>8. \A i \in DOMAIN handlers :
         /\ handlers[i].frame \in DOMAIN frames /\ handlers[i].tries \in Nat
         /\ handlers[i].frame <= Len(frames) /\ handlers[i].frame \in Nat
         /\ handlers[i].frame = Len(frames) => handlers[i].tries < Top.tries
  BY <1>2, <1>7, Parts DEF VmInv, HandlersOK, Handlers
<1>9. HandlersOK'
  <2>1. ASSUME NEW i \in DOMAIN handlers'
        PROVE  LET e == handlers'[i] IN
               /\ e.frame <= Len(frames') /\ frames'[e.frame].call = e.call
               /\ e.tries < frames'[e.frame].tries
               /\ frames'[e.frame].base + e.temps <= e.sp /\ e.temps <= MaxTemps
    <3>1. CASE i \in DOMAIN handlers
      <4>1. /\ handlers'[i] = handlers[i] /\ Alike(frames'[handlers[i].frame], frames[handlers[i].frame])
            /\ handlers[i].frame # Len(frames) =>
                  frames'[handlers[i].frame] = frames[handlers[i].frame]
        BY <3>1, <1>6, <1>7, <1>8
      <4>2. handlers[i].tries < frames'[handlers[i].frame].tries
        <5>1. CASE handlers[i].frame = Len(frames)
          BY <5>1, <3>1, <1>2, <1>3, <1>7, <1>8
        <5>2. CASE handlers[i].frame # Len(frames)
          BY <5>2, <3>1, <4>1 DEF VmInv, HandlersOK
        <5> QED BY <5>1, <5>2
      <4> QED BY <3>1, <4>1, <4>2, <1>7 DEF VmInv, HandlersOK, Alike
    <3>2. CASE i = Len(handlers) + 1
      BY <3>2, <1>2, <1>3, <1>5, <1>6, <1>7 DEF Alike
    <3> QED BY <3>1, <3>2, <1>6
  <2>2. ASSUME NEW i \in DOMAIN handlers', NEW j \in DOMAIN handlers', i < j
        PROVE  \/ handlers'[i].frame < handlers'[j].frame
               \/ /\ handlers'[i].frame = handlers'[j].frame
                  /\ handlers'[i].tries < handlers'[j].tries
    <3>1. i \in DOMAIN handlers
      BY <2>2, <1>6
    <3>2. CASE j \in DOMAIN handlers
      BY <3>1, <3>2, <2>2, <1>6 DEF VmInv, HandlersOK
    <3>3. CASE j = Len(handlers) + 1
      BY <3>1, <3>3, <1>5, <1>6, <1>7, <1>8
    <3> QED BY <3>2, <3>3, <1>6
  <2> QED BY <2>1, <2>2 DEF HandlersOK
<1>10. f.temps <= MaxTemps /\ stack' \in Seq(Value) /\ f.base + f.temps <= Len(stack')
  BY <1>1, <1>2, <1>3 DEF Alike, Types
<1>11. caught' = Message
  BY <1>1 DEF VmInv, AnswersOK, CatchGetsMessage
<1>12. at' = [at EXCEPT ![g] = "loop"]
  BY <1>1, <1>2, StaysInLoop
<1> QED BY <1>1, <1>3, <1>6, <1>9, <1>10, <1>11, <1>12, StaysInFrame

\* The newest handler is that of the topmost of the frames that have any.
LEMMA Newest ==
    ASSUME VmInv, handlers # <<>>
    PROVE  /\ Last(handlers) = handlers[Len(handlers)] /\ Last(handlers) \in Handlers
           /\ Last(handlers).frame \in DOMAIN frames /\ Last(handlers).tries \in Nat
           /\ Last(handlers).frame <= Len(frames)
           /\ Last(handlers).tries < frames[Last(handlers).frame].tries
           /\ frames[Last(handlers).frame].base + Last(handlers).temps <= Last(handlers).sp
           /\ Last(handlers).temps \in Nat /\ Last(handlers).temps <= MaxTemps
           /\ Front(handlers) \in Seq(Handlers)
           /\ \A i \in DOMAIN Front(handlers) :
                 /\ i \in DOMAIN handlers /\ Front(handlers)[i] = handlers[i]
                 /\ handlers[i].frame \in DOMAIN frames /\ handlers[i].tries \in Nat
                 /\ \/ handlers[i].frame < Last(handlers).frame
                    \/ /\ handlers[i].frame = Last(handlers).frame
                       /\ handlers[i].tries < Last(handlers).tries
<1>1. Types /\ HandlersOK /\ handlers \in Seq(Handlers)
  BY DEF VmInv, Types
<1>2. /\ Len(handlers) \in Nat \ {0} /\ DOMAIN handlers = 1 .. Len(handlers)
      /\ Len(handlers) \in DOMAIN handlers
      /\ Last(handlers) = handlers[Len(handlers)] /\ Last(handlers) \in Handlers
      /\ Front(handlers) \in Seq(Handlers) /\ DOMAIN Front(handlers) = 1 .. Len(handlers) - 1
      /\ \A i \in DOMAIN Front(handlers) : i \in DOMAIN handlers /\ Front(handlers)[i] = handlers[i]
  BY <1>1, SeqEnds
<1>3. \A i \in DOMAIN handlers : /\ handlers[i].frame \in Nat \ {0} /\ handlers[i].tries \in Nat
                                 /\ handlers[i].temps \in Nat
  BY <1>1, Parts DEF Handlers
<1>4. \A i \in DOMAIN handlers : handlers[i].frame \in DOMAIN frames
  BY <1>1, <1>3, Parts DEF HandlersOK
<1>5. \A i \in DOMAIN Front(handlers) : i < Len(handlers)
  BY <1>2
<1>6. \A i \in DOMAIN Front(handlers) :
         \/ handlers[i].frame < Last(handlers).frame
         \/ /\ handlers[i].frame = Last(handlers).frame
            /\ handlers[i].tries < Last(handlers).tries
  BY <1>1, <1>2, <1>5 DEF HandlersOK
<1>7. /\ Last(handlers).frame <= Len(frames)
      /\ Last(handlers).tries < frames[Last(handlers).frame].tries
      /\ frames[Last(handlers).frame].base + Last(handlers).temps <= Last(handlers).sp
      /\ Last(handlers).temps <= MaxTemps
  BY <1>1, <1>2 DEF HandlersOK
<1> QED BY <1>2, <1>3, <1>4, <1>6, <1>7

\* Without the newest one, the handlers stay right when only blocks as deep as its own, or
\* deeper, end, and only frames above its own go.
LEMMA OneLess ==
    ASSUME VmInv, handlers # <<>>, handlers' = Front(handlers),
           NEW n \in DOMAIN frames, Last(handlers).frame <= n, Len(frames') = n,
           \A i \in 1 .. n : Alike(frames'[i], frames[i]),
           \A i \in 1 .. n : i # n => frames'[i] = frames[i],
           Last(handlers).frame = n => Last(handlers).tries <= frames'[n].tries,
           frames'[n].tries \in Nat
    PROVE  HandlersOK' /\ handlers' \in Seq(Handlers)
<1>1. /\ handlers' \in Seq(Handlers)
      /\ \A i \in DOMAIN handlers' :
            /\ i \in DOMAIN handlers /\ handlers'[i] = handlers[i]
            /\ handlers[i].frame \in DOMAIN frames /\ handlers[i].tries \in Nat
            /\ \/ handlers[i].frame < Last(handlers).frame
               \/ /\ handlers[i].frame = Last(handlers).frame
                  /\ handlers[i].tries < Last(handlers).tries
      /\ Last(handlers).frame \in DOMAIN frames /\ Last(handlers).tries \in Nat
  BY Newest
<1>2. DOMAIN frames = 1 .. Len(frames) /\ Len(frames) \in Nat
  BY Parts DEF VmInv
<1>3. ASSUME NEW i \in DOMAIN handlers'
      PROVE  LET e == handlers'[i] IN
             /\ e.frame <= Len(frames') /\ frames'[e.frame].call = e.call
             /\ e.tries < frames'[e.frame].tries
             /\ frames'[e.frame].base + e.temps <= e.sp /\ e.temps <= MaxTemps
  <2>1. handlers'[i] = handlers[i] /\ i \in DOMAIN handlers
    BY <1>1
  <2>2. handlers[i].frame \in 1 .. n
    BY <1>1, <1>2
  <2>3. Alike(frames'[handlers[i].frame], frames[handlers[i].frame])
    BY <2>2
  <2>4. handlers[i].tries < frames'[handlers[i].frame].tries
    <3>1. CASE handlers[i].frame = n
      BY <3>1, <1>1, <1>2
    <3>2. CASE handlers[i].frame # n
      BY <3>2, <2>1, <2>2 DEF VmInv, HandlersOK
    <3> QED BY <3>1, <3>2
  <2> QED BY <2>1, <2>2, <2>3, <2>4 DEF VmInv, HandlersOK, Alike
<1>4. \A i, j \in DOMAIN handlers' : i < j =>
         \/ handlers'[i].frame < handlers'[j].frame
         \/ /\ handlers'[i].frame = handlers'[j].frame
            /\ handlers'[i].tries < handlers'[j].tries
  BY <1>1 DEF VmInv, HandlersOK
<1>5. HandlersOK'
  BY <1>3, <1>4 DEF HandlersOK
<1> QED BY <1>1, <1>5

LEMMA EndTryKeeps ==
    ASSUME VmInv, NEW g \in Goroutines, OpEndTry(g)
    PROVE  VmInv'
<1> DEFINE f == [Top EXCEPT !.tries = @ - 1]
<1>1. /\ Executes(g) /\ ~Top.catching /\ Top.tries > 0 /\ frames' = SetTop(f)
      /\ handlers' = IF handlers = <<>> THEN <<>> ELSE Front(handlers)
      /\ UNCHANGED <<runner, at, runs, stack, runBase, answer, caught, ended>>
  BY DEF OpEndTry, Chooses, DropHandler
<1>2. /\ Types /\ Top \in Frame /\ Top.tries - 1 \in 0 .. MaxTry /\ Top.tries \in Nat
      /\ Top.temps \in Nat /\ Top.base \in Nat /\ Top.base + Top.temps <= Len(stack)
      /\ Top.temps <= MaxTemps /\ at[g] = "loop"
  BY <1>1, Executing, Actors
<1>3. /\ f \in Frame /\ Alike(f, Top) /\ f.temps = Top.temps /\ f.tries = Top.tries - 1
      /\ f.catching = Top.catching
  BY <1>2, FrameTries
<1> HIDE DEF f
<1>4. /\ Len(frames') = Len(frames) /\ Len(frames) \in DOMAIN frames
      /\ \A i \in DOMAIN frames : Alike(frames'[i], frames[i])
      /\ \A i \in DOMAIN frames : i # Len(frames) => frames'[i] = frames[i]
      /\ frames'[Len(frames)] = f /\ Top = frames[Len(frames)]
      /\ DOMAIN frames = 1 .. Len(frames) /\ Len(frames) \in Nat
  BY <1>1, <1>2, <1>3, Changed
<1>5. HandlersOK' /\ handlers' \in Seq(Handlers)
  <2>1. CASE handlers = <<>>
    BY <2>1, <1>1, EmptySeq DEF HandlersOK
  <2>2. CASE handlers # <<>>
    <3>1. /\ Last(handlers).frame <= Len(frames) /\ Last(handlers).tries \in Nat
          /\ Last(handlers).tries < frames[Last(handlers).frame].tries
      BY <2>2, Newest
    <3>2. f.tries \in Nat /\ (Last(handlers).frame = Len(frames) => Last(handlers).tries <= f.tries)
      <4>1. f.tries = Top.tries - 1 /\ Top.tries \in Nat /\ Top.tries > 0
        BY <1>1, <1>2, <1>3
      <4>2. Last(handlers).frame = Len(frames) => Last(handlers).tries < Top.tries
        BY <3>1, <1>4
      <4> QED BY <4>1, <4>2, <3>1
    <3> QED BY <2>2, <3>1, <3>2, <1>1, <1>4, OneLess
  <2> QED BY <2>1, <2>2
<1>6. f.temps <= MaxTemps /\ stack' \in Seq(Value) /\ f.base + f.temps <= Len(stack')
  BY <1>1, <1>2, <1>3 DEF Alike, Types
<1>7. caught' = Message
  BY <1>1 DEF VmInv, AnswersOK, CatchGetsMessage
<1>8. at' = [at EXCEPT ![g] = "loop"]
  BY <1>1, <1>2, StaysInLoop
<1> QED BY <1>1, <1>3, <1>5, <1>6, <1>7, <1>8, StaysInFrame

-----------------------------------------------------------------------------
(* A builtin answers, or lets go of the lock *)

LEMMA FramesStay ==
    ASSUME VmInv, UNCHANGED <<frames, runs, runBase, handlers>>, Inner' = Inner,
           \A g \in Others : runner' = g <=> runner = g
    PROVE  RunsOK' /\ OwnersOK' /\ FramesOK' /\ HandlersOK'
<1>1. RunsOK'
  BY DEF VmInv, RunsOK, Chain, BaseOf
<1>2. OwnersOK'
  BY DEF VmInv, OwnersOK
<1>3. FramesOK' /\ HandlersOK'
  BY DEF VmInv, FramesOK, HandlersOK
<1> QED BY <1>1, <1>2, <1>3

LEMMA ReturnKeeps ==
    ASSUME VmInv, NEW g \in Goroutines, BuiltinReturns(g)
    PROVE  VmInv'
<1>1. /\ runner = g /\ at[g] = "builtin" /\ stack' = Append(stack, Temp)
      /\ at' = [at EXCEPT ![g] = "loop"]
      /\ UNCHANGED <<runner, runs, frames, handlers, runBase, answer, caught, ended>>
  BY DEF BuiltinReturns, Go
<1>2. Types /\ StackOK /\ ended = "no" /\ ~InLoop /\ runBase < Len(frames) /\ Top \in Frame
      /\ runBase \in Nat /\ Len(frames) \in Nat
  BY <1>1, Running, Parts DEF VmInv
<1>3. stack' \in Seq(Value) /\ Len(stack') = Len(stack) + 1
  BY <1>1, <1>2, SeqAppend, Values DEF Types
<1>4. LockOK' /\ at' \in [Goroutines -> {"out", "loop", "builtin", "blocked", "over"}]
  BY <1>1, LockStays
<1>5. Types'
  BY <1>1, <1>2, <1>3, <1>4 DEF Types
<1>6. RunsOK' /\ OwnersOK' /\ FramesOK' /\ HandlersOK'
  BY <1>1, FramesStay DEF Inner
<1>7. StackOK'
  <2>1. Top.base + Top.temps <= Len(stack) + 1 /\ ~Top.catching /\ Top.temps <= MaxTemps
    BY <1>2 DEF StackOK
  <2>2. Top' = Top /\ Len(frames') # runBase'
    BY <1>1, <1>2 DEF Top
  <2>3. InLoop'
    BY <1>1, <1>2, Running DEF Types, InLoop
  <2> QED BY <1>3, <2>1, <2>2, <2>3 DEF StackOK
<1>8. AnswersOK'
  BY <1>1 DEF VmInv, AnswersOK, CallsAnswered, CatchGetsMessage
<1> QED BY <1>4, <1>5, <1>6, <1>7, <1>8 DEF VmInv

LEMMA BlockKeeps ==
    ASSUME VmInv, NEW g \in Goroutines, Block(g), Allowed = {}
    PROVE  VmInv'
<1>1. /\ g = Main /\ runner = Main /\ at[Main] = "builtin" /\ runner' = Nobody
      /\ at' = [at EXCEPT ![Main] = "blocked"]
      /\ UNCHANGED <<runs, frames, stack, handlers, runBase, answer, caught, ended>>
  BY DEF Block, Go, Lock!Yield
<1>2. Types /\ LockOK /\ StackOK /\ ended = "no" /\ ~InLoop
  BY <1>1, Running DEF VmInv
<1>3. Types'
  BY <1>1, <1>2, Actors DEF Types
<1>4. LockOK'
  BY <1>1, <1>2, Actors DEF Types, LockOK
<1>5. RunsOK' /\ OwnersOK' /\ FramesOK' /\ HandlersOK'
  BY <1>1, FramesStay, Actors DEF Inner
<1>6. StackOK'
  <2>1. ~InLoop' /\ Top' = Top
    BY <1>1 DEF InLoop, Top
  <2> QED BY <1>1, <1>2, <2>1 DEF StackOK
<1>7. AnswersOK'
  BY <1>1 DEF VmInv, AnswersOK, CallsAnswered, CatchGetsMessage
<1> QED BY <1>3, <1>4, <1>5, <1>6, <1>7 DEF VmInv

LEMMA UnblockKeeps ==
    ASSUME VmInv, NEW g \in Goroutines, Unblock(g)
    PROVE  VmInv'
<1>0. Types /\ LockOK /\ StackOK
  BY DEF VmInv
<1>1. /\ g = Main /\ runner = Nobody /\ at[Main] = "blocked" /\ runner' = Main /\ ended = "no"
      /\ at' = [at EXCEPT ![Main] = "builtin"]
      /\ UNCHANGED <<runs, frames, stack, handlers, runBase, answer, caught, ended>>
  BY <1>0, Actors DEF Unblock, Go, Lock!Grant, LockOK
<1>2. ~InLoop
  BY <1>1 DEF InLoop
<1>3. Types'
  BY <1>0, <1>1, Actors DEF Types
<1>4. LockOK'
  BY <1>0, <1>1, Actors DEF Types, LockOK
<1>5. RunsOK' /\ OwnersOK' /\ FramesOK' /\ HandlersOK'
  BY <1>1, FramesStay, Actors DEF Inner
<1>6. StackOK'
  <2>1. ~InLoop' /\ Top' = Top
    BY <1>0, <1>1, Actors DEF InLoop, Top, Types
  <2> QED BY <1>0, <1>1, <1>2, <2>1 DEF StackOK
<1>7. AnswersOK'
  BY <1>1 DEF VmInv, AnswersOK, CallsAnswered, CatchGetsMessage
<1> QED BY <1>3, <1>4, <1>5, <1>6, <1>7 DEF VmInv

-----------------------------------------------------------------------------
(* Calls and returns *)

\* No call of CallCallable has its base above the innermost one's.
LEMMA Bases ==
    ASSUME VmInv, NEW h \in Goroutines, NEW i \in DOMAIN runs[h]
    PROVE  runs[h][i].base <= runBase /\ runBase > 0
<1>0. Types /\ LockOK /\ RunsOK /\ runBase \in Nat
  BY DEF VmInv, Types
<1>1. \A k \in Goroutines : \A j \in DOMAIN runs[k] :
         /\ runs[k][j].base \in Nat \ {0} /\ Len(runs[k]) \in DOMAIN runs[k]
         /\ runs[k][j].base <= BaseOf(runs[k]) /\ BaseOf(runs[k]) = runs[k][Len(runs[k])].base
  <2> SUFFICES ASSUME NEW k \in Goroutines, NEW j \in DOMAIN runs[k]
               PROVE  /\ runs[k][j].base \in Nat \ {0} /\ Len(runs[k]) \in DOMAIN runs[k]
                      /\ runs[k][j].base <= BaseOf(runs[k])
                      /\ BaseOf(runs[k]) = runs[k][Len(runs[k])].base
    OBVIOUS
  <2>1. runs[k] \in Seq(Runs) /\ runs[k] # <<>>
    BY <1>0 DEF Types
  <2>2. /\ Len(runs[k]) \in DOMAIN runs[k] /\ runs[k][j].base \in Nat \ {0}
        /\ runs[k][Len(runs[k])].base \in Nat \ {0} /\ j <= Len(runs[k])
        /\ j \in Nat /\ Len(runs[k]) \in Nat
    BY <1>0, <2>1, Parts, SeqEnds
  <2>3. j < Len(runs[k]) => runs[k][j].base < runs[k][Len(runs[k])].base
    BY <1>0, <2>2, Actors DEF RunsOK, Chain
  <2>4. BaseOf(runs[k]) = runs[k][Len(runs[k])].base
    BY <2>1 DEF BaseOf
  <2>5. j = Len(runs[k]) => runs[k][j].base = runs[k][Len(runs[k])].base
    OBVIOUS
  <2>6. j < Len(runs[k]) \/ j = Len(runs[k])
    BY <2>2
  <2> QED BY <2>2, <2>3, <2>4, <2>5, <2>6
<1>2. runs[h][i].base \in Nat \ {0}
  BY <1>1
<1>3. CASE h = Inner
  BY <1>0, <1>1, <1>2, <1>3 DEF RunsOK
<1>4. CASE h # Inner
  <2>1. runs[h] # <<>>
    OBVIOUS
  <2>2. h = Main /\ runner \in Others /\ Inner = runner
    BY <1>0, <1>4, <2>1, Actors DEF LockOK, Inner
  <2>3. runs[runner] # <<>> /\ runs[runner] \in Seq(Runs) /\ runner \in Goroutines
    BY <1>0, <2>2, Actors DEF LockOK, Types
  <2>4. Len(runs[runner]) \in DOMAIN runs[runner]
    BY <2>3, SeqEnds
  <2>5. BaseOf(runs[Main]) < runs[runner][Len(runs[runner])].base
    BY <1>0, <2>2, <2>4 DEF RunsOK, Chain
  <2>6. runBase = runs[runner][Len(runs[runner])].base
    BY <1>0, <1>1, <2>2, <2>3, <2>4 DEF RunsOK
  <2>7. runs[Main][i].base <= BaseOf(runs[Main]) /\ BaseOf(runs[Main]) \in Nat
    BY <1>1, <2>2, Actors
  <2> QED BY <1>0, <1>2, <2>2, <2>5, <2>6, <2>7
<1> QED BY <1>3, <1>4

\* A frame put on top begins where the temporaries of the one below end.
LEMMA Pushed ==
    ASSUME VmInv, NEW f \in Frame, Alike(f, Top), f.tries = Top.tries, ~f.catching,
           f.temps \in 1 .. MaxTemps,
           NEW e \in Frame, f.base + f.temps <= e.base, frames' = Append(SetTop(f), e),
           UNCHANGED handlers
    PROVE  /\ frames' \in Seq(Frame) /\ frames' # <<>> /\ Len(frames') = Len(frames) + 1
           /\ DOMAIN frames' = 1 .. Len(frames) + 1
           /\ \A i \in DOMAIN frames : Alike(frames'[i], frames[i])
           /\ frames'[Len(frames) + 1] = e /\ Top' = e
           /\ FramesOK' /\ HandlersOK'
<1>0. Types /\ FramesOK
  BY DEF VmInv
<1>1. /\ Len(frames) \in Nat \ {0} /\ DOMAIN frames = 1 .. Len(frames)
      /\ Top = frames[Len(frames)]
  BY <1>0, Parts
<1>2. /\ SetTop(f) \in Seq(Frame) /\ Len(SetTop(f)) = Len(frames)
      /\ DOMAIN SetTop(f) = DOMAIN frames
      /\ \A i \in DOMAIN frames : SetTop(f)[i] = IF i = Len(frames) THEN f ELSE frames[i]
  BY <1>0, Setting
<1>3. /\ frames' \in Seq(Frame) /\ frames' # <<>> /\ Len(frames') = Len(frames) + 1
      /\ DOMAIN frames' = 1 .. Len(frames) + 1
      /\ \A i \in DOMAIN frames : frames'[i] = IF i = Len(frames) THEN f ELSE frames[i]
      /\ frames'[Len(frames) + 1] = e
  <2>1. /\ Append(SetTop(f), e) \in Seq(Frame) /\ Append(SetTop(f), e) # <<>>
        /\ Len(Append(SetTop(f), e)) = Len(SetTop(f)) + 1
        /\ DOMAIN Append(SetTop(f), e) = 1 .. Len(SetTop(f)) + 1
        /\ \A i \in DOMAIN SetTop(f) : Append(SetTop(f), e)[i] = SetTop(f)[i]
        /\ Append(SetTop(f), e)[Len(SetTop(f)) + 1] = e
    BY <1>2, SeqAppend
  <2> QED BY <1>2, <2>1
<1>4. \A i \in DOMAIN frames :
         Alike(frames'[i], frames[i]) /\ frames'[i].tries = frames[i].tries
  BY <1>1, <1>3 DEF Alike
<1>5. Top' = e
  <2>1. Top' = frames'[Len(frames')]
    BY DEF Top, Last
  <2> QED BY <1>3, <2>1
<1>6. HandlersOK'
  BY <1>1, <1>3, <1>4, HandlersStay
<1>7. FramesOK'
  <2>1. frames'[1].base = 0
    BY <1>0, <1>1, <1>4 DEF FramesOK, Alike
  <2>2. ASSUME NEW i \in DOMAIN frames', i < Len(frames')
        PROVE  /\ frames'[i].temps \in 1 .. MaxTemps /\ ~frames'[i].catching
               /\ frames'[i].base + frames'[i].temps <= frames'[i + 1].base
    <3>1. i \in DOMAIN frames
      BY <1>1, <1>3, <2>2
    <3>2. CASE i = Len(frames)
      BY <3>1, <3>2, <1>3
    <3>3. CASE i # Len(frames)
      <4>1. i < Len(frames) /\ i + 1 \in DOMAIN frames
        BY <1>1, <3>1, <3>3
      <4> QED BY <3>1, <3>3, <4>1, <1>0, <1>3, <1>4 DEF FramesOK, Alike
    <3> QED BY <3>2, <3>3
  <2> QED BY <2>1, <2>2 DEF FramesOK
<1> QED BY <1>3, <1>4, <1>5, <1>6, <1>7

LEMMA NewFrames ==
    ASSUME NEW c \in Calls, NEW g \in Goroutines, NEW b \in Nat
    PROVE  LET e == NewFrame(c, g, b) IN
           /\ e \in Frame /\ e.call = c /\ e.owner = g /\ e.base = b /\ e.temps = 0
           /\ ~e.catching
  BY Actors DEF NewFrame, Frame

LEMMA CallKeeps ==
    ASSUME VmInv, NEW g \in Goroutines, OpCall(g)
    PROVE  VmInv'
<1> DEFINE f == [Top EXCEPT !.temps = @ + 1]
<1> DEFINE e == NewFrame(NextCall, Top.owner, Len(stack) + 1)
<1>1. /\ Executes(g) /\ ~Top.catching /\ Top.temps < MaxTemps /\ Len(frames) < MaxFrames
      /\ Fresh # {} /\ stack' = Append(stack, Temp) /\ frames' = Append(SetTop(f), e)
      /\ UNCHANGED <<runner, at, runs, handlers, runBase, answer, caught, ended>>
  BY DEF OpCall, Chooses
<1>2. /\ Types /\ Top \in Frame /\ Top.temps + 1 \in 0 .. MaxTemps + 1
      /\ Top.temps + 1 \in 1 .. MaxTemps
      /\ Top.temps \in Nat /\ Top.base \in Nat /\ Top.base + Top.temps <= Len(stack)
      /\ at[g] = "loop" /\ runner = g /\ Top.owner = g /\ runBase \in Nat
      /\ runBase < Len(frames) /\ ended = "no" /\ Len(stack) \in Nat
  BY <1>1, Executing, Parts, Actors
<1>3. /\ f \in Frame /\ Alike(f, Top) /\ f.temps = Top.temps + 1 /\ f.tries = Top.tries
      /\ f.catching = Top.catching
  BY <1>2, FrameTemps
<1>4. /\ e \in Frame /\ e.owner = g /\ e.base = Len(stack) + 1 /\ e.temps = 0 /\ ~e.catching
  BY <1>1, <1>2, Named, NewFrames
<1> HIDE DEF f, e
<1>5. f.base + f.temps <= e.base
  BY <1>2, <1>3, <1>4 DEF Alike
<1>6. /\ frames' \in Seq(Frame) /\ frames' # <<>> /\ Len(frames') = Len(frames) + 1
      /\ DOMAIN frames' = 1 .. Len(frames) + 1
      /\ \A i \in DOMAIN frames : Alike(frames'[i], frames[i])
      /\ frames'[Len(frames) + 1] = e /\ Top' = e
      /\ FramesOK' /\ HandlersOK'
  BY <1>1, <1>2, <1>3, <1>4, <1>5, Pushed
<1>7. stack' \in Seq(Value) /\ Len(stack') = Len(stack) + 1
  BY <1>1, <1>2, SeqAppend, Values DEF Types
<1>8. /\ Len(frames) \in Nat \ {0} /\ DOMAIN frames = 1 .. Len(frames)
  BY <1>2, Parts
<1>9. Types'
  BY <1>1, <1>2, <1>6, <1>7, <1>8, Actors DEF Types
<1>10. LockOK'
  BY <1>1 DEF VmInv, LockOK
<1>11. RunsOK'
  <2>1. ASSUME NEW h \in Goroutines, NEW i \in DOMAIN runs[h]
        PROVE  frames'[runs[h][i].base + 1].call = runs[h][i].call
    <3>1. runs[h][i].base < Len(frames) /\ runs[h][i].base \in Nat
      BY <1>2, <1>8, Bases, Parts
    <3>2. runs[h][i].base + 1 \in DOMAIN frames
      BY <1>8, <3>1
    <3> QED BY <1>6, <3>1, <3>2 DEF VmInv, RunsOK, Alike
  <2>2. Inner' = Inner /\ BaseOf(runs[Inner])' = BaseOf(runs[Inner])
    BY <1>1 DEF Inner, BaseOf
  <2>3. Chain(runs[Main], 0)' /\ \A h \in Others : Chain(runs[h], BaseOf(runs[Main]))'
    BY <1>1 DEF VmInv, RunsOK, Chain, BaseOf
  <2>4. runBase' = BaseOf(runs[Inner])' /\ runBase' <= Len(frames')
    BY <1>1, <1>2, <1>6, <1>8, <2>2 DEF VmInv, RunsOK
  <2>5. \A h \in Goroutines : \A i \in DOMAIN runs'[h] :
           frames'[runs'[h][i].base + 1].call = runs'[h][i].call
    BY <1>1, <2>1
  <2> QED BY <2>3, <2>4, <2>5 DEF RunsOK
<1>12. OwnersOK'
  <2>1. g \in Others => runs[g][1].base < Len(frames) + 1 /\ runs[g][1].base \in Nat
    <3>1. g \in Others => runs[g][1].base \in Nat \ {0} /\ runs[g][1].base <= runBase
      BY <1>2, Running
    <3> QED BY <1>2, <1>8, <3>1
  <2>2. \A i \in DOMAIN frames' : i \in DOMAIN frames \/ i = Len(frames) + 1
    BY <1>6, <1>8
  <2>3. \A i \in DOMAIN frames :
           frames'[i].owner = IF g \in Others /\ i > runs[g][1].base THEN g ELSE Main
    BY <1>2, <1>6 DEF VmInv, OwnersOK, Alike
  <2>4. e.owner = IF g \in Others /\ Len(frames) + 1 > runs[g][1].base THEN g ELSE Main
    BY <1>4, <1>8, <2>1, Actors
  <2> QED BY <1>1, <1>2, <1>6, <2>2, <2>3, <2>4 DEF OwnersOK
<1>13. StackOK'
  <2>1. InLoop' /\ Len(frames') # runBase'
    BY <1>1, <1>2, <1>6, <1>8, Actors DEF InLoop
  <2>2. e.base + e.temps <= Len(stack') /\ e.temps <= MaxTemps
    BY <1>2, <1>4, <1>7, Actors
  <2> QED BY <1>4, <1>6, <2>1, <2>2 DEF StackOK
<1>14. AnswersOK'
  BY <1>1 DEF VmInv, AnswersOK, CallsAnswered, CatchGetsMessage
<1> QED BY <1>6, <1>9, <1>10, <1>11, <1>12, <1>13, <1>14 DEF VmInv

\* The stack cut back to where a frame begins, with one value put on it.
LEMMA CutTo ==
    ASSUME Types, NEW n \in Nat, NEW v \in Value
    PROVE  LET s == Append(Resize(stack, n), v) IN
           s \in Seq(Value) /\ Len(s) = n + 1 /\ s[Len(s)] = v
<1>1. Resize(stack, n) \in Seq(Value) /\ Len(Resize(stack, n)) = n
  BY Resized DEF Types
<1> DEFINE q == Resize(stack, n)
<1>2. q \in Seq(Value) /\ Len(q) = n
  BY <1>1
<1> HIDE DEF q
<1>3. /\ Append(q, v) \in Seq(Value) /\ Len(Append(q, v)) = Len(q) + 1
      /\ Append(q, v)[Len(q) + 1] = v
  BY <1>2, SeqAppend
<1> QED BY <1>2, <1>3 DEF q

\* Frames are only taken from the top, down to one that CallCallable did not push: what is
\* left of them belongs to whom it did.
LEMMA Dropped ==
    ASSUME VmInv, NEW n \in DOMAIN frames, runBase <= n,
           Len(frames') = n, DOMAIN frames' = 1 .. n,
           \A i \in 1 .. n : Alike(frames'[i], frames[i]),
           \A i \in 1 .. n : i # n => frames'[i] = frames[i],
           UNCHANGED <<runner, runs, runBase>>
    PROVE  RunsOK' /\ OwnersOK' /\ FramesOK'
<1>0. Types /\ RunsOK /\ OwnersOK /\ FramesOK /\ DOMAIN frames = 1 .. Len(frames)
      /\ Len(frames) \in Nat \ {0}
  BY Parts DEF VmInv
<1>1. RunsOK'
  <2>1. ASSUME NEW h \in Goroutines, NEW i \in DOMAIN runs[h], runs[h][i].base < n
        PROVE  frames'[runs[h][i].base + 1].call = runs[h][i].call
    <3>1. runs[h][i].base \in Nat \ {0}
      BY <1>0, Parts
    <3>2. runs[h][i].base + 1 \in 1 .. n /\ runs[h][i].base < Len(frames)
      BY <1>0, <2>1, <3>1
    <3>3. Alike(frames'[runs[h][i].base + 1], frames[runs[h][i].base + 1])
      BY <3>2
    <3> QED BY <1>0, <3>2, <3>3 DEF RunsOK, Alike
  <2>2. Inner' = Inner /\ BaseOf(runs[Inner])' = BaseOf(runs[Inner])
    BY DEF Inner, BaseOf
  <2>3. Chain(runs[Main], 0)' /\ \A h \in Others : Chain(runs[h], BaseOf(runs[Main]))'
    BY <1>0 DEF RunsOK, Chain, BaseOf
  <2>4. runBase' = BaseOf(runs[Inner])' /\ runBase' <= Len(frames')
    BY <1>0, <2>2 DEF RunsOK
  <2> QED BY <2>1, <2>3, <2>4 DEF RunsOK
<1>2. OwnersOK'
  BY <1>0 DEF OwnersOK, Alike
<1>3. FramesOK'
  <2>1. 1 \in 1 .. n
    BY <1>0
  <2>2. \A i \in 1 .. n : i < n => i + 1 \in 1 .. n /\ i < Len(frames) /\ i # n /\ i \in DOMAIN frames
    BY <1>0
  <2>3. frames'[1].base = 0
    BY <1>0, <2>1 DEF FramesOK, Alike
  <2>4. ASSUME NEW i \in 1 .. n, i < n
        PROVE  /\ frames'[i].temps \in 1 .. MaxTemps /\ ~frames'[i].catching
               /\ frames'[i].base + frames'[i].temps <= frames'[i + 1].base
    <3>1. frames'[i] = frames[i] /\ Alike(frames'[i + 1], frames[i + 1])
      BY <2>2, <2>4
    <3> QED BY <1>0, <2>2, <2>4, <3>1 DEF FramesOK, Alike
  <2> QED BY <2>3, <2>4 DEF FramesOK
<1> QED BY <1>1, <1>2, <1>3

LEMMA ReturnValueKeeps ==
    ASSUME VmInv, NEW g \in Goroutines, OpReturnValue(g), Allowed = {}
    PROVE  VmInv'
<1> DEFINE n == Len(frames) - 1
<1>1. /\ Executes(g) /\ ~Top.catching /\ Top.tries = 0 /\ Len(frames) > 1
      /\ stack' = Append(Resize(stack, Top.base - 1), Result(Top.call))
      /\ frames' = Front(frames)
      /\ UNCHANGED <<runner, at, runs, handlers, runBase, answer, caught, ended>>
  BY DEF OpReturnValue, Chooses, CutBack
<1>2. /\ Types /\ Top \in Frame /\ Top.base \in Nat /\ InLoop
      /\ at[g] = "loop" /\ runner = g /\ Inner = g /\ runBase \in Nat /\ runBase < Len(frames)
      /\ Top.call \in Calls \cup {MainCall} /\ FramesOK /\ HandlersOK /\ runBase = BaseOf(runs[g])
  BY <1>1, Executing, FrameFields DEF VmInv
<1>3. /\ Len(frames) \in Nat \ {0} /\ DOMAIN frames = 1 .. Len(frames)
      /\ Top = frames[Len(frames)] /\ frames \in Seq(Frame) /\ frames # <<>>
      /\ Len(frames) <= MaxFrames
  BY <1>2, Parts DEF Types
<1>4. n \in DOMAIN frames /\ n \in Nat \ {0} /\ runBase <= n /\ n + 1 = Len(frames) /\ n <= MaxFrames
  BY <1>1, <1>2, <1>3, Actors
<1>5. /\ frames' \in Seq(Frame) /\ Len(frames') = n /\ DOMAIN frames' = 1 .. n
      /\ \A i \in 1 .. n : frames'[i] = frames[i]
  <2>1. /\ Front(frames) \in Seq(Frame) /\ Len(Front(frames)) = Len(frames) - 1
        /\ DOMAIN Front(frames) = 1 .. Len(frames) - 1
        /\ \A i \in DOMAIN Front(frames) : Front(frames)[i] = frames[i]
    BY <1>3, SeqEnds
  <2> QED BY <1>1, <2>1
<1> HIDE DEF n
<1>6. \A i \in 1 .. n : Alike(frames'[i], frames[i])
  BY <1>5 DEF Alike
<1>7. RunsOK' /\ OwnersOK' /\ FramesOK'
  BY <1>1, <1>4, <1>5, <1>6, Dropped
<1>8. Top' = frames[n] /\ frames' # <<>>
  <2>1. Top' = frames'[Len(frames')]
    BY DEF Top, Last
  <2> QED BY <1>4, <1>5, <2>1
<1>9. /\ frames[n].temps \in 1 .. MaxTemps /\ ~frames[n].catching
      /\ frames[n].base + frames[n].temps <= Top.base /\ frames[n].base \in Nat
  BY <1>2, <1>3, <1>4, Parts, FrameFields DEF FramesOK
<1>10. /\ stack' \in Seq(Value) /\ Len(stack') = Top.base
       /\ stack'[Len(stack')] = Result(Top.call)
  <2>1. Top.base - 1 \in Nat /\ Top.base - 1 + 1 = Top.base
    BY <1>2, <1>9, Actors
  <2> QED BY <1>1, <1>2, <2>1, CutTo, Values
<1>11. Types'
  BY <1>1, <1>2, <1>4, <1>5, <1>8, <1>10 DEF Types
<1>12. LockOK'
  BY <1>1 DEF VmInv, LockOK
<1>13. StackOK'
  <2>1. InLoop' /\ Inner' = Inner
    BY <1>1, <1>2 DEF InLoop, Inner
  <2>2. Top'.base + Top'.temps <= Len(stack') /\ ~Top'.catching /\ Top'.temps <= MaxTemps
        /\ Top'.temps > 0
    BY <1>8, <1>9, <1>10, Actors
  <2>3. n = runBase => Top.call = runs[g][Len(runs[g])].call
    <3> SUFFICES ASSUME n = runBase PROVE Top.call = runs[g][Len(runs[g])].call
      OBVIOUS
    <3>1. runs[g] # <<>> /\ runs[g][Len(runs[g])].base = n
      BY <1>2, <1>4 DEF BaseOf
    <3>2. Len(runs[g]) \in DOMAIN runs[g]
      BY <1>2, <3>1, SeqEnds DEF Types
    <3>3. n < Len(frames) /\ frames[n + 1] = Top
      BY <1>3, <1>4
    <3> QED BY <3>1, <3>2, <3>3 DEF VmInv, RunsOK
  <2>4. Len(frames') = runBase' =>
           stack'[Len(stack')] = Result(runs'[Inner'][Len(runs'[Inner'])].call)
    BY <1>1, <1>2, <1>5, <1>10, <2>1, <2>3
  <2> QED BY <2>1, <2>2, <2>4 DEF StackOK
<1>14. HandlersOK'
  <2>1. \A i \in DOMAIN handlers : handlers[i].frame \in 1 .. n
    <3> SUFFICES ASSUME NEW i \in DOMAIN handlers PROVE handlers[i].frame \in 1 .. n
      OBVIOUS
    <3>1. handlers[i].frame \in Nat \ {0} /\ handlers[i].tries \in Nat
      BY <1>2, Parts DEF Handlers
    <3>2. handlers[i].frame <= Len(frames) /\ handlers[i].tries < frames[handlers[i].frame].tries
      BY <1>2 DEF HandlersOK
    <3>3. handlers[i].frame # Len(frames)
      BY <1>1, <1>3, <3>1, <3>2
    <3> QED BY <1>3, <1>4, <3>1, <3>2, <3>3
  <2>2. \A i \in DOMAIN handlers :
           frames'[handlers[i].frame] = frames[handlers[i].frame] /\ handlers[i].frame <= n
    BY <1>4, <1>5, <2>1
  <2> QED BY <1>1, <1>2, <1>5, <2>2 DEF HandlersOK
<1>15. AnswersOK'
  BY <1>1 DEF VmInv, AnswersOK, CallsAnswered, CatchGetsMessage
<1> QED BY <1>7, <1>11, <1>12, <1>13, <1>14, <1>15 DEF VmInv

-----------------------------------------------------------------------------
(* Errors *)

\* What handleError leaves of the frames, for a handler of the frame n.
LEMMA Unwound ==
    ASSUME Types, NEW h \in Handlers, h.frame \in DOMAIN frames,
           h.temps <= MaxTemps, h.tries <= MaxTry
    PROVE  /\ Unwind(h) \in Seq(Frame) /\ Len(Unwind(h)) = h.frame
           /\ DOMAIN Unwind(h) = 1 .. h.frame
           /\ \A i \in 1 .. h.frame : i # h.frame => Unwind(h)[i] = frames[i]
           /\ Unwind(h)[h.frame] \in Frame
           /\ Alike(Unwind(h)[h.frame], frames[h.frame])
           /\ Unwind(h)[h.frame].catching = TRUE
           /\ Unwind(h)[h.frame].tries = h.tries
           /\ Unwind(h)[h.frame].temps = h.temps + 1
<1>1. /\ h.frame \in Nat \ {0} /\ h.tries \in Nat /\ h.temps \in Nat
  BY DEF Handlers
<1>2. /\ Len(frames) \in Nat /\ DOMAIN frames = 1 .. Len(frames) /\ frames \in Seq(Frame)
      /\ frames[h.frame] \in Frame
  BY Parts DEF Types
<1>0. PICK t \in Frame : t = frames[h.frame]
  BY <1>2
<1> DEFINE n == h.frame
           f == [t EXCEPT !.catching = TRUE, !.tries = h.tries, !.temps = h.temps + 1]
           kept == SubSeq(frames, 1, n)
<1>3. /\ f \in Frame /\ Alike(f, t) /\ f.temps = h.temps + 1 /\ f.tries = h.tries
      /\ f.catching = TRUE
  <2>1. h.temps + 1 \in 0 .. MaxTemps + 1 /\ h.tries \in 0 .. MaxTry
    BY <1>1, Actors
  <2> QED BY <2>1 DEF Frame, Alike
<1>4. n \in 1 .. Len(frames)
  BY <1>2
<1>5. /\ kept \in Seq(Frame) /\ Len(kept) = n /\ DOMAIN kept = 1 .. n
      /\ \A i \in 1 .. n : kept[i] = frames[i]
  BY <1>1, <1>2, <1>4
<1>6. (IF h.frame < Len(frames) THEN h.frame ELSE Len(frames)) = n
  BY <1>1, <1>2
<1>7. Unwind(h) = [kept EXCEPT ![n] = f]
  <2>1. kept[n] = t /\ Len(kept) = n
    BY <1>0, <1>1, <1>5
  <2>2. Unwind(h) = [kept EXCEPT ![Len(kept)] =
                        [kept[Len(kept)] EXCEPT !.catching = TRUE, !.tries = h.tries,
                                                !.temps = h.temps + 1]]
    BY <1>6 DEF Unwind
  <2> QED BY <2>1, <2>2
<1> HIDE DEF f, kept
<1>8. /\ [kept EXCEPT ![n] = f] \in Seq(Frame) /\ Len([kept EXCEPT ![n] = f]) = n
      /\ DOMAIN [kept EXCEPT ![n] = f] = 1 .. n
      /\ \A i \in 1 .. n : [kept EXCEPT ![n] = f][i] = IF i = n THEN f ELSE kept[i]
  BY <1>1, <1>3, <1>5
<1>9. n \in 1 .. n
  BY <1>1
<1> QED BY <1>0, <1>3, <1>5, <1>7, <1>8, <1>9

LEMMA HandleKeeps ==
    ASSUME VmInv, NEW g \in Goroutines, runner = g, at[g] \in {"loop", "builtin"},
           HandleError(g), Allowed = {}
    PROVE  VmInv'
<1> DEFINE h == Last(handlers)
           n == h.frame
<1>1. /\ handlers # <<>> /\ n > runBase /\ handlers' = Front(handlers)
      /\ frames' = Unwind(h) /\ stack' = Append(Resize(stack, h.sp), Message)
      /\ at' = [at EXCEPT ![g] = "loop"]
      /\ UNCHANGED <<runner, runs, runBase, answer, caught, ended>>
  BY DEF HandleError, Land, Go
<1>2. /\ h \in Handlers /\ n \in DOMAIN frames /\ h.tries \in Nat /\ n <= Len(frames)
      /\ h.tries < frames[n].tries /\ frames[n].base + h.temps <= h.sp
      /\ h.temps \in Nat /\ h.temps <= MaxTemps /\ n \in Nat \ {0} /\ h.sp \in Nat
  BY <1>1, Newest DEF Handlers
<1>3. /\ Types /\ ended = "no" /\ runBase \in Nat /\ frames[n] \in Frame
      /\ Len(frames) \in Nat /\ frames[n].base \in Nat /\ frames[n].tries \in 0 .. MaxTry
      /\ Len(frames) <= MaxFrames
  BY <1>2, Running, Parts, FrameFields DEF VmInv, Types
<1>4. h.tries <= MaxTry
  BY <1>2, <1>3, Actors
<1>5. /\ frames' \in Seq(Frame) /\ Len(frames') = n /\ DOMAIN frames' = 1 .. n
      /\ \A i \in 1 .. n : i # n => frames'[i] = frames[i]
      /\ frames'[n] \in Frame /\ Alike(frames'[n], frames[n])
      /\ frames'[n].catching = TRUE /\ frames'[n].tries = h.tries
      /\ frames'[n].temps = h.temps + 1
  BY <1>1, <1>2, <1>3, <1>4, Unwound
<1> HIDE DEF h
<1>6. \A i \in 1 .. n : Alike(frames'[i], frames[i])
  BY <1>5 DEF Alike
<1>7. RunsOK' /\ OwnersOK' /\ FramesOK'
  BY <1>1, <1>2, <1>3, <1>5, <1>6, Dropped
<1>8. HandlersOK' /\ handlers' \in Seq(Handlers)
  <2>1. h.frame = n => h.tries <= frames'[n].tries
    BY <1>2, <1>5
  <2>2. frames'[n].tries \in Nat /\ n <= n
    BY <1>2, <1>5
  <2> QED BY <1>1, <1>2, <1>5, <1>6, <2>1, <2>2, OneLess DEF h
<1>9. Top' = frames'[n] /\ frames' # <<>>
  <2>1. Top' = frames'[Len(frames')]
    BY DEF Top, Last
  <2> QED BY <1>2, <1>5, <2>1
<1>10. stack' \in Seq(Value) /\ Len(stack') = h.sp + 1 /\ stack'[Len(stack')] = Message
  BY <1>1, <1>2, <1>3, CutTo, Values
<1>11. LockOK' /\ at' \in [Goroutines -> {"out", "loop", "builtin", "blocked", "over"}]
  BY <1>1, LockStays
<1>12. Types'
  <2>1. n <= MaxFrames
    BY <1>2, <1>3, Actors
  <2> QED BY <1>1, <1>3, <1>5, <1>8, <1>9, <1>10, <1>11, <2>1 DEF Types
<1>13. StackOK'
  <2>1. InLoop'
    BY <1>1, <1>3, Actors DEF InLoop, Types
  <2>2. Len(frames') # runBase'
    BY <1>1, <1>2, <1>3, <1>5
  <2>3. Top'.base + Top'.temps <= Len(stack') /\ Top'.catching /\ Top'.temps > 0
    BY <1>2, <1>3, <1>5, <1>9, <1>10 DEF Alike
  <2> QED BY <1>10, <2>1, <2>2, <2>3 DEF StackOK
<1>14. AnswersOK'
  BY <1>1 DEF VmInv, AnswersOK, CallsAnswered, CatchGetsMessage
<1> QED BY <1>7, <1>8, <1>11, <1>12, <1>13, <1>14 DEF VmInv

\* The process ends in the outermost Run of the main program.
LEMMA EndKeeps ==
    ASSUME VmInv, NEW g \in Goroutines, runner = g, at[g] \in {"loop", "builtin"},
           runs[g] = <<>>, NEW how \in {"end", "error"}, EndProgram(g, how)
    PROVE  VmInv'
<1>0. Types /\ LockOK
  BY DEF VmInv
<1>1. /\ g = Main /\ runner = Main /\ runner' = Nobody /\ ended' = how
      /\ at' = [at EXCEPT ![Main] = "over"]
      /\ UNCHANGED <<runs, frames, stack, handlers, runBase, answer, caught>>
  BY <1>0, Actors DEF EndProgram, Go, Lock!Yield, LockOK
<1>2. Types'
  BY <1>0, <1>1, Actors DEF Types
<1>3. LockOK'
  BY <1>0, <1>1, Actors DEF Types, LockOK
<1>4. RunsOK' /\ OwnersOK' /\ FramesOK' /\ HandlersOK'
  BY <1>1, FramesStay, Actors DEF Inner
<1>5. StackOK'
  BY <1>1 DEF StackOK
<1>6. AnswersOK'
  BY <1>1 DEF VmInv, AnswersOK, CallsAnswered, CatchGetsMessage
<1> QED BY <1>2, <1>3, <1>4, <1>5, <1>6 DEF VmInv

LEMMA RaiseKeeps ==
    ASSUME VmInv, NEW g \in Goroutines, OpThrow(g) \/ BuiltinFails(g), Allowed = {}
    PROVE  VmInv'
<1>1. runner = g /\ at[g] \in {"loop", "builtin"} /\ Raise(g)
  BY DEF OpThrow, BuiltinFails, Chooses, Executes
<1>2. CASE HandleError(g)
  BY <1>1, <1>2, HandleKeeps
<1>3. CASE handlers = <<>> /\ ~HandleError(g)
  <2>1. runs[g] = <<>> /\ EndProgram(g, "error")
    BY <1>1, <1>3 DEF Raise
  <2> QED BY <1>1, <2>1, EndKeeps
<1> QED BY <1>1, <1>2, <1>3 DEF Raise

-----------------------------------------------------------------------------
(* CallCallable *)

\* The call of a function that CallCallable makes for whoever holds the lock, when the top
\* frame is in a builtin: of the goroutine itself, or of the main program that waits.
LEMMA Entered ==
    ASSUME VmInv, NEW g \in Goroutines, EnterRun(g), ~InLoop, ended = "no", runner' = g,
           UNCHANGED <<handlers, answer, caught, ended>>
    PROVE  LET c == [base |-> Len(frames), prev |-> runBase, call |-> NextCall] IN
           /\ Types' /\ FramesOK' /\ HandlersOK' /\ AnswersOK' /\ StackOK'
           /\ runs' = [runs EXCEPT ![g] = Append(runs[g], c)] /\ c \in Runs
           /\ runBase < Len(frames) /\ runBase' = Len(frames)
           /\ at' = [at EXCEPT ![g] = "loop"]
           /\ Len(frames') = Len(frames) + 1 /\ DOMAIN frames' = 1 .. Len(frames) + 1
           /\ \A i \in DOMAIN frames : Alike(frames'[i], frames[i])
           /\ frames'[Len(frames) + 1].call = NextCall
           /\ frames'[Len(frames) + 1].owner = g
<1> DEFINE c == [base |-> Len(frames), prev |-> runBase, call |-> NextCall]
           e == NewFrame(NextCall, g, Len(stack) + 1)
<1>1. /\ Fresh # {} /\ Len(frames) < MaxFrames
      /\ stack' = Append(stack, Temp) /\ runs' = [runs EXCEPT ![g] = Append(runs[g], c)]
      /\ frames' = Append(frames, e) /\ runBase' = Len(frames)
      /\ at' = [at EXCEPT ![g] = "loop"]
  BY DEF EnterRun, Go
<1>2. /\ Types /\ StackOK /\ RunsOK /\ runBase \in Nat /\ Top \in Frame
      /\ Top.base \in Nat /\ Top.temps \in 0 .. MaxTemps + 1 /\ runBase <= Len(frames)
  BY Parts, FrameFields DEF VmInv, Types, RunsOK
<1>3. /\ Len(frames) \in Nat \ {0} /\ DOMAIN frames = 1 .. Len(frames)
      /\ Top = frames[Len(frames)] /\ Len(stack) \in Nat
  BY <1>2, Parts
<1>4. /\ Top.base + Top.temps <= Len(stack) + 1 /\ ~Top.catching /\ Top.temps > 0
      /\ Top.temps <= MaxTemps /\ Len(frames) # runBase
  BY <1>2 DEF StackOK
<1>5. runBase < Len(frames) /\ Top.temps \in 1 .. MaxTemps
  <2>1. runBase < Len(frames)
    <3>1. \A a, b \in Nat : a <= b /\ b # a => a < b
      OBVIOUS
    <3>2. runBase \in Nat /\ Len(frames) \in Nat
      BY <1>2, <1>3
    <3> QED BY <1>2, <1>4, <3>1, <3>2, Zenon
  <2>2. Top.temps \in 1 .. MaxTemps
    BY <1>2, <1>4, Actors
  <2> QED BY <2>1, <2>2
<1>6. NextCall \in Calls
  BY <1>1, Named
<1>7. c \in Runs
  BY <1>2, <1>3, <1>6 DEF Runs
<1>8. /\ e \in Frame /\ e.call = NextCall /\ e.owner = g /\ e.base = Len(stack) + 1
      /\ e.temps = 0 /\ ~e.catching
  BY <1>3, <1>6, NewFrames
<1>9. frames = SetTop(Top)
  BY <1>2, <1>3 DEF SetTop, Types
<1>10. Alike(Top, Top)
  BY DEF Alike
<1> HIDE DEF c, e
<1>11. /\ frames' \in Seq(Frame) /\ frames' # <<>> /\ Len(frames') = Len(frames) + 1
       /\ DOMAIN frames' = 1 .. Len(frames) + 1
       /\ \A i \in DOMAIN frames : Alike(frames'[i], frames[i])
       /\ frames'[Len(frames) + 1] = e /\ Top' = e
       /\ FramesOK' /\ HandlersOK'
  <2>1. Top.base + Top.temps <= e.base /\ frames' = Append(SetTop(Top), e)
    BY <1>1, <1>4, <1>8, <1>9
  <2> QED BY <1>2, <1>4, <1>5, <1>8, <1>10, <2>1, Pushed
<1>12. stack' \in Seq(Value) /\ Len(stack') = Len(stack) + 1
  BY <1>1, <1>2, SeqAppend, Values DEF Types
<1>13. Types'
  <2>1. runs[g] \in Seq(Runs)
    BY <1>2, Parts
  <2>2. Append(runs[g], c) \in Seq(Runs)
    BY <1>7, <2>1, SeqAppend
  <2>3. runs' \in [Goroutines -> Seq(Runs)]
    BY <1>1, <1>2, <2>2 DEF Types
  <2>4. Len(frames') <= MaxFrames /\ runBase' \in Nat
    BY <1>1, <1>3, <1>11, Actors
  <2>5. at' \in [Goroutines -> {"out", "loop", "builtin", "blocked", "over"}]
    BY <1>1, <1>2 DEF Types
  <2> QED BY <1>2, <1>11, <1>12, <2>3, <2>4, <2>5 DEF Types
<1>14. StackOK'
  <2>1. InLoop'
    BY <1>1, <1>2, Actors DEF InLoop, Types
  <2>2. Len(frames') # runBase' /\ e.base + e.temps <= Len(stack') /\ e.temps <= MaxTemps
    BY <1>1, <1>3, <1>8, <1>11, <1>12, Actors
  <2> QED BY <1>8, <1>11, <2>1, <2>2 DEF StackOK
<1>15. AnswersOK'
  BY DEF VmInv, AnswersOK, CallsAnswered, CatchGetsMessage
<1> QED BY <1>1, <1>5, <1>7, <1>8, <1>11, <1>13, <1>14, <1>15 DEF c

\* What the calls of before know of their frames is not touched by a frame on top.
LEMMA OldCalls ==
    ASSUME VmInv, runBase < Len(frames), NEW h \in Goroutines, NEW i \in DOMAIN runs[h],
           \A j \in DOMAIN frames : Alike(frames'[j], frames[j])
    PROVE  frames'[runs[h][i].base + 1].call = runs[h][i].call
<1>1. runs[h][i].base \in Nat /\ runs[h][i].base < Len(frames) /\ runBase \in Nat
      /\ Len(frames) \in Nat /\ DOMAIN frames = 1 .. Len(frames)
  BY Bases, Parts DEF VmInv, Types
<1>2. runs[h][i].base + 1 \in DOMAIN frames
  BY <1>1
<1> QED BY <1>1, <1>2 DEF VmInv, RunsOK, Alike

\* A chain of bases with one more on top of all is a chain.
LEMMA Longer ==
    ASSUME NEW q \in Seq(Runs), NEW b \in Nat, Chain(q, b), NEW c \in Runs,
           BaseOf(q) < c.base, q = <<>> => b < c.base /\ c.prev = b,
           q # <<>> => c.prev = BaseOf(q)
    PROVE  /\ Chain(Append(q, c), b) /\ BaseOf(Append(q, c)) = c.base
<1>1. /\ Append(q, c) \in Seq(Runs) /\ Append(q, c) # <<>>
      /\ Len(q) \in Nat /\ DOMAIN q = 1 .. Len(q)
      /\ Len(Append(q, c)) = Len(q) + 1 /\ DOMAIN Append(q, c) = 1 .. Len(q) + 1
      /\ \A i \in DOMAIN q : Append(q, c)[i] = q[i]
      /\ Append(q, c)[Len(q) + 1] = c
  BY SeqAppend
<1> DEFINE r == Append(q, c)
<1>2. BaseOf(r) = c.base
  BY <1>1 DEF BaseOf
<1>3. \A i \in DOMAIN q : q[i].base \in Nat /\ i \in Nat
  <2>1. \A i \in DOMAIN q : q[i] \in Runs /\ i \in Nat
    BY <1>1
  <2>2. \A x \in Runs : x.base \in Nat
    BY DEF Runs
  <2> QED BY <2>1, <2>2
<1>4. \A i \in DOMAIN q : q[i].base < c.base /\ q # <<>>
  <2> SUFFICES ASSUME NEW i \in DOMAIN q PROVE q[i].base < c.base /\ q # <<>>
    OBVIOUS
  <2>1. q # <<>> /\ Len(q) \in DOMAIN q /\ BaseOf(q) = q[Len(q)].base
    BY <1>1 DEF BaseOf
  <2>2. i < Len(q) => q[i].base < q[Len(q)].base
    BY <2>1 DEF Chain
  <2>3. i < Len(q) \/ i = Len(q)
    BY <1>1
  <2>4. q[Len(q)].base \in Nat /\ q[i].base \in Nat /\ c.base \in Nat
    BY <1>3, <2>1 DEF Runs
  <2> QED BY <2>1, <2>2, <2>3, <2>4
<1>5. \A i \in DOMAIN r : i \in DOMAIN q \/ i = Len(q) + 1
  BY <1>1
<1>6. b < c.base
  <2>1. CASE q = <<>>
    BY <2>1
  <2>2. CASE q # <<>>
    <3>1. Len(q) \in DOMAIN q
      BY <1>1, <2>2
    <3>2. b < q[Len(q)].base /\ q[Len(q)].base < c.base /\ q[Len(q)].base \in Nat
      BY <1>3, <1>4, <3>1 DEF Chain
    <3>3. c.base \in Nat
      BY DEF Runs
    <3> QED BY <3>2, <3>3
  <2> QED BY <2>1, <2>2
<1>7. ASSUME NEW i \in DOMAIN r
      PROVE  b < r[i].base /\ r[i].prev = IF i = 1 THEN b ELSE r[i - 1].base
  <2>1. CASE i \in DOMAIN q
    <3>1. r[i] = q[i] /\ (i # 1 => r[i - 1] = q[i - 1])
      BY <2>1, <1>1
    <3> QED BY <2>1, <3>1 DEF Chain
  <2>2. CASE i = Len(q) + 1
    <3>1. CASE q = <<>>
      BY <2>2, <3>1, <1>1, <1>6
    <3>2. CASE q # <<>>
      <4>1. Len(q) \in DOMAIN q /\ Len(q) # 0 /\ i # 1 /\ i - 1 = Len(q)
        BY <1>1, <2>2, <3>2
      <4>2. r[i] = c /\ r[i - 1] = q[Len(q)]
        BY <1>1, <2>2, <4>1
      <4> QED BY <3>2, <4>1, <4>2, <1>6 DEF BaseOf
    <3> QED BY <3>1, <3>2
  <2> QED BY <1>5, <2>1, <2>2
<1>8. \A i, j \in DOMAIN r : i < j => r[i].base < r[j].base
  <2> SUFFICES ASSUME NEW i \in DOMAIN r, NEW j \in DOMAIN r, i < j
               PROVE  r[i].base < r[j].base
    OBVIOUS
  <2>1. i \in DOMAIN q
    BY <1>1
  <2>2. CASE j \in DOMAIN q
    BY <2>1, <2>2, <1>1 DEF Chain
  <2>3. CASE j = Len(q) + 1
    BY <2>1, <2>3, <1>1, <1>4
  <2> QED BY <1>5, <2>2, <2>3
<1> QED BY <1>2, <1>7, <1>8 DEF Chain

LEMMA EntersKeep ==
    ASSUME VmInv, NEW g \in Goroutines, EnterRun(g), ~InLoop, ended = "no", runner' = g,
           UNCHANGED <<handlers, answer, caught, ended>>,
           runner = g \/ (g \in Others /\ runner = Nobody /\ runs[g] = <<>>), LockOK'
    PROVE  VmInv'
<1> DEFINE q == runs[g]
           b == IF g = Main THEN 0 ELSE BaseOf(runs[Main])
<1>0. /\ Types /\ LockOK /\ RunsOK /\ OwnersOK /\ runBase \in Nat
      /\ Len(frames) \in Nat \ {0} /\ DOMAIN frames = 1 .. Len(frames)
  BY Parts DEF VmInv, Types
<1>1. PICK c \in Runs : /\ c = [base |-> Len(frames), prev |-> runBase, call |-> NextCall]
                        /\ c.base = Len(frames) /\ c.prev = runBase /\ c.call = NextCall
  BY Entered
<1>2. /\ Types' /\ FramesOK' /\ HandlersOK' /\ AnswersOK' /\ StackOK'
      /\ runs' = [runs EXCEPT ![g] = Append(runs[g], c)]
      /\ runBase < Len(frames) /\ runBase' = Len(frames)
      /\ Len(frames') = Len(frames) + 1 /\ DOMAIN frames' = 1 .. Len(frames) + 1
      /\ \A i \in DOMAIN frames : Alike(frames'[i], frames[i])
      /\ frames'[Len(frames) + 1].call = NextCall
      /\ frames'[Len(frames) + 1].owner = g
  BY <1>1, Entered
<1>3. /\ runs'[g] = Append(runs[g], c) /\ \A h \in Goroutines \ {g} : runs'[h] = runs[h]
      /\ Inner' = g
  BY <1>0, <1>2, Actors DEF Types, Inner
<1>4. runs[g] \in Seq(Runs) /\ Chain(runs[g], b)
  BY <1>0, Actors DEF RunsOK, Types
<1>5. /\ b \in Nat /\ BaseOf(runs[g]) < c.base
      /\ runs[g] = <<>> => b < c.base /\ c.prev = b
      /\ runs[g] # <<>> => c.prev = BaseOf(runs[g])
  <2>1. CASE runner = g
    <3>1. Inner = g /\ runBase = BaseOf(runs[g])
      BY <1>0, <2>1, Actors DEF Inner, RunsOK
    <3>2. runs[g] = <<>> => g = Main /\ runBase = 0
      BY <1>0, <2>1, <3>1, Actors DEF LockOK, BaseOf
    <3>3. b \in Nat
      <4>1. CASE g = Main
        BY <4>1
      <4>2. CASE runs[Main] = <<>>
        BY <4>2 DEF BaseOf
      <4>3. CASE g # Main /\ runs[Main] # <<>>
        <5>1. Len(runs[Main]) \in DOMAIN runs[Main]
          BY <1>0, <4>3, SeqEnds, Actors DEF Types
        <5> QED BY <1>0, <4>3, <5>1, Parts, Actors DEF BaseOf
      <4> QED BY <4>1, <4>2, <4>3
    <3> QED BY <1>0, <1>1, <1>2, <3>1, <3>2, <3>3
  <2>2. CASE g \in Others /\ runner = Nobody /\ runs[g] = <<>>
    <3>1. Inner = Main /\ runBase = BaseOf(runs[Main]) /\ g # Main
      BY <1>0, <2>2, Actors DEF Inner, RunsOK
    <3>2. BaseOf(runs[g]) = 0 /\ 0 < c.base
      BY <1>0, <1>1, <2>2 DEF BaseOf
    <3> QED BY <1>0, <1>1, <1>2, <2>2, <3>1, <3>2
  <2> QED BY <2>1, <2>2
<1> HIDE DEF b
<1>6. Chain(runs'[g], b) /\ BaseOf(runs'[g]) = Len(frames)
  BY <1>1, <1>3, <1>4, <1>5, Longer
<1>7. RunsOK'
  <2>1. Chain(runs'[Main], 0)
    <3>1. CASE g = Main
      BY <3>1, <1>6 DEF b
    <3>2. CASE g # Main
      BY <3>2, <1>0, <1>3, Actors DEF RunsOK
    <3> QED BY <3>1, <3>2
  <2>2. ASSUME NEW h \in Others PROVE Chain(runs'[h], BaseOf(runs'[Main]))
    <3>1. CASE g = Main
      <4>1. runs'[h] = <<>>
        BY <3>1, <1>0, <1>3, Actors DEF LockOK
      <4> QED BY <4>1 DEF Chain
    <3>2. CASE g # Main
      <4>1. runs'[Main] = runs[Main]
        BY <3>2, <1>3, Actors
      <4>2. CASE h = g
        BY <3>2, <4>1, <4>2, <1>6 DEF b
      <4>3. CASE h # g
        BY <4>1, <4>3, <1>0, <1>3, Actors DEF RunsOK
      <4> QED BY <4>2, <4>3
    <3> QED BY <3>1, <3>2
  <2>3. runBase' = BaseOf(runs'[Inner']) /\ runBase' <= Len(frames')
    BY <1>0, <1>2, <1>3, <1>6
  <2>4. ASSUME NEW h \in Goroutines, NEW i \in DOMAIN runs'[h]
        PROVE  frames'[runs'[h][i].base + 1].call = runs'[h][i].call
    <3>1. CASE h # g \/ i \in DOMAIN runs[h]
      <4>1. i \in DOMAIN runs[h] /\ runs'[h][i] = runs[h][i]
        BY <3>1, <1>1, <1>3, <1>4, SeqAppend
      <4> QED BY <4>1, <1>2, OldCalls
    <3>2. CASE h = g /\ i \notin DOMAIN runs[h]
      <4>1. runs'[h][i] = c
        BY <3>2, <1>1, <1>3, <1>4, SeqAppend
      <4> QED BY <4>1, <1>1, <1>2
    <3> QED BY <3>1, <3>2
  <2> QED BY <2>1, <2>2, <2>3, <2>4 DEF RunsOK
<1>8. OwnersOK'
  <2>1. CASE g = Main
    <3>1. runner = Main
      BY <2>1, Actors
    <3>2. \A i \in DOMAIN frames : frames'[i].owner = Main
      BY <3>1, <1>0, <1>2, Actors DEF OwnersOK, Alike
    <3>3. \A i \in DOMAIN frames' : frames'[i].owner = Main
      BY <2>1, <3>2, <1>0, <1>2
    <3> QED BY <2>1, <3>3, Actors DEF OwnersOK
  <2>2. CASE g \in Others /\ runs[g] = <<>>
    <3>1. runner = Nobody
      BY <2>2, <1>0, Actors DEF LockOK
    <3>2. \A i \in DOMAIN frames : frames'[i].owner = Main
      BY <3>1, <1>0, <1>2, Actors DEF OwnersOK, Alike
    <3>3. runs'[g][1].base = Len(frames)
      BY <2>2, <1>1, <1>3
    <3> QED BY <2>2, <3>2, <3>3, <1>0, <1>2 DEF OwnersOK
  <2>3. CASE g \in Others /\ runs[g] # <<>>
    <3>1. runner = g /\ 1 \in DOMAIN runs[g]
      BY <2>3, <1>4, SeqEnds
    <3>2. runs'[g][1] = runs[g][1]
      BY <3>1, <1>1, <1>3, <1>4, SeqAppend
    <3>3. runs[g][1].base <= runBase /\ runs[g][1].base \in Nat
      BY <3>1, <1>0, Bases, Parts
    <3>4. Len(frames) + 1 > runs[g][1].base
      BY <3>3, <1>0, <1>2
    <3>5. \A i \in DOMAIN frames :
             frames'[i].owner = IF i > runs[g][1].base THEN g ELSE Main
      BY <2>3, <3>1, <1>0, <1>2 DEF OwnersOK, Alike
    <3>6. \A i \in DOMAIN frames' : i \in DOMAIN frames \/ i = Len(frames) + 1
      BY <1>0, <1>2
    <3>7. \A i \in DOMAIN frames' :
             frames'[i].owner = IF i > runs[g][1].base THEN g ELSE Main
      BY <3>4, <3>5, <3>6, <1>2
    <3> QED BY <2>3, <3>2, <3>7 DEF OwnersOK
  <2> QED BY <2>1, <2>2, <2>3, Actors
<1> QED BY <1>2, <1>7, <1>8 DEF VmInv

\* A call that could not be entered: what it left lies above the temporaries of the frame
\* that is in a builtin.
LEMMA GivesUpKeeps ==
    ASSUME VmInv, NEW g \in Goroutines, EnterFails(g) \/ CallbackFails(g)
    PROVE  VmInv'
<1>1. /\ GivesUp /\ ~InLoop
  BY Running DEF EnterFails, CallbackFails, InLoop
<1>2. PICK n \in Nat : stack' = stack \o [i \in 1 .. n |-> Left]
  BY <1>1, VmAssumption DEF GivesUp
<1>3. /\ answer' = <<MainCall, Failure>>
      /\ UNCHANGED <<runner, at, runs, frames, handlers, runBase, caught, ended>>
  BY <1>1 DEF GivesUp
<1>4. Types /\ stack \in Seq(Value) /\ Len(stack) \in Nat
      /\ Top.base \in Nat /\ Top.temps \in Nat
  BY Parts, FrameFields DEF VmInv, Types
<1>5. [i \in 1 .. n |-> Left] \in Seq(Value) /\ Len([i \in 1 .. n |-> Left]) = n
  <2>1. Left \in Value
    BY DEF Value
  <2> HIDE DEF Value
  <2> QED BY <2>1
<1>6. stack' \in Seq(Value) /\ Len(stack) <= Len(stack')
  <2> DEFINE q == [i \in 1 .. n |-> Left]
  <2> HIDE DEF q
  <2>1. q \in Seq(Value) /\ Len(q) = n /\ stack' = stack \o q
    BY <1>2, <1>5 DEF q
  <2>2. stack \o q \in Seq(Value) /\ Len(stack \o q) = Len(stack) + Len(q)
    BY <1>4, <2>1, ConcatProperties
  <2> QED BY <1>4, <2>1, <2>2
<1>7. Types'
  BY <1>3, <1>4, <1>6, Values DEF Types
<1>8. LockOK' /\ RunsOK' /\ OwnersOK' /\ FramesOK' /\ HandlersOK'
  BY <1>3, FramesStay DEF VmInv, LockOK, Inner
<1>9. StackOK'
  <2>1. ~InLoop' /\ Top' = Top
    BY <1>1, <1>3 DEF InLoop, Top
  <2>2. Len(stack') \in Nat
    BY <1>6
  <2> QED BY <1>1, <1>3, <1>4, <1>6, <2>1, <2>2 DEF VmInv, StackOK
<1>10. AnswersOK'
  BY <1>3 DEF VmInv, AnswersOK, CallsAnswered, CatchGetsMessage
<1> QED BY <1>7, <1>8, <1>9, <1>10 DEF VmInv

LEMMA EnterKeeps ==
    ASSUME VmInv, NEW g \in Goroutines, Enter(g) \/ Callback(g)
    PROVE  VmInv'
<1>0. Types /\ LockOK
  BY DEF VmInv
<1>1. CASE Enter(g)
  <2>1. /\ g \in Others /\ runner = Nobody /\ runner' = g /\ ended = "no" /\ at[g] = "out"
        /\ EnterRun(g) /\ UNCHANGED <<handlers, answer, caught, ended>>
    BY <1>1, Actors DEF Enter, Lock!Grant
  <2>2. runs[g] = <<>> /\ ~InLoop
    BY <1>0, <2>1 DEF LockOK, InLoop
  <2>3. at' = [at EXCEPT ![g] = "loop"] /\ runs'[g] # <<>>
        /\ \A h \in Others \ {g} : runs'[h] = runs[h]
    <3>1. runs'[g] = Append(runs[g], [base |-> Len(frames), prev |-> runBase, call |-> NextCall])
      BY <1>0, <2>1 DEF EnterRun, Types
    <3>2. runs'[g] # <<>>
      BY <2>2, <3>1
    <3> QED BY <1>0, <2>1, <3>2, Actors DEF EnterRun, Go, Types
  <2>4. LockOK'
    BY <1>0, <2>1, <2>3, Actors DEF LockOK, Types
  <2> QED BY <2>1, <2>2, <2>4, EntersKeep
<1>2. CASE Callback(g)
  <2>1. /\ runner = g /\ at[g] = "builtin" /\ runner' = g
        /\ EnterRun(g) /\ UNCHANGED <<handlers, answer, caught, ended>>
    BY <1>2 DEF Callback
  <2>2. ended = "no" /\ ~InLoop
    BY <2>1, Running
  <2>3. at' = [at EXCEPT ![g] = "loop"] /\ runs'[g] # <<>>
        /\ \A h \in Others \ {g} : runs'[h] = runs[h]
    <3>1. runs[g] \in Seq(Runs) /\ NextCall \in Calls /\ runBase \in Nat /\ Len(frames) \in Nat \ {0}
      BY <1>0, <2>1, Named, Parts DEF EnterRun, Types
    <3>2. [base |-> Len(frames), prev |-> runBase, call |-> NextCall] \in Runs
      BY <3>1 DEF Runs
    <3>3. runs'[g] = Append(runs[g], [base |-> Len(frames), prev |-> runBase, call |-> NextCall])
      BY <1>0, <2>1 DEF EnterRun, Types
    <3>4. runs'[g] # <<>>
      BY <3>1, <3>2, <3>3, SeqAppend
    <3> QED BY <1>0, <2>1, <3>4, Actors DEF EnterRun, Go, Types
  <2>4. g \in Others => runs[g] # <<>>
    BY <1>0, <2>1 DEF LockOK
  <2>5. LockOK'
    BY <1>0, <2>1, <2>3, <2>4, Actors DEF LockOK, Types
  <2> QED BY <2>1, <2>2, <2>5, EntersKeep
<1> QED BY <1>1, <1>2

\* A chain without its last base is a chain, and that remembers where the others end.
LEMMA Shorter ==
    ASSUME NEW q \in Seq(Runs), q # <<>>, NEW b \in Nat, Chain(q, b)
    PROVE  /\ Chain(Front(q), b) /\ Last(q).prev = IF Len(q) = 1 THEN b ELSE BaseOf(Front(q))
           /\ Last(q).prev < Last(q).base /\ Last(q).prev \in Nat
           /\ Len(q) = 1 <=> Front(q) = <<>>
<1>1. /\ Len(q) \in Nat \ {0} /\ DOMAIN q = 1 .. Len(q) /\ Len(q) \in DOMAIN q
      /\ Last(q) = q[Len(q)] /\ Last(q) \in Runs
      /\ Front(q) \in Seq(Runs) /\ Len(Front(q)) = Len(q) - 1
      /\ DOMAIN Front(q) = 1 .. Len(q) - 1
      /\ \A i \in DOMAIN Front(q) : i \in DOMAIN q /\ Front(q)[i] = q[i]
  BY SeqEnds
<1>2. Chain(Front(q), b)
  <2>1. \A i \in DOMAIN Front(q) : i # 1 => i - 1 \in DOMAIN Front(q)
    BY <1>1
  <2> QED BY <1>1, <2>1 DEF Chain
<1>3. Len(q) = 1 <=> Front(q) = <<>>
  BY <1>1
<1>4. Last(q).prev = IF Len(q) = 1 THEN b ELSE q[Len(q) - 1].base
  BY <1>1 DEF Chain
<1>5. Len(q) # 1 => /\ Len(q) - 1 \in DOMAIN q /\ Front(q)[Len(q) - 1] = q[Len(q) - 1]
                    /\ Len(q) - 1 < Len(q) /\ BaseOf(Front(q)) = q[Len(q) - 1].base
  BY <1>1, <1>3 DEF BaseOf
<1>6. Last(q).prev < Last(q).base
  <2>1. CASE Len(q) = 1
    BY <2>1, <1>1, <1>4 DEF Chain
  <2>2. CASE Len(q) # 1
    BY <2>2, <1>1, <1>4, <1>5 DEF Chain
  <2> QED BY <2>1, <2>2
<1>7. Last(q).prev \in Nat
  BY <1>1 DEF Runs
<1> QED BY <1>2, <1>3, <1>4, <1>5, <1>6, <1>7

\* The loop of a call of CallCallable is over: the result is on top of the stack.
LEMMA StopKeeps ==
    ASSUME VmInv, NEW g \in Goroutines, Stop(g)
    PROVE  VmInv'
<1> DEFINE b == IF g = Main THEN 0 ELSE BaseOf(runs[Main])
<1>0. /\ Types /\ LockOK /\ RunsOK /\ OwnersOK /\ StackOK
      /\ Len(frames) \in Nat \ {0} /\ DOMAIN frames = 1 .. Len(frames)
      /\ Top \in Frame /\ Top.base \in Nat /\ Top.temps \in 0 .. MaxTemps + 1
  BY Parts, FrameFields DEF VmInv
<1>1. runner = g /\ at[g] = "loop" /\ Stopped
  BY DEF Stop
<1>2. /\ Inner = g /\ ended = "no" /\ InLoop /\ runBase = BaseOf(runs[g]) /\ runBase \in Nat
      /\ runBase > 0 /\ Len(frames) = runBase
      /\ g \in Others => runs[g] # <<>>
  BY <1>1, Running
<1>3. runs[g] # <<>> /\ runs[g] \in Seq(Runs)
  BY <1>0, <1>2 DEF BaseOf, Types
<1>4. /\ Len(runs[g]) \in Nat \ {0} /\ DOMAIN runs[g] = 1 .. Len(runs[g])
      /\ Last(runs[g]) = runs[g][Len(runs[g])] /\ Last(runs[g]) \in Runs
      /\ Len(runs[g]) \in DOMAIN runs[g]
      /\ Front(runs[g]) \in Seq(Runs) /\ Len(Front(runs[g])) = Len(runs[g]) - 1
      /\ \A i \in DOMAIN Front(runs[g]) : i \in DOMAIN runs[g] /\ Front(runs[g])[i] = runs[g][i]
  BY <1>3, SeqEnds
<1>5. /\ ~Top.catching /\ Top.temps > 0 /\ Top.base + Top.temps <= Len(stack)
      /\ stack[Len(stack)] = Result(Last(runs[g]).call) /\ Top.temps <= MaxTemps
  BY <1>0, <1>2, <1>4 DEF StackOK
<1>6. stack # <<>> /\ stack \in Seq(Value)
  BY <1>0, <1>5 DEF Types
<1>7. /\ Last(stack) = stack[Len(stack)] /\ Last(stack) \in Value
      /\ Front(stack) \in Seq(Value) /\ Len(Front(stack)) = Len(stack) - 1
  BY <1>6, SeqEnds
<1>8. /\ runBase' = Last(runs[g]).prev /\ stack' = Front(stack)
      /\ answer' = <<Last(runs[g]).call, Last(stack)>>
      /\ runs' = [runs EXCEPT ![g] = Front(runs[g])]
      /\ \/ Len(runs[g]) > 1 \/ g = Main
         \/ at' = [at EXCEPT ![g] = "out"] /\ runner' = Nobody
      /\ (Len(runs[g]) > 1 \/ g = Main) => at' = [at EXCEPT ![g] = "builtin"] /\ runner' = g
      /\ UNCHANGED <<frames, handlers, caught, ended>>
  BY <1>1, <1>3, <1>6 DEF Stop, RunReturns, RestoreBase, Answer, Go, Lock!Yield
<1>9. Chain(runs[g], b)
  BY <1>0, Actors DEF RunsOK
<1>10. b \in Nat
  <2>1. CASE g = Main \/ runs[Main] = <<>>
    BY <2>1 DEF BaseOf
  <2>2. CASE g # Main /\ runs[Main] # <<>>
    <3>1. Len(runs[Main]) \in DOMAIN runs[Main]
      BY <1>0, <2>2, SeqEnds, Actors DEF Types
    <3> QED BY <1>0, <2>2, <3>1, Parts, Actors DEF BaseOf
  <2> QED BY <2>1, <2>2
<1> HIDE DEF b
<1>11. /\ Chain(Front(runs[g]), b)
       /\ Last(runs[g]).prev = IF Len(runs[g]) = 1 THEN b ELSE BaseOf(Front(runs[g]))
       /\ Last(runs[g]).prev < Last(runs[g]).base /\ Last(runs[g]).prev \in Nat
       /\ Len(runs[g]) = 1 <=> Front(runs[g]) = <<>>
  BY <1>3, <1>9, <1>10, Shorter
<1>12. /\ runs'[g] = Front(runs[g]) /\ \A h \in Goroutines \ {g} : runs'[h] = runs[h]
       /\ \A h \in Goroutines \ {g} : at'[h] = at[h]
  BY <1>0, <1>8 DEF Types
<1>13. Types'
  <2>1. runs' \in [Goroutines -> Seq(Runs)]
    BY <1>0, <1>4, <1>8 DEF Types
  <2>2. Last(runs[g]).call \in Calls
    BY <1>4 DEF Runs
  <2>3. answer' \in (Calls \cup {MainCall}) \X Value
    BY <1>7, <1>8, <2>2
  <2>4. runner' \in Goroutines \cup {Nobody}
        /\ at' \in [Goroutines -> {"out", "loop", "builtin", "blocked", "over"}]
    BY <1>0, <1>8 DEF Types
  <2> QED BY <1>0, <1>7, <1>8, <1>11, <2>1, <2>3, <2>4 DEF Types
<1>14. LockOK'
  <2>1. CASE g = Main
    BY <2>1, <1>0, <1>1, <1>2, <1>8, <1>12, Actors DEF LockOK, Types
  <2>2. CASE g \in Others /\ Len(runs[g]) > 1
    <3>1. runs'[g] # <<>>
      BY <2>2, <1>4, <1>11, <1>12, OneOrMore, Zenon
    <3>2. at' = [at EXCEPT ![g] = "builtin"] /\ runner' = g /\ g # Main
      BY <2>2, <1>8, Actors
    <3> QED BY <2>2, <3>1, <3>2, <1>0, <1>1, <1>2, <1>8, <1>12, Actors DEF LockOK, Types
  <2>3. CASE g \in Others /\ ~(Len(runs[g]) > 1)
    <3>1. runs'[g] = <<>>
      BY <2>3, <1>4, <1>11, <1>12
    <3>2. at' = [at EXCEPT ![g] = "out"] /\ runner' = Nobody /\ g # Main
      BY <2>3, <1>8, Actors
    <3> QED BY <2>3, <3>1, <3>2, <1>0, <1>1, <1>2, <1>8, <1>12, Actors DEF LockOK, Types
  <2> QED BY <2>1, <2>2, <2>3, Actors
<1>15. runBase' < Len(frames) /\ runBase' \in Nat
  <2>1. Last(runs[g]).base = runBase
    BY <1>2, <1>3, <1>4 DEF BaseOf
  <2> QED BY <2>1, <1>2, <1>8, <1>11
<1>16. RunsOK'
  <2>1. Chain(runs'[Main], 0)
    <3>1. CASE g = Main
      BY <3>1, <1>11, <1>12 DEF b
    <3>2. CASE g # Main
      BY <3>2, <1>0, <1>12, Actors DEF RunsOK
    <3> QED BY <3>1, <3>2
  <2>2. ASSUME NEW h \in Others PROVE Chain(runs'[h], BaseOf(runs'[Main]))
    <3>1. CASE g = Main
      <4>1. runs'[h] = <<>>
        BY <3>1, <1>0, <1>1, <1>12, Actors DEF LockOK
      <4> QED BY <4>1 DEF Chain
    <3>2. CASE g # Main
      <4>1. runs'[Main] = runs[Main]
        BY <3>2, <1>12, Actors
      <4>2. CASE h = g
        BY <3>2, <4>1, <4>2, <1>11, <1>12 DEF b
      <4>3. CASE h # g
        BY <4>1, <4>3, <1>0, <1>12, Actors DEF RunsOK
      <4> QED BY <4>2, <4>3
    <3> QED BY <3>1, <3>2
  <2>3. runBase' = BaseOf(runs'[Inner'])
    <3>1. CASE Len(runs[g]) = 1 /\ g # Main
      <4>1. Inner' = Main /\ runs'[Main] = runs[Main]
        BY <3>1, <1>8, <1>12, Actors DEF Inner
      <4> QED BY <3>1, <4>1, <1>8, <1>11 DEF b
    <3>2. CASE Len(runs[g]) = 1 /\ g = Main
      <4>1. Inner' = Main /\ runs'[Main] = <<>>
        BY <3>2, <1>8, <1>11, <1>12, Actors DEF Inner
      <4> QED BY <3>2, <4>1, <1>8, <1>11 DEF b, BaseOf
    <3>3. CASE Len(runs[g]) # 1
      <4>1. Len(runs[g]) > 1
        BY <3>3, <1>4, OneOrMore, Zenon
      <4>2. Inner' = g
        BY <4>1, <1>8, Actors DEF Inner
      <4> QED BY <3>3, <4>2, <1>8, <1>11, <1>12
    <3> QED BY <3>1, <3>2, <3>3
  <2>4. ASSUME NEW h \in Goroutines, NEW i \in DOMAIN runs'[h], runs'[h][i].base < Len(frames')
        PROVE  frames'[runs'[h][i].base + 1].call = runs'[h][i].call
    <3>1. i \in DOMAIN runs[h] /\ runs'[h][i] = runs[h][i]
      BY <1>4, <1>12
    <3> QED BY <2>4, <3>1, <1>0, <1>8 DEF RunsOK
  <2>5. runBase' <= Len(frames')
    BY <1>0, <1>8, <1>15
  <2> QED BY <2>1, <2>2, <2>3, <2>4, <2>5 DEF RunsOK
<1>17. OwnersOK'
  <2>1. CASE g = Main
    BY <2>1, <1>0, <1>1, <1>8, Actors DEF OwnersOK
  <2>2. CASE g \in Others /\ Len(runs[g]) > 1
    <3>1. runs'[g][1] = runs[g][1]
      BY <2>2, <1>4, <1>12
    <3> QED BY <2>2, <3>1, <1>0, <1>1, <1>8 DEF OwnersOK
  <2>3. CASE g \in Others /\ ~(Len(runs[g]) > 1)
    <3>1. runner' \notin Others
      BY <2>3, <1>8, Actors
    <3>2. runs[g][1].base = Len(frames)
      BY <2>3, <1>2, <1>3, <1>4 DEF BaseOf
    <3>3. \A i \in DOMAIN frames : frames[i].owner = Main
      BY <2>3, <3>2, <1>0, <1>1 DEF OwnersOK
    <3> QED BY <3>1, <3>3, <1>8 DEF OwnersOK
  <2> QED BY <2>1, <2>2, <2>3, Actors
<1>18. FramesOK' /\ HandlersOK'
  BY <1>8 DEF VmInv, FramesOK, HandlersOK
<1>19. StackOK'
  <2>1. ~InLoop'
    BY <1>0, <1>8, Actors DEF InLoop, Types
  <2>2. Top' = Top /\ Len(frames') # runBase'
    BY <1>0, <1>8, <1>15 DEF Top
  <2>3. Top.base + Top.temps <= Len(stack') + 1
    BY <1>0, <1>5, <1>7, <1>8, Actors
  <2> QED BY <2>1, <2>2, <2>3, <1>5 DEF StackOK
<1>20. AnswersOK'
  BY <1>5, <1>7, <1>8 DEF VmInv, AnswersOK, CallsAnswered, CatchGetsMessage
<1> QED BY <1>13, <1>14, <1>16, <1>17, <1>18, <1>19, <1>20 DEF VmInv

\* Only the main program comes to the end of the first frame.
LEMMA LastKeeps ==
    ASSUME VmInv, NEW g \in Goroutines, LastInstruction(g)
    PROVE  VmInv'
<1>1. /\ Executes(g) /\ Len(frames) = 1
      /\ IF runs[g] = <<>> THEN EndProgram(g, "end") ELSE RunReturns(g)
  BY DEF LastInstruction, Chooses
<1>2. runner = g /\ at[g] = "loop" /\ runBase \in Nat /\ runBase < Len(frames)
  BY <1>1, Executing
<1>3. runs[g] = <<>>
  <2> SUFFICES ASSUME runs[g] # <<>> PROVE FALSE
    OBVIOUS
  <2>1. Len(runs[g]) \in DOMAIN runs[g]
    BY SeqEnds DEF VmInv, Types
  <2>2. runBase > 0
    BY <2>1, Bases
  <2> QED BY <1>1, <1>2, <2>2
<1> QED BY <1>1, <1>2, <1>3, EndKeeps

-----------------------------------------------------------------------------
(* The theorems *)

LEMMA Start == Init => VmInv
<1> SUFFICES ASSUME Init PROVE VmInv
  OBVIOUS
<1> DEFINE e == NewFrame(MainCall, Main, 0)
<1>1. /\ runner = Main /\ at = [g \in Goroutines |-> IF g = Main THEN "loop" ELSE "out"]
      /\ runs = [g \in Goroutines |-> <<>>] /\ frames = <<e>> /\ stack = <<>>
      /\ handlers = <<>> /\ runBase = 0 /\ answer = <<MainCall, Failure>>
      /\ caught = Message /\ ended = "no"
  BY DEF Init
<1>2. /\ e \in Frame /\ e.owner = Main /\ e.base = 0 /\ e.temps = 0 /\ ~e.catching
  BY Actors DEF NewFrame, Frame
<1> HIDE DEF e
<1>3. /\ frames \in Seq(Frame) /\ frames # <<>> /\ Len(frames) = 1 /\ DOMAIN frames = {1}
      /\ frames[1] = e /\ Top = e
  BY <1>1, <1>2 DEF Top, Last
<1>4. Types
  <2>1. Len(frames) <= MaxFrames
    BY <1>3, VmAssumption
  <2>2. runs \in [Goroutines -> Seq(Runs)] /\ stack \in Seq(Value) /\ handlers \in Seq(Handlers)
    BY <1>1
  <2> QED BY <1>1, <1>3, <2>1, <2>2, Actors, Values DEF Types
<1>5. LockOK
  BY <1>1, Actors DEF LockOK
<1>6. \A g \in Goroutines : runs[g] = <<>> /\ DOMAIN runs[g] = {}
  BY <1>1
<1>7. RunsOK
  BY <1>1, <1>3, <1>6, Actors DEF RunsOK, Chain, BaseOf, Inner
<1>8. OwnersOK /\ FramesOK
  BY <1>1, <1>2, <1>3, Actors DEF OwnersOK, FramesOK
<1>9. StackOK
  <2>1. InLoop
    BY <1>1, Actors DEF InLoop
  <2> QED BY <1>1, <1>2, <1>3, <2>1, Actors DEF StackOK
<1>10. HandlersOK
  BY <1>1 DEF HandlersOK
<1>11. AnswersOK
  BY <1>1 DEF AnswersOK, CallsAnswered, CatchGetsMessage
<1> QED BY <1>4, <1>5, <1>7, <1>8, <1>9, <1>10, <1>11 DEF VmInv

LEMMA Step == ASSUME Allowed = {}, VmInv, [Next]_vars PROVE VmInv'
<1>1. CASE UNCHANGED vars
  <2>1. /\ Types' /\ LockOK' /\ AnswersOK'
    BY <1>1 DEF vars, VmInv, Types, LockOK, AnswersOK, CallsAnswered, CatchGetsMessage
  <2>2. RunsOK' /\ OwnersOK' /\ FramesOK' /\ HandlersOK'
    BY <1>1, FramesStay DEF vars, Inner
  <2>3. StackOK'
    BY <1>1 DEF vars, VmInv, StackOK, InLoop, Inner, Top
  <2> QED BY <2>1, <2>2, <2>3 DEF VmInv
<1>2. CASE Next
  <2>1. PICK g \in Goroutines :
           \/ Enter(g) \/ EnterFails(g) \/ Callback(g) \/ CallbackFails(g)
           \/ Stop(g) \/ LastInstruction(g)
           \/ OpCall(g) \/ OpReturnValue(g) \/ OpPop(g)
           \/ OpSetupTry(g) \/ OpEndTry(g) \/ OpThrow(g) \/ StoreCaught(g)
           \/ OpCallBuiltin(g) \/ BuiltinReturns(g) \/ BuiltinFails(g)
           \/ Block(g) \/ Unblock(g)
    BY <1>2 DEF Next
  <2>2. CASE Enter(g) \/ Callback(g)
    BY <2>2, EnterKeeps
  <2>16. CASE EnterFails(g) \/ CallbackFails(g)
    BY <2>16, GivesUpKeeps
  <2>3. CASE Stop(g)
    BY <2>3, StopKeeps
  <2>4. CASE LastInstruction(g)
    BY <2>4, LastKeeps
  <2>5. CASE OpCall(g)
    BY <2>5, CallKeeps
  <2>6. CASE OpReturnValue(g)
    BY <2>6, ReturnValueKeeps
  <2>7. CASE OpPop(g)
    BY <2>7, PopKeeps
  <2>8. CASE OpSetupTry(g)
    BY <2>8, SetupKeeps
  <2>9. CASE OpEndTry(g)
    BY <2>9, EndTryKeeps
  <2>10. CASE OpThrow(g) \/ BuiltinFails(g)
    BY <2>10, RaiseKeeps
  <2>11. CASE StoreCaught(g)
    BY <2>11, StoreKeeps
  <2>12. CASE OpCallBuiltin(g)
    BY <2>12, BuiltinKeeps
  <2>13. CASE BuiltinReturns(g)
    BY <2>13, ReturnKeeps
  <2>14. CASE Block(g)
    BY <2>14, BlockKeeps
  <2>15. CASE Unblock(g)
    BY <2>15, UnblockKeeps
  <2> QED BY <2>1, <2>2, <2>3, <2>4, <2>5, <2>6, <2>7, <2>8, <2>9, <2>10, <2>11, <2>12,
             <2>13, <2>14, <2>15, <2>16
<1> QED BY <1>1, <1>2

\* The shared stacks are what the frames say at every moment, as long as a callback neither
\* lets go of the lock nor lets an error out, and no function returns from inside a try.
THEOREM Invariance == ASSUME Allowed = {} PROVE Spec => []VmInv
<1>1. VmInv /\ [Next]_vars => VmInv'
  BY Step
<1> QED BY Start, <1>1, PTL DEF Spec

\* The variables keep their types: no frame is pushed above the room there is, and no
\* handler names a frame or a depth of blocks that cannot be.
THEOREM TypeCorrect == ASSUME Allowed = {} PROVE Spec => []TypeOK
<1>1. VmInv => TypeOK
  <2> SUFFICES ASSUME VmInv PROVE TypeOK
    OBVIOUS
  <2>0. /\ Types /\ LockOK /\ RunsOK /\ HandlersOK
        /\ Len(frames) \in Nat \ {0} /\ DOMAIN frames = 1 .. Len(frames)
        /\ Len(frames) <= MaxFrames /\ runBase \in Nat /\ runBase <= Len(frames)
    BY Parts DEF VmInv, Types, RunsOK
  <2>1. Len(frames) \in 1 .. MaxFrames /\ runBase \in 0 .. MaxFrames
    BY <2>0, Actors
  <2>2. \A i \in DOMAIN frames : frames[i] \in Frame
    BY <2>0, Parts
  <2>3. \A i \in DOMAIN stack : stack[i] \in Value
    BY <2>0 DEF Types
  <2>4. \A g \in Goroutines : \A i \in DOMAIN runs[g] :
           runs[g][i] \in [base : 1 .. MaxFrames, prev : 0 .. MaxFrames, call : Calls]
    <3> SUFFICES ASSUME NEW g \in Goroutines, NEW i \in DOMAIN runs[g]
                 PROVE  runs[g][i] \in [base : 1 .. MaxFrames, prev : 0 .. MaxFrames,
                                        call : Calls]
      OBVIOUS
    <3>1. /\ runs[g][i] \in Runs /\ runs[g][i].base \in Nat \ {0} /\ i \in Nat
          /\ DOMAIN runs[g] = 1 .. Len(runs[g]) /\ Len(runs[g]) \in Nat
      BY <2>0, Parts
    <3>2. runs[g][i].base \in 1 .. MaxFrames
      BY <2>0, <3>1, Bases, Actors
    <3>3. runs[g][i].prev \in Nat
      BY <3>1 DEF Runs
    <3>4. runs[g][i].prev < runs[g][i].base
      <4>1. \E b : Chain(runs[g], b)
        BY <2>0, Actors DEF RunsOK
      <4>2. PICK b : Chain(runs[g], b)
        BY <4>1
      <4>3. CASE i = 1
        BY <4>2, <4>3 DEF Chain
      <4>4. CASE i # 1
        <5>1. i - 1 \in DOMAIN runs[g] /\ i - 1 < i
          BY <3>1, <4>4
        <5> QED BY <4>2, <4>4, <5>1 DEF Chain
      <4> QED BY <4>3, <4>4
    <3>5. runs[g][i].prev \in 0 .. MaxFrames
      BY <3>2, <3>3, <3>4, Actors
    <3> QED BY <3>1, <3>2, <3>5 DEF Runs
  <2>5. \A i \in DOMAIN handlers :
           handlers[i] \in [frame : 1 .. MaxFrames, sp : Nat, tries : 0 .. MaxTry,
                            call : Calls \cup {MainCall}, temps : 0 .. MaxTemps + 1]
    <3> SUFFICES ASSUME NEW i \in DOMAIN handlers
                 PROVE  handlers[i] \in [frame : 1 .. MaxFrames, sp : Nat, tries : 0 .. MaxTry,
                                         call : Calls \cup {MainCall},
                                         temps : 0 .. MaxTemps + 1]
      OBVIOUS
    <3>1. handlers[i] \in Handlers
      BY <2>0, Parts
    <3>2. /\ handlers[i].frame \in Nat \ {0} /\ handlers[i].tries \in Nat
          /\ handlers[i].temps \in Nat
      BY <3>1 DEF Handlers
    <3>3. /\ handlers[i].frame <= Len(frames) /\ handlers[i].temps <= MaxTemps
          /\ handlers[i].tries < frames[handlers[i].frame].tries
      BY <2>0 DEF HandlersOK
    <3>4. handlers[i].frame \in DOMAIN frames
      BY <2>0, <3>2, <3>3
    <3>5. frames[handlers[i].frame].tries \in 0 .. MaxTry
      BY <2>2, <3>4, FrameFields
    <3>6. /\ handlers[i].frame \in 1 .. MaxFrames /\ handlers[i].tries \in 0 .. MaxTry
          /\ handlers[i].temps \in 0 .. MaxTemps + 1
      BY <2>0, <3>2, <3>3, <3>5, Actors
    <3> QED BY <3>1, <3>6 DEF Handlers
  <2> QED BY <2>0, <2>1, <2>2, <2>3, <2>4, <2>5 DEF TypeOK, Types
<1> QED BY Invariance, <1>1, PTL

\* A goroutine only ever executes code of its own calls, every handler is that of an open
\* block of a frame that is there, and the main program is not stopped by the end of
\* somebody else's call (the loops of Run in vm.go, runBase and handleError).
THEOREM Apart == ASSUME Allowed = {} PROVE Spec => []LoopsApart
<1>1. VmInv => LoopsApart
  <2> SUFFICES ASSUME VmInv PROVE LoopsApart
    OBVIOUS
  <2>1. OwnCode
    BY Executing DEF OwnCode
  <2>2. HandlersLive
    BY DEF VmInv, HandlersOK, HandlersLive
  <2>3. RunsToTheEnd
    BY DEF VmInv, Types, RunsToTheEnd
  <2> QED BY <2>1, <2>2, <2>3 DEF LoopsApart
<1> QED BY Invariance, <1>1, PTL

\* CallCallable gives its caller the value that the function it called returned (or its
\* failure), however many loops are nested and whatever calls that could not be entered
\* left on the value stack (vm.go:586-604).
THEOREM Answered == ASSUME Allowed = {} PROVE Spec => []CallsAnswered
<1>1. VmInv => CallsAnswered
  BY DEF VmInv, AnswersOK
<1> QED BY Invariance, <1>1, PTL

\* The variable of a catch block gets the message handleError pushed, however many frames
\* and temporaries the error passed on its way.
THEOREM Caught == ASSUME Allowed = {} PROVE Spec => []CatchGetsMessage
<1>1. VmInv => CatchGetsMessage
  BY DEF VmInv, AnswersOK
<1> QED BY Invariance, <1>1, PTL
=============================================================================
