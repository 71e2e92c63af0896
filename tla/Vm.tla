--------------------------------- MODULE Vm ---------------------------------
(***************************************************************************)
(* The bytecode machine (internal/vm).  Step(s) executes one instruction.  *)
(* A state has, besides the heap and the output, the constants, the stack  *)
(* with its pointer sp (what lies above the pointer stays there), the      *)
(* frames, the handlers of the open try statements, the globals, and       *)
(* runBase, the number of frames below a nested run.                       *)
(*                                                                         *)
(* What an operation gives is Nil while the machine goes on, an error that *)
(* the innermost handler may catch, Panic, or Done.                        *)
(***************************************************************************)
EXTENDS Compiler

CONSTANTS StackSize, MaxFrames

ASSUME MachineBounds == StackSize \in Nat /\ MaxFrames \in Nat \ {0}

Done     == [t |-> "done"]
\* The overflow of the stack; while an operand is pushed no handler catches it.
Overflow == Err(<<"overflow">>)

GoOn(s) == Gives(Nil, s)

newFrame(fn, basePointer, free) ==
    [fn |-> fn, ip |-> -1, basePointer |-> basePointer, free |-> free,
     class |-> Null, afterReturn |-> Nil]

\* The machine for a compiled program.
NewVM(c) ==
    LET main == NewCompiled(Scope0(c).ins, 0, 0, 0, <<>>, c.s)
    IN  [heap |-> main.s.heap, out |-> main.s.out, backward |-> main.s.backward,
         constants |-> c.constants, stack |-> <<>>, sp |-> 0,
         frames |-> <<newFrame(main.v, 0, <<>>)>>, handlers |-> <<>>, globals |-> Empty,
         runBase |-> 0]

currentFrame(s) == Last(s.frames)
Code(s)         == Object(currentFrame(s).fn, s).ins
SetIp(ip, s)    == [s EXCEPT !.frames[Len(s.frames)].ip = ip]

\* A slot of the stack that was never written holds Go's nil.
Slot(i, s) == IF i < Len(s.stack) THEN s.stack[i + 1] ELSE Nil
Top(k, s)  == Slot(s.sp - k, s)

SetSlot(i, v, s) ==
    [s EXCEPT !.stack = IF i < Len(@) THEN [@ EXCEPT ![i + 1] = v]
                        ELSE @ \o [j \in 1 .. i - Len(@) |-> Nil] \o <<v>>]

push(v, s) ==
    IF s.sp >= StackSize THEN Gives(Overflow, s)
    ELSE GoOn([SetSlot(s.sp, v, s) EXCEPT !.sp = @ + 1])

pop(k, s) == [s EXCEPT !.sp = @ - k]

RECURSIVE PushAll(_, _)
PushAll(vs, s) ==
    IF vs = <<>> THEN GoOn(s)
    ELSE Then(push(Head(vs), s), LAMBDA v, t : PushAll(Tail(vs), t))

\* The k values on top, the lowest first.
TopValues(k, s) == [i \in 1 .. k |-> Top(k - i + 1, s)]

popFrame(s) ==
    [s EXCEPT !.frames = Front(@), !.sp = currentFrame(s).basePointer - 1]

\* The innermost handler is taken; frames above the one it belongs to are left.
handleError(err, s) ==
    LET h == Last(s.handlers)
        t == [s EXCEPT !.handlers = Front(@),
                       !.frames = IF Len(@) > h.frameIndex THEN SubSeq(@, 1, h.frameIndex) ELSE @,
                       !.sp = h.stackPointer]
    IN  IF s.handlers = <<>> \/ err = Panic THEN Gives(err, s)
        ELSE GoOn(SetIp(h.catchIP - 1, push(Str(err.msg), t).s))

----------------------------------------------------------------------------
(* Calls *)

\* Missing arguments are taken from the defaults.  The pointer is moved over
\* the slots of the locals: they hold whatever was there.
pushCallFrame(fn, numArgs, free, s) ==
    LET f == Object(fn, s)
        req == IF f.numRequired = 0 /\ f.defaults = <<>> THEN f.numParameters ELSE f.numRequired
        Default(i) == IF f.defaults[i] = <<>> THEN Null ELSE f.defaults[i][1]
        base == s.sp - numArgs
    IN  IF numArgs \notin req .. f.numParameters THEN Fails(s)
        ELSE Then(PushAll([i \in 1 .. f.numParameters - numArgs |-> Default(numArgs + i)], s),
                  LAMBDA v, t :
                    IF Len(t.frames) >= MaxFrames THEN Panics(t)
                    ELSE GoOn([t EXCEPT !.frames = Append(@, newFrame(fn, base, free)),
                                        !.sp = base + f.numLocals]))

RECURSIVE callFunction(_, _), CallCallable(_, _, _), Run(_)

\* object.InvokeCallable while the machine runs.
Invoke(fn, args, s) ==
    CASE fn.t \in {"closure", "compiled"} -> CallCallable(fn, args, s)
      [] OTHER -> Fails(s)

VmLists == INSTANCE Collections WITH Call <- Invoke

\* A method named without () is called; its error is a value like any other.
Resolve1(v, s) == VmLists!ResolveValue(Gives(v, s))

RECURSIVE ResolveAll(_, _)
\* The last value first, as they are taken off the stack.
ResolveAll(vs, s) ==
    IF vs = <<>> THEN Gives(<<>>, s)
    ELSE LET r == Resolve1(Last(vs), s)
             q == ResolveAll(Front(vs), r.s)
         IN  Gives(Append(q.v, r.v), q.s)

\* The result of a Go function goes onto the stack unless it is an error.
PushResult(r) == Then(r, LAMBDA v, s : push(v, s))

\* The value called lies below its arguments.
callFunction(numArgs, s) ==
    LET callee == Top(numArgs + 1, s)
        args   == TopValues(numArgs, s)
        below  == pop(numArgs + 1, s)
        given  == ResolveAll(args, below)
    IN
    CASE callee.t = "closure"  ->
            pushCallFrame(Object(callee, s).fn, numArgs, Object(callee, s).free, s)
      [] callee.t = "compiled" -> pushCallFrame(callee, numArgs, <<>>, s)
      [] callee.t = "method"   ->
            LET m == Object(callee, s)
            IN  Then(PushAll(<<m.fn, m.self>> \o args, below), LAMBDA v, t :
                Then(callFunction(numArgs + 1, t), LAMBDA w, u :
                     GoOn([u EXCEPT !.frames[Len(u.frames)].class = m.owner])))
      [] callee.t = "parent"   ->
            LET parent == Object(Object(callee.self, s).class, s).parent
                ctor   == FindMethod(parent, "constructor", s)
                m      == Method(callee.self, ctor[1], below)
            IN  IF ctor = <<>> THEN Fails(s)
                ELSE Then(PushAll(<<m.v>> \o args, m.s), LAMBDA v, t : callFunction(numArgs, t))
      [] callee.t = "builtin"  -> PushResult(CallBuiltin(callee.name, given.v, given.s))
      [] callee.t = "bound"    ->
            PushResult(VmLists!CallBound(callee, given.v, given.s))
      [] OTHER -> Fails(s)

\* A call from Go code: a run of its own above the frames there are.  When it
\* fails its frames and operands stay where they are.
CallCallable(fn, args, s) ==
    LET base == Len(s.frames)
        End(t) == [t EXCEPT !.runBase = s.runBase]
    IN  Then(PushAll(<<fn>> \o args, s), LAMBDA v, t :
        Then(callFunction(Len(args), t), LAMBDA w, u :
             LET r == Run([u EXCEPT !.runBase = base])
             IN  IF IsError(r.v) THEN Gives(r.v, End(r.s))
                 ELSE IF r.s.sp <= 0 THEN Gives(Null, End(r.s))
                 ELSE Gives(Top(1, r.s), End(pop(1, r.s)))))

----------------------------------------------------------------------------
(* Operators and places *)

executeBinary(op, s) ==
    LET r == Resolve1(Top(1, s), pop(2, s))
        l == Resolve1(Top(2, s), r.s)
        a == l.v
        b == r.v
    IN  CASE Panic \in {a, b} \/ Nil \in {a, b} -> Panics(l.s)
          [] OTHER ->
                IF "string" \in {a.t, b.t}
                THEN IF op = "Add" THEN push(Str(Inspect(a, l.s) \o Inspect(b, l.s)), l.s)
                     ELSE Fails(l.s)
                ELSE IF ~IsNum(a) \/ ~IsNum(b) THEN Gives(Err(<<Unsupported>>), l.s)
                ELSE IF op \in {"Div", "Mod"} /\ b.num = 0 THEN Fails(l.s)
                ELSE push(evalNumberInfix(CHOOSE o \in {"+", "-", "*", "/", "%", "**"} : Opcode(o) = op,
                                          a.num, b.num, l.s).v, l.s)

executeComparison(op, s) ==
    LET r == Resolve1(Top(1, s), pop(2, s))
        l == Resolve1(Top(2, s), r.s)
        a == l.v
        b == r.v
    IN  CASE Panic \in {a, b}           -> Panics(l.s)
          [] op = "Equal" /\ Panic \notin {a, b}    -> push(Bool(Same(a, b)), l.s)
          [] op = "NotEqual" /\ Panic \notin {a, b} -> push(Bool(~Same(a, b)), l.s)
          [] OTHER ->
                IF Nil \in {a, b} THEN Panics(l.s)
                ELSE IF ~IsNum(a) \/ ~IsNum(b) THEN Fails(l.s)
                ELSE push(Bool(IF op = "GreaterThan" THEN a.num > b.num ELSE a.num >= b.num), l.s)

caller(s) == currentFrame(s).class

\* A key or a name after a value: the element, the method, the field.
executeIndex(left, index, s) ==
    LET bound == LookupMethod(left, index.str[1])
        Bound == IF bound = Null THEN Fails(s) ELSE push(bound, s)
        class == Object(left, s).class
        AMethod(self, found) ==
            IF found = <<>> \/ ~CanAccess(found[1], caller(s)) THEN Fails(s)
            ELSE LET m == Method(self, found[1], s) IN push(m.v, m.s)
    IN
    CASE left.t = "hash" ->
            IF index.t # "string" THEN Fails(s)
            ELSE IF Has(Object(left, s).pairs, index.str) THEN push(Object(left, s).pairs[index.str], s)
            ELSE IF Len(index.str) = 1 THEN push(bound, s) ELSE push(Null, s)
      [] left.t \in {"array", "string"} ->
            LET seq == IF left.t = "array" THEN Elements(left, s)
                       ELSE [i \in DOMAIN left.str |-> Str(<<left.str[i]>>)]
            IN  IF index.t = "string" THEN IF Len(index.str) = 1 THEN Bound ELSE Fails(s)
                ELSE IF IsNum(index) /\ index.num \in 0 .. Len(seq) - 1 THEN push(seq[index.num + 1], s)
                ELSE Fails(s)
      [] left.t \in {"number", "boolean", "null"} ->
            IF index.t = "string" /\ Len(index.str) = 1 THEN Bound ELSE Fails(s)
      [] left.t = "instance" ->
            LET name   == index.str[1]
                values == Object(Object(left, s).fields, s)
                field  == FindField(class, name, s)
            IN  IF index.t # "string" THEN Fails(s)
                ELSE IF Has(values, name)
                THEN IF field # <<>> /\ ~CanAccess(field[1], caller(s)) THEN Fails(s)
                     ELSE push(values[name], s)
                ELSE AMethod(left, FindMethod(class, name, s))
      [] left.t = "parent" ->
            LET parent == Object(Object(left.self, s).class, s).parent
            IN  IF index.t # "string" \/ parent = Null THEN Fails(s)
                ELSE AMethod(left.self, FindMethod(parent, index.str[1], s))
      [] left.t = "module" ->
            IF index.t = "string" /\ Has(Object(left, s), index.str[1])
            THEN push(Object(left, s)[index.str[1]], s) ELSE Fails(s)
      [] left = Nil -> Panics(s)
      [] OTHER -> Gives(Err(<<Unsupported>>), s)

\* The order of a dictionary does not learn of a key put here.
executeSetIndex(left, index, v, s) ==
    CASE left.t = "array" ->
            IF IsNum(index) /\ index.num \in 0 .. Object(left, s).len - 1
            THEN push(v, SetElement(left, index.num + 1, v, s)) ELSE Fails(s)
      [] left.t = "hash" ->
            IF index.t # "string" THEN Fails(s)
            ELSE push(v, SetObject(left, PairsSet(Object(left, s), index.str, v), s))
      [] left.t = "instance" ->
            LET field == FindField(Object(left, s).class, index.str[1], s)
                place == Object(left, s).fields
            IN  IF index.t # "string" THEN Fails(s)
                ELSE IF field # <<>> /\ ~CanAccess(field[1], caller(s)) THEN Fails(s)
                ELSE push(v, SetObject(place, (index.str[1] :> v) @@ Object(place, s), s))
      [] OTHER -> Fails(s)

\* The values a loop goes over are fixed when it begins; the keys of a
\* dictionary come in the order of the map.
makeIterator(coll, s) ==
    LET Over(vs) == LET it == NewIterator(vs, s) IN push(it.v, it.s)
        keys == MapOrder(DOMAIN Object(coll, s).pairs, s)
    IN  CASE coll.t = "array"  -> Over(Elements(coll, s))
          [] coll.t = "hash"   -> Over([i \in DOMAIN keys |-> Str(keys[i])])
          [] coll.t = "string" -> Over([i \in DOMAIN coll.str |-> Str(<<coll.str[i]>>)])
          [] OTHER -> Fails(s)

IterValue(it, s) ==
    LET o == Object(it, s)
    IN  IF it.t # "iterator" THEN Fails(s)
        ELSE IF o.index >= Len(o.values) THEN Fails(s)
        ELSE push(o.values[o.index + 1], SetObject(it, [o EXCEPT !.index = @ + 1], s))

\* The key that is not a string is found from the last pair to the first.
MakeHash(n, s) ==
    LET vs == TopValues(2 * n, s)
        bad == {i \in 1 .. n : vs[2 * i - 1].t # "string"}
        h  == FoldLeft(LAMBDA acc, i : HashSet(acc, vs[2 * i - 1].str, vs[2 * i]),
                       [pairs |-> Empty, order |-> <<>>], [i \in 1 .. n |-> i])
        o  == NewObject("hash", h, pop(2 * n, s))
    IN  IF bad # {} THEN Fails(pop(2 * n, s)) ELSE push(o.v, o.s)

MakeArray(n, s) ==
    LET a == NewArray(TopValues(n, s), pop(n, s)) IN push(a.v, a.s)

\* A local variable that a function captures lives in a cell from then on.
Local(i, s) == currentFrame(s).basePointer + i
IsCell(v)   == v.t = "cell"

SetLocal(i, s) ==
    LET slot == Local(i, s)
    IN  IF IsCell(Slot(slot, s)) THEN SetObject(Slot(slot, s), Top(1, s), pop(1, s))
        ELSE SetSlot(slot, Top(1, s), pop(1, s))

GetLocal(i, s) ==
    LET v == Slot(Local(i, s), s) IN push(IF IsCell(v) THEN Object(v, s) ELSE v, s)

GetLocalCell(i, s) ==
    LET slot == Local(i, s)
        cell == NewObject("cell", Slot(slot, s), s)
    IN  IF IsCell(Slot(slot, s)) THEN push(Slot(slot, s), s)
        ELSE push(cell.v, SetSlot(slot, cell.v, cell.s))

\* A captured global is copied into a cell of its own.
MakeClosure(fn, numFree, s) ==
    LET AsCell(r, v) == IF IsCell(v) THEN Gives(Append(r.v, v), r.s)
                        ELSE LET c == NewObject("cell", v, r.s) IN Gives(Append(r.v, c.v), c.s)
        free == FoldLeft(AsCell, Gives(<<>>, pop(numFree, s)), TopValues(numFree, s))
        o    == NewClosure(fn, free.v, free.s)
    IN  push(o.v, o.s)

----------------------------------------------------------------------------
(* New instances *)

RECURSIVE InitFields(_, _, _)
\* The initial values of the fields.  A field whose code fails while a try is
\* open is left out, and the loop goes on in the state of the handler.
InitFields(fields, values, s) ==
    IF fields = <<>> THEN Gives(OnWith(values), s)
    ELSE LET f == Head(fields)
             With(v, t) == InitFields(Tail(fields), (f.name :> v) @@ values, t)
         IN  IF f.def.init = <<>> THEN With(f.def.default[1], s)
             ELSE LET r == CallCallable(f.def.init[1], <<>>, s)
                      h == handleError(r.v, r.s)
                  IN  IF ~IsError(r.v) THEN With(r.v, r.s)
                      ELSE IF h.v = Nil THEN InitFields(Tail(fields), values, h.s)
                      ELSE Gives(StopWith(h.v), h.s)

NewInstance(numArgs, s) ==
    LET args  == TopValues(numArgs, s)
        class == Top(numArgs + 1, s)
        Build(values, t) ==
            LET f    == NewObject("fields", values, t)
                inst == NewObject("instance", [class |-> class, fields |-> f.v], f.s)
                ctor == FindMethod(class, "constructor", s)
                m    == Method(inst.v, ctor[1], inst.s)
            IN  IF ctor = <<>> THEN IF numArgs > 0 THEN Fails(inst.s) ELSE push(inst.v, inst.s)
                ELSE Then(PushAll(<<m.v>> \o args, m.s), LAMBDA v, u :
                     LET c == callFunction(numArgs, u)
                     IN  IF c.v # Nil THEN handleError(c.v, c.s)
                         ELSE GoOn([c.s EXCEPT !.frames[Len(c.s.frames)].afterReturn = inst.v]))
    IN  IF class.t # "class" THEN Fails(pop(numArgs + 1, s))
        ELSE LET r == InitFields(FieldOrder(class, s), Empty, pop(numArgs + 1, s))
             IN  IF r.v.done THEN Gives(r.v.v, r.s) ELSE Build(r.v.acc, r.s)

----------------------------------------------------------------------------
(* Instructions *)

\* How many values of the stack an instruction looks at.
Needs(ins) ==
    CASE ins.op \in {"Pop", "Bang", "Minus", "JumpNotTruthy", "JumpTruthy", "JumpFalsyKeep",
                     "JumpTruthyKeep", "JumpNotNullKeep", "Dup", "SetGlobal", "SetLocal",
                     "SetFree", "ReturnValue", "Throw", "MakeIter", "HasIter", "IterValue",
                     "ParentRef"} -> 1
      [] ins.op \in {"Add", "Sub", "Mul", "Div", "Mod", "Pow", "Equal", "NotEqual",
                     "GreaterThan", "GreaterEqual", "Index"} -> 2
      [] ins.op = "SetIndex"        -> 3
      [] ins.op \in {"Call", "New"} -> ins.args[1] + 1
      [] ins.op = "CallBuiltin"     -> ins.args[2]
      [] ins.op = "Array"           -> ins.args[1]
      [] ins.op = "Hash"            -> 2 * ins.args[1]
      [] ins.op = "Closure"         -> ins.args[2]
      [] OTHER -> 0

\* The machine's own null is false; of another see IsTruthy.
isTruthy(v) == v \notin {Null, Bool(FALSE), Num(0), Str(<<>>)}

\* The jump is taken when its condition holds of the value on top, which is
\* popped unless it is kept by a jump that is taken.
Jump(ins, s) ==
    LET v     == Top(1, s)
        taken == CASE ins.op \in {"JumpNotTruthy", "JumpFalsyKeep"} -> ~isTruthy(v)
                   [] ins.op \in {"JumpTruthy", "JumpTruthyKeep"}   -> isTruthy(v)
                   [] ins.op = "JumpNotNullKeep" -> v # Null
        keep  == taken /\ ins.op \in {"JumpFalsyKeep", "JumpTruthyKeep", "JumpNotNullKeep"}
        t     == IF keep THEN s ELSE pop(1, s)
    IN  GoOn(IF taken THEN SetIp(ins.args[1] - 1, t) ELSE t)

\* A method left on the stack by a statement is called now.
PopTop(s) ==
    LET r == Resolve1(Top(1, s), pop(1, s))
    IN  IF Top(1, s).t = "bound" /\ IsError(r.v) THEN r ELSE GoOn(r.s)

\* The frame of a constructor returns the new instance.
ReturnWith(v, s) ==
    LET after == currentFrame(s).afterReturn
    IN  IF Len(s.frames) = 1 THEN Panics(s)
        ELSE push(IF after = Nil THEN v ELSE after, popFrame(s))

FreeVariable(ins, s) ==
    LET i    == ins.args[1]
        free == currentFrame(s).free
    IN  IF i >= Len(free) THEN Fails(s)
        ELSE CASE ins.op = "GetFreeCell" -> push(free[i + 1], s)
               [] ins.op = "GetFree"     -> push(Object(free[i + 1], s), s)
               [] ins.op = "SetFree"     -> GoOn(SetObject(free[i + 1], Top(1, s), pop(1, s)))

Variable(ins, s) ==
    LET i == ins.args[1]
    IN  CASE ins.op = "SetGlobal" -> GoOn([pop(1, s) EXCEPT !.globals = (i :> Top(1, s)) @@ @])
          [] ins.op = "GetGlobal" -> push(IF Has(s.globals, i) THEN s.globals[i] ELSE Nil, s)
          [] ins.op = "SetLocal"  -> GoOn(SetLocal(i, s))
          [] ins.op = "GetLocal"  -> GetLocal(i, s)
          [] ins.op = "GetLocalCell" -> GetLocalCell(i, s)

CallNamed(name, argc, s) ==
    LET args == ResolveAll(TopValues(argc, s), pop(argc, s))
    IN  IF \E i \in DOMAIN args.v : args.v[i] = Panic THEN Panics(args.s)
        ELSE PushResult(CallBuiltin(name, args.v, args.s))

Throw(v, s) == IF v = Nil THEN Panics(s) ELSE Gives(Err(Inspect(v, s)), s)

Exec(ins, s) ==
    LET v == Top(1, s)
    IN
    CASE ins.op = "Constant" -> push(s.constants[ins.args[1] + 1], s)
      [] ins.op = "True"     -> push(Bool(TRUE), s)
      [] ins.op = "False"    -> push(Bool(FALSE), s)
      [] ins.op = "Null"     -> push(Null, s)
      [] ins.op = "Pop"      -> PopTop(s)
      [] ins.op = "Dup"      -> push(v, s)
      [] ins.op = "Bang"     -> push(Bool(~isTruthy(v)), pop(1, s))
      [] ins.op = "Minus"    -> IF IsNum(v) THEN push(Num(-v.num), pop(1, s)) ELSE Fails(pop(1, s))
      [] ins.op = "Jump"     -> GoOn(SetIp(ins.args[1] - 1, s))
      [] ins.op \in {"JumpNotTruthy", "JumpTruthy", "JumpFalsyKeep", "JumpTruthyKeep",
                     "JumpNotNullKeep"} -> Jump(ins, s)
      [] ins.op \in {"Add", "Sub", "Mul", "Div", "Mod", "Pow"} -> executeBinary(ins.op, s)
      [] ins.op \in {"Equal", "NotEqual", "GreaterThan", "GreaterEqual"} -> executeComparison(ins.op, s)
      [] ins.op \in {"SetGlobal", "GetGlobal", "SetLocal", "GetLocal", "GetLocalCell"} -> Variable(ins, s)
      [] ins.op \in {"GetFree", "SetFree", "GetFreeCell"} -> FreeVariable(ins, s)
      [] ins.op = "Closure"  -> MakeClosure(s.constants[ins.args[1] + 1], ins.args[2], s)
      [] ins.op = "Call"     -> callFunction(ins.args[1], s)
      [] ins.op = "CallBuiltin" -> CallNamed(ins.args[1], ins.args[2], s)
      [] ins.op = "ReturnValue" -> ReturnWith(v, pop(1, s))
      [] ins.op = "Return"   -> ReturnWith(Null, s)
      [] ins.op = "Array"    -> MakeArray(ins.args[1], s)
      [] ins.op = "Hash"     -> MakeHash(ins.args[1], s)
      [] ins.op = "Index"    -> executeIndex(Top(2, s), v, pop(2, s))
      [] ins.op = "SetIndex" -> executeSetIndex(Top(3, s), Top(2, s), v, pop(3, s))
      [] ins.op = "SetupTry" ->
            GoOn([s EXCEPT !.handlers = Append(@, [catchIP |-> ins.args[1],
                                                   frameIndex |-> Len(s.frames), stackPointer |-> s.sp])])
      [] ins.op = "EndTry"   -> GoOn([s EXCEPT !.handlers = IF @ = <<>> THEN @ ELSE Front(@)])
      [] ins.op = "Throw"    -> Throw(v, pop(1, s))
      [] ins.op = "MakeIter" -> makeIterator(v, pop(1, s))
      [] ins.op = "HasIter"  ->
            IF v.t # "iterator" THEN Fails(s)
            ELSE push(Bool(Object(v, s).index < Len(Object(v, s).values)), s)
      [] ins.op = "IterValue" -> IterValue(v, s)
      [] ins.op = "ParentRef" ->
            IF v.t = "instance" THEN push([t |-> "parent", self |-> v], pop(1, s)) ELSE Fails(pop(1, s))
      [] ins.op = "New"      -> NewInstance(ins.args[1], s)

\* The instructions whose every error a handler may take; a push that finds the
\* stack full in another ends the run.
Guarded == {"Add", "Sub", "Mul", "Div", "Mod", "Pow", "Equal", "NotEqual", "GreaterThan",
            "GreaterEqual", "Call", "Index", "SetIndex"}

\* One turn of the loop of Run.  A byte inside an instruction is no opcode of
\* the program's: what it names is outside the constants of a short program.
Step(s) ==
    LET f  == currentFrame(s)
        ip == f.ip + 1
        ins == Code(s)[ip + 1]
        r  == Exec(ins, SetIp(ip + Bytes(ins.op) - 1, s))
    IN  IF s.runBase > 0 /\ Len(s.frames) <= s.runBase THEN Gives(Done, s)
        ELSE IF ip >= Len(Code(s))
        THEN IF Len(s.frames) > 1 THEN push(Null, popFrame(s)) ELSE Gives(Done, s)
        ELSE IF ins = Operand \/ s.sp < Needs(ins) THEN Panics(s)
        ELSE IF r.v = Nil \/ r.v = Panic \/ (r.v = Overflow /\ ins.op \notin Guarded) THEN r
        ELSE handleError(r.v, r.s)

Run(s) == LET r == Step(s) IN IF r.v = Nil THEN Run(r.s) ELSE r

\* The machine for a program, unless something in it is not supported.
CompileSource(program, s) ==
    LET c == CompileAll(program, NewCompiler(s))
    IN  IF c.bad THEN Gives(Err(<<Unsupported>>), s) ELSE Gives(Nil, NewVM(c))
=============================================================================
