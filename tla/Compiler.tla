------------------------------ MODULE Compiler ------------------------------
(***************************************************************************)
(* The compiler to bytecode (internal/compiler, internal/code).  A program *)
(* is compiled in one pass; the places of jumps are filled in later, and   *)
(* the last instruction of a block is looked at to turn a statement into   *)
(* a value.  Places are byte offsets, as in the code: an instruction takes *)
(* as many cells of the sequence as it has bytes, its own and one Operand  *)
(* for each byte of its operands.                                          *)
(*                                                                         *)
(* A compiler c has the constants, the symbol tables and scopes (a stack   *)
(* of each, the global one first), the open loops, the classes, and bad,   *)
(* which is set by the first error.  What is emitted after an error is     *)
(* thrown away with the rest.                                              *)
(***************************************************************************)
EXTENDS Evaluator

Operand == [op |-> "operand", args |-> <<>>]

\* The bytes of an instruction.
Bytes(op) ==
    CASE op \in {"Constant", "JumpNotTruthy", "Jump", "GetGlobal", "SetGlobal", "GetLocal",
                 "SetLocal", "CallBuiltin", "Array", "Hash", "SetupTry", "GetFree", "SetFree",
                 "GetLocalCell", "GetFreeCell", "JumpFalsyKeep", "JumpTruthyKeep",
                 "JumpTruthy", "JumpNotNullKeep"} -> 3
      [] op = "Closure" -> 4
      [] op \in {"Call", "New"} -> 2
      [] OTHER -> 1

Make(op, args) ==
    <<[op |-> op, args |-> args]>> \o [i \in 1 .. Bytes(op) - 1 |-> Operand]

NoInstruction == [op |-> "Constant", pos |-> 0]
NewScope      == [ins |-> <<>>, last |-> NoInstruction, prev |-> NoInstruction]
NewSymbolTable == [store |-> Empty, numDefs |-> 0, free |-> <<>>]

NewCompiler(s) ==
    [constants |-> <<>>, tables |-> <<NewSymbolTable>>, scopes |-> <<NewScope>>,
     loops |-> <<>>, classes |-> Empty, baseDir |-> <<>>, included |-> {},
     s |-> s, bad |-> FALSE]

Bad(c)   == [c EXCEPT !.bad = TRUE]
Scope0(c) == Last(c.scopes)
Here(c)  == Len(Scope0(c).ins)

emit(op, args, c) ==
    [c EXCEPT !.scopes[Len(c.scopes)] =
        [ins  |-> @.ins \o Make(op, args), prev |-> @.last,
         last |-> [op |-> op, pos |-> Len(@.ins)]]]

addConstant(v, c) == [c EXCEPT !.constants = Append(@, v)]
emitConstant(v, c) == emit("Constant", <<Len(c.constants)>>, addConstant(v, c))

lastInstructionIs(op, c) == Here(c) > 0 /\ Scope0(c).last.op = op

\* The instructions are cut at the last one; the one before it becomes the last.
removeLastPop(c) ==
    [c EXCEPT !.scopes[Len(c.scopes)] =
        [ins |-> SubSeq(@.ins, 1, @.last.pos), last |-> @.prev, prev |-> @.prev]]

DropLastPop(c) == IF lastInstructionIs("Pop", c) THEN removeLastPop(c) ELSE c

replaceLastPopWithReturn(c) ==
    [c EXCEPT !.scopes[Len(c.scopes)] =
        [@ EXCEPT !.ins[@.last.pos + 1].op = "ReturnValue", !.last.op = "ReturnValue"]]

changeOperand(pos, target, c) ==
    [c EXCEPT !.scopes[Len(c.scopes)].ins[pos + 1].args = <<target>>]

\* The jump emitted at each of the places goes to where the code is now.
Patch(places, c) == FoldLeft(LAMBDA d, p : changeOperand(p, Here(d), d), c, places)

----------------------------------------------------------------------------
(* Symbols *)

\* A name gets the next place of its table, also when it has one already.
Define(name, c) ==
    LET d == Len(c.tables)
        t == c.tables[d]
        symbol == [name |-> name, scope |-> IF d = 1 THEN "Global" ELSE "Local", index |-> t.numDefs]
    IN  [sym |-> <<symbol>>,
         c |-> [c EXCEPT !.tables[d].store = (name :> symbol) @@ @, !.tables[d].numDefs = @ + 1]]

defineFree(original, d, c) ==
    LET symbol == [name |-> original.name, scope |-> "Free", index |-> Len(c.tables[d].free)]
    IN  [sym |-> <<symbol>>,
         c |-> [c EXCEPT !.tables[d].store = (original.name :> symbol) @@ @,
                         !.tables[d].free = Append(@, original)]]

RECURSIVE ResolveAt(_, _, _)
\* The symbol of a name in the table of depth d, as a sequence of at most one.
\* A local of an outer function becomes a free variable of every function between.
ResolveAt(name, d, c) ==
    IF Has(c.tables[d].store, name) THEN [sym |-> <<c.tables[d].store[name]>>, c |-> c]
    ELSE IF d = 1 THEN [sym |-> <<>>, c |-> c]
    ELSE LET r == ResolveAt(name, d - 1, c)
         IN  IF r.sym = <<>> \/ r.sym[1].scope = "Global" THEN r
             ELSE defineFree(r.sym[1], d, r.c)

Resolve(name, c) == ResolveAt(name, Len(c.tables), c)

ResolveOrDefine(name, c) ==
    LET r == Resolve(name, c) IN IF r.sym = <<>> THEN Define(name, c) ELSE r

loadGet(symbol, c) == emit("Get" \o symbol.scope, <<symbol.index>>, c)
loadSet(symbol, c) == emit("Set" \o symbol.scope, <<symbol.index>>, c)

\* A mutation: the value of a captured variable instead of its cell.
loadCopy(symbol, c) == loadGet(symbol, c)

\* The cell of a captured variable, shared with the function it belongs to.
loadFreeSource(symbol, c) ==
    IF symbol.scope = "Global" THEN loadGet(symbol, c)
    ELSE emit("Get" \o symbol.scope \o "Cell", <<symbol.index>>, c)

\* The value on the stack becomes that of the name.
Store(r)          == loadSet(r.sym[1], r.c)
StoreNew(name, c) == Store(Define(name, c))
StoreIn(name, c)  == Store(ResolveOrDefine(name, c))

LoadName(name, c) ==
    LET r == Resolve(name, c) IN IF r.sym = <<>> THEN Bad(c) ELSE loadGet(r.sym[1], r.c)

enterScope(c) ==
    [c EXCEPT !.scopes = Append(@, NewScope), !.tables = Append(@, NewSymbolTable)]

leaveScope(c) == [c EXCEPT !.scopes = Front(@), !.tables = Front(@)]

pushLoop(continuePos, c) == [c EXCEPT !.loops = Append(@, [pos |-> continuePos, breaks |-> <<>>])]

popLoop(breakTarget, c) ==
    [FoldLeft(LAMBDA d, p : changeOperand(p, breakTarget, d), c, Last(c.loops).breaks)
     EXCEPT !.loops = Front(@)]

----------------------------------------------------------------------------
(* Constants *)

\* The value of a literal, as a sequence of at most one.
constantObject(node) == IF node.k = "lit" THEN <<node.v>> ELSE <<>>

\* Whether a constant is true, and whether two are equal.
isTruthyObj(v) == v \notin {Null, Bool(FALSE), Num(0), Str(<<>>)}
objectsEqualFold(a, b) == a.t \in {"number", "string", "boolean", "null"} /\ a = b

foldInfix(op, a, b) ==
    IF op = "+" /\ "string" \in {a.t, b.t}
    THEN <<Str(Inspect(a, Empty) \o Inspect(b, Empty))>>
    ELSE IF IsNum(a) /\ IsNum(b)
    THEN IF op \in {"/", "%"} /\ b.num = 0 THEN <<>>
         ELSE <<evalNumberInfix(op, a.num, b.num, Empty).v>>
    ELSE CASE op = "==" -> <<Bool(objectsEqualFold(a, b))>>
           [] op = "!=" -> <<Bool(~objectsEqualFold(a, b))>>
           [] OTHER     -> <<>>

RECURSIVE tryFoldExpr(_)
\* What an expression of literals is worth, where the compiler works it out.
tryFoldExpr(node) ==
    CASE node.k = "lit" -> <<node.v>>
      [] node.k = "prefix" ->
            LET v == tryFoldExpr(node.x)
            IN  IF v = <<>> THEN <<>>
                ELSE IF node.op = "!" THEN <<Bool(~isTruthyObj(v[1]))>>
                ELSE IF IsNum(v[1]) THEN <<Num(-v[1].num)>> ELSE <<>>
      [] node.k = "infix" ->
            LET a == tryFoldExpr(node.l)
                b == tryFoldExpr(node.r)
            IN  IF a = <<>> THEN <<>>
                ELSE (CASE node.op = "and" -> IF isTruthyObj(a[1]) THEN b ELSE a
                        [] node.op = "or"  -> IF isTruthyObj(a[1]) THEN a ELSE b
                        [] node.op = "??"  -> IF a[1] = Null THEN b ELSE a
                        [] OTHER -> IF b = <<>> THEN <<>> ELSE foldInfix(node.op, a[1], b[1]))
      [] OTHER -> <<>>

emitFolded(v, c) ==
    CASE v.t = "boolean" -> emit(IF v.bool THEN "True" ELSE "False", <<>>, c)
      [] v.t = "null"    -> emit("Null", <<>>, c)
      [] OTHER           -> emitConstant(v, c)

----------------------------------------------------------------------------
(* Functions and classes *)

RECURSIVE Compile(_, _)
CompileAll(nodes, c) == FoldLeft(LAMBDA d, n : Compile(n, d), c, nodes)

\* The function's code ends in a return: a last statement that is popped is
\* returned in its stead, and after any other one the function returns null.
compileFunction(node, asMethod, c) ==
    LET params  == node.params
        Fixed(p) == p.default = <<>> \/ constantObject(p.default[1]) # <<>>
        ordered == \A i, j \in DOMAIN params :
                      i < j /\ params[i].default # <<>> => params[j].default # <<>>
        names   == (IF asMethod THEN <<"this">> ELSE <<>>) \o [i \in DOMAIN params |-> params[i].name]
        entered == FoldLeft(LAMBDA d, n : Define(n, d).c, enterScope(c), names)
        body    == CompileAll(node.body, entered)
        last    == IF lastInstructionIs("Pop", body) THEN replaceLastPopWithReturn(body) ELSE body
        ended   == IF lastInstructionIs("ReturnValue", last) \/ lastInstructionIs("Return", last)
                   THEN last ELSE emit("Return", <<>>, last)
        table   == Last(ended.tables)
        defaults == (IF asMethod THEN <<<<>>>> ELSE <<>>)
                    \o [i \in DOMAIN params |-> IF params[i].default = <<>> THEN <<>>
                                                ELSE constantObject(params[i].default[1])]
        fn      == NewCompiled(Scope0(ended).ins, table.numDefs, Len(names),
                               Required(params) + (IF asMethod THEN 1 ELSE 0), defaults, ended.s)
        left    == [leaveScope(ended) EXCEPT !.s = fn.s]
    IN  IF ordered /\ \A i \in DOMAIN params : Fixed(params[i])
        THEN [fn |-> fn.v, free |-> table.free, c |-> left]
        ELSE [fn |-> Null, free |-> <<>>, c |-> Bad(c)]

CompileFn(node, c) ==
    LET f == compileFunction(node, FALSE, c)
        d == addConstant(f.fn, f.c)
    IN  emit("Closure", <<Len(f.c.constants), Len(f.free)>>,
             FoldLeft(LAMBDA e, sym : loadFreeSource(sym, e), d, f.free))

\* A field whose value is not a literal has code of its own.
compileFieldInit(expr, c) ==
    LET d == emit("ReturnValue", <<>>, Compile(expr, enterScope(c)))
        f == NewCompiled(Scope0(d).ins, Last(d.tables).numDefs, 0, 0, <<>>, d.s)
    IN  [fn |-> f.v, c |-> [leaveScope(d) EXCEPT !.s = f.s]]

\* A method may use globals but no variable of a function around the class.
compileClass(node, c) ==
    LET known  == node.parent = <<>> \/ Has(c.classes, node.parent[1])
        parent == IF node.parent = <<>> \/ ~known THEN Null ELSE c.classes[node.parent[1]]
        blank  == NewClass(node.name, parent, c.s)
        class  == blank.v
        Into(table, x, d, def) ==
            [d EXCEPT !.s = SetObject(class, [Object(class, d.s) EXCEPT ![table] = (x.name :> def) @@ @], d.s)]
        Field(x, d, default, init) ==
            Into("fields", x, d, NewField([default |-> default, init |-> init], x.public, class))
        Add(d, x) ==
            IF x.value = <<>> THEN Field(x, d, <<Null>>, <<>>)
            ELSE IF x.value[1].k = "fn"
            THEN LET f == compileFunction(x.value[1], TRUE, d)
                 IN  IF f.free # <<>> THEN Bad(f.c)
                     ELSE Into("methods", x, f.c, NewMethod(f.fn, x.public, class))
            ELSE IF constantObject(x.value[1]) # <<>>
            THEN Field(x, d, constantObject(x.value[1]), <<>>)
            ELSE LET f == compileFieldInit(x.value[1], d) IN Field(x, f.c, <<>>, <<f.fn>>)
        built  == FoldLeft(Add, [c EXCEPT !.s = blank.s], node.body)
    IN  IF ~known THEN Bad(c)
        ELSE StoreNew(node.name, emitConstant(class,
                 [built EXCEPT !.classes = (node.name :> class) @@ @]))

\* The code of an included file goes where the statement is, once; only the
\* directory of the including file is searched.
compileInclude(node, c) ==
    LET name == Last(node.path)
        full == c.baseDir \o node.path
        lib  == LoadBuiltin(name, c.s)
    IN  CASE Has(BuiltinNames, name) ->
                StoreNew(name, emitConstant(lib.v, [c EXCEPT !.s = lib.s]))
          [] ~Has(BuiltinNames, name) /\ full \in c.included -> c
          [] OTHER ->
                IF full \notin DOMAIN Files THEN Bad(c)
                ELSE IF ~Files[full].parses THEN Bad(c)
                ELSE [CompileAll(Files[full].body,
                        [c EXCEPT !.included = @ \cup {full}, !.baseDir = Front(full)])
                      EXCEPT !.baseDir = c.baseDir]

----------------------------------------------------------------------------
(* Statements *)

\* Each branch leaves a value, which is popped after them.
CompileIf(node, c) ==
    LET c1 == Compile(node.cond, c)
        c2 == emit("JumpNotTruthy", <<9999>>, c1)
        c3 == DropLastPop(CompileAll(node.then, c2))
        c4 == Patch(<<Here(c1)>>, emit("Jump", <<9999>>, c3))
        c5 == IF node.else = <<>> THEN emit("Null", <<>>, c4)
              ELSE DropLastPop(CompileAll(node.else[1], c4))
    IN  emit("Pop", <<>>, Patch(<<Here(c3)>>, c5))

\* The value stays on the stack while the cases are tried.
CompileCase(cas, jumps, c) ==
    LET n == Len(cas.values)
        Try(d, i) ==
            LET e == emit("Equal", <<>>, Compile(cas.values[i], emit("Dup", <<>>, d.c)))
            IN  IF i = n THEN [d EXCEPT !.c = e]
                ELSE [jumps |-> Append(d.jumps, Here(e)), c |-> emit("JumpTruthy", <<9999>>, e)]
        t  == FoldLeft(Try, [jumps |-> <<>>, c |-> c], [i \in 1 .. n |-> i])
        c1 == Patch(t.jumps, emit("JumpNotTruthy", <<9999>>, t.c))
        c2 == DropLastPop(CompileAll(cas.body, emit("Pop", <<>>, c1)))
    IN  IF n = 0 THEN [jumps |-> jumps, c |-> c]
        ELSE [jumps |-> Append(jumps, Here(c2)),
              c |-> Patch(<<Here(t.c)>>, emit("Jump", <<9999>>, c2))]

CompileSwitch(node, c) ==
    LET t  == FoldLeft(LAMBDA d, cas : CompileCase(cas, d.jumps, d.c),
                       [jumps |-> <<>>, c |-> Compile(node.x, c)], node.cases)
        c1 == emit("Pop", <<>>, t.c)
        c2 == IF node.default = <<>> THEN emit("Null", <<>>, c1)
              ELSE DropLastPop(CompileAll(node.default[1], c1))
    IN  emit("Pop", <<>>, Patch(t.jumps, c2))

CompileWhile(node, c) ==
    LET start == Here(c)
        c1 == Compile(node.cond, pushLoop(start, c))
        c2 == CompileAll(node.body, emit("JumpNotTruthy", <<9999>>, c1))
        c3 == Patch(<<Here(c1)>>, emit("Jump", <<start>>, c2))
    IN  popLoop(Here(c3), c3)

\* A mutation: the iterator is never taken off the stack.
ForInWithoutPop(node, c) ==
    LET c1    == emit("MakeIter", <<>>, Compile(node.x, c))
        start == Here(c1)
        c2    == emit("HasIter", <<>>, pushLoop(start, c1))
        c3    == emit("IterValue", <<>>, emit("JumpNotTruthy", <<9999>>, c2))
        c4    == CompileAll(node.body, StoreIn(node.name, c3))
        c5    == Patch(<<Here(c2)>>, emit("Jump", <<start>>, c4))
    IN  popLoop(Here(c5), c5)

\* The iterator stays on the stack; a break goes to the pop that removes it.
CompileForIn(node, c) ==
    LET c1    == emit("MakeIter", <<>>, Compile(node.x, c))
        start == Here(c1)
        c2    == emit("HasIter", <<>>, pushLoop(start, c1))
        c3    == emit("IterValue", <<>>, emit("JumpNotTruthy", <<9999>>, c2))
        c4    == CompileAll(node.body, StoreIn(node.name, c3))
        c5    == Patch(<<Here(c2)>>, emit("Jump", <<start>>, c4))
    IN  popLoop(Here(c5), emit("Pop", <<>>, c5))

\* The end and the step are kept in variables named after the depth of loops.
compileForRange(node, c) ==
    LET depth == ToString(Len(c.loops))
        r0  == ResolveOrDefine(node.name, Compile(node.from, c))
        var == r0.sym[1]
        r1  == Define("end " \o depth, Compile(node.to, Store(r0)))
        end == r1.sym[1]
        c2  == IF node.step = <<>> THEN emitConstant(Num(1), Store(r1)) ELSE Compile(node.step[1], Store(r1))
        r2  == Define("step " \o depth, c2)
        step == r2.sym[1]
        c3  == Store(r2)
        inc == Here(c3) + Bytes("Jump")
        c4  == pushLoop(inc, emit("Jump", <<9999>>, c3))
        c5  == Patch(<<Here(c3)>>,
                     loadSet(var, emit("Add", <<>>, loadGet(step, loadGet(var, c4)))))
        c6  == emit("GreaterThan", <<>>, emitConstant(Num(0), loadGet(step, c5)))
        c7  == emit("GreaterEqual", <<>>, loadGet(var, loadGet(end, emit("JumpNotTruthy", <<9999>>, c6))))
        c8  == Patch(<<Here(c6)>>, emit("Jump", <<9999>>, c7))
        c9  == Patch(<<Here(c7)>>, emit("GreaterEqual", <<>>, loadGet(end, loadGet(var, c8))))
        c10 == emit("Jump", <<inc>>, CompileAll(node.body, emit("JumpNotTruthy", <<9999>>, c9)))
    IN  popLoop(Here(c10), Patch(<<Here(c9)>>, c10))

\* The innermost open loop, of whatever function it is.
CompileBreak(c) ==
    IF c.loops = <<>> THEN Bad(c)
    ELSE [emit("Jump", <<9999>>, c) EXCEPT !.loops[Len(c.loops)].breaks = Append(@, Here(c))]

CompileContinue(c) ==
    IF c.loops = <<>> THEN Bad(c) ELSE emit("Jump", <<Last(c.loops).pos>>, c)

\* The handler finds the message on the stack.
CompileTry(node, c) ==
    LET c1 == emit("EndTry", <<>>, CompileAll(node.body, emit("SetupTry", <<9999>>, c)))
        c2 == Patch(<<Here(c)>>, emit("Jump", <<9999>>, c1))
    IN  Patch(<<Here(c1)>>, CompileAll(node.catch, StoreIn(node.name, c2)))

CompileThrow(node, c) == emit("Throw", <<>>, Compile(node.x, c))

----------------------------------------------------------------------------
(* Expressions *)

Opcode(op) ==
    [o \in {"+", "-", "*", "/", "%", "**", ">", ">=", "==", "!="} |->
        CASE o = "+" -> "Add" [] o = "-" -> "Sub" [] o = "*" -> "Mul" [] o = "/" -> "Div"
          [] o = "%" -> "Mod" [] o = "**" -> "Pow" [] o = ">" -> "GreaterThan"
          [] o = ">=" -> "GreaterEqual" [] o = "==" -> "Equal" [] o = "!=" -> "NotEqual"][op]

\* 'this' and 'parent' are allowed in methods alone, where the receiver is the
\* first local variable.
LoadThis(c)   == LoadName("this", c)
LoadParent(c) == emit("ParentRef", <<>>, LoadThis(c))

CompileNew(node, c) ==
    emit("New", <<Len(node.args)>>, CompileAll(node.args, LoadName(node.name, c)))

CompilePrefix(node, c) ==
    IF tryFoldExpr(node) # <<>> THEN emitFolded(tryFoldExpr(node)[1], c)
    ELSE emit(IF node.op = "!" THEN "Bang" ELSE "Minus", <<>>, Compile(node.x, c))

\* The jump keeps the left value when it decides; '<' is '>' with the sides changed.
CompileInfix(node, c) ==
    LET keep == CASE node.op = "and" -> "JumpFalsyKeep"
                  [] node.op = "or"  -> "JumpTruthyKeep"
                  [] OTHER           -> "JumpNotNullKeep"
        left == Compile(node.l, c)
    IN  CASE tryFoldExpr(node) # <<>> -> emitFolded(tryFoldExpr(node)[1], c)
          [] tryFoldExpr(node) = <<>> /\ node.op \in {"and", "or", "??"} ->
                Patch(<<Here(left)>>, Compile(node.r, emit(keep, <<9999>>, left)))
          [] tryFoldExpr(node) = <<>> /\ node.op \in {"<", "<="} ->
                emit(IF node.op = "<" THEN "GreaterThan" ELSE "GreaterEqual", <<>>,
                     Compile(node.l, Compile(node.r, c)))
          [] OTHER -> emit(Opcode(node.op), <<>>, Compile(node.r, left))

\* The value of the assignment stays on the stack.
CompileAssign(node, c) ==
    LET left == node.left
        r    == ResolveOrDefine(left.name, Compile(node.value, c))
    IN  CASE left.k = "id"     -> loadGet(r.sym[1], Store(r))
          [] left.k = "index"  ->
                emit("SetIndex", <<>>, Compile(node.value, Compile(left.i, Compile(left.x, c))))
          [] left.k = "member" ->
                emit("SetIndex", <<>>, Compile(node.value,
                     emitConstant(Str(<<left.name>>), Compile(left.x, c))))
          [] OTHER -> Bad(c)

\* A built-in function is called by an index of its own; here it is its name.
BuiltinIndex(node) == node.k = "id" /\ node.name \in Builtins

\* A call by the name of a built-in function never looks the name up.
CompileCall(node, c) ==
    LET n == Len(node.args)
    IN  IF BuiltinIndex(node.f)
        THEN emit("CallBuiltin", <<node.f.name, n>>, CompileAll(node.args, c))
        ELSE emit("Call", <<n>>, CompileAll(node.args, Compile(node.f, c)))

CompileStatement(node, c) ==
    CASE node.k = "expr"     -> emit("Pop", <<>>, Compile(node.x, c))
      [] node.k = "var"      ->
            StoreNew(node.name, IF node.value = <<>> THEN emit("Null", <<>>, c) ELSE Compile(node.value[1], c))
      [] node.k = "set"      -> StoreIn(node.name, Compile(node.value, c))
      [] node.k = "return"   ->
            emit("ReturnValue", <<>>,
                 IF node.value = <<>> THEN emit("Null", <<>>, c) ELSE Compile(node.value[1], c))
      [] node.k = "if"       -> CompileIf(node, c)
      [] node.k = "switch"   -> CompileSwitch(node, c)
      [] node.k = "while"    -> CompileWhile(node, c)
      [] node.k = "forin"    -> CompileForIn(node, c)
      [] node.k = "forrange" -> compileForRange(node, c)
      [] node.k = "break"    -> CompileBreak(c)
      [] node.k = "continue" -> CompileContinue(c)
      [] node.k = "class"    -> compileClass(node, c)
      [] node.k = "include"  -> compileInclude(node, c)
      [] node.k = "module"   -> c
      [] node.k = "export"   -> Compile(node.stmt, c)
      [] node.k = "try"      -> CompileTry(node, c)
      [] node.k = "throw"    -> CompileThrow(node, c)
      [] node.k \in {"import", "enum"} -> Bad(c)

CompileExpression(node, c) ==
    CASE node.k = "lit"      -> emitFolded(node.v, c)
      [] node.k = "prefix"   -> CompilePrefix(node, c)
      [] node.k = "infix"    -> CompileInfix(node, c)
      [] node.k = "id"       -> LoadName(node.name, c)
      [] node.k = "fn"       -> CompileFn(node, c)
      [] node.k = "this"     -> LoadThis(c)
      [] node.k = "parent"   -> LoadParent(c)
      [] node.k = "member"   ->
            emit("Index", <<>>, emitConstant(Str(<<node.name>>), Compile(node.x, c)))
      [] node.k = "index"    -> emit("Index", <<>>, Compile(node.i, Compile(node.x, c)))
      [] node.k = "new"      -> CompileNew(node, c)
      [] node.k = "assign"   -> CompileAssign(node, c)
      [] node.k = "array"    -> emit("Array", <<Len(node.els)>>, CompileAll(node.els, c))
      [] node.k = "hash"     -> emit("Hash", <<Len(node.pairs)>>, CompileAll(FlattenSeq(node.pairs), c))
      [] node.k = "call"     -> CompileCall(node, c)
      [] node.k = "template" -> Bad(c)

Compile(node, c) ==
    IF c.bad THEN c
    ELSE IF node.k \in Statements THEN CompileStatement(node, c)
    ELSE CompileExpression(node, c)
=============================================================================
