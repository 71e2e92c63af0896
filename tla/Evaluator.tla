----------------------------- MODULE Evaluator -----------------------------
(***************************************************************************)
(* The evaluator (internal/evaluator): it runs a program by walking its    *)
(* tree.  A node is a record whose field k names its kind; a block is a    *)
(* sequence of statements, and a part that may be missing is a sequence of *)
(* at most one.  An environment is an object of the heap.                  *)
(*                                                                         *)
(* Eval(node, env, s) gives a value and the state after it.  A return, a   *)
(* break and a continue are values too, as in the code, and travel up      *)
(* through the blocks until something stops them.                          *)
(***************************************************************************)
EXTENDS Libraries

\* The files a program may include: a path, a sequence of names, to a program,
\* with whether its text parses.
CONSTANT Files

Return(v) == [t |-> "return", v |-> v]
Break     == [t |-> "break"]
Continue  == [t |-> "continue"]
Stops(v)  == v.t \in {"return", "break", "continue", "error"}

\* An error with the line it happened on before its message.
newError(s) == Gives(Err(<<Line, Failed>>), s)

Builtins == {"print", "length", "append", "toNumber", "toString", "type", "range"}
Builtin(name) == [t |-> "builtin", name |-> name]

\* The names of the standard functions are defined in every global environment.
\* dir is where the paths of a file start; the environments of a file share the
\* set of files it has included, at the place unit.
NewEnvironment(outer, class, dir, unit, s) ==
    NewObject("env",
        [store |-> IF outer = Null THEN [n \in Builtins |-> Builtin(n)] ELSE Empty,
         outer |-> outer, class |-> class, dir |-> dir, unit |-> unit, exports |-> {}], s)

NewEnclosedEnvironment(outer, s) ==
    LET o == Object(outer, s) IN NewEnvironment(outer, o.class, o.dir, o.unit, s)

\* A new module each time, with the functions of the library.
LoadBuiltin(name, s) ==
    NewObject("module", [n \in BuiltinNames[name] |-> Builtin(n)], s)

\* The library of results is there without an include.
NewGlobalEnv(dir, s) ==
    LET u   == NewObject("unit", {}, s)
        e   == NewEnvironment(Null, Null, dir, u.v, u.s)
        lib == LoadBuiltin("result", e.s)
    IN  Gives(e.v, SetObject(e.v, [Object(e.v, lib.s) EXCEPT !.store = ("result" :> lib.v) @@ @], lib.s))

SetDir(env, dir, s)  == SetObject(env, [Object(env, s) EXCEPT !.dir = dir], s)
CurrentClass(env, s) == Object(env, s).class

RECURSIVE Scope(_, _, _)
\* The nearest environment that has the name, Null when none has it.
Scope(env, name, s) ==
    IF env = Null \/ Has(Object(env, s).store, name) THEN env
    ELSE Scope(Object(env, s).outer, name, s)

Defined(env, name, s) == Scope(env, name, s) # Null
Lookup(env, name, s)  == Object(Scope(env, name, s), s).store[name]

Set(env, name, v, s) ==
    SetObject(env, [Object(env, s) EXCEPT !.store = (name :> v) @@ @], s)

\* An assignment changes the nearest variable of that name, or makes one here.
Assign(env, name, v, s) ==
    Set(IF Defined(env, name, s) THEN Scope(env, name, s) ELSE env, name, v, s)

----------------------------------------------------------------------------
(* Operators *)

evalPrefix(op, right, s) ==
    CASE op = "!" -> Gives(Bool(~IsTruthy(right)), s)
      [] op = "-" -> IF IsNum(right) THEN Gives(Num(-right.num), s) ELSE newError(s)

evalNumberInfix(op, a, b, s) ==
    CASE op = "+"  -> Gives(Num(a + b), s)
      [] op = "-"  -> Gives(Num(a - b), s)
      [] op = "*"  -> Gives(Num(a * b), s)
      [] op = "**" -> Gives(Num(Power(a, b)), s)
      [] op = "/"  -> IF b = 0 THEN newError(s) ELSE Gives(Num(SignOf(a) * SignOf(b) * (AbsOf(a) \div AbsOf(b))), s)
      [] op = "%"  -> IF b = 0 THEN newError(s) ELSE Gives(Num(TruncMod(a, b)), s)
      [] op = "<"  -> Gives(Bool(a < b), s)
      [] op = ">"  -> Gives(Bool(a > b), s)
      [] op = "<=" -> Gives(Bool(a <= b), s)
      [] op = ">=" -> Gives(Bool(a >= b), s)
      [] op = "==" -> Gives(Bool(a = b), s)
      [] op = "!=" -> Gives(Bool(a # b), s)

evalInfix(op, left, right, s) ==
    CASE IsNum(left) /\ IsNum(right) -> evalNumberInfix(op, left.num, right.num, s)
      [] op = "+" /\ "string" \in {left.t, right.t} /\ ~(IsNum(left) /\ IsNum(right)) ->
            Gives(Str(Inspect(left, s) \o Inspect(right, s)), s)
      [] op = "==" /\ ~(IsNum(left) /\ IsNum(right)) -> Gives(Bool(Same(left, right)), s)
      [] op = "!=" /\ ~(IsNum(left) /\ IsNum(right)) -> Gives(Bool(~Same(left, right)), s)
      [] OTHER -> newError(s)

\* The functions the language is born with; a failure has no line.
CallBuiltin(name, args, s) ==
    CASE name = "print" ->
            Gives(Null, [s EXCEPT !.out = Append(@,
                Join([i \in DOMAIN args |-> Inspect(args[i], s)], <<" ">>))])
      [] name = "range" -> MakeRange(args, s)
      [] name = "append" ->
            IF Len(args) < 2 \/ args[1].t # "array" THEN Fails(s)
            ELSE Gives(args[1], FoldLeft(LAMBDA t, v : AppendElements(args[1], <<v>>, t),
                                         s, Tail(args)))
      [] name \in LibraryFunctions -> CallLibrary(name, args, s)
      [] name \in {"length", "toNumber", "toString", "type"} /\ Len(args) # 1 -> Fails(s)
      [] name = "length" /\ Len(args) = 1 ->
            (CASE args[1].t = "array"  -> Gives(Num(Object(args[1], s).len), s)
               [] args[1].t = "string" -> Gives(Num(Len(args[1].str)), s)
               [] args[1].t = "hash"   -> Gives(Num(Cardinality(DOMAIN Object(args[1], s).pairs)), s)
               [] OTHER -> Fails(s))
      [] name = "toNumber" /\ Len(args) = 1 ->
            (CASE args[1].t = "number" -> Gives(args[1], s)
               [] args[1].t = "string" -> LET n == ParseNumber(args[1].str)
                                          IN  IF n = <<>> THEN Fails(s) ELSE Gives(n[1], s)
               [] args[1].t = "boolean" -> Gives(Num(IF args[1].bool THEN 1 ELSE 0), s)
               [] OTHER -> Fails(s))
      [] name = "toString" /\ Len(args) = 1 -> Gives(Str(Inspect(args[1], s)), s)
      [] name = "type" /\ Len(args) = 1 -> Gives(Str(<<args[1].t>>), s)

\* The element of a list, the value of a key, the character of a string.
evalIndex(left, index, s) ==
    CASE left.t \in {"array", "string"} ->
            LET seq == IF left.t = "array" THEN Elements(left, s)
                       ELSE [i \in DOMAIN left.str |-> Str(<<left.str[i]>>)]
            IN  IF IsNum(index) /\ index.num \in 0 .. Len(seq) - 1
                THEN Gives(seq[index.num + 1], s) ELSE newError(s)
      [] left.t = "hash" ->
            LET pairs == Object(left, s).pairs
            IN  IF index.t # "string" THEN newError(s)
                ELSE Gives(IF Has(pairs, index.str) THEN pairs[index.str] ELSE Null, s)
      [] OTHER -> Gives(Err(<<Line, Unsupported>>), s)

Method(inst, m, s) == NewObject("method", [self |-> inst, fn |-> m.fn, owner |-> m.owner], s)

\* What a dot gives: a field or a method the caller may use, an attribute of a
\* module, a key of a dictionary before one of its methods.
evalMember(obj, name, caller, s) ==
    CASE obj.t = "instance" ->
            LET class  == Object(obj, s).class
                values == Object(Object(obj, s).fields, s)
                field  == FindField(class, name, s)
                method == FindMethod(class, name, s)
            IN  IF Has(values, name)
                THEN IF field # <<>> /\ ~CanAccess(field[1], caller) THEN newError(s)
                     ELSE Gives(values[name], s)
                ELSE IF method = <<>> \/ ~CanAccess(method[1], caller) THEN newError(s)
                ELSE Method(obj, method[1], s)
      [] obj.t = "parent" ->
            LET parent == Object(Object(obj.self, s).class, s).parent
                method == FindMethod(parent, name, s)
            IN  IF method = <<>> \/ ~CanAccess(method[1], caller) THEN newError(s)
                ELSE Method(obj.self, method[1], s)
      [] obj.t = "module" ->
            IF Has(Object(obj, s), name) THEN Gives(Object(obj, s)[name], s) ELSE newError(s)
      [] obj.t = "hash" /\ Has(Object(obj, s).pairs, <<name>>) ->
            Gives(Object(obj, s).pairs[<<name>>], s)
      [] obj.t \in {"hash", "array", "string", "number", "boolean", "null"}
         /\ ~(obj.t = "hash" /\ Has(Object(obj, s).pairs, <<name>>)) ->
            IF LookupMethod(obj, name) = Null THEN newError(s)
            ELSE Gives(LookupMethod(obj, name), s)
      [] OTHER -> Gives(Err(<<Line, Unsupported>>), s)

----------------------------------------------------------------------------
(* Statements and expressions *)

RECURSIVE Eval(_, _, _), evalBlock(_, _, _), evalExpressions(_, _, _),
          evalHashLiteral(_, _, _, _), evalCases(_, _, _, _), evalWhile(_, _, _, _),
          callUserFunction(_, _, _, _, _), evalProgram(_, _, _, _)

\* object.InvokeCallable while the evaluator runs: what methods and handlers
\* call.  A bound method is not among what it accepts.
InvokeCallable(fn, args, s) ==
    CASE fn.t = "function" -> callUserFunction(fn, args, Null, Null, s)
      [] fn.t = "builtin"  -> CallBuiltin(fn.name, args, s)
      [] OTHER             -> Fails(s)

Lists == INSTANCE Collections WITH Call <- InvokeCallable

Resolved(r) == Lists!ResolveValue(r)

\* The value of an expression, a bound method called.
Value(node, env, s) == Resolved(Eval(node, env, s))

evalProgram(stmts, last, env, s) ==
    IF stmts = <<>> THEN Gives(last, s)
    ELSE LET r == Eval(Head(stmts), env, s)
         IN  CASE r.v.t = "return" -> Gives(r.v.v, r.s)
               [] IsError(r.v)     -> r
               [] OTHER            -> evalProgram(Tail(stmts), r.v, env, r.s)

evalBlock(stmts, env, s) ==
    IF stmts = <<>> THEN Gives(Null, s)
    ELSE LET r == Eval(Head(stmts), env, s)
         IN  IF Stops(r.v) \/ Len(stmts) = 1 THEN r ELSE evalBlock(Tail(stmts), env, r.s)

\* The values of the expressions, as a sequence, or the first error.
evalExpressions(nodes, env, s) ==
    IF nodes = <<>> THEN [v |-> <<>>, s |-> s, err |-> <<>>]
    ELSE LET r == Value(Head(nodes), env, s)
         IN  IF IsError(r.v) THEN [v |-> <<>>, s |-> r.s, err |-> <<r.v>>]
             ELSE LET q == evalExpressions(Tail(nodes), env, r.s)
                  IN  [q EXCEPT !.v = <<r.v>> \o @]

\* What one pass over the body of a loop means for the loop.
AfterBody(r) ==
    Gives(CASE r.v.t \in {"return", "error"} -> StopWith(r.v)
            [] r.v.t = "break"               -> StopWith(Null)
            [] r.v.t = "continue"            -> OnWith(Null)
            [] OTHER                         -> OnWith(r.v), r.s)

evalWhile(node, last, env, s) ==
    LET c == Value(node.cond, env, s)
    IN  IF IsError(c.v) THEN c
        ELSE IF ~IsTruthy(c.v) THEN Gives(last, c.s)
        ELSE LET b == AfterBody(evalBlock(node.body, env, c.s))
             IN  IF b.v.done THEN Gives(b.v.v, b.s) ELSE evalWhile(node, b.v.acc, env, b.s)

\* The body once for each of n values, the variable set to it.
evalLoop(node, n, ItemAt(_, _), env, s) ==
    Walk(n, Null, LAMBDA acc, i, t :
                      AfterBody(evalBlock(node.body, env, Set(env, node.name, ItemAt(i, t), t))),
         Gives, s)

\* A list is walked as it is, without a copy: what the body does to its buffer
\* is seen.  The keys of a dictionary and the characters of a string are copies.
evalForIn(node, env, s) ==
    Then(Eval(node.x, env, s), LAMBDA it, t :
        CASE it.t = "array"  ->
                evalLoop(node, Object(it, t).len, LAMBDA i, u : ItemOf(Object(it, t), i, u), env, t)
          [] it.t = "hash"   ->
                evalLoop(node, Len(Keys(Object(it, t))),
                         LAMBDA i, u : Str(Keys(Object(it, t))[i]), env, t)
          [] it.t = "string" ->
                evalLoop(node, Len(it.str), LAMBDA i, u : Str(<<it.str[i]>>), env, t)
          [] OTHER -> newError(t))

evalForRange(node, env, s) ==
    Then(Eval(node.from, env, s), LAMBDA a, s1 :
    Then(Eval(node.to, env, s1), LAMBDA b, s2 :
    Then(IF node.step = <<>> THEN Gives(Num(1), s2) ELSE Eval(node.step[1], env, s2), LAMBDA c, s3 :
        IF ~(IsNum(a) /\ IsNum(b) /\ IsNum(c)) \/ c.num = 0 THEN newError(s3)
        ELSE LET n == IF c.num > 0 THEN (b.num - a.num) \div c.num + 1
                      ELSE (a.num - b.num) \div (-c.num) + 1
             IN  evalLoop(node, n, LAMBDA i, t : Num(a.num + (i - 1) * c.num), env, s3))))

evalIf(node, env, s) ==
    Then(Value(node.cond, env, s), LAMBDA c, t :
        CASE IsTruthy(c) -> evalBlock(node.then, env, t)
          [] ~IsTruthy(c) /\ node.else # <<>> -> evalBlock(node.else[1], env, t)
          [] OTHER -> Gives(Null, t))

\* The bodies of the cases one after the other: the first value that is equal.
evalCases(cases, val, env, s) ==
    IF cases = <<>> THEN Gives(<<>>, s)
    ELSE IF Head(cases).values = <<>> THEN evalCases(Tail(cases), val, env, s)
    ELSE LET first == Head(cases).values[1]
             rest  == <<[Head(cases) EXCEPT !.values = Tail(@)]>> \o Tail(cases)
             r     == Eval(first, env, s)
         IN  IF IsError(r.v) THEN Gives(<<r.v>>, r.s)
             ELSE IF Same(val, r.v) THEN LET b == evalBlock(Head(cases).body, env, r.s)
                                         IN  Gives(<<b.v>>, b.s)
             ELSE evalCases(rest, val, env, r.s)

evalSwitch(node, env, s) ==
    Then(Eval(node.x, env, s), LAMBDA val, t :
        LET r == evalCases(node.cases, val, env, t)
        IN  CASE r.v # <<>> -> Gives(r.v[1], r.s)
              [] r.v = <<>> /\ node.default # <<>> -> evalBlock(node.default[1], env, r.s)
              [] OTHER -> Gives(Null, r.s))

\* The error is caught as its message, in an environment of its own.
evalTry(node, env, s) ==
    LET r == evalBlock(node.body, env, s)
        c == NewEnclosedEnvironment(env, r.s)
    IN  IF ~IsError(r.v) \/ r.v = Panic THEN r
        ELSE evalBlock(node.catch, c.v, Set(c.v, node.name, Str(r.v.msg), c.s))

evalThrow(node, env, s) ==
    Then(Eval(node.x, env, s), LAMBDA v, t : Gives(Err(<<Line>> \o Inspect(v, t)), t))

evalHashLiteral(pairs, h, env, s) ==
    IF pairs = <<>> THEN NewObject("hash", h, s)
    ELSE Then(Eval(Head(pairs)[1], env, s), LAMBDA key, t :
             IF key.t # "string" THEN newError(t)
             ELSE Then(Eval(Head(pairs)[2], env, t), LAMBDA v, u :
                      evalHashLiteral(Tail(pairs), HashSet(h, key.str, v), env, u)))

\* The pieces of text with the printed values between them.
evalTemplate(node, env, s) ==
    LET n == Len(node.exprs)
        Visit(acc, i, t) ==
            LET r == Value(node.exprs[i], env, t)
            IN  Gives(IF IsError(r.v) THEN StopWith(r.v)
                      ELSE OnWith(acc \o Inspect(r.v, r.s) \o node.quasis[i + 1]), r.s)
    IN  Walk(n, node.quasis[1], Visit, LAMBDA acc, t : Gives(Str(acc), t), s)

----------------------------------------------------------------------------
(* Functions *)

Required(params) == Cardinality({i \in DOMAIN params : params[i].default = <<>>})

\* Parameters are set one after the other; a default is evaluated in the new
\* environment, where it sees the parameters before it.
bindParameters(params, args, env, s) ==
    LET Visit(acc, i, t) ==
            LET p == params[i]
                r == IF i <= Len(args) THEN Gives(args[i], t) ELSE Eval(p.default[1], env, t)
            IN  IF IsError(r.v) \/ (s.checkTypes /\ ~MatchesType(r.v, p.type, r.s))
                THEN LET e == IF IsError(r.v) THEN r ELSE newError(r.s) IN Gives(StopWith(e.v), e.s)
                ELSE Gives(OnWith(Null), Set(env, p.name, r.v, r.s))
    IN  Walk(Len(params), Null, Visit, Gives, s)

callUserFunction(fn, args, this, owner, s) ==
    LET f   == Object(fn, s)
        e   == NewEnclosedEnvironment(f.env, s)
        s1  == IF this = Null THEN e.s ELSE Set(e.v, "this", this, e.s)
        s2  == IF owner = Null THEN s1 ELSE SetObject(e.v, [Object(e.v, s1) EXCEPT !.class = owner], s1)
        After(null, t) ==
            LET r   == evalBlock(f.body, e.v, t)
                out == IF r.v.t = "return" THEN r.v.v ELSE r.v
            IN  IF s.checkTypes /\ ~IsError(out) /\ ~MatchesType(out, f.returns, r.s)
                THEN newError(r.s) ELSE Gives(out, r.s)
    IN  IF \/ \E i, j \in DOMAIN f.params :
                 i < j /\ f.params[i].default # <<>> /\ f.params[j].default = <<>>
           \/ Len(args) \notin Required(f.params) .. Len(f.params)
        THEN newError(s)
        ELSE Then(bindParameters(f.params, args, e.v, s2), After)

applyFunction(fn, args, s) ==
    CASE fn.t = "function" -> callUserFunction(fn, args, Null, Null, s)
      [] fn.t = "method"   ->
            LET m == Object(fn, s) IN callUserFunction(m.fn, args, m.self, m.owner, s)
      [] fn.t = "bound"    -> Lists!CallBound(fn, args, s)
      [] fn.t = "builtin"  -> CallBuiltin(fn.name, args, s)
      [] fn.t = "parent"   ->
            LET parent == Object(Object(fn.self, s).class, s).parent
                ctor   == FindMethod(parent, "constructor", s)
            IN  IF ctor = <<>> THEN IF args = <<>> THEN Gives(Null, s) ELSE newError(s)
                ELSE callUserFunction(ctor[1].fn, args, fn.self, ctor[1].owner, s)
      [] OTHER -> newError(s)

----------------------------------------------------------------------------
(* Classes *)

\* A method is a function of the class's environment; a field keeps its
\* expression, which is evaluated for each new instance.
evalClass(node, env, s) ==
    LET parent == IF node.parent = <<>> THEN Null
                  ELSE IF Defined(env, node.parent[1], s) THEN Lookup(env, node.parent[1], s)
                  ELSE Err(<<>>)
        class  == Ref("class", Len(s.heap) + 1)
        blank  == NewClass(node.name, parent, s)
        IsFn(x) == x # <<>> /\ x[1].k = "fn"
        Add(t, x) ==
            LET c == Object(class, t)
                f == NewFunction(x.value[1].params, x.value[1].body, "", env, t)
            IN  IF IsFn(x.value)
                THEN SetObject(class, [c EXCEPT !.methods =
                         (x.name :> NewMethod(f.v, x.public, class)) @@ @], f.s)
                ELSE SetObject(class, [c EXCEPT !.fields =
                         (x.name :> NewField([expr |-> x.value], x.public, class)) @@ @], t)
    IN  IF parent.t \notin {"null", "class"} THEN newError(s)
        ELSE Gives(class, Set(env, node.name, class, FoldLeft(Add, blank.s, node.body)))

\* A module whose attributes are the members.
evalEnum(node, env, s) ==
    LET m == NewObject("module", [n \in node.members |-> EnumValue(node.name, n)], s)
    IN  Gives(m.v, Set(env, node.name, m.v, m.s))

\* The fields first, in the environment of the caller, then the arguments,
\* then the constructor nearest to the class.
evalNew(node, env, s) ==
    LET class  == Lookup(env, node.name, s)
        fields == FieldOrder(class, s)
        InitField(acc, i, t) ==
            LET expr == fields[i].def.expr
                r    == IF expr = <<>> THEN Gives(Null, t) ELSE Eval(expr[1], env, t)
            IN  Gives(IF IsError(r.v) THEN StopWith(r.v)
                      ELSE OnWith((fields[i].name :> r.v) @@ acc), r.s)
        Build(values, t) ==
            LET f    == NewObject("fields", values, t)
                inst == NewObject("instance", [class |-> class, fields |-> f.v], f.s)
                args == evalExpressions(node.args, env, inst.s)
                ctor == FindMethod(class, "constructor", s)
            IN  CASE args.err # <<>> -> Gives(args.err[1], args.s)
                  [] args.err = <<>> /\ ctor # <<>> ->
                        Then(callUserFunction(ctor[1].fn, args.v, inst.v, ctor[1].owner, args.s),
                             LAMBDA v, u : Gives(inst.v, u))
                  [] OTHER -> IF args.v = <<>> THEN Gives(inst.v, args.s) ELSE newError(args.s)
    IN  IF ~Defined(env, node.name, s) THEN newError(s)
        ELSE IF class.t # "class" THEN newError(s)
        ELSE Walk(Len(fields), Empty, InitField, Build, s)

\* 'parent' is the instance seen as one of the class whose method runs.
evalParentLiteral(env, s) ==
    LET this  == Lookup(env, "this", s)
        inst  == Object(this, s)
        class == IF CurrentClass(env, s) = Null THEN inst.class ELSE CurrentClass(env, s)
        view  == NewObject("instance", [class |-> class, fields |-> inst.fields], s)
    IN  IF ~Defined(env, "this", s) THEN newError(s)
        ELSE IF this.t # "instance" THEN newError(s)
        ELSE IF Object(class, s).parent = Null THEN newError(s)
        ELSE Gives([t |-> "parent", self |-> view.v], view.s)

\* The value first, then the object and the index it is put at.
evalAssignExpr(node, env, s) ==
    LET left == node.left
        Member(v, obj, t) ==
            CASE obj.t = "instance" ->
                    LET field == FindField(Object(obj, t).class, left.name, t)
                        place == Object(obj, t).fields
                    IN  IF field # <<>> /\ ~CanAccess(field[1], CurrentClass(env, t)) THEN newError(t)
                        ELSE Gives(v, SetObject(place, (left.name :> v) @@ Object(place, t), t))
              [] obj.t = "hash" -> Gives(v, SetObject(obj, HashSet(Object(obj, t), <<left.name>>, v), t))
              [] OTHER -> newError(t)
        At(v, obj, i, t) ==
            CASE obj.t = "array" ->
                    IF IsNum(i) /\ i.num \in 0 .. Object(obj, t).len - 1
                    THEN Gives(v, SetElement(obj, i.num + 1, v, t)) ELSE newError(t)
              [] obj.t = "hash" /\ i.t = "string" ->
                    Gives(v, SetObject(obj, HashSet(Object(obj, t), i.str, v), t))
              [] OTHER -> newError(t)
    IN  Then(Value(node.value, env, s), LAMBDA v, t :
            CASE left.k = "id"     -> Gives(v, Assign(env, left.name, v, t))
              [] left.k = "member" -> Then(Eval(left.x, env, t), LAMBDA obj, u : Member(v, obj, u))
              [] left.k = "index"  ->
                    Then(Eval(left.x, env, t), LAMBDA obj, u :
                    Then(Eval(left.i, env, u), LAMBDA i, w : At(v, obj, i, w)))
              [] OTHER -> newError(t))

----------------------------------------------------------------------------
(* Files *)

\* The places a file is looked for: beside the file that asks for it, then
\* among the packages.
resolveUserFile(dir, path) ==
    LET packages   == Append(dir, "packages")
        candidates == <<dir \o path, packages \o path,
                        packages \o <<Last(path), Last(path)>>, packages \o <<Last(path), "start">>>>
        i == SelectInSeq(candidates, LAMBDA c : c \in DOMAIN Files)
    IN  IF i = 0 THEN dir \o path ELSE candidates[i]

\* The statements of the file run in the environment that includes it, once;
\* while they do, its paths are taken from the file's own directory.
evalInclude(node, env, s) ==
    LET name == Last(node.path)
        dir  == Object(env, s).dir
        unit == Object(env, s).unit
        full == resolveUserFile(dir, node.path)
        lib  == LoadBuiltin(name, s)
        t    == SetDir(env, Front(full), SetObject(unit, Object(unit, s) \cup {full}, s))
        r    == evalProgram(Files[full].body, Null, env, t)
    IN  CASE Has(BuiltinNames, name) -> Gives(lib.v, Set(env, name, lib.v, lib.s))
          [] ~Has(BuiltinNames, name) /\ full \in Object(unit, s) -> Gives(Null, s)
          [] OTHER -> IF full \notin DOMAIN Files THEN newError(s)
                      ELSE IF ~Files[full].parses THEN newError(SetDir(env, dir, t))
                      ELSE Gives(IF IsError(r.v) THEN r.v ELSE Null, SetDir(env, dir, r.s))

bindImported(node, env, mod, s) ==
    LET attrs == Object(mod, s)
        names == {node.names[i] : i \in DOMAIN node.names}
        first == SelectInSeq(node.names, LAMBDA n : n \notin DOMAIN attrs)
        known == IF first = 0 THEN node.names ELSE SubSeq(node.names, 1, first - 1)
        t     == FoldLeft(LAMBDA u, n : Set(env, n, attrs[n], u), s, known)
    IN  CASE node.names # <<>> -> IF names \subseteq DOMAIN attrs THEN Gives(Null, t) ELSE newError(t)
          [] node.names = <<>> /\ node.alias = <<>> -> newError(s)
          [] OTHER -> Gives(mod, Set(env, node.alias[1], mod, s))

\* The file runs in a global environment of its own, once; what it exports
\* becomes a module.  A file being loaded is marked, so that a circle is an error.
evalImport(node, env, s) ==
    LET full  == resolveUserFile(Object(env, s).dir, node.path)
        name  == Last(node.path)
        Mark(t, v) == [t EXCEPT !.imported = (full :> v) @@ @]
        Unmark(t)  == [t EXCEPT !.imported = [f \in DOMAIN @ \ {full} |-> @[f]]]
        lib   == LoadBuiltin(name, s)
        e     == NewGlobalEnv(Front(full), Mark(s, Null))
        r     == evalProgram(Files[full].body, Null, e.v, e.s)
        top   == Object(e.v, r.s)
        mod   == NewObject("module", [n \in top.exports |-> top.store[n]], r.s)
    IN  CASE Has(s.imported, full) ->
                IF s.imported[full] = Null THEN newError(s)
                ELSE bindImported(node, env, s.imported[full], s)
          [] ~Has(s.imported, full) /\ Has(BuiltinNames, name) ->
                bindImported(node, env, lib.v, Mark(lib.s, lib.v))
          [] OTHER ->
                IF full \notin DOMAIN Files THEN newError(s)
                ELSE IF ~Files[full].parses THEN newError(s)
                ELSE IF IsError(r.v) THEN Gives(r.v, Unmark(r.s))
                ELSE bindImported(node, env, mod.v, Mark(mod.s, mod.v))

\* Only the exports of the environment the file runs in reach its module.
evalExport(node, env, s) ==
    Then(Eval(node.stmt, env, s), LAMBDA v, t :
        Gives(v, IF node.stmt.k \notin {"var", "class"} THEN t
                 ELSE SetObject(env, [Object(env, t) EXCEPT !.exports = @ \cup {node.stmt.name}], t)))

----------------------------------------------------------------------------

\* 'and', 'or' and '??' evaluate the right side only when the left one does
\* not decide.
evalLogical(node, env, s) ==
    Then(Value(node.l, env, s), LAMBDA left, t :
        IF \/ node.op = "and" /\ ~IsTruthy(left)
           \/ node.op = "or" /\ IsTruthy(left)
           \/ node.op = "??" /\ left # Null
        THEN Gives(left, t) ELSE Value(node.r, env, t))

evalCall(node, env, s) ==
    Then(Eval(node.f, env, s), LAMBDA fn, t :
        LET args == evalExpressions(node.args, env, t)
        IN  IF args.err # <<>> THEN Gives(args.err[1], args.s)
            ELSE applyFunction(fn, args.v, args.s))

\* A variable is made in this environment, whatever the outer ones have.
evalVar(node, env, s) ==
    Then(IF node.value = <<>> THEN Gives(Null, s) ELSE Value(node.value[1], env, s),
         LAMBDA v, t : Gives(v, Set(env, node.name, v, t)))

EvalStatement(node, env, s) ==
    CASE node.k = "expr"     -> Value(node.x, env, s)
      [] node.k = "var"      -> evalVar(node, env, s)
      [] node.k = "set"      ->
            Then(Value(node.value, env, s), LAMBDA v, t : Gives(v, Assign(env, node.name, v, t)))
      [] node.k = "return"   ->
            Then(IF node.value = <<>> THEN Gives(Null, s) ELSE Value(node.value[1], env, s),
                 LAMBDA v, t : Gives(Return(v), t))
      [] node.k = "if"       -> evalIf(node, env, s)
      [] node.k = "switch"   -> evalSwitch(node, env, s)
      [] node.k = "while"    -> evalWhile(node, Null, env, s)
      [] node.k = "forin"    -> evalForIn(node, env, s)
      [] node.k = "forrange" -> evalForRange(node, env, s)
      [] node.k = "break"    -> Gives(Break, s)
      [] node.k = "continue" -> Gives(Continue, s)
      [] node.k = "class"    -> evalClass(node, env, s)
      [] node.k = "enum"     -> evalEnum(node, env, s)
      [] node.k = "include"  -> evalInclude(node, env, s)
      [] node.k = "module"   -> Gives(Null, s)
      [] node.k = "export"   -> evalExport(node, env, s)
      [] node.k = "import"   -> evalImport(node, env, s)
      [] node.k = "try"      -> evalTry(node, env, s)
      [] node.k = "throw"    -> evalThrow(node, env, s)

EvalExpression(node, env, s) ==
    CASE node.k = "lit"      -> Gives(node.v, s)
      [] node.k = "template" -> evalTemplate(node, env, s)
      [] node.k = "infix"    ->
            IF node.op \in {"and", "or", "??"} THEN evalLogical(node, env, s)
            ELSE Then(Value(node.l, env, s), LAMBDA a, t :
                 Then(Value(node.r, env, t), LAMBDA b, u : evalInfix(node.op, a, b, u)))
      [] node.k = "prefix"   ->
            Then(Value(node.x, env, s), LAMBDA v, t : evalPrefix(node.op, v, t))
      [] node.k = "id"       ->
            IF Defined(env, node.name, s) THEN Gives(Lookup(env, node.name, s), s) ELSE newError(s)
      [] node.k = "fn"       ->
            NewFunction(node.params, node.body, node.returns, env, s)
      [] node.k = "this"     ->
            IF Defined(env, "this", s) THEN Gives(Lookup(env, "this", s), s) ELSE newError(s)
      [] node.k = "parent"   -> evalParentLiteral(env, s)
      [] node.k = "member"   ->
            Then(Eval(node.x, env, s), LAMBDA v, t :
                 evalMember(v, node.name, CurrentClass(env, t), t))
      [] node.k = "index"    ->
            Then(Eval(node.x, env, s), LAMBDA v, t :
            Then(Eval(node.i, env, t), LAMBDA i, u : evalIndex(v, i, u)))
      [] node.k = "new"      -> evalNew(node, env, s)
      [] node.k = "assign"   -> evalAssignExpr(node, env, s)
      [] node.k = "array"    ->
            LET r == evalExpressions(node.els, env, s)
            IN  IF r.err # <<>> THEN Gives(r.err[1], r.s) ELSE NewArray(r.v, r.s)
      [] node.k = "hash"     ->
            evalHashLiteral(node.pairs, [pairs |-> Empty, order |-> <<>>], env, s)
      [] node.k = "call"     -> evalCall(node, env, s)

Statements == {"expr", "var", "set", "return", "if", "switch", "while", "forin", "forrange",
               "break", "continue", "class", "enum", "include", "module", "export", "import",
               "try", "throw"}

Eval(node, env, s) ==
    IF node.k \in Statements THEN EvalStatement(node, env, s) ELSE EvalExpression(node, env, s)

\* runSource: the program in a new global environment, from an empty state.
NewState(backward, checkTypes) ==
    [heap |-> <<>>, out |-> <<>>, backward |-> backward, checkTypes |-> checkTypes,
     imported |-> Empty]

RunSource(program, backward, checkTypes) ==
    LET e == NewGlobalEnv(<<>>, NewState(backward, checkTypes))
    IN  evalProgram(program, Null, e.v, e.s)
=============================================================================
