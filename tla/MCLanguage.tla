----------------------------- MODULE MCLanguage -----------------------------
(***************************************************************************)
(* Programs for both engines.  Common are those of the ground the engines  *)
(* share: each pair of statements of a small stock in each of eight places *)
(* (the file, a function, a branch, two loops, a try, a switch, a method), *)
(* and one program for each larger feature.  Apart are the smallest        *)
(* programs on which the engines are known to differ.                      *)
(***************************************************************************)
EXTENDS Language

Lit(v)     == [k |-> "lit", v |-> v]
N(n)       == Lit(Num(n))
S(chars)   == Lit(Str(chars))
Id(x)      == [k |-> "id", name |-> x]
Ex(x)      == [k |-> "expr", x |-> x]
Let(x, v)  == [k |-> "var", name |-> x, value |-> <<v>>, public |-> TRUE]
Own(x, v)  == [Let(x, v) EXCEPT !.public = FALSE]
Put(x, v)  == [k |-> "set", name |-> x, value |-> v]
In(op, a, b) == [k |-> "infix", op |-> op, l |-> a, r |-> b]
CallOf(f, as) == [k |-> "call", f |-> f, args |-> as]
Show(x)    == Ex(CallOf(Id("print"), <<x>>))
Dot(x, n)  == [k |-> "member", x |-> x, name |-> n]
At(x, i)   == [k |-> "index", x |-> x, i |-> i]
Fn(ps, b)  == [k |-> "fn", params |-> [i \in DOMAIN ps |-> [name |-> ps[i], default |-> <<>>, type |-> ""]],
               body |-> b, returns |-> ""]
WithDefault(f, v) == [f EXCEPT !.params[Len(f.params)].default = <<v>>]
Ret(x)     == [k |-> "return", value |-> <<x>>]
If(c, a, b) == [k |-> "if", cond |-> c, then |-> a, else |-> b]
ForIn(n, x, b) == [k |-> "forin", name |-> n, x |-> x, body |-> b]
ForRange(n, from, to, step, b) ==
    [k |-> "forrange", name |-> n, from |-> from, to |-> to, step |-> step, body |-> b]
While(c, b) == [k |-> "while", cond |-> c, body |-> b]
Try(b, n, c) == [k |-> "try", body |-> b, name |-> n, catch |-> c]
Raise(x)   == [k |-> "throw", x |-> x]
Switch(x, vs, b, d) == [k |-> "switch", x |-> x, cases |-> <<[values |-> vs, body |-> b]>>, default |-> d]
Class(n, p, b) == [k |-> "class", name |-> n, parent |-> p, body |-> b]
New(n, as) == [k |-> "new", name |-> n, args |-> as]
Write(l, v) == [k |-> "assign", left |-> l, value |-> v]
List(es)   == [k |-> "array", els |-> es]
Dict(ps)   == [k |-> "hash", pairs |-> ps]
Brk        == [k |-> "break"]
Cont       == [k |-> "continue"]
This       == [k |-> "this"]
Parent     == [k |-> "parent"]
Include(f) == [k |-> "include", path |-> <<f>>]

a == Id("a")
l == Id("l")
h == Id("h")
Prelude == <<Let("a", N(1)), Let("l", List(<<N(1), N(2)>>)), Let("h", Dict(<< <<S(<<"b">>), N(1)>> >>))>>

----------------------------------------------------------------------------
(* Every pair of statements in every place *)

\* What may stand anywhere but at the end of a block whose value is used.
Anywhere ==
    {Put("a", In("+", a, N(1))),
     Try(<<Raise(S(<<"e">>))>>, "m", <<Show(N(5))>>),
     Try(<<Ex(In("/", N(1), Id("z")))>>, "m", <<Show(a)>>),
     ForRange("i", N(1), N(2), <<>>, <<Show(Id("i"))>>),
     ForIn("i", h, <<Show(Id("i"))>>),
     While(In("<", a, N(2)), <<Put("a", N(2))>>)}

\* What may also end a block whose value is used.
Ending ==
    {Show(a),
     Ex(Write(At(l, N(0)), N(7))),
     Raise(S(<<"x">>)),
     If(In("==", a, N(1)), <<Show(N(1))>>, << <<Show(N(2))>> >>),
     If(In("<", a, N(0)), <<Show(N(0))>>, <<>>),
     Ex(Dot(l, "pop")),
     Ex(In("/", N(1), Id("z"))),
     Switch(a, <<N(1), N(2)>>, <<Show(N(9))>>, <<>>),
     Ex(In("??", Id("n"), a))}

InLoops     == {Brk, Cont}
InFunctions == {Ret(a)}

Places == {"file", "function", "branch", "forin", "while", "try", "switch", "method"}

Last1(place) ==
    Ending \cup (IF place \in {"forin", "while"} THEN Anywhere \cup InLoops
                 ELSE IF place \in {"function", "method"} THEN InFunctions
                 ELSE IF place \in {"file", "try"} THEN Anywhere ELSE {})

Blocks(place) == {<<x, y>> : x \in Anywhere \cup Ending, y \in Last1(place)}

In1(place, b) ==
    CASE place = "file"     -> b
      [] place = "function" -> <<Let("f", Fn(<<>>, b)), Show(CallOf(Id("f"), <<>>))>>
      [] place = "branch"   -> <<If(In("==", a, N(1)), b, <<>>), Show(a)>>
      [] place = "forin"    -> <<ForIn("x", l, b), Show(a)>>
      [] place = "while"    ->
            <<Let("w", N(0)), While(In("<", Id("w"), N(2)), <<Put("w", In("+", Id("w"), N(1)))>> \o b), Show(a)>>
      [] place = "try"      -> <<Try(b, "e", <<Show(a)>>), Show(a)>>
      [] place = "switch"   -> <<Switch(a, <<N(1)>>, b, << <<Show(N(0))>> >>), Show(a)>>
      [] place = "method"   ->
            <<Class("K", <<>>, <<Let("v", N(3)), Let("m", Fn(<<>>, b))>>),
              Show(CallOf(Dot(New("K", <<>>), "m"), <<>>))>>

Start == Prelude \o <<Let("z", N(0)), Let("n", Lit(Null))>>

Pairs == UNION {{Start \o In1(p, b) : b \in Blocks(p)} : p \in Places}

\* One statement in a place in another.
Deep(places) ==
    UNION {{Start \o In1(q, In1(p, <<x>>)) : x \in Last1(p), q \in places \ {p}} : p \in places \ {"file"}}

\* The same in a function, where every variable is a local one.  None of these
\* makes a function that uses them: see Reused below.
Flat == Places \ {"function", "method"}
InMain(b) == <<Let("main", Fn(<<>>, b \o <<Ret(N(0))>>)), Show(CallOf(Id("main"), <<>>))>>
InFunction == {InMain(b) : b \in Deep(Flat) \cup UNION {{Start \o In1(p, b) : b \in Blocks(p)} : p \in Flat}}

----------------------------------------------------------------------------
(* Larger features *)

Add(x, y) == In("+", x, y)
Counter ==
    <<Let("make", Fn(<<"k">>, <<Ret(Fn(<<>>, <<Put("k", Add(Id("k"), N(1))), Ret(Id("k"))>>))>>)),
      Let("c", CallOf(Id("make"), <<N(1)>>)), Let("d", CallOf(Id("make"), <<N(5)>>)),
      Show(CallOf(Id("c"), <<>>)), Show(CallOf(Id("d"), <<>>)), Show(CallOf(Id("c"), <<>>))>>

\* Two functions share a variable of the function around them.
Shared ==
    <<Let("make", Fn(<<>>, <<Let("k", N(0)),
          Let("up", Fn(<<>>, <<Put("k", Add(Id("k"), N(1))), Ret(Id("k"))>>)),
          Let("see", Fn(<<>>, <<Ret(Fn(<<>>, <<Ret(Id("k"))>>))>>)),
          Ex(CallOf(Id("up"), <<>>)), Ret(CallOf(CallOf(Id("see"), <<>>), <<>>))>>)),
      Show(CallOf(Id("make"), <<>>))>>

Shapes ==
    <<Class("A", <<>>, <<Own("x", N(1)), Let("y", Add(N(1), CallOf(Id("length"), <<S(<<"a">>)>>))),
          Let("constructor", Fn(<<"v">>, <<Ex(Write(Dot(This, "x"), Id("v")))>>)),
          Let("get", Fn(<<>>, <<Ret(Dot(This, "x"))>>))>>),
      Class("B", <<"A">>, <<Let("y", N(9)),
          Let("constructor", Fn(<<"v">>, <<Ex(CallOf(Parent, <<Add(Id("v"), N(1))>>))>>)),
          Let("get", Fn(<<>>, <<Ret(Add(CallOf(Dot(Parent, "get"), <<>>), Dot(This, "y")))>>))>>),
      Let("o", New("B", <<N(4)>>)), Show(CallOf(Dot(Id("o"), "get"), <<>>)), Show(Dot(Id("o"), "y"))>>

Private(e) == SubSeq(Shapes, 1, 2) \o <<Let("o", New("A", <<N(4)>>)), Try(<<e>>, "m", <<Show(N(0))>>)>>

Callbacks ==
    <<Let("l", List(<<N(3), N(1), N(2)>>)), Let("k", N(10)),
      Show(CallOf(Dot(l, "map"), <<Fn(<<"x">>, <<Ret(Add(Id("x"), Id("k")))>>)>>)),
      Show(CallOf(Dot(l, "filter"), <<Fn(<<"x">>, <<Ret(In(">", Id("x"), N(1)))>>)>>)),
      Show(CallOf(Dot(l, "reduce"), <<Fn(<<"s", "x">>, <<Ret(Add(Id("s"), Id("x")))>>), N(0)>>)),
      Ex(CallOf(Dot(l, "sortWith"), <<Fn(<<"x", "y">>, <<Ret(In("-", Id("x"), Id("y")))>>)>>)),
      Show(l)>>

\* The error of a callback ends the method that calls it, and is caught outside.
CallbackFails ==
    <<Let("l", List(<<N(1), N(2)>>)),
      Try(<<Ex(CallOf(Dot(l, "forEach"), <<Fn(<<"x">>, <<Show(Id("x"))>>)>>)),
            Ex(CallOf(Dot(l, "nothing"), <<>>))>>, "m", <<Show(N(0))>>)>>

\* Every method of the tables on a value, with arguments that fit and some that
\* do not; what is shown is the result and the value after it.
Small(x)   == Fn(<<x>>, <<Ret(In("<", Id(x), N(3)))>>)
Arguments(name) ==
    {<<>>, <<N(1)>>, <<N(2), N(1)>>, <<Id("other")>>, <<S(<<"b">>)>>, <<S(<<"b">>), N(1)>>}
    \cup (IF name \in {"map", "filter", "partition", "find", "findIndex", "forEach", "every",
                       "some", "count", "sortWith", "reduce"}
          THEN {<<Fn(<<"x", "y">>, <<Ret(In("<", Id("x"), N(2)))>>)>>,
                <<Fn(<<"x", "y">>, <<Ret(In("+", Id("y"), Id("x")))>>), N(0)>>}
          ELSE {})
    \cup (IF name \in {"map", "filter", "partition", "find", "findIndex", "forEach", "every",
                       "some", "count"} THEN {<<Small("x")>>} ELSE {})
CallsOn(value, other, table) ==
    UNION {{<<Let("v", value), Let("other", other),
              Try(<<Show(CallOf(Dot(Id("v"), name), as))>>, "m", <<Show(N(0))>>),
              Show(Id("v")), Show(Id("other"))>> : as \in Arguments(name)} : name \in DOMAIN table}
Library ==
    CallsOn(List(<<N(3), N(1), N(2), N(3)>>), List(<<List(<<N(1)>>)>>), arrayMethods)
    \cup CallsOn(Dict(<< <<S(<<"b">>), N(1)>>, <<S(<<"a">>), List(<<N(3)>>)>> >>),
                 Dict(<< <<S(<<"x">>), N(4)>> >>), hashMethods)
    \cup CallsOn(S(<<"a", "b", "a">>), S(<<"a">>), stringMethods)
    \cup CallsOn(S(<<"a", "/", "b", ".", "a">>), S(<<"(">>),
                 [name \in {"match", "search", "splitPattern", "baseName", "ext", "noExt"} |->
                     stringMethods[name]])
    \cup CallsOn(N(7), N(0), numberMethods)

\* Methods whose callback changes the list they walk.
Changes ==
    {Ex(CallOf(Dot(Id("v"), "pop"), <<>>)), Ex(CallOf(Dot(Id("v"), "push"), <<N(0)>>)),
     Ex(CallOf(Dot(Id("v"), "clear"), <<>>)), Ex(CallOf(Dot(Id("v"), "unshift"), <<N(5)>>)),
     Ex(Write(At(Id("v"), N(1)), N(0)))}
Walks == {"map", "filter", "partition", "find", "findIndex", "forEach", "every", "some", "count",
          "sortWith", "reduce"}
ChangedWhileWalked ==
    {<<Let("v", List(<<N(3), N(1), N(2)>>)),
       Let("f", Fn(<<"x", "y">>, <<change, Ret(In("<", Id("x"), N(3)))>>)),
       Try(<<Show(CallOf(Dot(Id("v"), name), IF name = "reduce" THEN <<Id("f"), N(0)>> ELSE <<Id("f")>>))>>,
           "m", <<Show(N(0))>>),
       Show(Id("v"))>> : change \in Changes, name \in Walks}

Nested ==
    <<Let("f", Fn(<<"x">>, <<Try(<<Ex(CallOf(Id("x"), <<>>))>>, "m", <<Show(N(1)), Raise(Id("m"))>>)>>)),
      Try(<<Ex(CallOf(Id("f"), <<Fn(<<>>, <<Raise(S(<<"b">>))>>)>>))>>, "m", <<Show(N(2))>>)>>

Loops ==
    <<ForRange("i", N(3), N(1), << [k |-> "prefix", op |-> "-", x |-> N(1)] >>,
         <<ForRange("j", N(1), N(3), <<>>,
              <<If(In("==", Id("j"), Id("i")), <<Brk>>, << <<Show(Add(Id("i"), Id("j")))>> >>)>>)>>)>>

Logic ==
    <<Let("n", Lit(Null)), Show(In("and", N(0), CallOf(Id("n"), <<>>))),
      Show(In("or", Add(N(1), Id("one")), CallOf(Id("n"), <<>>))), Show(In("<=", N(1), Id("one")))>>

Defaults ==
    <<Let("f", WithDefault(Fn(<<"x", "y">>, <<Ret(Add(Id("x"), Id("y")))>>), N(2))),
      Show(CallOf(Id("f"), <<N(1)>>)), Show(CallOf(Id("f"), <<N(1), N(5)>>)),
      Ex(CallOf(Id("f"), <<>>))>>

Features ==
    {Counter, Shared, Shapes, Private(Show(Dot(Id("o"), "x"))),
     Private(Ex(Write(Dot(Id("o"), "x"), N(1)))), Private(Ex(New("B", <<>>))),
     Callbacks, CallbackFails, Nested, Loops, <<Let("one", N(1))>> \o Logic, Defaults,
     <<Include("lib"), Include("lib"), Show(Id("v"))>>,
     <<Show(Dict(<< <<S(<<"a">>), N(1)>>, <<S(<<"b">>), List(<<N(2)>>)>> >>)), Ex(Dict(<< <<N(1), N(1)>> >>))>>,
     <<[k |-> "enum", name |-> "E", members |-> {"p"}], Show(Dot(Id("E"), "p"))>>,
     <<Include("math"), Include("math"), Show(CallOf(Dot(Id("math"), "abs"), <<N(1)>>))>>,
     <<Show(CallOf(Dot(Id("result"), "ok"), <<N(1)>>))>>}

\* Every function of the libraries, with arguments that fit and some that do not.
Numbers == {0, 4, 9, -7, 1024, 1234567, 15360, 204800, 2500}
LibraryArguments ==
    {<<>>, <<List(<<N(1)>>)>>, <<S(<<"a">>)>>, <<S(<<"b">>), N(3)>>}
    \cup {<<N(n)>> : n \in Numbers} \cup {<<N(2), N(3)>>, <<N(2), S(<<"x">>)>>, <<N(2), N(-1)>>}
    \cup {<<N(2500), S(<<"x">>), N(1)>>, <<N(2), N(0), N(-1)>>, <<N(2), Lit(Null)>>}
Using(lib, e) == <<Include(lib), Try(<<Show(e)>>, "m", <<Show(N(0))>>)>>
Squares == {<<N(n)>> : n \in {0, 4, 9, -7}}
LibraryCalls ==
    UNION {UNION {{Using(lib, CallOf(Dot(Id(lib), name), as)) :
                     as \in CASE name = "sqrt"      -> Squares
                               [] name = "stringify" -> LibraryArguments \cup {<<List(<<Fn(<<>>, <<>>)>>)>>}
                               [] OTHER              -> LibraryArguments} :
                  name \in BuiltinNames[lib]} : lib \in DOMAIN BuiltinNames}

MCDocuments ==
    {Null, Bool(TRUE), Num(7), Str(<<"a">>), JList(<<>>), JList(<<Num(1), JList(<<Null>>)>>),
     JMap(<<"b">> :> Num(1) @@ <<"a">> :> JList(<<Bool(FALSE), Str(<<"x">>)>>))}
\* What is written is read back, as lists and dictionaries of its own.
ReadBack ==
    {<<Include("json"), Let("v", Lit(Null)),
       Put("v", CallOf(Dot(Id("json"), "parse"), <<S(Marshal(d))>>)), Show(Id("v")),
       Let("w", CallOf(Dot(Id("json"), "parse"), <<CallOf(Dot(Id("json"), "stringify"), <<Id("v")>>)>>)),
       Show(Id("w")), Show(In("==", Id("v"), Id("w")))>> : d \in MCDocuments}

Program(b)   == [body |-> b, parses |-> TRUE, command |-> "smart", backward |-> FALSE]
Common ==
    {Program(b) : b \in Pairs \cup Deep(Places) \cup InFunction \cup Features \cup Library
                         \cup ChangedWhileWalked \cup LibraryCalls \cup ReadBack}
    \cup {[Program(b) EXCEPT !.backward = TRUE] : b \in Features}
    \cup {[Program(b) EXCEPT !.command = c] : b \in {Counter}, c \in {"run", "machine"}}
    \cup {[Program(<<[k |-> "import", path |-> <<"lib">>, names |-> <<>>, alias |-> <<"q">>], Show(N(1))>>)
           EXCEPT !.command = c] : c \in {"smart", "machine"}}
    \cup {[Program(<<>>) EXCEPT !.parses = FALSE]}

----------------------------------------------------------------------------

\* A branch that ends in an assignment leaves nothing for the pop after it.
AssignInBranch == <<Let("a", N(1)), If(In("==", Id("a"), N(1)), <<Put("a", N(2))>>, <<>>), Show(Id("a"))>>

\* The same in a function writes over the variable of the function.
AssignInFunction == <<Let("f", Fn(<<"x">>, AssignInBranch \o <<Ret(Id("x"))>>)), Show(CallOf(Id("f"), <<N(3)>>))>>

\* The cells of captured variables stay on the stack above them, where the
\* function that captured them finds its own variables when it is called.
Reused ==
    {Program(<<Let("main", Fn(<<>>,
         <<Let("a", N(1)), Let("k", N(2)),
           Let("f", Fn(<<>>, <<Let("x", N(7)), Ret(In("+", a, Id("k")))>>)),
           Ret(CallOf(Id("f"), <<>>))>>)),
       Show(CallOf(Id("main"), <<>>))>>)}

Overwrites == {Program(AssignInFunction)}

\* The operands of the subtraction are not supported: the evaluator starts again.
PrintsTwice == {Program(<<Show(N(1)), Ex(In("-", List(<<>>), N(1)))>>)}

MCAlphabet == <<"-", "0", "1", "2", "3", "4", "5", "6", "7", "8", "9", "a", "b", "e", "x">>

MCFiles == (<<"lib">> :> [parses |-> TRUE, body |-> <<Include("lib"), Let("v", N(6)), Show(Id("v"))>>])
=============================================================================
