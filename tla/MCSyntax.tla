------------------------------ MODULE MCSyntax ------------------------------
(***************************************************************************)
(* Files for Syntax: every program of a stock of expressions, statements   *)
(* and blocks, each written in several styles from a table of its own, and *)
(* files that are typed.                                                   *)
(***************************************************************************)
EXTENDS Syntax

W(x) == Word(x)
C(x) == Ch(x)

\* A style: how blocks are closed, whether conditions and parameters stand
\* between brackets, how arguments of a statement are given, what ends a
\* statement.
Style(block, brackets, args, sep) == [block |-> block, brackets |-> brackets, args |-> args, sep |-> sep]
Plain   == Style("brace", TRUE, "brackets", <<NewLine>>)
Worded  == Style("word", FALSE, "juxta", <<NewLine>>)
Colons  == Style("word", TRUE, "colon", <<NewLine>>)
Mirror  == Style("mirror", FALSE, "brackets", <<NewLine>>)
Semi    == Style("brace", FALSE, "brackets", <<C(";"), Blank>>)

----------------------------------------------------------------------------
(* Writing a program *)

RECURSIVE Join(_, _)
Join(parts, sep) ==
    CASE parts = <<>>     -> <<>>
      [] Len(parts) = 1   -> parts[1]
      [] OTHER            -> parts[1] \o sep \o Join(Tail(parts), sep)

CommaSep == <<C(","), Blank>>
Marks(op) == CASE op = "==" -> <<C("="), C("=")>>
               [] op = "<=" -> <<C("<"), C("=")>>
               [] op = "**" -> <<C("*"), C("*")>>
               [] op = "??" -> <<C("?"), C("?")>>
               [] op = "and" -> <<W("And")>>
               [] op = "or"  -> <<W("Or")>>
               [] OTHER      -> <<C(op)>>

\* How tightly each operator binds, from the loosest.
Bind == "??" :> 2 @@ "or" :> 3 @@ "and" :> 4 @@ "==" :> 5 @@ "<=" :> 6 @@ ">" :> 6 @@
        "+" :> 7 @@ "-" :> 7 @@ "*" :> 8 @@ "/" :> 8 @@ "%" :> 8 @@ "**" :> 9
Tightness(x) ==
    CASE x.k = "assign" -> 1
      [] x.k = "infix"  -> Bind[x.op]
      [] x.k = "prefix" -> 10
      [] OTHER          -> 11

RECURSIVE Text(_, _), At(_, _, _), Body(_, _), Stmt(_, _)

Between(open, parts, close) == <<C(open)>> \o Join(parts, CommaSep) \o <<C(close)>>
All(xs, st) == [i \in DOMAIN xs |-> Text(xs[i], st)]

\* An expression that must bind at least as tightly as asked.
At(x, tight, st) ==
    IF Tightness(x) >= tight THEN Text(x, st) ELSE <<C("(")>> \o Text(x, st) \o <<C(")")>>

Param(prm, st) ==
    <<W(prm.name)>> \o (IF prm.type = "" THEN <<>> ELSE <<C(":"), Blank, W(prm.type)>>)
                    \o (IF prm.default = <<>> THEN <<>> ELSE <<C("=")>> \o Text(prm.default[1], st))

Function(f, st) ==
    LET prms == [i \in DOMAIN f.params |-> Param(f.params[i], st)]
        bare == ~st.brackets /\ prms # <<>> /\ f.name # <<>>
                /\ \A i \in DOMAIN f.params : f.params[i].default = <<>>
    IN  <<W("Function"), Blank>> \o (IF f.name = <<>> THEN <<>> ELSE <<W(f.name[1])>>)
        \o (IF bare THEN <<Blank>> \o Join(prms, CommaSep) ELSE Between("(", prms, ")"))
        \o (IF f.returns = "" THEN <<>> ELSE <<Blank, C("-"), C(">"), Blank, W(f.returns)>>)
        \o Body(f.body, st)

Text(x, st) ==
    LET k == x.k
    IN  CASE k = "lit" -> (CASE x.t = "Number" -> <<Digits(x.v)>>
                             [] x.t = "String" -> <<C("quote")>> \o x.text \o <<C("quote")>>
                             [] OTHER          -> <<W(x.t)>>)
          [] k = "id"     -> <<W(x.name)>>
          [] k = "this"   -> <<W("This")>>
          [] k = "parent" -> <<W("Parent")>>
          [] k = "prefix" -> <<C(x.op)>> \o At(x.x, 10, st)
          [] k = "infix"  -> LET b == Bind[x.op]
                                 right == x.op = "**"
                             IN  At(x.l, IF right THEN b + 1 ELSE b, st) \o <<Blank>> \o Marks(x.op)
                                 \o <<Blank>> \o At(x.r, IF right THEN b ELSE b + 1, st)
          [] k = "assign" -> At(x.left, 11, st) \o <<C("=")>> \o Text(x.value, st)
          [] k = "call"   -> At(x.f, 11, st) \o Between("(", All(x.args, st), ")")
          [] k = "member" -> At(x.x, 11, st) \o <<C("."), W(x.name)>>
          [] k = "index"  -> At(x.x, 11, st) \o <<C("[")>> \o Text(x.i, st) \o <<C("]")>>
          [] k = "new"    -> <<W("New"), Blank, W(x.name)>> \o Between("(", All(x.args, st), ")")
          [] k = "array"  -> Between("[", All(x.els, st), "]")
          [] k = "hash"   -> Between("{", [i \in DOMAIN x.pairs |->
                                 x.pairs[i][1].text \o <<C(":")>> \o Text(x.pairs[i][2], st)], "}")
          [] k = "fn"     -> Function(x, st)

\* The statements of a body on lines of their own, between the marks of the
\* style.
Written(body, st) ==
    Join([i \in DOMAIN body |-> Stmt(body[i], st)], <<>>)
Opening(st) == CASE st.block = "brace"  -> <<Blank, C("{"), NewLine>>
                 [] st.block = "mirror" -> <<Blank, C("}"), NewLine>>
                 [] OTHER               -> <<NewLine>>
Ending(st) == CASE st.block = "brace"  -> <<C("}")>>
                  [] st.block = "mirror" -> <<C("{")>>
                  [] OTHER               -> <<W("End")>>
Body(body, st) == Opening(st) \o Written(body, st) \o Ending(st)

\* A part of a statement that another part follows: with words, the next part
\* ends it.
Part(body, st) == IF st.block = "word" THEN Opening(st) \o Written(body, st) ELSE Body(body, st) \o <<Blank>>

\* A condition without brackets does not begin with one.
HeadText(word, c, st) ==
    LET x == Text(c, st)
    IN  <<W(word), Blank>> \o (IF st.brackets \/ x[1] = C("(") THEN <<C("(")>> \o x \o <<C(")")>> ELSE x)

RECURSIVE IfChain(_, _, _)
IfChain(word, s, st) ==
    LET head == HeadText(word, s.cond, st)
    IN  IF s.else = <<>> THEN head \o Body(s.then, st)
        ELSE IF s.else[1].k = "if" THEN head \o Part(s.then, st) \o IfChain("ElseIf", s.else[1], st)
        ELSE head \o Part(s.then, st) \o <<W("Else")>> \o Body(s.else[1].body, st)

\* A call that stands as a statement may leave its brackets out.
CallText(x, st) ==
    IF x.k # "call" \/ x.args = <<>> \/ st.args = "brackets" THEN Text(x, st)
    ELSE IF st.args = "colon" THEN Text(x.f, st) \o <<C(":"), Blank>> \o Join(All(x.args, st), CommaSep)
    ELSE IF x.args[1].k = "lit" THEN Text(x.f, st) \o <<Blank>> \o Join(All(x.args, st), CommaSep)
    ELSE Text(x, st)

Quoted(text) == <<C("quote")>> \o text \o <<C("quote")>>
Visible(s) == IF s.public THEN <<>> ELSE <<W("Private"), Blank>>

RECURSIVE Bare(_, _)
Bare(s, st) ==
    LET k == s.k
    IN  CASE k = "expr"   -> CallText(s.x, st)
          [] k = "var" /\ s.value # <<>> /\ s.value[1].k = "fn" /\ s.value[1].name # <<>> ->
                             Visible(s) \o Function(s.value[1], st)
          [] k = "var"    -> Visible(s) \o <<W("Var"), Blank, W(s.name)>>
                             \o (IF s.value = <<>> THEN <<>> ELSE <<C("=")>> \o Text(s.value[1], st))
          [] k = "set"    -> <<W(s.name), C("=")>> \o Text(s.value, st)
          [] k = "return" -> <<W("Return"), Blank>> \o (IF s.value = <<>> THEN <<>> ELSE Text(s.value[1], st))
          [] k = "throw"  -> <<W("Throw"), Blank>> \o Text(s.x, st)
          [] k = "break"  -> <<W("Break")>>
          [] k = "continue" -> <<W("Continue")>>
          [] k = "if"     -> IfChain("If", s, st)
          [] k = "while"  -> HeadText("While", s.cond, st) \o Body(s.body, st)
          [] k = "forin"  -> LET head == <<W(s.name), Blank, W("In"), Blank>> \o Text(s.x, st)
                             IN  <<W("For"), Blank>> \o (IF st.brackets THEN <<C("(")>> \o head \o <<C(")")>> ELSE head)
                                 \o Body(s.body, st)
          [] k = "forrange" -> <<W("For"), Blank, W(s.name), Blank, W("of"), Blank>> \o Text(s.from, st)
                               \o <<Blank, W("to"), Blank>> \o Text(s.to, st)
                               \o (IF s.step = <<>> THEN <<>> ELSE <<Blank, W("by"), Blank>> \o Text(s.step[1], st))
                               \o Body(s.body, st)
          [] k = "switch" -> HeadText("Switch", s.x, st) \o <<NewLine>>
                             \o Join([i \in DOMAIN s.cases |->
                                   <<W("Case"), Blank>> \o Join(All(s.cases[i].values, st), CommaSep) \o <<NewLine>>
                                   \o Written(s.cases[i].body, st)], <<>>)
                             \o (IF s.default = <<>> THEN <<>>
                                 ELSE <<W("Default"), NewLine>> \o Written(s.default[1], st)) \o <<W("End")>>
          [] k = "try"    -> <<W("Try")>> \o Part(s.body, st) \o <<W("Catch"), Blank, W(s.name)>> \o Body(s.catch, st)
          [] k = "class"  -> <<W("Class"), Blank, W(s.name)>>
                             \o (IF s.parent = <<>> THEN <<>> ELSE <<Blank, W("Extends"), Blank, W(s.parent[1])>>)
                             \o Body(s.body, st)
          [] k = "enum"   -> <<W("Enum"), Blank, W(s.name), Blank>>
                             \o Between("{", [i \in DOMAIN s.members |-> <<W(s.members[i])>>], "}")
          [] k = "include" -> <<W("Include"), Blank>> \o Quoted(s.path)
          [] k = "module" -> <<W("Module"), Blank, W(s.name)>>
          [] k = "export" -> <<W("Export"), Blank>> \o Bare(s.stmt, st)
          [] k = "import" -> <<W("Import"), Blank>>
                             \o (IF s.alias = <<>> THEN Between("{", [i \in DOMAIN s.names |-> <<W(s.names[i])>>], "}")
                                 ELSE <<W(s.alias[1])>>)
                             \o <<Blank, W("From"), Blank>> \o Quoted(s.path)

\* After what ends with a body a line ends, whatever the style.
Blocks == {"if", "while", "forin", "forrange", "switch", "try", "class"}
RECURSIVE EndsWithBody(_)
EndsWithBody(s) ==
    \/ s.k \in Blocks
    \/ s.k = "export" /\ EndsWithBody(s.stmt)
    \/ s.k = "var" /\ s.value # <<>> /\ s.value[1].k = "fn"
Stmt(s, st) == Bare(s, st) \o (IF EndsWithBody(s) THEN <<NewLine>> ELSE st.sep)

----------------------------------------------------------------------------
(* The stock *)

a == Identifier("a")
b == Identifier("b")
one == Literal("Number", "1", <<>>)
two == Literal("Number", "2", <<>>)
txt == Literal("String", "", <<W("t")>>)
nul == Literal("Null", "Null", <<>>)
In(op, x, y) == InfixExpression(op, x, y)
Calls(f, args) == CallExpression(f, args)
Show(x) == ExpressionStatement(Calls(Identifier("print"), <<x>>))
Put(v, x) == AssignStatement(v, x)
Let(v, x) == VarStatement(v, <<x>>, TRUE)
Else(body) == <<BlockStatement(body)>>
Func(name, params, body) == VarStatement(name, <<FunctionLiteral(<<name>>, params, "", body)>>, TRUE)
Params(names) == [i \in DOMAIN names |-> Parameter(names[i], "", <<>>)]

\* Two operators, either of them inside the other, on either side.
Pairs(ops) == {In(p, In(q, a, b), one) : p \in ops, q \in ops} \cup {In(p, a, In(q, b, one)) : p \in ops, q \in ops}

\* Expressions that are not read by precedence alone.
Mixed ==
    {PrefixExpression("-", In("**", a, two)), In("**", PrefixExpression("-", a), two),
     PrefixExpression("!", In("==", a, b)), In("and", PrefixExpression("!", a), b),
     PrefixExpression("-", MemberExpression(a, "size")), In("-", a, PrefixExpression("-", one)),
     MemberExpression(In("+", a, b), "size"), MemberExpression(a, "Null"),
     IndexExpression(MemberExpression(ThisLiteral, "l"), In("+", one, two)),
     Calls(MemberExpression(Calls(a, <<one>>), "m"), <<b, txt>>), Calls(IndexExpression(a, one), <<>>),
     In("*", Calls(a, <<one, In("-", b, one)>>), two), NewExpression("K", <<one, a>>),
     MemberExpression(NewExpression("K", <<>>), "m"),
     ArrayLiteral(<<one, ArrayLiteral(<<>>), In("+", a, b)>>),
     HashLiteral(<< <<txt, one>>, <<txt, HashLiteral(<<>>)>> >>), In("??", MemberExpression(a, "k"), nul),
     Calls(a, <<FunctionLiteral(<<>>, <<>>, "", <<Show(one)>>)>>),
     Calls(a, <<one, FunctionLiteral(<<>>, Params(<<"x", "y">>), "", <<ReturnStatement(<<a>>)>>)>>)}

Statements ==
    {Show(txt), Show(In("+", a, b)), Put("a", In("+", a, one)), Let("v", one), VarStatement("v", <<>>, TRUE),
     ExpressionStatement(AssignExpression(IndexExpression(b, one), a)),
     ExpressionStatement(AssignExpression(MemberExpression(ThisLiteral, "m"), txt)),
     ExpressionStatement(Calls(MemberExpression(a, "push"), <<one>>)), ThrowStatement(txt)}

\* Each block of the language around a body.
Around(body) ==
    {IfStatement(In(">", a, one), body, <<>>), IfStatement(a, body, Else(<<Show(two)>>)),
     IfStatement(In("==", a, one), <<Show(one)>>, <<IfStatement(b, body, Else(<<Show(two)>>))>>),
     WhileStatement(In("<=", a, two), body), ForInStatement("i", b, body),
     TryStatement(body, "e", <<Show(Identifier("e"))>>), TryStatement(<<Show(one)>>, "e", body),
     Func("f", Params(<<"x", "y">>), body), Func("g", <<>>, body),
     ClassStatement("K", <<>>, <<Func("m", Params(<<"x">>), body)>>),
     ClassStatement("K", <<"P">>, <<VarStatement("n", <<one>>, FALSE), Func("m", <<>>, body)>>)}

TopLevel ==
    {EnumStatement("E", <<"p", "q">>), IncludeStatement(<<W("lib")>>), ModuleStatement("mod"),
     IncludeStatement(<<W("lib"), C("."), W("yod")>>),
     ExportStatement(Let("v", one)), ExportStatement(Func("f", Params(<<"x">>), <<ReturnStatement(<<>>)>>)),
     ImportStatement(<<"p", "q">>, <<>>, <<W("lib"), C("."), W("yod")>>),
     ImportStatement(<<>>, <<"lib">>, <<W("lib"), C("."), W("yod")>>)}

Typed(s) == [s EXCEPT !.value[1].params[1].type = "num"]
Default(s) == [s EXCEPT !.value[1].params[1].default = <<one>>]
Returning(s) == [s EXCEPT !.value[1].returns = "num"]

\* Larger statements: a switch, functions as values, conditions of every shape.
Larger ==
    {SwitchStatement(a, <<[values |-> <<one, two>>, body |-> <<s>>]>>, <<<<s>>>>) : s \in Statements} \cup
    {Default(Func("f", Params(<<"x">>), <<Show(one)>>)),
     Returning(Func("f", Params(<<"x">>), <<ReturnStatement(<<a>>)>>)),
     Let("f", FunctionLiteral(<<>>, Params(<<"x">>), "", <<ReturnStatement(<<a>>)>>)),
     Let("h", HashLiteral(<< <<txt, FunctionLiteral(<<>>, Params(<<"x">>), "", <<ReturnStatement(<<a>>)>>)>>,
                             <<txt, one>> >>)),
     Func("f", <<>>, <<ReturnStatement(<<HashLiteral(<< <<txt, one>>, <<txt, one>> >>)>>)>>),
     IfStatement(PrefixExpression("!", a), <<Show(one)>>, <<>>),
     WhileStatement(Literal("True", "True", <<>>), <<IfStatement(a, <<BreakStatement>>, <<>>), ContinueStatement>>),
     IfStatement(Calls(a, <<one>>), <<Put("a", one)>>, <<>>),
     IfStatement(MemberExpression(ThisLiteral, "m"), <<ThrowStatement(txt)>>, <<>>),
     IfStatement(In("==", a, nul), <<ReturnStatement(<<>>)>>, <<>>),
     ExpressionStatement(Calls(a, <<FunctionLiteral(<<>>, <<>>, "",
         <<IfStatement(a, <<Show(one)>>, Else(<<Show(two)>>))>>), one>>))}

\* What only the parser is asked about: the formatter does not keep range loops
\* (Ranges), a bare condition that begins with "new" or bare parameters with
\* types, blocks turned round within each other, templates, and a call with a
\* colon and no arguments.
Ranges(body) == {ForRangeStatement("i", one, two, <<>>, body), ForRangeStatement("i", one, a, <<two>>, body)}
Unkept ==
    UNION {Ranges(<<s>>) : s \in Statements} \cup
    {IfStatement(NewExpression("K", <<one>>), <<Show(one)>>, <<>>), Typed(Func("f", Params(<<"x", "y">>), <<Show(one)>>))}

\* A file, the program it stands for and whether it is given to the formatter.
FileOf(body, st) == [text |-> Written(body, st), program |-> <<body>>, tidied |-> TRUE]
OnlyRead(f) == [f EXCEPT !.tidied = FALSE]

Styles == {Plain, Worded, Colons, Semi}
Ops == {"??", "or", "and", "==", ">", "+", "-", "*", "**"}

\* Texts with what the writer above never writes: comments, a point, escapes, a
\* template with an expression in it.
Show1 == <<W("print"), C("("), Digits("1"), C(")"), NewLine>>
Special ==
    {[text |-> Show1 \o <<C("/"), C("/"), W("a"), C("*"), NewLine>> \o Show1, program |-> <<<<Show(one), Show(one)>>>>,
      tidied |-> TRUE],
     [text |-> <<C("/"), C("*"), W("If"), C("*"), C("/")>> \o Show1, program |-> <<<<Show(one)>>>>, tidied |-> TRUE],
     [text |-> <<W("a"), C("="), Digits("1"), C("."), Digits("2"), C("+"), W("a"), C("-"), Digits("1"), NewLine>>,
      program |-> <<<<Put("a", In("-", In("+", Literal("Number", "1.2", <<>>), a), one))>>>>, tidied |-> TRUE],
     [text |-> <<W("a"), C("="), C("'"), C("\\"), W("n"), C("\\"), C("'"), C("'"), NewLine>>,
      program |-> <<<<Put("a", Literal("String", "", <<NewLine, C("'")>>))>>>>, tidied |-> TRUE],
     [text |-> <<W("a"), C("="), C("tick"), W("t"), C("$"), C("{"), W("a"), C("+"), Digits("1"), C("}"), C("tick"), NewLine>>,
      program |-> <<<<Put("a", TemplateLiteral(<<<<W("t")>>, <<>>>>, <<In("+", a, one)>>))>>>>, tidied |-> FALSE],
     [text |-> <<W("f"), C(":"), NewLine>> \o Show1,
      program |-> <<<<ExpressionStatement(Calls(Identifier("f"), <<>>)), Show(one)>>>>, tidied |-> FALSE]}

\* A minus with no blank beside it: in the code, in a text, in comments of both
\* kinds, in a text of two lines.
Minus == <<W("a"), C("-"), Digits("1")>>
Tight ==
    {[text |-> <<W("a"), C("=")>> \o Minus \o <<NewLine>> \o Show1,
      program |-> <<<<Put("a", In("-", a, one)), Show(one)>>>>, tidied |-> TRUE],
     [text |-> Show1 \o <<C("/"), C("/")>> \o Minus \o <<NewLine>> \o Show1,
      program |-> <<<<Show(one), Show(one)>>>>, tidied |-> TRUE],
     [text |-> <<C("/"), C("*")>> \o Minus \o <<NewLine>> \o Minus \o <<C("*"), C("/")>> \o Show1,
      program |-> <<<<Show(one)>>>>, tidied |-> TRUE]}
    \cup {FileOf(<<Put("a", In("-", a, Literal("String", "", text))), Show(one)>>, st) :
             text \in {Minus, Minus \o <<NewLine>> \o Minus}, st \in Styles}

\* A block before another statement of a block, and at its end.
Nested == UNION {Around(<<s, Show(a)>>) \cup Around(<<s>>) : s \in Around(<<Show(one)>>)}
InARow == {<<s, t>> : s \in Around(<<Put("a", one)>>), t \in Around(<<Show(one)>>)}

MCFiles ==
    {FileOf(<<Put("a", x)>>, Plain) : x \in Pairs(Ops) \cup Mixed}
    \cup {FileOf(<<IfStatement(x, <<Show(one)>>, <<>>)>>, Worded) : x \in Pairs({"and", "==", "+"})}
    \cup {FileOf(<<s, t>>, st) : s \in Statements, t \in Statements, st \in Styles}
    \cup {FileOf(<<s>>, st) : s \in UNION {Around(<<t>>) : t \in Statements}, st \in Styles}
    \cup {FileOf(<<s>>, st) : s \in TopLevel \cup Larger \cup Nested, st \in Styles}
    \cup {FileOf(body, st) : body \in InARow, st \in Styles}
    \cup {FileOf(<<s, t>>, st) : s \in TopLevel, t \in TopLevel, st \in {Plain, Semi}}
    \cup {OnlyRead(FileOf(<<s>>, st)) : s \in Unkept, st \in Styles \cup {Mirror}}
    \cup {OnlyRead(FileOf(<<s>>, Mirror)) : s \in Nested}
    \cup Special \cup Tight
    \cup {[text |-> <<>>, program |-> <<>>, tidied |-> FALSE]}

\* The range loops alone, given to the formatter.
RangeFiles == {FileOf(<<s>>, Plain) : s \in UNION {Ranges(<<t>>) : t \in Statements}}

MCKeys == {<<W("a"), Blank>>, <<W("b"), NewLine>>, <<Digits("1"), Blank>>, <<C("(")>>, <<C(")")>>, <<C("="), Blank>>,
           <<C(":")>>, <<C("{")>>, <<C("}"), NewLine>>, <<W("If"), Blank>>, <<W("End"), NewLine>>,
           <<W("Function"), Blank>>}
=============================================================================
