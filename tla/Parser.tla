------------------------------- MODULE Parser -------------------------------
(***************************************************************************)
(* The parser (internal/parser) and the tree it builds (internal/ast):     *)
(* recursive descent over the tokens, with precedences for the operators.  *)
(* Blocks stand between braces, between braces the other way round, or end *)
(* with a word; brackets around conditions, parameters and arguments may   *)
(* be left out; a line ends a statement.  A parser is a record: the        *)
(* tokens, the place of the current one, the number of errors, and n, what *)
(* was parsed last; ok tells whether the token asked for was there.        *)
(***************************************************************************)
EXTENDS Lexer

----------------------------------------------------------------------------
(* The nodes of internal/ast: a record whose field k names its kind.  A block is
   the sequence of its statements, and what a node may lack is a sequence of at
   most one element.  A node does not keep its place in the file. *)

\* What a function of the parser returns when it gives up: a pointer that
\* points nowhere.  Nothing is the nil that a block leaves out.
Missing == [k |-> "missing"]
Nothing == [k |-> "nothing"]

Literal(t, v, text)        == [k |-> "lit", t |-> t, v |-> v, text |-> text]
TemplateLiteral(quasis, exprs) == [k |-> "template", quasis |-> quasis, exprs |-> exprs]
Identifier(name)           == [k |-> "id", name |-> name]
ThisLiteral                == [k |-> "this"]
ParentLiteral              == [k |-> "parent"]
PrefixExpression(op, x)    == [k |-> "prefix", op |-> op, x |-> x]
InfixExpression(op, l, r)  == [k |-> "infix", op |-> op, l |-> l, r |-> r]
CallExpression(f, args)    == [k |-> "call", f |-> f, args |-> args]
MemberExpression(x, name)  == [k |-> "member", x |-> x, name |-> name]
IndexExpression(x, i)      == [k |-> "index", x |-> x, i |-> i]
NewExpression(name, args)  == [k |-> "new", name |-> name, args |-> args]
AssignExpression(l, value) == [k |-> "assign", left |-> l, value |-> value]
ArrayLiteral(els)          == [k |-> "array", els |-> els]
HashLiteral(pairs)         == [k |-> "hash", pairs |-> pairs]
Parameter(name, type, default) == [k |-> "param", name |-> name, type |-> type, default |-> default]
FunctionLiteral(name, params, returns, body) ==
    [k |-> "fn", name |-> name, params |-> params, returns |-> returns, body |-> body]

ExpressionStatement(x)     == [k |-> "expr", x |-> x]
VarStatement(name, value, public) == [k |-> "var", name |-> name, value |-> value, public |-> public]
AssignStatement(name, value) == [k |-> "set", name |-> name, value |-> value]
ReturnStatement(value)     == [k |-> "return", value |-> value]
ThrowStatement(x)          == [k |-> "throw", x |-> x]
BlockStatement(body)       == [k |-> "block", body |-> body]
IfStatement(cond, then, else) == [k |-> "if", cond |-> cond, then |-> then, else |-> else]
SwitchStatement(x, cases, default) == [k |-> "switch", x |-> x, cases |-> cases, default |-> default]
WhileStatement(cond, body) == [k |-> "while", cond |-> cond, body |-> body]
ForInStatement(name, x, body) == [k |-> "forin", name |-> name, x |-> x, body |-> body]
ForRangeStatement(name, from, to, step, body) ==
    [k |-> "forrange", name |-> name, from |-> from, to |-> to, step |-> step, body |-> body]
BreakStatement             == [k |-> "break"]
ContinueStatement          == [k |-> "continue"]
TryStatement(body, name, catch) == [k |-> "try", body |-> body, name |-> name, catch |-> catch]
ClassStatement(name, parent, body) == [k |-> "class", name |-> name, parent |-> parent, body |-> body]
EnumStatement(name, members) == [k |-> "enum", name |-> name, members |-> members]
IncludeStatement(path)     == [k |-> "include", path |-> path]
ModuleStatement(name)      == [k |-> "module", name |-> name]
ExportStatement(stmt)      == [k |-> "export", stmt |-> stmt]
ImportStatement(names, alias, path) ==
    [k |-> "import", names |-> names, alias |-> alias, path |-> path]

----------------------------------------------------------------------------
(* Words and precedences *)

\* Words of range loops, identifiers to the lexer: from, up to, by steps of.
OfWord == "of"
ToWord == "to"
StepWord == "by"

Levels == <<"assign", "coalesce", "logicalOr", "logicalAnd", "equals", "lessgreater", "sum",
            "product", "power", "prefix", "call", "index">>
Level(name) == CHOOSE i \in DOMAIN Levels : Levels[i] = name
lowest == 0

Assigns     == {"Assign", "PlusAssign", "MinusAssign", "AsteriskAssign", "SlashAssign", "PercentAssign"}
Comparisons == {"Lt", "Gt", "LtEq", "GtEq"}
InfixOf ==
    [t \in Assigns |-> Level("assign")] @@ "NullCoalesce" :> Level("coalesce") @@
    "Or" :> Level("logicalOr") @@ "And" :> Level("logicalAnd") @@
    [t \in {"Eq", "NotEq"} |-> Level("equals")] @@ [t \in Comparisons |-> Level("lessgreater")] @@
    [t \in {"Plus", "Minus"} |-> Level("sum")] @@
    [t \in {"Slash", "Asterisk", "Percent"} |-> Level("product")] @@ "Power" :> Level("power") @@
    [t \in {"LParen", "Colon"} |-> Level("call")] @@ [t \in {"Dot", "LBracket"} |-> Level("index")]

\* Tokens that take what stands left of them, with how tightly they hold it.
precedences(t) == IF t \in DOMAIN InfixOf THEN InfixOf[t] ELSE lowest

Arithmetic ==
    "PlusAssign" :> "+" @@ "MinusAssign" :> "-" @@ "AsteriskAssign" :> "*" @@
    "SlashAssign" :> "/" @@ "PercentAssign" :> "%"

----------------------------------------------------------------------------
(* The parser and its tokens *)

Cur(p)  == p.toks[p.i]
Peek(p) == p.toks[IF p.i < Len(p.toks) THEN p.i + 1 ELSE p.i]
curIs(p, t)  == Cur(p).t = t
peekIs(p, t) == Peek(p).t = t

\* A parser at the first token of what the lexer read.
NewParser(l) == [toks |-> l.toks, i |-> 1, errs |-> 0, n |-> Nothing, ok |-> TRUE]

\* The number of errors the lexer and the parser tell of.
Errors(l, p) == l.errs + p.errs

nextToken(p)  == IF p.i < Len(p.toks) THEN [p EXCEPT !.i = @ + 1] ELSE p
Skip2(p)      == nextToken(nextToken(p))
addError(p)   == [p EXCEPT !.errs = @ + 1]
Give(p, node) == [p EXCEPT !.n = node]
Lost(p)       == Give(p, Missing)

\* Mutant: a token that is not there is told to nobody.
ExpectQuietly(p, t) == [(IF peekIs(p, t) THEN nextToken(p) ELSE p) EXCEPT !.ok = peekIs(p, t)]

expectPeek(p, t) ==
    IF peekIs(p, t) THEN [nextToken(p) EXCEPT !.ok = TRUE] ELSE [addError(p) EXCEPT !.ok = FALSE]

\* A block begins with either brace, the one turned round closing with the
\* other; without one it ends with a word.
startBlock(p) ==
    IF Peek(p).t \in {"LBrace", "RBrace"} THEN [nextToken(p) EXCEPT !.ok = TRUE] ELSE [p EXCEPT !.ok = FALSE]
blockCloseOf(open) == IF open = "RBrace" THEN "LBrace" ELSE "RBrace"

StatementEnds == {"EOF", "End", "RBrace", "Else", "ElseIf", "Catch", "Case", "Default"}
peekIsStatementEnd(p) == Peek(p).t \in StatementEnds \/ Peek(p).line > Cur(p).line

expectSemicolon(p) ==
    IF peekIs(p, "Semicolon") THEN nextToken(p)
    ELSE IF curIs(p, "End") \/ peekIsStatementEnd(p) THEN p
    ELSE addError(p)

expectSofEnd(p) == IF curIs(p, "End") THEN p ELSE addError(p)

\* A new line ends an expression, unless it begins with an operator.
peekEndsExpressionByNewline(p) == Peek(p).line > Cur(p).line /\ Peek(p).t \notin DOMAIN InfixOf

isJuxtaArgStart(p) ==
    /\ Peek(p).line = Cur(p).line
    /\ Peek(p).t \in {"String", "Number", "True", "False", "Null", "Bang"}
canJuxtaCall(left) == left.k \in {"id", "member"}

\* Mutant: arguments go on over the end of their line.
BareArgsGoOn(p) ==
    Peek(p).t \in {"Semicolon", "EOF", "End", "Else", "ElseIf", "Catch", "Case", "Default",
                   "RParen", "RBrace", "RBracket", "LBrace"}

isBareArgEnd(p) ==
    \/ Peek(p).line > Cur(p).line
    \/ Peek(p).t \in {"Semicolon", "EOF", "End", "Else", "ElseIf", "Catch", "Case", "Default",
                      "RParen", "RBrace", "RBracket", "LBrace"}

----------------------------------------------------------------------------
(* Expressions *)

RECURSIVE parseExpression(_, _), Climb(_, _), parseStatement(_), BlockUntil(_, _, _)

RECURSIVE MoreExpressions(_, _)
MoreExpressions(p, list) ==
    IF ~peekIs(p, "Comma") THEN Give(p, list)
    ELSE LET q == parseExpression(Skip2(p), lowest) IN MoreExpressions(q, Append(list, q.n))

FirstAndMore(p) == LET q == parseExpression(nextToken(p), lowest) IN MoreExpressions(q, <<q.n>>)

parseExpressionList(p, end) ==
    IF peekIs(p, end) THEN Give(nextToken(p), <<>>)
    ELSE LET q == FirstAndMore(p)
             e == expectPeek(q, end)
         IN  IF e.ok THEN e ELSE Give(e, <<>>)

\* Arguments without brackets: to the end of the line or of what they stand in.
parseBareArgList(p) == IF isBareArgEnd(p) THEN Give(p, <<>>) ELSE FirstAndMore(p)

parseGroupedExpression(p) ==
    LET q == expectPeek(parseExpression(nextToken(p), lowest), "RParen")
    IN  IF q.ok THEN q ELSE Lost(q)

parsePrefixExpression(p) ==
    LET op == IF curIs(p, "Not") THEN "!" ELSE Cur(p).v
        q  == parseExpression(nextToken(p), Level("prefix"))
    IN  Give(q, PrefixExpression(op, q.n))

parseNewExpression(p) ==
    LET q == expectPeek(p, "Ident")
        a == IF peekIs(q, "LParen") THEN parseExpressionList(nextToken(q), "RParen")
             ELSE IF peekIs(q, "Colon") THEN parseBareArgList(nextToken(q))
             ELSE Give(q, <<>>)
    IN  IF q.ok THEN Give(a, NewExpression(Cur(q).v, a.n)) ELSE Lost(q)

RECURSIVE HashPairs(_, _)
HashPairs(p, pairs) ==
    LET key   == parseExpression(nextToken(p), Level("call"))
        name  == IF key.n.k = "id" THEN Literal("String", "", <<Word(key.n.name)>>) ELSE key.n
        colon == expectPeek(key, "Colon")
        value == parseExpression(nextToken(colon), lowest)
        all   == Append(pairs, <<name, value.n>>)
        close == expectPeek(value, "RBrace")
    IN  IF ~colon.ok THEN Lost(addError(colon))
        ELSE IF peekIs(value, "Comma") THEN HashPairs(nextToken(value), all)
        ELSE IF close.ok THEN Give(close, HashLiteral(all)) ELSE Lost(close)

parseHashLiteral(p) ==
    IF peekIs(p, "RBrace") THEN Give(nextToken(p), HashLiteral(<<>>)) ELSE HashPairs(p, <<>>)

parseArrayLiteral(p) ==
    LET q == parseExpressionList(p, "RBracket") IN Give(q, ArrayLiteral(q.n))

\* The brace that closes the expression of a template begun at i; braces within
\* count, those between quotes do not.
RECURSIVE readTemplateExpr(_, _, _)
readTemplateExpr(text, i, depth) ==
    LET c == Char(text, i)
    IN  CASE c = "" -> 0
          [] c \in {"quote", "'"} -> readTemplateExpr(text, Closing(text, i + 1, c) + 1, depth)
          [] c = "}" /\ depth = 1 -> i
          [] OTHER -> readTemplateExpr(text, i + 1,
                          depth + (IF c = "{" THEN 1 ELSE IF c = "}" THEN -1 ELSE 0))

\* An expression of a template is lexed and parsed by itself; what stands after
\* it between the same braces is not looked at.
parseExpressionFrom(src) ==
    LET l == Lex(src)
        r == parseExpression(NewParser(l), lowest)
    IN  [n |-> r.n, errs |-> Errors(l, r)]

\* Where the next expression of the template opens, if one does.
indexTemplateExpr(text, at) ==
    FirstFrom(text, at, LAMBDA j : Char(text, j) = "$" /\ Char(text, j + 1) = "{")

RECURSIVE TemplateParts(_, _, _, _, _)
TemplateParts(p, text, at, quasis, exprs) ==
    LET open  == indexTemplateExpr(text, at)
        close == readTemplateExpr(text, open + 2, 1)
        x     == parseExpressionFrom(SubSeq(text, open + 2, close - 1))
    IN  IF open > Len(text)
        THEN Give(p, TemplateLiteral(Append(quasis, SubSeq(text, at, Len(text))), exprs))
        ELSE IF close = 0 THEN Lost(addError(p))
        ELSE IF x.errs > 0 THEN Lost(addError(p))
        ELSE TemplateParts(p, text, close + 1, Append(quasis, SubSeq(text, at, open - 1)), Append(exprs, x.n))

parseTemplateLiteral(p) == TemplateParts(p, Cur(p).text, 1, <<>>, <<>>)

\* What follows a name: bare parameters of a function, each with a type perhaps.
parseBareOneParam(p) ==
    LET q == expectPeek(nextToken(p), "Ident")
    IN  IF ~peekIs(p, "Colon") THEN Give(p, Parameter(Cur(p).v, "", <<>>))
        ELSE Give(q, Parameter(Cur(p).v, IF q.ok THEN Cur(q).v ELSE "", <<>>))

RECURSIVE BareParametersFrom(_, _)
BareParametersFrom(p, params) ==
    LET q == parseBareOneParam(p)
        all == Append(params, q.n)
        r == expectPeek(nextToken(q), "Ident")
    IN  IF ~peekIs(q, "Comma") THEN Give(q, all)
        ELSE IF r.ok THEN BareParametersFrom(r, all) ELSE Give(r, all)

parseBareParameters(p) == BareParametersFrom(nextToken(p), <<>>)

\* A parameter between brackets: its type and its default value.
parseOneParameter(p) ==
    LET typed   == expectPeek(nextToken(p), "Ident")
        q       == IF peekIs(p, "Colon") THEN typed ELSE [p EXCEPT !.ok = TRUE]
        type    == IF peekIs(p, "Colon") THEN Cur(q).v ELSE ""
        default == parseExpression(Skip2(q), lowest)
    IN  IF ~curIs(p, "Ident") THEN Lost(addError(p))
        ELSE IF ~q.ok THEN Lost(addError(q))
        ELSE IF peekIs(q, "Assign") THEN Give(default, Parameter(Cur(p).v, type, <<default.n>>))
        ELSE Give(q, Parameter(Cur(p).v, type, <<>>))

RECURSIVE ParametersFrom(_, _)
ParametersFrom(p, params) ==
    LET q     == parseOneParameter(p)
        all   == Append(params, q.n)
        close == expectPeek(q, "RParen")
    IN  IF q.n = Missing THEN Give(q, <<>>)
        ELSE IF peekIs(q, "Comma") THEN ParametersFrom(Skip2(q), all)
        ELSE Give(close, IF close.ok THEN all ELSE <<>>)

parseFunctionParameters(p) ==
    IF peekIs(p, "RParen") THEN Give(nextToken(p), <<>>) ELSE ParametersFrom(nextToken(p), <<>>)

\* The parameters, the type of the result and the body of a function whose
\* keyword, or whose name, is the current token.
parseFunctionLiteralFrom(p, name) ==
    LET params ==
            IF peekIs(p, "LParen") THEN parseFunctionParameters(nextToken(p))
            ELSE IF peekIs(p, "Ident") /\ Peek(p).line = Cur(p).line THEN parseBareParameters(p)
            ELSE Give(p, <<>>)
        arrow   == expectPeek(nextToken(params), "Ident")
        typed   == peekIs(params, "Arrow")
        q       == IF typed THEN arrow ELSE params
        body    == BlockUntil(q, {"End"}, TRUE)
    IN  IF typed /\ ~arrow.ok THEN Lost(addError(arrow))
        ELSE Give(body, FunctionLiteral(name, params.n, IF typed THEN Cur(arrow).v ELSE "", body.n))

parseFunctionLiteral(p) ==
    IF peekIs(p, "Ident")
    THEN parseFunctionLiteralFrom(nextToken(p), <<Peek(p).v>>)
    ELSE parseFunctionLiteralFrom(p, <<>>)

\* A name, and a number or another value that stands for itself.
parseIdentifier(p)    == Give(p, Identifier(Cur(p).v))
parseNumberLiteral(p) == Give(p, Literal(Cur(p).t, Cur(p).v, Cur(p).text))

\* The functions that begin an expression, by the token it begins with.
Prefixed(p) ==
    LET t == Cur(p).t
    IN  CASE t = "Ident" -> parseIdentifier(p)
          [] t \in {"Number", "String", "True", "False", "Null"} -> parseNumberLiteral(p)
          [] t = "Template" -> parseTemplateLiteral(p)
          [] t = "This"     -> Give(p, ThisLiteral)
          [] t = "Parent"   -> Give(p, ParentLiteral)
          [] t \in {"Bang", "Not", "Minus"} -> parsePrefixExpression(p)
          [] t = "LParen"   -> parseGroupedExpression(p)
          [] t = "New"      -> parseNewExpression(p)
          [] t = "LBracket" -> parseArrayLiteral(p)
          [] t = "LBrace"   -> parseHashLiteral(p)
          [] t = "Function" -> parseFunctionLiteral(p)

PrefixTokens == {"Ident", "Number", "String", "Template", "True", "False", "Null", "This", "Parent",
             "Bang", "Not", "Minus", "LParen", "New", "LBracket", "LBrace", "Function"}

parseInfixExpression(p, left, op, level) ==
    LET q == parseExpression(nextToken(p), level) IN Give(q, InfixExpression(op, left, q.n))

\* An assignment in an expression; a compound one reads its left side again.
parseAssignExpression(p, left) ==
    LET q == parseExpression(nextToken(p), lowest)
        t == Cur(p).t
    IN  Give(q, AssignExpression(left,
            IF t = "Assign" THEN q.n ELSE InfixExpression(Arithmetic[t], left, q.n)))

\* Any keyword may be the name of a member.
parseMemberExpression(p, left) ==
    IF Peek(p).t = "Ident" \/ Peek(p).t \in keywords
    THEN Give(nextToken(p), MemberExpression(left, Peek(p).v))
    ELSE Lost(addError(p))

parseIndexExpression(p, left) ==
    LET q == parseExpression(nextToken(p), lowest)
        close == expectPeek(q, "RBracket")
    IN  IF close.ok THEN Give(close, IndexExpression(left, q.n)) ELSE Lost(close)

\* Three ways to call: with brackets, after a colon, and with only a space; the
\* last stands on the name that is called.
parseCallExpression(p, function) ==
    LET q == parseExpressionList(p, "RParen") IN Give(q, CallExpression(function, q.n))

parseColonCallExpression(p, function) ==
    LET q == parseBareArgList(p) IN Give(q, CallExpression(function, q.n))

parseJuxtaCall(p, function) ==
    LET q == parseBareArgList(p) IN Give(q, CallExpression(function, q.n))

\* The functions that go on from what was parsed, by the token that follows it;
\* a power holds its right side more loosely than its left one.
Infixed(p, left) ==
    LET t == Cur(p).t
        level == precedences(t)
    IN  CASE t = "Or"       -> parseInfixExpression(p, left, "or", level)
          [] t = "And"      -> parseInfixExpression(p, left, "and", level)
          [] t = "Power"    -> parseInfixExpression(p, left, Cur(p).v, level - 1)
          [] t \in Assigns  -> parseAssignExpression(p, left)
          [] t = "LParen"   -> parseCallExpression(p, left)
          [] t = "Colon"    -> parseColonCallExpression(p, left)
          [] t = "Dot"      -> parseMemberExpression(p, left)
          [] t = "LBracket" -> parseIndexExpression(p, left)
          [] OTHER          -> parseInfixExpression(p, left, Cur(p).v, level)

Climb(p, precedence) ==
    IF peekIs(p, "Semicolon") \/ peekEndsExpressionByNewline(p) THEN p
    ELSE IF precedence < Level("call") /\ canJuxtaCall(p.n) /\ isJuxtaArgStart(p)
    THEN Climb(parseJuxtaCall(p, p.n), precedence)
    ELSE IF precedence >= precedences(Peek(p).t) THEN p
    ELSE Climb(Infixed(nextToken(p), p.n), precedence)

parseExpression(p, precedence) ==
    IF Cur(p).t \notin PrefixTokens THEN Lost(addError(p)) ELSE Climb(Prefixed(p), precedence)

----------------------------------------------------------------------------
(* Statements *)

\* Statements up to one of the closing tokens, which becomes the current one.
RECURSIVE StatementsUntil(_, _, _)
StatementsUntil(p, closing, body) ==
    LET q == parseStatement(p)
    IN  IF Cur(p).t \in closing \cup {"EOF"} THEN Give(p, body)
        ELSE StatementsUntil(nextToken(q), closing, IF q.n = Nothing THEN body ELSE Append(body, q.n))

parseBraceBlock(p) ==
    LET close == blockCloseOf(Cur(p).t)
        q == StatementsUntil(nextToken(p), {close}, <<>>)
    IN  IF curIs(q, close) THEN q ELSE addError(q)

parseSofBlock(p, stop) == StatementsUntil(nextToken(p), stop, <<>>)

\* A body in either style; the word that ends it must be there when asked for.
BlockUntil(p, stop, wantEnd) ==
    LET b == startBlock(p)
        s == parseSofBlock(b, stop)
    IN  IF b.ok THEN parseBraceBlock(b) ELSE IF wantEnd THEN expectSofEnd(s) ELSE s

\* With a bracket after the keyword, the condition is what the bracket holds.
parseCondition(p) ==
    LET q == expectPeek(parseExpression(Skip2(p), lowest), "RParen")
    IN  IF ~peekIs(p, "LParen") THEN parseExpression(nextToken(p), lowest)
        ELSE IF q.ok THEN q ELSE Lost(q)

\* With braces the chain goes on after a closing brace, with words at the word
\* that stopped the branch; one word at its end closes the whole chain.
RECURSIVE parseIfChain(_, _)
parseIfChain(p, wantEnd) ==
    LET c     == parseCondition(p)
        b     == startBlock(c)
        then  == IF b.ok THEN parseBraceBlock(b) ELSE parseSofBlock(b, {"Else", "ElseIf", "End"})
        If(q, else) == Give(q, IfStatement(c.n, then.n, else))
        next  == IF b.ok THEN nextToken(then) ELSE then
        t     == IF b.ok THEN Peek(then).t ELSE Cur(then).t
        chain == parseIfChain(next, FALSE)
        e     == startBlock(next)
        else  == IF b.ok THEN parseBraceBlock(e) ELSE parseSofBlock(next, {"End"})
        whole == IF t = "ElseIf" THEN If(chain, <<chain.n>>)
                 ELSE IF t # "Else" THEN If(then, <<>>)
                 ELSE IF b.ok /\ ~e.ok THEN If(addError(e), <<>>)
                 ELSE If(else, <<BlockStatement(else.n)>>)
    IN  IF c.n = Missing THEN Lost(c)
        ELSE IF ~b.ok /\ wantEnd THEN expectSofEnd(whole) ELSE whole

RECURSIVE SwitchCases(_, _, _, _)
SwitchCases(p, x, cases, default) ==
    LET values == FirstAndMore(p)
        body   == parseSofBlock(values, {"Case", "Default", "End"})
        other  == parseSofBlock(p, {"End"})
    IN  CASE Cur(p).t \in {"End", "EOF"} -> Give(expectSofEnd(p), SwitchStatement(x, cases, default))
          [] curIs(p, "Case")    -> SwitchCases(body, x, Append(cases, [values |-> values.n, body |-> body.n]), default)
          [] curIs(p, "Default") -> SwitchCases(other, x, cases, <<other.n>>)
          [] OTHER               -> SwitchCases(nextToken(addError(p)), x, cases, default)

parseSwitchStatement(p) ==
    LET c == parseCondition(p)
    IN  IF c.n = Missing THEN c ELSE SwitchCases(nextToken(c), c.n, <<>>, <<>>)

parseWhileStatement(p) ==
    LET c == parseCondition(p)
        body == BlockUntil(c, {"End"}, TRUE)
    IN  IF c.n = Missing THEN c ELSE Give(body, WhileStatement(c.n, body.n))

\* From and to, and perhaps by; a step that is left out is the evaluator's.
parseForRangeStatement(p, name) ==
    LET from == parseExpression(Skip2(p), lowest)
        to   == parseExpression(Skip2(from), lowest)
        by   == parseExpression(Skip2(to), lowest)
        Says(q, w) == peekIs(q, "Ident") /\ Peek(q).v = w
        q    == IF Says(to, StepWord) THEN by ELSE to
        body == BlockUntil(q, {"End"}, TRUE)
    IN  IF ~Says(from, ToWord) THEN Lost(addError(from))
        ELSE Give(body, ForRangeStatement(name, from.n, to.n,
                            IF Says(to, StepWord) THEN <<by.n>> ELSE <<>>, body.n))

parseForInAfterName(p, withParen) ==
    LET name  == IF withParen THEN expectPeek(nextToken(p), "Ident") ELSE [p EXCEPT !.ok = TRUE]
        in    == expectPeek(name, "In")
        x     == parseExpression(nextToken(in), lowest)
        close == IF withParen THEN expectPeek(x, "RParen") ELSE [x EXCEPT !.ok = TRUE]
        body  == BlockUntil(close, {"End"}, TRUE)
    IN  IF ~name.ok THEN Lost(name)
        ELSE IF ~in.ok THEN Lost(in)
        ELSE IF ~close.ok THEN Lost(close)
        ELSE Give(body, ForInStatement(Cur(name).v, x.n, body.n))

parseForStatement(p) ==
    LET name == expectPeek(p, "Ident")
    IN  IF peekIs(p, "LParen") THEN parseForInAfterName(p, TRUE)
        ELSE IF ~name.ok THEN Give(addError(name), Nothing)
        ELSE IF peekIs(name, "Ident") /\ Peek(name).v = OfWord THEN parseForRangeStatement(name, Cur(name).v)
        ELSE parseForInAfterName(name, FALSE)

parseVarStatement(p) ==
    LET name  == expectPeek(p, "Ident")
        value == parseExpression(Skip2(name), lowest)
        Var(q, v) == Give(expectSemicolon(q), VarStatement(Cur(name).v, v, TRUE))
    IN  IF ~name.ok THEN Lost(name)
        ELSE IF peekIs(name, "Assign") THEN Var(value, <<value.n>>)
        ELSE IF ~peekIs(name, "Semicolon") /\ ~peekIsStatementEnd(name) THEN Var(addError(name), <<>>)
        ELSE Var(name, <<>>)

parseAssignStatement(p) ==
    LET q == parseExpression(Skip2(p), lowest) IN Give(expectSemicolon(q), AssignStatement(Cur(p).v, q.n))

parseExpressionStatement(p) ==
    LET q == parseExpression(p, lowest) IN Give(expectSemicolon(q), ExpressionStatement(q.n))

parseReturnStatement(p) ==
    LET first == nextToken(p)
        q == parseExpression(IF curIs(first, "Colon") THEN nextToken(first) ELSE first, lowest)
    IN  IF peekIs(p, "Semicolon") THEN Give(nextToken(p), ReturnStatement(<<>>))
        ELSE IF peekIsStatementEnd(p) THEN Give(p, ReturnStatement(<<>>))
        ELSE Give(expectSemicolon(q), ReturnStatement(<<q.n>>))

parseThrowStatement(p) ==
    LET first == nextToken(p)
        start == IF curIs(first, "Colon") THEN nextToken(first) ELSE first
        q == parseExpression(start, lowest)
    IN  IF Cur(start).t \in {"RBrace", "End", "EOF", "Semicolon"} THEN Lost(addError(start))
        ELSE Give(expectSemicolon(q), ThrowStatement(q.n))

\* break and continue.
LoopExit(p, node) ==
    IF peekIs(p, "Semicolon") THEN Give(nextToken(p), node)
    ELSE Give(IF peekIsStatementEnd(p) THEN p ELSE addError(p), node)

\* A function of its own is the variable that holds it.
parseFunctionStatement(p) ==
    LET name == expectPeek(p, "Ident")
        f    == parseFunctionLiteralFrom(name, <<Cur(name).v>>)
    IN  IF ~name.ok \/ f.n = Missing THEN Lost(IF name.ok THEN f ELSE name)
        ELSE Give(f, VarStatement(Cur(name).v, <<f.n>>, TRUE))

\* A member of a class, with its visibility; anything else is passed over.
RECURSIVE ClassMembers(_, _, _)
ClassMembers(p, close, body) ==
    LET marked == Cur(p).t \in {"Private", "Public"}
        q == IF marked THEN nextToken(p) ELSE p
        m == IF curIs(q, "Var") THEN parseVarStatement(q) ELSE parseFunctionStatement(q)
        all == IF m.n = Missing THEN body ELSE Append(body, [m.n EXCEPT !.public = ~curIs(p, "Private")])
    IN  IF Cur(p).t \in {close, "EOF"} THEN Give(p, body)
        ELSE IF Cur(q).t \notin {"Var", "Function"} THEN ClassMembers(nextToken(addError(q)), close, body)
        ELSE ClassMembers(nextToken(m), close, all)

parseClassStatement(p) ==
    LET name   == expectPeek(p, "Ident")
        child  == peekIs(name, "Extends")
        parent == IF child THEN expectPeek(nextToken(name), "Ident") ELSE name
        b      == startBlock(parent)
        close  == IF b.ok THEN blockCloseOf(Cur(b).t) ELSE "End"
        body   == ClassMembers(nextToken(b), close, <<>>)
    IN  IF ~name.ok THEN Lost(name)
        ELSE IF ~parent.ok THEN Lost(addError(parent))
        ELSE Give(IF curIs(body, close) THEN body ELSE addError(body),
                  ClassStatement(Cur(name).v, IF child THEN <<Cur(parent).v>> ELSE <<>>, body.n))

parseIncludeStatement(p) ==
    LET q == expectPeek(p, "String")
    IN  IF q.ok THEN Give(expectSemicolon(q), IncludeStatement(Cur(q).text)) ELSE Lost(addError(q))

parseModuleStatement(p) ==
    LET q == expectPeek(p, "Ident")
    IN  IF q.ok THEN Give(expectSemicolon(q), ModuleStatement(Cur(q).v)) ELSE Lost(addError(q))

parseExportStatement(p) ==
    LET q == nextToken(p)
        s == CASE curIs(q, "Function") -> parseFunctionStatement(q)
               [] curIs(q, "Var")      -> parseVarStatement(q)
               [] curIs(q, "Class")    -> parseClassStatement(q)
    IN  IF Peek(p).t \in {"Function", "Var", "Class"} THEN Give(s, ExportStatement(s.n)) ELSE Lost(addError(p))

\* Names between braces, each asked for by its token; a failure tells twice.
RECURSIVE NamesFrom(_, _)
NamesFrom(p, names) ==
    LET q == expectPeek(p, "Ident")
        all == Append(names, Cur(q).v)
    IN  IF ~q.ok THEN q
        ELSE IF peekIs(q, "Comma") THEN NamesFrom(nextToken(q), all) ELSE Give(q, all)

parseImportStatement(p) ==
    LET listed == peekIs(p, "LBrace")
        names  == NamesFrom(nextToken(p), <<>>)
        q      == IF listed /\ names.ok THEN expectPeek(names, "RBrace")
                  ELSE IF listed THEN addError(names) ELSE expectPeek(p, "Ident")
        from   == expectPeek(q, "From")
        path   == expectPeek(from, "String")
    IN  IF ~q.ok THEN Lost(q)
        ELSE IF ~from.ok THEN Lost(addError(from))
        ELSE IF ~path.ok THEN Lost(addError(path))
        ELSE Give(expectSemicolon(path),
                  ImportStatement(IF listed THEN names.n ELSE <<>>,
                                  IF listed THEN <<>> ELSE <<Cur(q).v>>, Cur(path).text))

\* The values of an enumeration; a comma may end them.
RECURSIVE EnumMembers(_, _)
EnumMembers(p, members) ==
    LET q == expectPeek(p, "Ident")
        all == Append(members, Cur(q).v)
        close == expectPeek(q, "RBrace")
    IN  IF peekIs(p, "RBrace") THEN [Give(nextToken(p), members) EXCEPT !.ok = TRUE]
        ELSE IF ~q.ok THEN q
        ELSE IF peekIs(q, "Comma") THEN EnumMembers(nextToken(q), all)
        ELSE Give(close, all)

parseEnumStatement(p) ==
    LET name == expectPeek(p, "Ident")
        open == expectPeek(name, "LBrace")
        q    == EnumMembers(open, <<>>)
    IN  IF ~name.ok THEN Lost(addError(name))
        ELSE IF ~open.ok THEN Lost(addError(open))
        ELSE IF ~q.ok THEN Lost(q)
        ELSE Give(expectSemicolon(q), EnumStatement(Cur(name).v, q.n))

\* Both parts of a try in the same style.
parseTryStatement(p) ==
    LET b     == startBlock(p)
        body  == IF b.ok THEN parseBraceBlock(b) ELSE parseSofBlock(b, {"Catch", "End"})
        found == IF b.ok THEN expectPeek(body, "Catch") ELSE [body EXCEPT !.ok = curIs(body, "Catch")]
        name  == expectPeek(found, "Ident")
        cb    == startBlock(name)
        catch == IF b.ok THEN parseBraceBlock(cb) ELSE expectSofEnd(parseSofBlock(name, {"End"}))
    IN  IF ~found.ok THEN Lost(addError(found))
        ELSE IF ~name.ok THEN Lost(addError(name))
        ELSE IF b.ok /\ ~cb.ok THEN Lost(addError(cb))
        ELSE Give(catch, TryStatement(body.n, Cur(name).v, catch.n))

parseStatement(p) ==
    LET t == Cur(p).t
    IN  CASE t = "Var"      -> parseVarStatement(p)
          [] t = "Return"   -> parseReturnStatement(p)
          [] t = "If"       -> parseIfChain(p, TRUE)
          [] t = "Switch"   -> parseSwitchStatement(p)
          [] t = "While"    -> parseWhileStatement(p)
          [] t = "For"      -> parseForStatement(p)
          [] t = "Break"    -> LoopExit(p, BreakStatement)
          [] t = "Continue" -> LoopExit(p, ContinueStatement)
          [] t = "Function" -> parseFunctionStatement(p)
          [] t = "Class"    -> parseClassStatement(p)
          [] t = "Include"  -> parseIncludeStatement(p)
          [] t = "Module"   -> parseModuleStatement(p)
          [] t = "Export"   -> parseExportStatement(p)
          [] t = "Import"   -> parseImportStatement(p)
          [] t = "Enum"     -> parseEnumStatement(p)
          [] t = "Try"      -> parseTryStatement(p)
          [] t = "Throw"    -> parseThrowStatement(p)
          [] t = "Ident" /\ peekIs(p, "Assign") -> parseAssignStatement(p)
          [] OTHER          -> parseExpressionStatement(p)

\* The program of a source, and the number of errors.
ParseProgram(src) ==
    LET l == Lex(src)
        p == StatementsUntil(NewParser(l), {}, <<>>)
    IN  [tree |-> p.n, errs |-> Errors(l, p)]
=============================================================================
