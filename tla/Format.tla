------------------------------- MODULE Format -------------------------------
(***************************************************************************)
(* The formatter (internal/format), which works on the words of a source   *)
(* and not on its tree: a scanner of its own drops the line breaks, three  *)
(* passes turn braces round and put brackets where they were left out, and *)
(* the printer decides from the words beside each other where a line ends  *)
(* and where a body that ends with a word begins.                          *)
(***************************************************************************)
EXTENDS Lexer

Pairwise(x, y) == [kind |-> "op", t |-> x, raw |-> <<Ch(y)>>]
OpenParen  == Pairwise("LParen", "(")
CloseParen == Pairwise("RParen", ")")
OpenBrace  == Pairwise("LBrace", "{")
CloseBrace == Pairwise("RBrace", "}")
NoTok      == [kind |-> "op", t |-> "Illegal", raw |-> <<>>]
EndOfToks  == [kind |-> "eof", t |-> "EOF", raw |-> <<>>]

TokAt(toks, i) == IF i \in DOMAIN toks THEN toks[i] ELSE EndOfToks
TypeAt(toks, i) == TokAt(toks, i).t

----------------------------------------------------------------------------
(* The scanner *)

\* Every group of digits that a point joins belongs to the number here.
RECURSIVE AfterGroups(_, _)
AfterGroups(src, i) ==
    LET j == AfterDigits(src, i)
    IN  IF Char(src, j) = "." /\ Char(src, j + 1) = "digits" THEN AfterGroups(src, j + 1) ELSE j

\* One past the comment that begins at i; one nobody closed leaves the last
\* item of the source outside.
AfterComment(src, i) ==
    IF Char(src, i + 1) = "/" THEN FirstFrom(src, i, LAMBDA j : Char(src, j) = "nl")
    ELSE LET close == FirstFrom(src, i + 2, LAMBDA j : Char(src, j) = "*" /\ Char(src, j + 1) = "/")
         IN  IF close <= Len(src) THEN close + 2
             ELSE IF Len(src) >= i + 2 THEN Len(src) ELSE i + 2

\* What the scanner does at i when it stands there: s is the words it has and
\* where it stands.
ScanAt(src, s, i) ==
    LET c   == Char(src, i)
        two == c \o Char(src, i + 1)
        raw(j) == SubSeq(src, i, IF j > Len(src) THEN Len(src) ELSE j - 1)
        Go(kind, t, j) == [toks |-> Append(s.toks, [kind |-> kind, t |-> t, raw |-> raw(j)]), next |-> j]
        word == AfterIdentifier(src, i)
    IN  CASE i < s.next -> s
          [] c \in {" ", "nl"} -> [s EXCEPT !.next = i + 1]
          [] two \in {"//", "/*"} -> Go("comment", "", AfterComment(src, i))
          [] c \in {"quote", "'", "tick"} -> Go("string", "String", Closing(src, i + 1, c) + 1)
          [] c = "digits" -> Go("number", "Number", AfterGroups(src, i))
          [] c = "word"   -> Go("ident", LookupIdent(Spelling(src, i, word)), word)
          [] two \in DOMAIN TwoChars -> Go("op", TwoChars[two], i + 2)
          [] OTHER -> Go("op", IF c \in DOMAIN OneChar THEN OneChar[c] ELSE "Illegal", i + 1)

scan(src) == Through(LAMBDA s, i : ScanAt(src, s, i), [toks |-> <<>>, next |-> 1], 1, Len(src)).toks

----------------------------------------------------------------------------
(* Which words go with which *)

BlockKeywords == {"If", "Else", "ElseIf", "While", "For", "Function", "Class", "Try", "Catch",
                  "Switch", "Case", "Default"}
CondKeywords  == {"If", "ElseIf", "While", "For"}
BinaryOps     == {"Assign", "PlusAssign", "MinusAssign", "AsteriskAssign", "SlashAssign",
                  "PercentAssign", "Plus", "Asterisk", "Slash", "Percent", "Minus", "Eq", "NotEq",
                  "Lt", "Gt", "LtEq", "GtEq", "And", "Or", "NullCoalesce", "Power"}

endsExprOrStmt(prev) ==
    \/ prev.t \in {"RBrace", "End", "Semicolon", "RParen", "RBracket"}
    \/ prev.kind \in {"ident", "number", "string"}

isHashBrace(prev) == prev.t \in {"Assign", "Comma", "Colon", "LBracket", "LParen", "Return", "Throw"}

isPrefixContext(prev) ==
    \/ prev.t \in (BinaryOps \ {"NullCoalesce", "Power"})
    \/ prev.t \in {"Illegal", "Bang", "Not", "Comma", "LParen", "LBracket", "Colon", "Return", "If",
                   "While", "For", "Throw"}
    \/ prev.kind = "comment"

spaceBeforeParen(prev) ==
    \/ prev.t \in (BinaryOps \ {"NullCoalesce", "Power"})
    \/ prev.t \in {"If", "While", "For", "Catch", "ElseIf", "Bang", "Not", "Comma", "Colon", "Return",
                   "Throw"}

needSpaceAfter(prev) == prev.t \notin {"LParen", "LBracket", "Dot", "Bang"}

expectsContinue(prev) ==
    prev.t \in {"If", "Else", "ElseIf", "While", "For", "Return", "Throw", "Var", "Function", "Class",
                "New", "Extends", "Include", "Private", "Public", "Catch", "In", "Try", "Assign",
                "Plus", "Minus", "Asterisk", "Slash", "Percent", "Eq", "NotEq", "Lt", "Gt", "LtEq",
                "GtEq", "Bang", "Comma", "Colon", "Dot", "LParen", "LBracket", "LBrace", "End", "And",
                "Or", "Not", "NullCoalesce", "Power"}

\* Mutant: only a name begins a statement.
NamesStart(t) == t.t = "Ident"

\* A word that can begin a statement: any word, whatever its type.
isStmtStart(t) == t.kind = "ident"

shouldBreakBefore(prev, t) ==
    /\ t.t \notin {"Extends", "In", "And", "Or", "Not"}
    /\ ~(t.t = "Ident" /\ prev.t \in {"Function", "Comma"})
    /\ ~(prev.t \in {"RBrace", "End"} /\ t.t \in {"Else", "ElseIf", "Catch"})
    /\ t.kind # "op"
    /\ ~expectsContinue(prev)
    /\ endsExprOrStmt(prev)
    /\ isStmtStart(t)

isTopLevelBreak(prev, t) ==
    endsExprOrStmt(prev) /\ t.t \in {"Function", "Class", "If", "While", "For", "Try", "Var"}

\* Whether the body of a bare condition may begin at j.
looksLikeBodyStart(toks, j) ==
    LET t == toks[j].t
        prev == TokAt(toks, j - 1)
        Ends == /\ prev.t \notin BinaryOps
                /\ prev.t \notin {"LParen", "Not", "Bang", "Comma", "Dot", "Colon"}
                /\ endsExprOrStmt(prev)
    IN  /\ prev.t # "In"
        /\ \/ t \in {"Var", "If", "While", "For", "Return", "Function", "Break", "Continue", "Try",
                     "Throw", "Class", "Include", "Else", "ElseIf", "Private", "Public", "Switch",
                     "Case", "Default"}
           \/ t \in {"This", "New", "Parent"} /\ Ends
           \/ t = "Ident" /\ prev.t # "Extends" /\ Ends

looksLikeForBodyStart(toks, j) ==
    /\ toks[j].raw[1].v \notin {"of", "to"}
    /\ toks[j].t # "In"
    /\ TypeAt(toks, j - 1) \notin {"In", "Dot", "LParen", "LBracket", "This"}
    /\ looksLikeBodyStart(toks, j)

\* Whether the bracket at i closes the head of a block.
isBlockHeaderParen(toks, i) ==
    LET Depth(j) == Cardinality({n \in j .. i : toks[n].t = "RParen"})
                    - Cardinality({n \in j .. i : toks[n].t = "LParen"})
        opens == {j \in 1 .. i : toks[j].t = "LParen" /\ Depth(j) = 0}
        open  == CHOOSE j \in opens : \A n \in opens : n <= j
        heads == {k \in 1 .. open - 1 : toks[k].kind # "comment" /\ toks[k].t # "Ident"}
    IN  /\ opens # {}
        /\ heads # {}
        /\ toks[CHOOSE k \in heads : \A n \in heads : n <= k].t
              \in {"Function", "If", "ElseIf", "While", "For"}

\* Whether a body that ends with a word begins after the bracket at i.
sofBodyAfter(toks, i, next) ==
    /\ next.t \notin {"LBrace", "RBrace", "Semicolon", "Comma", "Dot", "RParen", "RBracket", "EOF"}
    /\ next.kind = "op" => next.t = "Bang"
    /\ isBlockHeaderParen(toks, i)

sofOpensAfter(prev, t, next) ==
    /\ next.t \notin {"LBrace", "RBrace", "End", "EOF"}
    /\ \/ t.t \in {"Else", "Try"}
       \/ t.t = "Ident" /\ prev.t \in {"Catch", "Extends"}
       \/ t.t = "Ident" /\ prev.t = "Class" /\ next.t # "Extends"

----------------------------------------------------------------------------
(* The passes before printing *)

\* Braces the other way round after a keyword that begins a block are turned
\* when no other brace stands between them.
TurnRound(toks, i) ==
    LET Depth(d, m) == CASE toks[m].t \in {"LParen", "LBracket"}           -> d + 1
                         [] toks[m].t \in {"RParen", "RBracket"} /\ d > 0 -> d - 1
                         [] OTHER -> d
        Inside(n) == Through(Depth, 0, i + 1, n - 1) > 0
        j == FirstFrom(toks, i + 1, LAMBDA n : toks[n].t = "LBrace" \/ (toks[n].t = "RBrace" /\ ~Inside(n)))
        k == FirstFrom(toks, j + 1, LAMBDA n : toks[n].t \in {"LBrace", "RBrace"})
    IN  IF toks[i].t \in BlockKeywords /\ TypeAt(toks, j) = "RBrace" /\ TypeAt(toks, k) = "LBrace"
        THEN [toks EXCEPT ![j] = OpenBrace, ![k] = CloseBrace]
        ELSE toks

normalizeMirroredBraces(toks) == Through(TurnRound, toks, 1, Len(toks))

\* One past the names, with commas between, that begin at i.
RECURSIVE AfterNames(_, _)
AfterNames(toks, i) ==
    CASE TypeAt(toks, i) # "Ident"     -> i
      [] TypeAt(toks, i + 1) = "Comma" -> AfterNames(toks, i + 2)
      [] OTHER                         -> i + 1

\* A pass over the words: what it wrote, and where it stands.
Passed(w, words, next) == [out |-> w.out \o words, next |-> next]
Pass(At(_, _), toks)   == Through(At, [out |-> <<>>, next |-> 1], 1, Len(toks)).out

\* Brackets around the parameters after the name of a function.
WrapParamsAt(toks, w, i) ==
    LET j == AfterNames(toks, i + 2)
    IN  IF i < w.next THEN w
        ELSE IF toks[i].t # "Function" \/ TypeAt(toks, i + 1) # "Ident" THEN Passed(w, <<toks[i]>>, i + 1)
        ELSE IF TypeAt(toks, i + 2) = "LParen" THEN Passed(w, SubSeq(toks, i, i + 1), i + 2)
        ELSE Passed(w, SubSeq(toks, i, i + 1) \o <<OpenParen>> \o SubSeq(toks, i + 2, j - 1) \o <<CloseParen>>, j)

wrapBareFunctionParams(toks) == Pass(LAMBDA w, i : WrapParamsAt(toks, w, i), toks)

\* Mutant: what stands between brackets is put between brackets again.
NeverBracketed(toks, i) == FALSE

\* Whether the condition after the keyword at i has its brackets.
Bracketed(toks, i) == TypeAt(toks, i + 1) = "LParen"

\* Brackets around a condition, up to where a body seems to begin.
WrapConditionsAt(toks, w, i) ==
    LET BodyStart(n) == IF toks[i].t = "For" THEN looksLikeForBodyStart(toks, n)
                        ELSE looksLikeBodyStart(toks, n)
        j == FirstFrom(toks, i + 1, LAMBDA n : toks[n].t \in {"LBrace", "End"} \/ (n > i + 1 /\ BodyStart(n)))
    IN  IF i < w.next THEN w
        ELSE IF toks[i].t \notin CondKeywords \/ Bracketed(toks, i) \/ j <= i + 1
        THEN Passed(w, <<toks[i]>>, i + 1)
        ELSE Passed(w, <<toks[i], OpenParen>> \o SubSeq(toks, i + 1, j - 1) \o <<CloseParen>>, j)

wrapBareConditions(toks) == Pass(LAMBDA w, i : WrapConditionsAt(toks, w, i), toks)

preferPhpShape(toks) == wrapBareConditions(wrapBareFunctionParams(toks))

----------------------------------------------------------------------------
(* The printer *)

\* The printer: what it wrote, the depth of its blocks, whether it stands at the
\* start of a line or owes a blank, the word before, whether each open brace is
\* a literal, and how many bodies it opened in place of a word that ends one.
NewPrinter == [out |-> <<>>, indent |-> 0, start |-> TRUE, space |-> FALSE, prev |-> NoTok,
               hashes |-> <<>>, sof |-> 0]

Emit(s, items) == [s EXCEPT !.out = @ \o items]
writeIndent(s) == Emit(s, [n \in 1 .. s.indent |-> Blank])
newline(s)     == [Emit(s, <<NewLine>>) EXCEPT !.start = TRUE, !.space = FALSE]
Before(s, t)   == [s EXCEPT !.prev = t]
Spaced(s, b)   == [s EXCEPT !.space = b]
FreshLine(s)   == IF s.start THEN s ELSE newline(s)

ensureSpace(s) ==
    LET q == IF s.start THEN writeIndent(s) ELSE IF s.space THEN Emit(s, <<Blank>>) ELSE s
    IN  [q EXCEPT !.start = FALSE, !.space = FALSE]
writeLit(s, items) == Emit(ensureSpace(s), items)

\* A text without its own quotes, a template among them, is put between quotes.
quoteString(raw) ==
    IF Len(raw) >= 2 /\ raw[1].c \in {"quote", "'"} THEN raw ELSE <<Ch("quote")>> \o raw \o <<Ch("quote")>>
renderTok(t) == IF t.kind = "string" THEN quoteString(t.raw) ELSE t.raw

endStatementIfNeeded(s) ==
    IF ~s.start /\ s.prev.t \notin {"Semicolon", "RBrace", "LBrace", "End", "Illegal"} /\ endsExprOrStmt(s.prev)
    THEN newline(s) ELSE s

OpenBody(s) == newline([Emit(s, <<Blank, Ch("{")>>) EXCEPT !.indent = @ + 1])
Outdent(s)  == [s EXCEPT !.indent = IF @ > 0 THEN @ - 1 ELSE 0]

PrintComment(s, t) ==
    Before(newline(Emit(writeIndent(FreshLine(endStatementIfNeeded(s))), t.raw)), t)

PrintLBrace(s, t) ==
    LET hash == isHashBrace(s.prev)
        q    == [s EXCEPT !.hashes = Append(@, hash)]
        at   == IF s.start THEN writeIndent(q) ELSE q
    IN  IF hash THEN Before([Emit(at, t.raw) EXCEPT !.start = FALSE, !.space = FALSE], t)
        ELSE Before(newline([Emit(at, IF s.start THEN t.raw ELSE <<Blank>> \o t.raw) EXCEPT !.indent = @ + 1]), t)

\* What follows a closed block: the rest of a chain, of an expression, or a new
\* line, and another one between the blocks of a file.
AfterBlock(s, next) ==
    IF next.t \in {"Else", "ElseIf", "Catch"} THEN Spaced(s, TRUE)
    ELSE IF next.t \in {"RParen", "Comma", "RBracket"} THEN Spaced(s, FALSE)
    ELSE IF s.indent = 0 /\ next.t # "EOF" /\ next.kind # "comment" THEN newline(newline(s))
    ELSE newline(s)

PrintRBrace(s, t, next) ==
    LET hash == s.hashes # <<>> /\ Last(s.hashes)
        q    == [s EXCEPT !.hashes = IF @ = <<>> THEN @ ELSE Front(@)]
        line == Outdent(FreshLine(endStatementIfNeeded(q)))
    IN  IF hash THEN Before([Emit(q, t.raw) EXCEPT !.start = FALSE, !.space = FALSE], t)
        ELSE AfterBlock(Before([Emit(writeIndent(line), t.raw) EXCEPT !.start = FALSE], t), next)

\* The word that ends a body is a brace when the printer opened one; whose body
\* it ends is not kept.
PrintEnd(s, t, next) ==
    LET line == writeIndent(Outdent(FreshLine(endStatementIfNeeded(s))))
        q == IF s.sof > 0 THEN Before([Emit(line, <<Ch("}")>>) EXCEPT !.sof = @ - 1], CloseBrace)
             ELSE Before(Emit(line, t.raw), t)
    IN  AfterBlock([q EXCEPT !.start = FALSE], next)

\* Closing brackets, commas, points and colons stay with what stands before.
PrintMark(s, t, space) == Before([Emit(s, t.raw) EXCEPT !.space = space, !.start = FALSE], t)

PrintClosing(s, t, toks, i, next) ==
    LET q == PrintMark(s, t, FALSE)
    IN  IF t.t = "RParen" /\ sofBodyAfter(toks, i, next) THEN [OpenBody(q) EXCEPT !.sof = @ + 1] ELSE q

PrintBinary(s, t) == Before(Spaced(writeLit(Spaced(s, TRUE), t.raw), TRUE), t)

PrintSign(s, t) ==
    IF isPrefixContext(s.prev) THEN Before(writeLit(s, t.raw), t) ELSE PrintBinary(s, t)

\* Mutant: a brace before the next branch is taken for the one that closes it.
CloseBranchOnce(s, t) ==
    IF t.t \in {"Else", "ElseIf", "Catch"} /\ s.prev.t # "RBrace"
    THEN [Emit(writeIndent(Outdent(FreshLine(s))), <<Ch("}")>>)
             EXCEPT !.sof = IF @ > 0 THEN @ - 1 ELSE 0, !.start = FALSE, !.space = TRUE, !.prev = CloseBrace]
    ELSE s

\* A branch that ends with a word is closed before the next one begins.
CloseBranch(s, t) ==
    IF t.t \in {"Else", "ElseIf", "Catch"} /\ (s.prev.t # "RBrace" \/ s.sof > 0)
    THEN [Emit(writeIndent(Outdent(FreshLine(s))), <<Ch("}")>>)
             EXCEPT !.sof = IF @ > 0 THEN @ - 1 ELSE 0, !.start = FALSE, !.space = TRUE, !.prev = CloseBrace]
    ELSE s

\* Words, numbers, texts and what is no operator.
PrintWord(s, t, next) ==
    LET ended  == FreshLine(endStatementIfNeeded(s))
        broken == IF s.start \/ ~shouldBreakBefore(s.prev, t) THEN s
                  ELSE IF s.indent = 0 /\ isTopLevelBreak(s.prev, t) THEN newline(ended) ELSE ended
        q == CloseBranch(broken, t)
        w == writeLit(Spaced(q, needSpaceAfter(q.prev)), renderTok(t))
    IN  IF sofOpensAfter(q.prev, t, next)
        THEN Before([OpenBody(w) EXCEPT !.sof = @ + 1], t)
        ELSE Before(Spaced(w, TRUE), t)

PrintTok(s, toks, i) ==
    LET t == toks[i]
        next == TokAt(toks, i + 1)
    IN  CASE t.kind = "comment" -> PrintComment(s, t)
          [] t.t = "LBrace"     -> PrintLBrace(s, t)
          [] t.t = "RBrace"     -> PrintRBrace(s, t, next)
          [] t.t = "End"        -> PrintEnd(s, t, next)
          [] t.t \in {"Comma", "Colon"} -> PrintMark(s, t, TRUE)
          [] t.t = "Dot"        -> PrintMark(s, t, FALSE)
          [] t.t = "Semicolon"  -> newline(Before(s, t))
          [] t.t \in {"LParen", "LBracket"} ->
               Before(Spaced(writeLit(Spaced(s, spaceBeforeParen(s.prev)), t.raw), FALSE), t)
          [] t.t \in {"RParen", "RBracket"} -> PrintClosing(s, t, toks, i, next)
          [] t.t \in BinaryOps  -> PrintBinary(s, t)
          [] t.t \in {"Bang", "Minus"} -> PrintSign(s, t)
          [] OTHER              -> PrintWord(s, t, next)

\* No line is left empty twice, and one line break ends the file.
RECURSIVE TrimRight(_)
TrimRight(out) == IF out # <<>> /\ Last(out) = NewLine THEN TrimRight(Front(out)) ELSE out

OneEmptyLine(out) ==
    Through(LAMBDA kept, i :
                IF out[i] = NewLine /\ Len(kept) > 1 /\ kept[Len(kept)] = NewLine /\ kept[Len(kept) - 1] = NewLine
                THEN kept ELSE Append(kept, out[i]),
            <<>>, 1, Len(out))

printToks(toks) ==
    LET s == Through(LAMBDA q, i : PrintTok(q, toks, i), NewPrinter, 1, Len(toks))
    IN  OneEmptyLine(Append(TrimRight(endStatementIfNeeded(s).out), NewLine))

Source(src) == printToks(preferPhpShape(normalizeMirroredBraces(scan(src))))
=============================================================================
