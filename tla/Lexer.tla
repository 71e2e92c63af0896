------------------------------- MODULE Lexer -------------------------------
(***************************************************************************)
(* The words of the language (internal/token) and the lexer                *)
(* (internal/lexer): from a source to tokens, each with the line it begins *)
(* on, by which the parser ends statements.  A source is a sequence of     *)
(* items: a character that means something to the lexer, or a run of       *)
(* letters or of digits, one item each.                                    *)
(***************************************************************************)
EXTENDS Integers, Sequences, SequencesExt, FiniteSets, TLC

\* An item: c is the character or the kind of the run, v its text.
Ch(x)      == [c |-> x, v |-> x]
Word(x)    == [c |-> "word", v |-> x]
Digits(x)  == [c |-> "digits", v |-> x]
NewLine    == Ch("nl")
Blank      == Ch(" ")

\* The keywords of token.go, each spelled here as the name of its type.
keywords ==
    {"Var", "If", "Else", "ElseIf", "While", "For", "Break", "Continue", "Function", "Return",
     "True", "False", "Null", "In", "Class", "New", "This", "Extends", "Parent", "Private",
     "Public", "Include", "Module", "Export", "Import", "From", "Enum", "Try", "Catch", "Throw",
     "End", "And", "Or", "Not", "Switch", "Case", "Default"}

LookupIdent(v) == IF v \in keywords THEN v ELSE "Ident"

TwoChars ==
    "==" :> "Eq" @@ "!=" :> "NotEq" @@ "<=" :> "LtEq" @@ ">=" :> "GtEq" @@ "&&" :> "And" @@
    "||" :> "Or" @@ "+=" :> "PlusAssign" @@ "-=" :> "MinusAssign" @@ "*=" :> "AsteriskAssign" @@
    "/=" :> "SlashAssign" @@ "%=" :> "PercentAssign" @@ "**" :> "Power" @@
    "??" :> "NullCoalesce" @@ "->" :> "Arrow"

OneChar ==
    "=" :> "Assign" @@ "+" :> "Plus" @@ "-" :> "Minus" @@ "*" :> "Asterisk" @@ "/" :> "Slash" @@
    "%" :> "Percent" @@ "!" :> "Bang" @@ "<" :> "Lt" @@ ">" :> "Gt" @@ "," :> "Comma" @@
    ";" :> "Semicolon" @@ "(" :> "LParen" @@ ")" :> "RParen" @@ "{" :> "LBrace" @@
    "}" :> "RBrace" @@ "[" :> "LBracket" @@ "]" :> "RBracket" @@ "." :> "Dot" @@ ":" :> "Colon"

\* A token: its type, its literal, what a string or template holds (items) and
\* its line.
Token(t, v, text, line) == [t |-> t, v |-> v, text |-> text, line |-> line]

Char(src, i) == IF i \in DOMAIN src THEN src[i].c ELSE ""

LineAt(src, i) == 1 + Cardinality({j \in 1 .. i - 1 : Char(src, j) = "nl"})

\* The first place at or after i where P(place) holds, one past the end if none.
FirstFrom(src, i, P(_)) ==
    LET places == {j \in i .. Len(src) : P(j)}
    IN  IF places = {} THEN Len(src) + 1 ELSE CHOOSE j \in places : \A k \in places : j <= k

\* A loop over the places from i to j: Do of each, from s.  One half is done
\* before the other begins, so that a long text is no deep recursion.
RECURSIVE Through(_, _, _, _)
Through(Do(_, _), s, i, j) ==
    LET mid == (i + j) \div 2
    IN  CASE i > j -> s
          [] i = j -> Do(s, i)
          [] OTHER -> CHOOSE r \in {Through(Do, half, mid + 1, j) : half \in {Through(Do, s, i, mid)}} : TRUE

Spelling(src, i, j) ==
    FoldLeft(LAMBDA v, item : v \o item.v, "", SubSeq(src, i, j - 1))

\* One past the run of letters and digits, or of digits alone, that begins at i.
AfterIdentifier(src, i) == FirstFrom(src, i, LAMBDA j : Char(src, j) \notin {"word", "digits"})
AfterDigits(src, i)     == FirstFrom(src, i, LAMBDA j : Char(src, j) # "digits")

\* One past a number: a point belongs to it when a digit follows, once.
AfterNumber(src, i) ==
    LET j == AfterDigits(src, i)
    IN  IF Char(src, j) = "." /\ Char(src, j + 1) = "digits" THEN AfterDigits(src, j + 1) ELSE j

\* The place of the quote that closes the text begun before i; what a backslash
\* precedes closes nothing.
RECURSIVE Closing(_, _, _)
Closing(src, i, quote) ==
    CASE i > Len(src)         -> Len(src) + 1
      [] Char(src, i) = quote -> i
      [] Char(src, i) = "\\"  -> Closing(src, i + 2, quote)
      [] OTHER                -> Closing(src, i + 1, quote)

\* What the text means: a backslash goes with what it stands before; before
\* anything else it stays.
RECURSIVE unescape(_)
unescape(text) ==
    IF text = <<>> THEN <<>>
    ELSE IF Head(text).c # "\\" \/ Len(text) = 1 THEN <<Head(text)>> \o unescape(Tail(text))
    ELSE LET n == text[2]
         IN  (CASE n.v = "n" -> <<NewLine>>
                [] n.v = "t" -> <<Blank>>
                [] n.c \in {"\\", "quote", "'"} -> <<n>>
                [] OTHER -> <<Head(text), n>>)
             \o unescape(SubSeq(text, 3, Len(text)))

\* The same for a template, whose backquote and dollar may be kept from meaning
\* anything.
RECURSIVE UnescapeTemplate(_)
UnescapeTemplate(text) ==
    IF text = <<>> THEN <<>>
    ELSE IF Head(text).c # "\\" \/ Len(text) = 1 THEN <<Head(text)>> \o UnescapeTemplate(Tail(text))
    ELSE LET n == text[2]
         IN  (CASE n.v = "n" -> <<NewLine>>
                [] n.v = "t" -> <<Blank>>
                [] n.c \in {"tick", "$", "\\"} -> <<n>>
                [] OTHER -> <<Head(text), n>>)
             \o UnescapeTemplate(SubSeq(text, 3, Len(text)))

\* Where the token after i begins, and the errors met on the way: a block
\* comment nobody closed takes the rest of the source.
RECURSIVE skipWhitespaceAndComments(_, _)
skipWhitespaceAndComments(src, i) ==
    LET two == <<Char(src, i), Char(src, i + 1)>>
    IN  CASE two[1] \in {" ", "nl"} -> skipWhitespaceAndComments(src, i + 1)
          [] two = <<"/", "/">> ->
               skipWhitespaceAndComments(src, FirstFrom(src, i, LAMBDA j : Char(src, j) = "nl"))
          [] two = <<"/", "*">> ->
               LET close == FirstFrom(src, i + 2, LAMBDA j : Char(src, j) = "*" /\ Char(src, j + 1) = "/")
               IN  IF close > Len(src) THEN [at |-> close, errs |-> 1]
                   ELSE skipWhitespaceAndComments(src, close + 2)
          [] OTHER -> [at |-> i, errs |-> 0]

\* A token that was read at i, where the next one begins, and the errors met.
Read(src, i, t, v, text, next, errs) ==
    [tok |-> Token(t, v, text, LineAt(src, i)), next |-> next, errs |-> errs]

\* A text between quotes ends with the source when nothing closes it, and only
\* an open template is told of.
readString(src, i, quote) ==
    LET j == Closing(src, i + 1, quote)
    IN  Read(src, i, "String", "", unescape(SubSeq(src, i + 1, j - 1)), j + 1, 0)

readTemplate(src, i) ==
    LET j == Closing(src, i + 1, "tick")
    IN  Read(src, i, "Template", "", UnescapeTemplate(SubSeq(src, i + 1, j - 1)), j + 1,
             IF j > Len(src) THEN 1 ELSE 0)

\* What has no sign of its own: a name or a keyword, a number, or nothing known.
ReadOther(src, i) ==
    LET c == Char(src, i)
        j == IF c = "word" THEN AfterIdentifier(src, i) ELSE AfterNumber(src, i)
        v == Spelling(src, i, j)
    IN  CASE c = "word"   -> Read(src, i, LookupIdent(v), v, <<>>, j, 0)
          [] c = "digits" -> Read(src, i, "Number", v, <<>>, j, 0)
          [] OTHER        -> Read(src, i, "Illegal", c, <<>>, i + 1, 0)

\* The token that begins at i and the place after it.
ReadToken(src, i) ==
    LET c   == Char(src, i)
        two == c \o Char(src, i + 1)
    IN  CASE c = "" -> Read(src, i, "EOF", "", <<>>, i, 0)
          [] c \in {"quote", "'"}   -> readString(src, i, c)
          [] c = "tick"             -> readTemplate(src, i)
          [] two \in DOMAIN TwoChars -> Read(src, i, TwoChars[two], two, <<>>, i + 2, 0)
          [] two \notin DOMAIN TwoChars /\ c \in DOMAIN OneChar ->
                Read(src, i, OneChar[c], c, <<>>, i + 1, 0)
          [] OTHER -> ReadOther(src, i)

\* The lexer reads on where it stands, until it has read the end.
NextToken(src, l, i) ==
    LET skipped == skipWhitespaceAndComments(src, i)
        r == ReadToken(src, skipped.at)
    IN  IF i # l.next \/ (l.toks # <<>> /\ Last(l.toks).t = "EOF") THEN l
        ELSE [toks |-> Append(l.toks, r.tok), errs |-> l.errs + skipped.errs + r.errs, next |-> r.next]

\* All tokens up to the end of the source, how many errors the lexer met and
\* where it stands: what nothing closes leaves it two past the last item.
Lex(src) ==
    Through(LAMBDA l, i : NextToken(src, l, i), [toks |-> <<>>, errs |-> 0, next |-> 1], 1, Len(src) + 2)
=============================================================================
