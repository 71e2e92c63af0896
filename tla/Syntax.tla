------------------------------- MODULE Syntax -------------------------------
(***************************************************************************)
(* A source file and the commands that read it: run and compile parse it,  *)
(* "check" parses it and asks its two questions of style, "format" writes  *)
(* it back in one style (cmd/yod/main.go).  A file is written as a whole   *)
(* or typed item by item.                                                  *)
(***************************************************************************)
EXTENDS Lint, Format

\* What parsing, formatting and checking a text gives (ParseProgram of Parser,
\* Source of Format, CheckSource of Lint).
CONSTANTS Parsed(_), Formatted(_), Checked(_)

\* The files there are, each with the program it stands for (no program for one
\* that is being typed) and whether it is given to the formatter, what may be
\* typed, how many items, how many times a file is formatted.
CONSTANTS Files, Keys, MaxItems, MaxRounds

VARIABLES file, program, tidied, typed, rounds

vars == <<file, program, tidied, typed, rounds>>

Init ==
    /\ \E f \in Files : file = f.text /\ program = f.program /\ tidied = f.tidied
    /\ typed = <<>>
    /\ rounds = 0

\* A word or a mark typed at the end of a file that was empty.
Type(items) ==
    /\ program = <<>>
    /\ rounds = 0
    /\ Len(typed) < MaxItems
    /\ file' = file \o items
    /\ typed' = Append(typed, items)
    /\ UNCHANGED <<program, tidied, rounds>>

\* The command "format" with the option that writes the file back.
FormatFile ==
    /\ tidied
    /\ rounds < MaxRounds
    /\ file' = Formatted(file)
    /\ rounds' = rounds + 1
    /\ UNCHANGED <<program, tidied, typed>>

Next == (\E items \in Keys : Type(items)) \/ FormatFile

Spec == Init /\ [][Next]_vars

----------------------------------------------------------------------------
(* Properties *)

\* A program written in any of the styles is parsed as what was written:
\* operators bind by the guide's table, blocks end where they should, and no
\* style means something else.
ParsesBack ==
    rounds = 0 /\ program # <<>> => Parsed(file) = [tree |-> program[1], errs |-> 0]

\* Formatting a file that parses does not change its program.
FormatKeepsTree ==
    [][rounds' > rounds /\ Parsed(file).errs = 0 => Parsed(file') = Parsed(file)]_vars

\* A text without its empty lines.
Dense(text) ==
    Through(LAMBDA kept, i : IF text[i] = NewLine /\ kept # <<>> /\ Last(kept) = NewLine THEN kept
                             ELSE Append(kept, text[i]), <<>>, 1, Len(text))

\* Formatting a formatted file changes nothing but empty lines.
FormatSettles ==
    [][rounds' > rounds /\ rounds > 0 => Dense(file') = Dense(file)]_vars

\* The children of a node, each a node.
Nodes(seq) == {seq[i] : i \in DOMAIN seq}
Inner(x) ==
    LET k == x.k
    IN  CASE k \in {"lit", "id", "this", "parent", "break", "continue", "include", "module",
                    "import", "enum", "missing"} -> {}
          [] k = "template" -> Nodes(x.exprs)
          [] k = "prefix"   -> {x.x}
          [] k = "infix"    -> {x.l, x.r}
          [] k = "call"     -> {x.f} \cup Nodes(x.args)
          [] k = "member"   -> {x.x}
          [] k = "index"    -> {x.x, x.i}
          [] k = "new"      -> Nodes(x.args)
          [] k = "assign"   -> {x.left, x.value}
          [] k = "array"    -> Nodes(x.els)
          [] k = "hash"     -> UNION {Nodes(x.pairs[i]) : i \in DOMAIN x.pairs}
          [] k = "param"    -> Nodes(x.default)
          [] k = "fn"       -> Nodes(x.params) \cup Nodes(x.body)
          [] k \in {"expr", "throw"} -> {x.x}
          [] k = "set"      -> {x.value}
          [] k \in {"var", "return"} -> Nodes(x.value)
          [] k = "block"    -> Nodes(x.body)
          [] k = "if"       -> {x.cond} \cup Nodes(x.then) \cup Nodes(x.else)
          [] k = "switch"   -> {x.x} \cup UNION {Nodes(c.values) \cup Nodes(c.body) : c \in Nodes(x.cases)}
                                     \cup UNION {Nodes(d) : d \in Nodes(x.default)}
          [] k = "while"    -> {x.cond} \cup Nodes(x.body)
          [] k = "forin"    -> {x.x} \cup Nodes(x.body)
          [] k = "forrange" -> {x.from, x.to} \cup Nodes(x.step) \cup Nodes(x.body)
          [] k = "try"      -> Nodes(x.body) \cup Nodes(x.catch)
          [] k = "class"    -> Nodes(x.body)
          [] k = "export"   -> {x.stmt}

RECURSIVE Whole(_)
Whole(node) == node # Missing /\ \A inner \in Inner(node) : Whole(inner)

\* A parser that tells of no error left no hole in the program: the evaluator
\* and the compiler would follow a pointer that points nowhere.
NoHoles ==
    LET r == Parsed(file) IN r.errs = 0 => \A stmt \in Nodes(r.tree) : Whole(stmt)

\* The lines of the texts and comments of a file that hold a tight minus.
Held(text) ==
    UNION {{line \in Range(Lines(t.raw)) : TightMinus(line)} :
              t \in {u \in Range(scan(text)) : u.kind \in {"string", "comment"}}}

Shows(line, part) == \E i \in 0 .. Len(line) - Len(part) : SubSeq(line, i + 1, i + Len(part)) = part

UserFile(stmt) == stmt.k = "include" /\ stmt.path # <<>> /\ Last(stmt.path).v = "yod"

\* The checker reads raw lines.  Of a formatted file it asks about a minus on the
\* lines where a text or a comment of the file holds a tight one, and on no other:
\* the formatter leaves none in the code.  And it sees every file of the user's
\* that the program includes: no two of them are left on one line.
FormattedPassesCheck ==
    [][rounds' > rounds =>
        /\ Checked(file').minus =
              {n \in DOMAIN Lines(file') : \E part \in Held(file) : Shows(Lines(file')[n], part)}
        /\ Parsed(file).errs = 0 =>
              Cardinality(Checked(file').import) >=
                 Cardinality({i \in DOMAIN Parsed(file).tree : UserFile(Parsed(file).tree[i])})]_vars
=============================================================================
