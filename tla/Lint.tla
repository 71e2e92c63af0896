-------------------------------- MODULE Lint --------------------------------
(***************************************************************************)
(* The checks of a file without running it (internal/lint): what the lexer *)
(* and the parser tell of, and two questions of style asked of the lines   *)
(* of the text.                                                            *)
(***************************************************************************)
EXTENDS Parser

\* The lines of a text.
RECURSIVE Lines(_)
Lines(src) ==
    LET j == FirstFrom(src, 1, LAMBDA n : Char(src, n) = "nl")
    IN  IF j > Len(src) THEN <<src>>
        ELSE <<SubSeq(src, 1, j - 1)>> \o Lines(SubSeq(src, j + 1, Len(src)))

IdentPart == {"word", "digits"}

\* A minus stands between two names or numbers without a blank.
TightMinus(line) ==
    \E i \in 1 .. Len(line) - 2 :
       /\ line[i].c \in IdentPart
       /\ line[i + 1].c = "-"
       /\ line[i + 2].c \in IdentPart

\* The lines as they are: what stands in a text or a comment counts too.
checkRiskyJuxtaMinus(src) == {n \in DOMAIN Lines(src) : TightMinus(Lines(src)[n])}

\* Lines, no comments, that include a file of the user's.
checkPreferImport(src) ==
    {n \in DOMAIN Lines(src) :
        LET raw  == Lines(src)[n]
            line == SubSeq(raw, FirstFrom(raw, 1, LAMBDA i : raw[i] # Blank), Len(raw))
            Says(v) == \E i \in DOMAIN line : line[i].v = v
        IN  /\ ~(Char(line, 1) = "/" /\ Char(line, 2) = "/")
            /\ Says("Include")
            /\ \E i \in DOMAIN line : Char(line, i) = "." /\ i < Len(line) /\ line[i + 1].v = "yod"}

\* What the command reports: errors of syntax, and the lines of each question.
CheckSource(src) ==
    [syntax |-> ParseProgram(src).errs, minus |-> checkRiskyJuxtaMinus(src), import |-> checkPreferImport(src)]
=============================================================================
