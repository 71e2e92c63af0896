------------------------------ MODULE Methods ------------------------------
(***************************************************************************)
(* The built-in methods of strings, numbers, booleans and null             *)
(* (internal/object/methods.go, and FormatString of helpers.go).  Methods  *)
(* on case and on fractions are left out.  A pattern of a regular          *)
(* expression is a text without signs of its own, or one whose bracket     *)
(* nobody closes.  Every method fails when it is given a number of arguments its     *)
(* table does not name; most print no value, those that do change s.out.   *)
(***************************************************************************)
EXTENDS Objects

IsNum(v) == v.t = "number"
Chars(s) == [i \in DOMAIN s |-> <<s[i]>>]

\* The places, from 0, at which sub starts in chars.
Occurrences(chars, sub) ==
    {i \in 0 .. Len(chars) - Len(sub) : SubSeq(chars, i + 1, i + Len(sub)) = sub}

FirstOf(places) == IF places = {} THEN -1 ELSE CHOOSE i \in places : \A j \in places : i <= j
LastOf(places)  == IF places = {} THEN -1 ELSE CHOOSE i \in places : \A j \in places : i >= j

RECURSIVE Pieces(_, _)
\* strings.Split by a separator that is not empty: never fewer than one piece.
Pieces(chars, sep) ==
    LET i == FirstOf(Occurrences(chars, sep))
    IN  IF i < 0 THEN <<chars>>
        ELSE <<SubSeq(chars, 1, i)>> \o Pieces(SubSeq(chars, i + Len(sep) + 1, Len(chars)), sep)

stringSplit(chars, sep) == IF sep = <<>> THEN Chars(chars) ELSE Pieces(chars, sep)

\* An empty old string is found before every character and at the end.
stringReplace(chars, old, new) ==
    Join(IF old = <<>> THEN <<<<>>>> \o Chars(chars) \o <<<<>>>> ELSE Pieces(chars, old), new)

stringCount(chars, sub) ==
    IF sub = <<>> THEN Len(chars) + 1 ELSE Len(Pieces(chars, sub)) - 1

Spaces == {" ", "\n", "\t"}

RECURSIVE TrimStart(_)
TrimStart(chars) ==
    IF chars # <<>> /\ Head(chars) \in Spaces THEN TrimStart(Tail(chars)) ELSE chars

TrimEnd(chars) == Reverse(TrimStart(Reverse(chars)))

stringTrim(chars) == TrimEnd(TrimStart(chars))

RECURSIVE stringRepeat(_, _)
stringRepeat(chars, times) ==
    IF times <= 0 THEN <<>> ELSE chars \o stringRepeat(chars, times - 1)

\* The part from start, from 0, up to end, both brought into the bounds.
Slice(seq, start, end) ==
    LET from == IF start < 0 THEN 0 ELSE start
        to   == IF end > Len(seq) THEN Len(seq) ELSE end
    IN  IF from > to THEN <<>> ELSE SubSeq(seq, from + 1, to)

\* need characters of pad, over and over.
Padding(need, pad) == [i \in 1 .. need |-> pad[((i - 1) % Len(pad)) + 1]]

PadOf(args) == IF Len(args) < 2 \/ args[2] = <<>> THEN <<" ">> ELSE args[2]

\* left and right say how much of the missing length goes to which side.
Pad(chars, width, pad, side) ==
    LET need == width - Len(chars)
        left == CASE side = "left" -> need [] side = "right" -> 0 [] OTHER -> need \div 2
    IN  IF need <= 0 THEN chars
        ELSE Padding(left, pad) \o chars \o Padding(need - left, pad)

stringLines(chars) == Pieces(chars, <<"\n">>)

----------------------------------------------------------------------------
(* Patterns and paths *)

\* Whether the pattern can be compiled.
compileRegex(pattern) == "(" \notin Range(pattern)

\* One that can matches where its own text stands.
regexMethod(chars, name, text, s) ==
    CASE ~compileRegex(text[1])   -> Fails(s)
      [] name = "match"          -> Gives(Bool(Occurrences(chars, text[1]) # {}), s)
      [] name = "search"         -> Gives(Num(FirstOf(Occurrences(chars, text[1]))), s)
      [] name = "replacePattern" -> Gives(Str(stringReplace(chars, text[1], text[2])), s)
      [] name = "splitPattern"   ->
            LET parts == stringSplit(chars, text[1])
            IN  NewArray([i \in DOMAIN parts |-> Str(parts[i])], s)

RECURSIVE TrimSlashes(_)
TrimSlashes(chars) ==
    IF chars # <<>> /\ Last(chars) = "/" THEN TrimSlashes(Front(chars)) ELSE chars

\* filepath.Base: what follows the last slash, those at the end left out.
stringBaseName(chars) ==
    LET path == TrimSlashes(chars)
    IN  IF chars = <<>> THEN <<".">> ELSE IF path = <<>> THEN <<"/">> ELSE Last(Pieces(path, <<"/">>))

\* filepath.Ext: the last dot of the last part and what follows it.
stringExt(chars) ==
    LET part == Last(Pieces(chars, <<"/">>))
        dot  == LastOf(Occurrences(part, <<".">>))
    IN  IF dot < 0 THEN <<>> ELSE SubSeq(part, dot + 1, Len(part))

stringNoExt(chars) ==
    LET base == stringBaseName(chars) IN SubSeq(base, 1, Len(base) - Len(stringExt(base)))

----------------------------------------------------------------------------
(* Texts of numbers and of arguments *)

DigitOf(c) == CASE c = "0" -> 0 [] c = "1" -> 1 [] c = "2" -> 2 [] OTHER -> -1

\* strconv.ParseFloat of the digits the model writes; <<>> when it fails.
ParseNumber(chars) ==
    LET c == stringTrim(chars)
    IN  IF Len(c) = 1 /\ DigitOf(c[1]) >= 0 THEN <<Num(DigitOf(c[1]))>> ELSE <<>>

RECURSIVE FormatString(_, _)
\* {n} becomes the n-th argument, {{ and }} one brace; anything else stays.
\* The result is <<>> when there is no such argument, else <<the string>>.
FormatString(chars, args) ==
    LET On(done, rest) ==
            LET r == FormatString(rest, args)
            IN  IF r = <<>> THEN <<>> ELSE <<done \o r[1]>>
        At(i) == IF i <= Len(chars) THEN chars[i] ELSE ""
    IN  CASE chars = <<>> -> <<<<>>>>
          [] At(1) = "{" /\ At(2) = "{" -> On(<<"{">>, SubSeq(chars, 3, Len(chars)))
          [] At(1) = "{" /\ DigitOf(At(2)) >= 0 /\ At(3) = "}" ->
                IF DigitOf(At(2)) < Len(args)
                THEN On(args[DigitOf(At(2)) + 1], SubSeq(chars, 4, Len(chars)))
                ELSE <<>>
          [] At(1) = "}" /\ At(2) = "}" -> On(<<"}">>, SubSeq(chars, 3, Len(chars)))
          [] OTHER -> On(<<At(1)>>, Tail(chars))

----------------------------------------------------------------------------
(* Numbers *)

LowHigh(a, b) == IF a > b THEN <<b, a>> ELSE <<a, b>>

numberClamp(v, a, b) ==
    LET w == LowHigh(a, b) IN IF v < w[1] THEN w[1] ELSE IF v > w[2] THEN w[2] ELSE v

numberMax(self, other, s) == Gives(IF self.num >= other.num THEN self ELSE other, s)
numberMin(self, other, s) == Gives(IF self.num <= other.num THEN self ELSE other, s)

\* The remainder has the sign of the number.
numberMod(self, by, s) ==
    IF by.num = 0 THEN Fails(s) ELSE Gives(Num(TruncMod(self.num, by.num)), s)

----------------------------------------------------------------------------
(* The tables of methods: name, and the numbers of arguments it may have.    *)

stringMethods ==
    [length |-> {0}, isEmpty |-> {0}, print |-> {0}, toString |-> {0}, toNumber |-> {0},
     trim |-> {0}, trimStart |-> {0}, trimEnd |-> {0}, reverse |-> {0}, repeat |-> {1},
     contains |-> {1}, hasPrefix |-> {1}, hasSuffix |-> {1}, indexOf |-> {1},
     lastIndexOf |-> {1}, replace |-> {2}, split |-> {0, 1}, slice |-> {1, 2},
     charAt |-> {1}, lines |-> {0}, format |-> 0 .. 9, padLeft |-> {1, 2},
     padRight |-> {1, 2}, padCenter |-> {1, 2}, count |-> {1}, charCode |-> {0, 1},
     fromCode |-> {1}, match |-> {1}, search |-> {1}, replacePattern |-> {2},
     splitPattern |-> {1}, baseName |-> {0}, ext |-> {0}, noExt |-> {0}]

numberMethods ==
    [print |-> {0}, toString |-> {0}, toNumber |-> {0}, abs |-> {0}, power |-> {1},
     even |-> {0}, odd |-> {0}, sign |-> {0}, between |-> {2}, clamp |-> {2},
     max |-> {1}, min |-> {1}, mod |-> {1}]

booleanMethods == [print |-> {0}, toString |-> {0}, toNumber |-> {0}, not |-> {0}]

nullMethods == [print |-> {0}, toString |-> {0}, isEmpty |-> {0}]

\* Arguments that must be numbers; the others are taken as they are printed.
NumberArgs(name) ==
    CASE name \in {"repeat", "charAt", "padLeft", "padRight", "padCenter", "charCode",
                   "fromCode", "power", "max", "min", "mod"} -> {1}
      [] name \in {"slice", "between", "clamp"} -> {1, 2}
      [] OTHER -> {}

numberMethod(self, name, args, s) ==
    LET v    == self.num
        n(i) == args[i].num
    IN
    CASE name = "toNumber" -> Gives(self, s)
      [] name = "abs"      -> Gives(Num(AbsOf(v)), s)
      [] name = "power"    -> Gives(Num(Power(v, n(1))), s)
      [] name = "even"     -> Gives(Bool(v % 2 = 0), s)
      [] name = "odd"      -> Gives(Bool(v % 2 # 0), s)
      [] name = "sign"     -> Gives(Num(SignOf(v)), s)
      [] name = "between"  -> Gives(Bool(numberClamp(v, n(1), n(2)) = v), s)
      [] name = "clamp"    -> Gives(Num(numberClamp(v, n(1), n(2))), s)
      [] name = "max"      -> numberMax(self, args[1], s)
      [] name = "min"      -> numberMin(self, args[1], s)
      [] name = "mod"      -> numberMod(self, args[1], s)

stringCharAt(chars, i, s) ==
    IF i \in 0 .. Len(chars) - 1 THEN Gives(Str(<<chars[i + 1]>>), s) ELSE Fails(s)

\* The code of one character, the first unless another is asked for.
stringCharCode(chars, args, s) ==
    Then(stringCharAt(chars, IF args = <<>> THEN 0 ELSE args[1].num, s),
         LAMBDA c, t : Gives(Num(Place(c.str[1])), t))
stringFromCode(code, s) == Gives(Str(<<Alphabet[code]>>), s)

stringMethod(self, name, args, s) ==
    LET chars == self.str
        text  == [i \in DOMAIN args |-> Inspect(args[i], s)]
        n(i)  == args[i].num
        Strings(parts) == NewArray([i \in DOMAIN parts |-> Str(parts[i])], s)
        Optional(r) == IF r = <<>> THEN Fails(s) ELSE Gives(r[1], s)
    IN
    CASE name = "length"      -> Gives(Num(Len(chars)), s)
      [] name = "isEmpty"     -> Gives(Bool(chars = <<>>), s)
      [] name = "toNumber"    -> Optional(ParseNumber(chars))
      [] name = "trim"        -> Gives(Str(stringTrim(chars)), s)
      [] name = "trimStart"   -> Gives(Str(TrimStart(chars)), s)
      [] name = "trimEnd"     -> Gives(Str(TrimEnd(chars)), s)
      [] name = "reverse"     -> Gives(Str(Reverse(chars)), s)
      [] name = "repeat"      -> IF n(1) < 0 THEN Fails(s)
                                 ELSE Gives(Str(stringRepeat(chars, n(1))), s)
      [] name = "contains"    -> Gives(Bool(Occurrences(chars, text[1]) # {}), s)
      [] name = "hasPrefix"   -> Gives(Bool(IsPrefix(text[1], chars)), s)
      [] name = "hasSuffix"   -> Gives(Bool(IsSuffix(text[1], chars)), s)
      [] name = "indexOf"     -> Gives(Num(FirstOf(Occurrences(chars, text[1]))), s)
      [] name = "lastIndexOf" -> Gives(Num(LastOf(Occurrences(chars, text[1]))), s)
      [] name = "replace"     -> Gives(Str(stringReplace(chars, text[1], text[2])), s)
      [] name = "split"       -> Strings(stringSplit(chars, IF text = <<>> THEN <<>> ELSE text[1]))
      [] name = "slice"       ->
            Gives(Str(Slice(chars, n(1), IF Len(args) = 2 THEN n(2) ELSE Len(chars))), s)
      [] name = "charAt"      -> stringCharAt(chars, n(1), s)
      [] name = "lines"       -> Strings(stringLines(chars))
      [] name = "format"      ->
            LET r == FormatString(chars, text)
            IN  IF r = <<>> THEN Fails(s) ELSE Gives(Str(r[1]), s)
      [] name = "padLeft"     -> Gives(Str(Pad(chars, n(1), PadOf(text), "left")), s)
      [] name = "padRight"    -> Gives(Str(Pad(chars, n(1), PadOf(text), "right")), s)
      [] name = "padCenter"   -> Gives(Str(Pad(chars, n(1), PadOf(text), "both")), s)
      [] name = "count"       -> Gives(Num(stringCount(chars, text[1])), s)
      [] name = "charCode"    -> stringCharCode(chars, args, s)
      [] name = "fromCode"    -> stringFromCode(n(1), s)
      [] name = "baseName"    -> Gives(Str(stringBaseName(chars)), s)
      [] name = "ext"         -> Gives(Str(stringExt(chars)), s)
      [] name = "noExt"       -> Gives(Str(stringNoExt(chars)), s)
      [] name \in {"match", "search", "replacePattern", "splitPattern"} ->
            regexMethod(chars, name, text, s)

boolMethod(self, name, s) ==
    Gives(IF name = "not" THEN Bool(~self.bool) ELSE Num(IF self.bool THEN 1 ELSE 0), s)

\* A method of a plain value whose number of arguments the table allows.
PlainMethod(self, name, args, s) ==
    IF \E i \in NumberArgs(name) : i <= Len(args) /\ ~IsNum(args[i]) THEN Fails(s)
    ELSE CASE name = "print"      -> Gives(Null, PrintLine(self, s))
           [] name = "toString"   -> Gives(Str(Inspect(self, s)), s)
           [] self.t = "null"     -> Gives(Bool(TRUE), s)
           [] self.t = "boolean"  -> boolMethod(self, name, s)
           [] self.t = "number"   -> numberMethod(self, name, args, s)
           [] self.t = "string"   -> stringMethod(self, name, args, s)

----------------------------------------------------------------------------
(* The methods of lists and dictionaries, which Collections computes. *)

arrayMethods ==
    [printAll |-> {0}, size |-> {0}, isEmpty |-> {0}, push |-> 1 .. 9, pop |-> {0},
     first |-> {0}, last |-> {0}, contains |-> {1}, indexOf |-> {1}, lastIndexOf |-> {1},
     remove |-> {1}, removeValue |-> {1}, clear |-> {0}, copy |-> {0}, deepCopy |-> {0},
     reverse |-> {0}, sort |-> {0}, sortNumbers |-> {0}, sortWith |-> {1}, map |-> {1},
     filter |-> {1}, partition |-> {1}, find |-> {1}, findIndex |-> {1}, forEach |-> {1},
     reduce |-> {2}, every |-> {1}, some |-> {1}, count |-> {0, 1}, insert |-> {2},
     shift |-> {0}, unshift |-> 1 .. 9, fill |-> 1 .. 3, chunk |-> {1}, take |-> {1},
     drop |-> {1}, unique |-> {0}, flatten |-> {0}, shuffle |-> {0}, slice |-> {1, 2},
     concat |-> {1}, join |-> {0, 1}, sum |-> {0}, max |-> {0}, min |-> {0}]

hashMethods ==
    [printKeys |-> {0}, printValues |-> {0}, printAll |-> {0}, keys |-> {0},
     sortedKeys |-> {0}, values |-> {0}, size |-> {0}, isEmpty |-> {0}, has |-> {1},
     get |-> {1, 2}, set |-> {2}, delete |-> {1}, clear |-> {0}, copy |-> {0},
     deepCopy |-> {0}, items |-> {0}, map |-> {1}, filter |-> {1}, find |-> {1},
     forEach |-> {1}, hasValue |-> {1}, update |-> {1}]

\* The table of the methods of a value.
MethodsOf(v) ==
    CASE v.t = "hash"    -> hashMethods
      [] v.t = "array"   -> arrayMethods
      [] v.t = "string"  -> stringMethods
      [] v.t = "number"  -> numberMethods
      [] v.t = "boolean" -> booleanMethods
      [] v.t = "null"    -> nullMethods
      [] OTHER           -> Empty

\* A method bound to its receiver, a value like any other; Null when there is
\* no method of that name.
LookupMethod(v, name) ==
    IF Has(MethodsOf(v), name) THEN [t |-> "bound", self |-> v, name |-> name] ELSE Null

----------------------------------------------------------------------------
(* Walks: over a list, the passes of a loop, the parts of a text *)

\* A walk is on its way, with what it has gathered, or has its result.
OnWith(acc)   == [done |-> FALSE, v |-> Null, acc |-> acc]
StopWith(v)   == [done |-> TRUE, v |-> v, acc |-> <<>>]

\* Visit(acc, i, s) gives a walk and a state for each i of 1 .. n until one of
\* them has a result; an error of a callback is a result.
Walk(n, init, Visit(_, _, _), Result(_, _), s) ==
    LET Step(r, i) == IF r.v.done THEN r ELSE Visit(r.v.acc, i, r.s)
        r == FoldLeft(Step, Gives(OnWith(init), s), [i \in 1 .. n |-> i])
    IN  IF r.v.done THEN Gives(r.v.v, r.s) ELSE Result(r.v.acc, r.s)
=============================================================================
