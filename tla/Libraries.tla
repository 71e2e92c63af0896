----------------------------- MODULE Libraries -----------------------------
(***************************************************************************)
(* Four libraries of the standard library (internal/stdlib): mathematics,  *)
(* numbers as they are shown, results and JSON.  Like every library each   *)
(* is a table of functions, so a program reaches them through the engines' *)
(* calls of built-in functions.  The trigonometric functions, logarithms   *)
(* and the roundings of fractions are left out, there being no fractions;  *)
(* roots are taken of squares.                                             *)
(***************************************************************************)
EXTENDS Methods

\* The documents a program may read: the trees encoding/json knows.
CONSTANT Documents

expectArgs(n, args) == Len(args) = n
AllNumbers(args)    == \A i \in DOMAIN args : IsNum(args[i])

----------------------------------------------------------------------------
(* Mathematics *)

Root(n) == CHOOSE r \in 0 .. n : r * r = n

mathSqrt(n, s) == IF n < 0 THEN Fails(s) ELSE Gives(Num(Root(n)), s)

\* The first of the largest, and of the smallest, numbers given.
mathMax(args) == FoldLeft(LAMBDA best, n : IF n.num > best.num THEN n ELSE best, args[1], Tail(args))
mathMin(args) == FoldLeft(LAMBDA best, n : IF n.num < best.num THEN n ELSE best, args[1], Tail(args))

mathFunctions == {"abs", "sqrt", "pow", "max", "min"}

mathCall(name, args, s) ==
    CASE \/ name \in {"abs", "sqrt"} /\ ~expectArgs(1, args)
         \/ name = "pow" /\ ~expectArgs(2, args)
         \/ args = <<>>
         \/ ~AllNumbers(args)    -> Fails(s)
      [] OTHER ->
            CASE name = "abs"  -> Gives(Num(AbsOf(args[1].num)), s)
              [] name = "sqrt" -> mathSqrt(args[1].num, s)
              [] name = "pow"  -> Gives(Num(Power(args[1].num, args[2].num)), s)
              [] name = "max"  -> Gives(mathMax(args), s)
              [] name = "min"  -> Gives(mathMin(args), s)

----------------------------------------------------------------------------
(* Numbers as they are shown; a fraction is n over d *)

\* Rounded to a whole number, a half away from zero.
Rounded(n, d) == (2 * n + d) \div (2 * d)

RECURSIVE Grouped(_)
Grouped(digits) ==
    IF Len(digits) <= 3 THEN digits
    ELSE Grouped(SubSeq(digits, 1, Len(digits) - 3)) \o <<",">>
         \o SubSeq(digits, Len(digits) - 2, Len(digits))

formatThousands(n, d, digits) ==
    LET places == IF digits < 0 THEN 0 ELSE digits
        scale  == Power(10, places)
        parts  == Rounded(AbsOf(n) * scale, d)
        after  == Digits(parts % scale)
    IN  (IF n < 0 THEN <<"-">> ELSE <<>>) \o Grouped(Digits(parts \div scale))
        \o (IF places = 0 THEN <<>>
            ELSE <<".">> \o [i \in 1 .. places - Len(after) |-> "0"] \o after)

ByteUnits == <<"bytes", "kilo", "mega", "giga", "tera">>

RECURSIVE UnitOf(_, _, _)
UnitOf(n, d, u) ==
    IF n >= 1024 * d /\ u < Len(ByteUnits) THEN UnitOf(n, 1024 * d, u + 1) ELSE [d |-> d, u |-> u]

\* Fewer digits after the point the larger the number before it is.
formatBytes(bytes) ==
    LET n == IF bytes < 0 THEN 0 ELSE bytes
        w == UnitOf(n, 1, 1)
    IN  (IF w.u = 1 \/ n >= 100 * w.d THEN formatThousands(Rounded(n, w.d), 1, 0)
         ELSE formatThousands(n, w.d, IF n >= 10 * w.d THEN 1 ELSE 2))
        \o <<" ", ByteUnits[w.u]>>

\* The number of digits is the argument at place i, unless there is none.
DigitsArg(args, i, default) == IF i \in DOMAIN args THEN args[i].num ELSE default
GoodDigits(args, i) == i \in DOMAIN args => IsNum(args[i]) /\ args[i].num >= 0

\* The second argument is the symbol of a currency or the number of digits.
numMoney(args, s) ==
    LET symbol == IF Len(args) >= 2 /\ args[2].t = "string" THEN args[2].str ELSE <<"NIS">>
        digits == IF Len(args) = 3 THEN args[3].num
                  ELSE IF Len(args) = 2 /\ IsNum(args[2]) THEN args[2].num ELSE 2
    IN  IF \/ Len(args) >= 2 /\ args[2].t \notin {"string", "number"}
           \/ ~GoodDigits(args, 3)
        THEN Fails(s)
        ELSE Gives(Str(symbol \o formatThousands(args[1].num, 1, digits)), s)

numbersFunctions == {"thousands", "whole", "decimal", "money", "bytes", "percent"}

numbersCall(name, args, s) ==
    LET most == CASE name = "money" -> 3 [] name \in {"decimal", "percent"} -> 2 [] OTHER -> 1
        n    == args[1].num
    IN  IF Len(args) \notin 1 .. most \/ ~IsNum(args[1]) THEN Fails(s)
        ELSE CASE name \in {"thousands", "whole"} -> Gives(Str(formatThousands(n, 1, 0)), s)
               [] name = "bytes" -> Gives(Str(formatBytes(n)), s)
               [] name = "money" -> numMoney(args, s)
               [] name \in {"decimal", "percent"} ->
                     IF ~GoodDigits(args, 2) THEN Fails(s)
                     ELSE IF name = "decimal"
                     THEN Gives(Str(formatThousands(n, 1, DigitsArg(args, 2, 2))), s)
                     ELSE Gives(Str(formatThousands(n, 1, DigitsArg(args, 2, 0)) \o <<"%">>), s)

----------------------------------------------------------------------------
(* Results *)

resultFunctions == {"ok", "error"}

resultCall(name, args, s) ==
    CASE name = "ok" ->
            IF ~expectArgs(1, args) THEN Fails(s) ELSE ResultOk(args[1], s)
      [] name = "error" ->
            IF Len(args) \notin 1 .. 2 THEN Fails(s)
            ELSE ResultErr(Inspect(args[1], s),
                           IF Len(args) = 2 /\ IsNum(args[2]) THEN args[2].num ELSE 1, s)

----------------------------------------------------------------------------
(* JSON.  A tree is a plain value, a list of trees or a map to trees.        *)

JList(els)  == [t |-> "list", els |-> els]
JMap(pairs) == [t |-> "map", pairs |-> pairs]
Plain       == {"null", "boolean", "number", "string"}

RECURSIVE toJSON(_, _)
\* The tree of a value; a value that is neither data nor made of it has none.
toJSON(v, s) ==
    CASE v.t \in Plain -> v
      [] v.t = "array" ->
            LET els == [i \in 1 .. Object(v, s).len |-> toJSON(Elements(v, s)[i], s)]
            IN  IF \E i \in DOMAIN els : IsError(els[i]) THEN Err(<<Failed>>) ELSE JList(els)
      [] v.t = "hash" ->
            LET pairs == [k \in DOMAIN Object(v, s).pairs |-> toJSON(Object(v, s).pairs[k], s)]
            IN  IF \E k \in DOMAIN pairs : IsError(pairs[k]) THEN Err(<<Failed>>) ELSE JMap(pairs)
      [] OTHER -> Err(<<Failed>>)

RECURSIVE fromJSON(_, _), fromAll(_, _, _)
\* The values of the trees at the places of todo, one after the other.
fromAll(f, todo, s) ==
    IF todo = <<>> THEN Gives(f, s)
    ELSE LET r == fromJSON(f[Head(todo)], s)
         IN  fromAll([f EXCEPT ![Head(todo)] = r.v], Tail(todo), r.s)

\* New lists and dictionaries; a dictionary that was read has no order.
fromJSON(tree, s) ==
    CASE tree.t \in Plain -> Gives(tree, s)
      [] tree.t = "list"  ->
            LET r == fromAll(tree.els, [i \in DOMAIN tree.els |-> i], s) IN NewArray(r.v, r.s)
      [] tree.t = "map"   ->
            LET r == fromAll(tree.pairs, MapOrder(DOMAIN tree.pairs, s), s)
            IN  NewObject("hash", [pairs |-> r.v, order |-> <<>>], r.s)

RECURSIVE Marshal(_)
\* encoding/json: the text of a tree, the keys of a map in order.
Marshal(tree) ==
    LET Quoted(chars) == <<"'">> \o chars \o <<"'">>
    IN  CASE tree.t = "null"    -> <<"null">>
          [] tree.t = "boolean" -> IF tree.bool THEN <<"true">> ELSE <<"false">>
          [] tree.t = "number"  -> Digits(tree.num)
          [] tree.t = "string"  -> Quoted(tree.str)
          [] tree.t = "list"    ->
                <<"[">> \o Join([i \in DOMAIN tree.els |-> Marshal(tree.els[i])], <<",">>) \o <<"]">>
          [] tree.t = "map"     ->
                LET keys == SortedKeys(tree)
                IN  <<"{">> \o Join([i \in DOMAIN keys |->
                        Quoted(keys[i]) \o <<":">> \o Marshal(tree.pairs[keys[i]])], <<",">>) \o <<"}">>

\* The documents a text is the text of: one, or none when it does not parse.
Unmarshal(chars) == {tree \in Documents : Marshal(tree) = chars}

jsonParse(v, s) ==
    IF v.t # "string" \/ Unmarshal(v.str) = {} THEN Fails(s)
    ELSE fromJSON(CHOOSE tree \in Unmarshal(v.str) : TRUE, s)

\* A second argument asks for another layout, which is left out.
jsonStringify(args, s) ==
    LET tree == toJSON(args[1], s)
    IN  IF Len(args) \notin 1 .. 2 \/ (Len(args) = 2 /\ args[2].t # "boolean") THEN Fails(s)
        ELSE IF IsError(tree) THEN Gives(tree, s)
        ELSE Gives(Str(Marshal(tree)), s)

jsonFunctions == {"parse", "stringify"}

jsonCall(name, args, s) ==
    CASE name = "parse"     -> IF ~expectArgs(1, args) THEN Fails(s) ELSE jsonParse(args[1], s)
      [] name = "stringify" -> jsonStringify(args, s)

----------------------------------------------------------------------------

\* The functions of each library; no two have one of the same name.
BuiltinNames ==
    [math |-> mathFunctions, numbers |-> numbersFunctions, result |-> resultFunctions,
     json |-> jsonFunctions]

LibraryFunctions == UNION {BuiltinNames[lib] : lib \in DOMAIN BuiltinNames}

CallLibrary(name, args, s) ==
    CASE name \in mathFunctions    -> mathCall(name, args, s)
      [] name \in numbersFunctions -> numbersCall(name, args, s)
      [] name \in resultFunctions  -> resultCall(name, args, s)
      [] name \in jsonFunctions    -> jsonCall(name, args, s)
=============================================================================
