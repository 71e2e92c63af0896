------------------------------ MODULE Objects ------------------------------
(***************************************************************************)
(* The values of the language (internal/object), which the evaluator and   *)
(* the bytecode machine share.  Numbers, strings, booleans and null are    *)
(* records; lists, dictionaries, classes, instances and environments are   *)
(* objects of a heap, and a value refers to one by its place.  Numbers are *)
(* integers (a quotient is only taken where it is one), a string is the    *)
(* sequence of its characters.  The wording of an error message is one of  *)
(* the marks below; a message thrown by a program is the string it threw.  *)
(*                                                                         *)
(* A state s of an engine has a field heap, a field out, the lines printed *)
(* so far, a field backward, and whatever the engine needs besides.  An    *)
(* operator that may change it returns [v |-> the value, s |-> the state]. *)
(***************************************************************************)
EXTENDS Integers, Sequences, FiniteSets, TLC, SequencesExt

Num(n)      == [t |-> "number", num |-> n]
Str(chars)  == [t |-> "string", str |-> chars]
Bool(b)     == [t |-> "boolean", bool |-> b]
Null        == [t |-> "null"]
Ref(t, at)  == [t |-> t, at |-> at]
Err(msg)    == [t |-> "error", msg |-> msg]

\* The marks: a failed operation, one whose message says "not supported", and
\* the line number the evaluator puts before a message.
Failed      == "failed"
Unsupported == "unsupported"
Line        == "line"

IsError(v)  == v.t = "error"
Has(f, k)   == k \in DOMAIN f
Empty       == [k \in {} |-> Null]

\* Go's panic, which ends the program: no try statement sees it.
Panic       == Err(<<"panic">>)

Gives(v, s) == [v |-> v, s |-> s]
Fails(s)    == Gives(Err(<<Failed>>), s)
Panics(s)   == Gives(Panic, s)

\* A missing value, where the Go code hands on a nil.
Nil         == [t |-> "nil"]

\* What comes next is done unless the last value is an error.
Then(r, Next(_, _)) == IF IsError(r.v) THEN r ELSE Next(r.v, r.s)

----------------------------------------------------------------------------
(* The heap *)

NewObject(t, o, s) ==
    Gives(Ref(t, Len(s.heap) + 1), [s EXCEPT !.heap = Append(@, o)])

Object(v, s)       == s.heap[v.at]
SetObject(v, o, s) == [s EXCEPT !.heap[v.at] = o]

\* A list is a slice of a buffer: len cells of buf after the first off.
NewSlice(els, cap, s) ==
    LET b == NewObject("buffer", els \o [i \in 1 .. cap - Len(els) |-> Null], s)
    IN  NewObject("array", [buf |-> b.v, off |-> 0, len |-> Len(els)], b.s)

NewArray(els, s) == NewSlice(els, Len(els), s)

\* A list built by appending one value at a time: its buffer doubles.
NewGrown(els, s) ==
    NewSlice(els, CHOOSE c \in {0, 1, 2, 4, 8, 16, 32} :
                      /\ c >= Len(els)
                      /\ \A d \in {0, 1, 2, 4, 8, 16, 32} : d >= Len(els) => c <= d, s)

\* What a slice (the header a loop holds) shows of its buffer now.
Shown(slice, s)   == SubSeq(Object(slice.buf, s), slice.off + 1, slice.off + slice.len)
ItemOf(slice, i, s) == Object(slice.buf, s)[slice.off + i]
Elements(v, s)    == Shown(Object(v, s), s)

\* The same buffer is written; the list may become shorter, and the cells it
\* gives up keep what they hold.
WriteElements(v, els, s) ==
    LET a == Object(v, s)
        Written(i) == IF i \in a.off + 1 .. a.off + Len(els) THEN els[i - a.off]
                      ELSE Object(a.buf, s)[i]
    IN  SetObject(v, [a EXCEPT !.len = Len(els)],
                  SetObject(a.buf, [i \in DOMAIN Object(a.buf, s) |-> Written(i)], s))

SetElement(v, i, x, s) == WriteElements(v, [Elements(v, s) EXCEPT ![i] = x], s)

\* A buffer of its own: what else looks at the old one does not see it.
MoveElements(v, els, cap, s) ==
    LET b == NewObject("buffer", els \o [i \in 1 .. cap - Len(els) |-> Null], s)
    IN  SetObject(v, [buf |-> b.v, off |-> 0, len |-> Len(els)], b.s)

\* append: in place while the buffer has room, else in one of twice the size.
AppendElements(v, new, s) ==
    LET a    == Object(v, s)
        cap  == Len(Object(a.buf, s)) - a.off
        all  == Elements(v, s) \o new
    IN  IF Len(all) <= cap
        THEN WriteElements(v, all, s)
        ELSE MoveElements(v, all, IF Len(all) > 2 * cap THEN Len(all) ELSE 2 * cap, s)

NewHash(s) == NewObject("hash", [pairs |-> Empty, order |-> <<>>], s)

\* Set: a new key goes to the end of the order.
HashSet(h, k, v) ==
    [pairs |-> (k :> v) @@ h.pairs,
     order |-> IF Has(h.pairs, k) THEN h.order ELSE Append(h.order, k)]

\* A write to the map of pairs alone: Set(...), Update(...), the machine.
PairsSet(h, k, v) == [h EXCEPT !.pairs = (k :> v) @@ @]

\* s < t, character by character; characters are compared by their place in
\* Alphabet, which the module that runs the model declares.
CONSTANT Alphabet

Place(c) == CHOOSE i \in DOMAIN Alphabet : Alphabet[i] = c

Below(a, b) ==
    \/ IsStrictPrefix(a, b)
    \/ \E i \in 1 .. (IF Len(a) < Len(b) THEN Len(a) ELSE Len(b)) :
          /\ SubSeq(a, 1, i - 1) = SubSeq(b, 1, i - 1)
          /\ Place(a[i]) < Place(b[i])

SortedKeys(h) == SetToSortSeq(DOMAIN h.pairs, Below)

\* The order of insertion; a key that is gone or was seen before is skipped.
\* A dictionary without an order is sorted.
Keys(h) ==
    IF h.order = <<>> THEN SortedKeys(h)
    ELSE LET Fresh(i) == /\ Has(h.pairs, h.order[i])
                         /\ \A j \in 1 .. i - 1 : h.order[j] # h.order[i]
         IN  [j \in 1 .. Cardinality({i \in DOMAIN h.order : Fresh(i)}) |->
                 h.order[CHOOSE i \in DOMAIN h.order :
                            /\ Fresh(i)
                            /\ Cardinality({k \in 1 .. i : Fresh(k)}) = j]]

----------------------------------------------------------------------------
(* Classes and functions.  The parent of a class is null or a class; each    *)
(* engine has its own function behind a method, and its own way to the first *)
(* value of a field.                                                         *)

NewClass(name, parent, s) ==
    NewObject("class", [name |-> name, parent |-> parent, methods |-> Empty, fields |-> Empty], s)

NewMethod(fn, public, owner)   == [fn |-> fn, public |-> public, owner |-> owner]
NewField(value, public, owner) == value @@ [public |-> public, owner |-> owner]

EnumValue(enum, name) == [t |-> "enum", enum |-> enum, name |-> name]

\* A function keeps the environment it was made in.
NewFunction(params, body, returns, env, s) ==
    NewObject("function", [params |-> params, body |-> body, env |-> env, returns |-> returns], s)

\* A compiled function; a default is a sequence of at most one constant.
NewCompiled(ins, locals, params, required, defaults, s) ==
    NewObject("compiled", [ins |-> ins, numLocals |-> locals, numParameters |-> params,
                           numRequired |-> required, defaults |-> defaults], s)

\* A compiled function with the cells of the variables it captured.
NewClosure(fn, free, s) ==
    NewObject("closure", [fn |-> fn, free |-> free,
                          params |-> [i \in 1 .. Object(fn, s).numParameters |-> i]], s)

NewIterator(values, s) == NewObject("iterator", [values |-> values, index |-> 0], s)

RECURSIVE Lineage(_, _)
\* The class and its ancestors, nearest first.
Lineage(c, s) ==
    IF c = Null THEN <<>> ELSE <<c>> \o Lineage(Object(c, s).parent, s)

\* The definition of a name nearest to the class, as a sequence of at most one.
FindIn(table, c, name, s) ==
    LET line == Lineage(c, s)
        i    == SelectInSeq(line, LAMBDA d : Has(Object(d, s)[table], name))
    IN  IF i = 0 THEN <<>> ELSE <<Object(line[i], s)[table][name]>>

FindMethod(c, name, s) == FindIn("methods", c, name, s)
FindField(c, name, s)  == FindIn("fields", c, name, s)

\* The order in which Go ranges over a map: any; the model takes one order or
\* the opposite one, as s.backward says.
MapOrder(keys, s) == IF s.backward THEN Reverse(SetToSeq(keys)) ELSE SetToSeq(keys)

\* The fields of a new instance: those of the oldest ancestor first, each class
\* in the order of its map, and a field defined again keeps its place.
RECURSIVE FieldOrder(_, _)
FieldOrder(c, s) ==
    IF c = Null THEN <<>>
    ELSE LET older == FieldOrder(Object(c, s).parent, s)
             own   == Object(c, s).fields
             names == {older[i].name : i \in DOMAIN older}
             new   == SelectSeq(MapOrder(DOMAIN own, s), LAMBDA n : n \notin names)
         IN  [i \in DOMAIN older |->
                  IF Has(own, older[i].name) THEN [older[i] EXCEPT !.def = own[older[i].name]]
                  ELSE older[i]]
             \o [i \in DOMAIN new |-> [name |-> new[i], def |-> own[new[i]]]]

CanAccess(member, caller) ==
    member.public \/ (caller # Null /\ caller = member.owner)

----------------------------------------------------------------------------
(* Operations on any value *)

RECURSIVE Digits(_)
Digits(n) ==
    IF n < 0 THEN <<"-">> \o Digits(-n)
    ELSE IF n < 10 THEN <<ToString(n)>>
    ELSE Digits(n \div 10) \o <<ToString(n % 10)>>

\* Strings joined by a separator.
Join(parts, sep) ==
    IF parts = <<>> THEN <<>>
    ELSE Head(parts) \o FlattenSeq([i \in 1 .. Len(parts) - 1 |-> sep \o parts[i + 1]])

RECURSIVE Inspect(_, _)
\* How a value is printed; of functions, classes and the like only the type.
Inspect(v, s) ==
    CASE v.t = "number"  -> Digits(v.num)
      [] v.t = "string"  -> v.str
      [] v.t = "boolean" -> IF v.bool THEN <<"true">> ELSE <<"false">>
      [] v.t = "array"   ->
            LET els == Elements(v, s)
            IN  <<"[">> \o Join([i \in DOMAIN els |-> Inspect(els[i], s)], <<", ">>)
                        \o <<"]">>
      [] v.t = "hash"    ->
            LET h == Object(v, s)
                keys == Keys(h)
            IN  <<"{">> \o Join([i \in DOMAIN keys |->
                             keys[i] \o <<": ">> \o Inspect(h.pairs[keys[i]], s)], <<", ">>)
                        \o <<"}">>
      [] v.t = "enum"    -> <<v.enum, ".", v.name>>
      [] OTHER           -> <<v.t>>

PrintLine(v, s) == [s EXCEPT !.out = Append(@, Inspect(v, s))]

\* object.Truthy, which the list methods use: an empty collection is false.
Truthy(v, s) ==
    CASE v.t = "boolean" -> v.bool
      [] v.t = "null"    -> FALSE
      [] v.t = "number"  -> v.num # 0
      [] v.t = "string"  -> v.str # <<>>
      [] v.t = "array"   -> Elements(v, s) # <<>>
      [] v.t = "hash"    -> Object(v, s).pairs # Empty
      [] OTHER           -> TRUE

\* The isTruthy of the evaluator: every object is true.  It knows null by the
\* address of a value without size, which Go leaves open for a null made
\* elsewhere; no program of the runs takes such a null for a condition.
IsTruthy(v) ==
    CASE v.t = "boolean" -> v.bool
      [] v.t = "null"    -> FALSE
      [] v.t = "number"  -> v.num # 0
      [] v.t = "string"  -> v.str # <<>>
      [] OTHER           -> TRUE

RECURSIVE Equal(_, _, _)
\* object.Equal, which compares lists and dictionaries by what they hold.
Equal(a, b, s) ==
    /\ a.t = b.t
    /\ CASE a.t = "array" ->
              LET x == Elements(a, s)
                  y == Elements(b, s)
              IN  Len(x) = Len(y) /\ \A i \in DOMAIN x : Equal(x[i], y[i], s)
         [] a.t = "hash" ->
              LET x == Object(a, s).pairs
                  y == Object(b, s).pairs
              IN  DOMAIN x = DOMAIN y /\ \A k \in DOMAIN x : Equal(x[k], y[k], s)
         [] a.t \in {"number", "string", "boolean", "null"} -> a = b
         [] OTHER -> Inspect(a, s) = Inspect(b, s)

\* The == of the engines: plain values by value, objects by identity.
Same(a, b) == a = b

\* The Go % of two integers, which has the sign of the dividend.
AbsOf(n)  == IF n < 0 THEN -n ELSE n
SignOf(n) == IF n > 0 THEN 1 ELSE IF n < 0 THEN -1 ELSE 0
TruncMod(a, b) == SignOf(a) * (AbsOf(a) % AbsOf(b))

RECURSIVE Power(_, _)
Power(a, n) == IF n <= 0 THEN 1 ELSE a * Power(a, n - 1)

RECURSIVE DeepCopy(_, _), DeepCopyAll(_, _, _)
\* Copies of the values at the places of todo, one after the other.
DeepCopyAll(f, todo, s) ==
    IF todo = <<>> THEN Gives(f, s)
    ELSE LET r == DeepCopy(f[Head(todo)], s)
         IN  DeepCopyAll([f EXCEPT ![Head(todo)] = r.v], Tail(todo), r.s)

\* A list or dictionary and all it holds; the copy of a dictionary has no order.
DeepCopy(v, s) ==
    CASE v.t = "array" ->
            LET els == Elements(v, s)
                r   == DeepCopyAll(els, [i \in DOMAIN els |-> i], s)
            IN  NewArray(r.v, r.s)
      [] v.t = "hash" ->
            LET h == Object(v, s)
                r == DeepCopyAll(h.pairs, MapOrder(DOMAIN h.pairs, s), s)
            IN  NewObject("hash", [pairs |-> r.v, order |-> <<>>], r.s)
      [] OTHER -> Gives(v, s)

\* The numbers from start towards end, without end.
MakeRange(args, s) ==
    LET n     == Len(args)
        start == IF n = 1 THEN 0 ELSE args[1].num
        end   == IF n = 1 THEN args[1].num ELSE args[2].num
        step  == IF n = 3 THEN args[3].num ELSE 1
        size  == IF step > 0 THEN (end - start + step - 1) \div step
                             ELSE (start - end - step - 1) \div (-step)
    IN  IF \/ n \notin 1 .. 3
           \/ \E i \in DOMAIN args : args[i].t # "number"
           \/ step = 0
        THEN Fails(s)
        ELSE NewGrown([i \in 1 .. (IF size < 0 THEN 0 ELSE size) |->
                          Num(start + (i - 1) * step)], s)

\* The dictionary a fallible operation returns.
ResultHash(ok, value, msg, code, s) ==
    NewObject("hash",
        FoldLeft(LAMBDA h, e : HashSet(h, <<e[1]>>, e[2]), [pairs |-> Empty, order |-> <<>>],
                 <<<<"ok", Bool(ok)>>, <<"value", value>>, <<"message", Str(msg)>>,
                   <<"code", Num(code)>>>>), s)

ResultOk(value, s)      == ResultHash(TRUE, value, <<>>, 0, s)
ResultErr(msg, code, s) == ResultHash(FALSE, Null, msg, code, s)

\* A value against the type of an annotation.
MatchesType(v, type, s) ==
    CASE type = "" -> TRUE
      [] type \in {"number", "string", "boolean", "array", "hash", "null", "task"} -> v.t = type
      [] type = "result" -> v.t = "hash" /\ Has(Object(v, s).pairs, <<"ok">>)
      [] OTHER -> /\ v.t = "instance"
                  /\ \E i \in DOMAIN Lineage(Object(v, s).class, s) :
                        Object(Lineage(Object(v, s).class, s)[i], s).name = type
=============================================================================
