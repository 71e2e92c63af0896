---------------------------- MODULE Collections ----------------------------
(***************************************************************************)
(* The built-in methods of lists and dictionaries                          *)
(* (internal/object/collections.go and the calls of helpers.go).  A method *)
(* that takes a function calls it through the operator Call(fn, args, s),  *)
(* which each engine supplies; the function may change any list or         *)
(* dictionary, the one being walked too.  An average is left out (numbers  *)
(* are integers), and a shuffle reverses.                                  *)
(***************************************************************************)
EXTENDS Methods

\* object.InvokeCallable: the function, its arguments and the state.
CONSTANT Call(_, _, _)

----------------------------------------------------------------------------
(* Calling a function for each of the values of a collection *)

\* The number of parameters, 1 for what is not a function of the program.
fnArity(fn, s) == IF fn.t \in {"function", "closure"} THEN Len(Object(fn, s).params) ELSE 1

CallItem(fn, item, place, s) ==
    Call(fn, CASE fnArity(fn, s) = 0 -> <<>>
               [] fnArity(fn, s) = 2 -> <<item, place>>
               [] OTHER -> <<item>>, s)

\* A walk over the items Item(i, s) with their places, which calls fn on each;
\* On(acc, what fn gave, i, item, s) says how the walk goes on.
ForItems(fn, n, Item(_, _), PlaceOf(_), init, On(_, _, _, _, _), Result(_, _), s) ==
    LET Visit(acc, i, t) ==
            LET item == Item(i, t)
                r    == CallItem(fn, item, PlaceOf(i), t)
            IN  Gives(IF IsError(r.v) THEN StopWith(r.v) ELSE On(acc, r.v, i, item, r.s), r.s)
    IN  Walk(n, init, Visit, Result, s)

\* The cells of a list as it is when the walk begins, read one at a time.
ForElements(self, fn, init, On(_, _, _, _, _), Result(_, _), s) ==
    LET slice == Object(self, s)
    IN  ForItems(fn, slice.len, LAMBDA i, t : ItemOf(slice, i, t),
                 LAMBDA i : Num(i - 1), init, On, Result, s)

\* The keys of a dictionary as they are when the walk begins; a key that a
\* callback has deleted since has no value.
ForPairs(self, fn, init, On(_, _, _, _, _), Result(_, _), s) ==
    LET keys == Keys(Object(self, s))
        ValueAt(i, t) == LET p == Object(self, t).pairs
                         IN  IF Has(p, keys[i]) THEN p[keys[i]] ELSE Nil
    IN  ForItems(fn, Len(keys), ValueAt, LAMBDA i : Str(keys[i]), init, On, Result, s)

----------------------------------------------------------------------------
(* Lists *)

\* The elements from smaller to greater, equal ones as they were.
StableSorted(els, Less(_, _)) ==
    LET Before(i, j) == Less(els[i], els[j]) \/ (~Less(els[j], els[i]) /\ i < j)
        order == SetToSortSeq(DOMAIN els, Before)
    IN  [i \in DOMAIN els |-> els[order[i]]]

allNumbers(els) == \A i \in DOMAIN els : IsNum(els[i])

arraySort(self, name, s) ==
    LET els == Elements(self, s)
    IN  CASE allNumbers(els) ->
               Gives(self, WriteElements(self, StableSorted(els, LAMBDA a, b : a.num < b.num), s))
          [] name = "sortNumbers" -> Fails(s)
          [] OTHER ->
               Gives(self, WriteElements(self,
                   StableSorted(els, LAMBDA a, b : Below(Inspect(a, s), Inspect(b, s))), s))

\* sort.SliceStable on a short list is an insertion sort: each element moves
\* left while the function says it is the smaller one.  An error means it is
\* not.  The comparison reads the list, the exchange writes the slice.
arraySortWith(self, fn, s) ==
    LET slice == Object(self, s)
        n     == slice.len
        Swap(j, t) == SetObject(slice.buf,
                          [Object(slice.buf, t) EXCEPT ![slice.off + j] = @,
                              ![slice.off + j] = ItemOf(slice, j - 1, t),
                              ![slice.off + j - 1] = ItemOf(slice, j, t)], t)
        Compare(acc, step, t) ==
            LET i == step[1]
                j == step[2]
                els == Elements(self, t)
                r   == Call(fn, <<els[j], els[j - 1]>>, t)
                smaller == ~IsError(r.v) /\ Truthy(r.v, r.s)
            IN  CASE i \in acc -> Gives(OnWith(acc), t)
                  [] i \notin acc /\ j > Len(els) -> Gives(StopWith(Panic), t)
                  [] OTHER -> IF smaller THEN Gives(OnWith(acc), Swap(j, r.s))
                              ELSE Gives(OnWith(acc \cup {i}), r.s)
        steps == FlattenSeq([i \in 1 .. n |-> [k \in 1 .. i - 1 |-> <<i, i - k + 1>>]])
    IN  Walk(Len(steps), {}, LAMBDA acc, k, t : Compare(acc, steps[k], t),
             LAMBDA acc, t : Gives(self, t), s)

\* The methods that call a function for each element, one after the other.
arrayCallback(self, name, args, s) ==
    LET fn == args[1]
        Each(init, On(_, _, _, _, _), Result(_, _)) ==
            ForElements(self, fn, init, On, Result, s)
        Picked(acc, res, i, item, t) ==
            OnWith(IF Truthy(res, t) THEN Append(acc, item) ELSE acc)
    IN
    CASE name = "map" ->
            Each(<<>>, LAMBDA acc, res, i, item, t : OnWith(Append(acc, res)),
                 LAMBDA acc, t : NewArray(acc, t))
      [] name = "filter" -> Each(<<>>, Picked, LAMBDA acc, t : NewGrown(acc, t))
      [] name = "partition" ->
            Each(<<<<>>, <<>>>>,
                 LAMBDA acc, res, i, item, t :
                     OnWith([acc EXCEPT ![IF Truthy(res, t) THEN 1 ELSE 2] = Append(@, item)]),
                 LAMBDA acc, t :
                     LET yes == NewGrown(acc[1], t)
                         no  == NewGrown(acc[2], yes.s)
                     IN  NewArray(<<yes.v, no.v>>, no.s))
      [] name = "find" ->
            Each(<<>>, LAMBDA acc, res, i, item, t :
                     IF Truthy(res, t) THEN StopWith(item) ELSE OnWith(acc),
                 LAMBDA acc, t : Gives(Null, t))
      [] name = "forEach" ->
            Each(<<>>, LAMBDA acc, res, i, item, t : OnWith(acc), LAMBDA acc, t : Gives(self, t))
      [] name = "sortWith" -> arraySortWith(self, fn, s)

\* The methods that make one value of what the function gives.
arrayFold(self, name, args, s) ==
    LET fn == Last(args)
        n  == Object(self, s).len
        Each(init, On(_, _, _, _, _), Result(_, _)) ==
            ForElements(self, fn, init, On, Result, s)
        Counted(acc, res, i, item, t) == OnWith(IF Truthy(res, t) THEN acc + 1 ELSE acc)
    IN
    CASE name = "findIndex" ->
            Each(<<>>, LAMBDA acc, res, i, item, t :
                     IF Truthy(res, t) THEN StopWith(Num(i - 1)) ELSE OnWith(acc),
                 LAMBDA acc, t : Gives(Num(-1), t))
      [] name \in {"every", "some"} ->
            Each(<<>>, LAMBDA acc, res, i, item, t :
                     IF Truthy(res, t) = (name = "some") THEN StopWith(Bool(name = "some"))
                     ELSE OnWith(acc),
                 LAMBDA acc, t : Gives(Bool(name = "every"), t))
      [] name = "count" -> Each(0, Counted, LAMBDA acc, t : Gives(Num(acc), t))
      [] name = "reduce" ->
            LET slice == Object(self, s)
                Visit(acc, i, t) ==
                    LET item == ItemOf(slice, i, t)
                        r == Call(fn, IF fnArity(fn, t) = 3 THEN <<acc, item, Num(i - 1)>>
                                      ELSE <<acc, item>>, t)
                    IN  Gives(IF IsError(r.v) THEN StopWith(r.v) ELSE OnWith(r.v), r.s)
            IN  Walk(n, args[1], Visit, Gives, s)

\* A mutation: the copy is a slice of the same buffer.
SharedCopy(self, s) == NewObject("array", Object(self, s), s)

arrayCopy(self, s) == NewArray(Elements(self, s), s)

arrayPrintAll(self, s) ==
    Gives(Null, [s EXCEPT !.out = @ \o [i \in DOMAIN Elements(self, s) |-> Inspect(Elements(self, s)[i], s)]])

\* The methods that only read.
arrayRead(self, name, args, s) ==
    LET els   == Elements(self, s)
        n     == Len(els)
        Texts == [i \in DOMAIN els |-> Inspect(els[i], s)]
        Found == {i - 1 : i \in {j \in DOMAIN els : Texts[j] = Inspect(args[1], s)}}
    IN
    CASE name = "printAll"    -> arrayPrintAll(self, s)
      [] name \in {"size", "count"} -> Gives(Num(n), s)
      [] name = "isEmpty"     -> Gives(Bool(n = 0), s)
      [] name = "first"       -> Gives(IF n = 0 THEN Null ELSE els[1], s)
      [] name = "last"        -> Gives(IF n = 0 THEN Null ELSE els[n], s)
      [] name = "contains"    -> Gives(Bool(Found # {}), s)
      [] name = "indexOf"     -> Gives(Num(FirstOf(Found)), s)
      [] name = "lastIndexOf" -> Gives(Num(LastOf(Found)), s)
      [] name = "copy"        -> arrayCopy(self, s)
      [] name = "deepCopy"    -> DeepCopy(self, s)

\* The first so many elements, or all but those, in a list of its own.
arrayTake(self, count, s) ==
    IF ~IsNum(count) THEN Fails(s) ELSE NewArray(Slice(Elements(self, s), 0, count.num), s)
arrayDrop(self, count, s) ==
    IF ~IsNum(count) THEN Fails(s)
    ELSE NewArray(Slice(Elements(self, s), count.num, Object(self, s).len), s)

\* A part of a list, or its elements in another shape.
arrayPart(self, name, args, s) ==
    LET els == Elements(self, s)
        n   == Len(els)
    IN
    CASE name = "slice" ->
            IF \E i \in DOMAIN args : ~IsNum(args[i]) THEN Fails(s)
            ELSE NewArray(Slice(els, args[1].num, IF Len(args) = 2 THEN args[2].num ELSE n), s)
      [] name = "take" -> arrayTake(self, args[1], s)
      [] name = "drop" -> arrayDrop(self, args[1], s)
      [] name = "unique" ->
            NewGrown(FoldLeft(LAMBDA out, e :
                                  IF \E i \in DOMAIN out : Equal(e, out[i], s) THEN out
                                  ELSE Append(out, e), <<>>, els), s)
      [] name = "flatten" ->
            NewGrown(FlattenSeq([i \in DOMAIN els |->
                         IF els[i].t = "array" THEN Elements(els[i], s) ELSE <<els[i]>>]), s)

\* A list as one string or one number.
arraySum(self, name, args, s) ==
    LET els   == Elements(self, s)
        Texts == [i \in DOMAIN els |-> Inspect(els[i], s)]
        Best(Better(_, _)) ==
            IF els = <<>> THEN Gives(Null, s)
            ELSE IF ~allNumbers(els) THEN Fails(s)
            ELSE Gives(els[CHOOSE i \in DOMAIN els : \A j \in DOMAIN els :
                               \/ Better(els[i].num, els[j].num)
                               \/ els[i] = els[j] /\ i <= j], s)
    IN
    CASE name = "join" -> Gives(Str(Join(Texts, IF args = <<>> THEN <<>> ELSE Inspect(args[1], s))), s)
      [] name = "sum"  -> IF allNumbers(els)
                          THEN Gives(Num(FoldLeft(LAMBDA a, e : a + e.num, 0, els)), s)
                          ELSE Fails(s)
      [] name = "max"  -> Best(LAMBDA a, b : a > b)
      [] name = "min"  -> Best(LAMBDA a, b : a < b)

\* Parts of size elements, the last one perhaps shorter.
arrayChunk(self, size, s) ==
    LET els == Elements(self, s)
        n   == (Len(els) + size - 1) \div size
        Part(i) == Slice(els, (i - 1) * size, i * size)
        r   == FoldLeft(LAMBDA acc, i : LET p == NewArray(Part(i), acc.s)
                                        IN  Gives(Append(acc.v, p.v), p.s),
                        Gives(<<>>, s), [i \in 1 .. n |-> i])
    IN  NewGrown(r.v, r.s)

\* rand.Shuffle, for which the model has one order.
arrayShuffle(self, s) == Gives(self, WriteElements(self, Reverse(Elements(self, s)), s))

arrayConcat(self, other, s) ==
    IF other.t # "array" THEN Fails(s) ELSE Gives(self, AppendElements(self, Elements(other, s), s))

\* The methods that change the list.
arrayWrite(self, name, args, s) ==
    LET els == Elements(self, s)
        n   == Len(els)
        Write(new) == WriteElements(self, new, s)
        Texts == [i \in DOMAIN els |-> Inspect(els[i], s)]
    IN
    CASE name = "push" -> Gives(self, AppendElements(self, args, s))
      [] name = "concat" -> arrayConcat(self, args[1], s)
      [] name = "pop" -> IF n = 0 THEN Gives(Null, s) ELSE Gives(els[n], Write(Front(els)))
      [] name = "remove" ->
            IF ~IsNum(args[1]) \/ args[1].num \notin 0 .. n - 1 THEN Fails(s)
            ELSE Gives(els[args[1].num + 1], Write(RemoveAt(els, args[1].num + 1)))
      [] name = "removeValue" ->
            LET i == SelectInSeq(Texts, LAMBDA x : x = Inspect(args[1], s))
            IN  IF i = 0 THEN Gives(Bool(FALSE), s)
                ELSE Gives(Bool(TRUE), Write(RemoveAt(els, i)))
      [] name = "clear" -> Gives(self, MoveElements(self, <<>>, 0, s))
      [] name = "reverse" -> Gives(self, Write(Reverse(els)))
      [] name = "shuffle" -> arrayShuffle(self, s)
      [] name \in {"sort", "sortNumbers"} -> arraySort(self, name, s)

\* The methods that make room, give it up or fill it.
arrayResize(self, name, args, s) ==
    LET els == Elements(self, s)
        n   == Len(els)
        Numbers(from) == \A i \in from .. Len(args) : IsNum(args[i])
    IN
    CASE name = "insert" ->
            IF ~IsNum(args[1]) THEN Fails(s)
            ELSE LET k == IF args[1].num < 0 THEN 0 ELSE IF args[1].num > n THEN n ELSE args[1].num
                     t == AppendElements(self, <<Null>>, s)
                 IN  Gives(self, WriteElements(self, InsertAt(els, k + 1, args[2]), t))
      [] name = "shift" ->
            IF n = 0 THEN Gives(Null, s)
            ELSE Gives(els[1], SetObject(self, [Object(self, s) EXCEPT !.off = @ + 1, !.len = @ - 1], s))
      [] name = "unshift" ->
            Gives(self, MoveElements(self, args \o els,
                      IF n = 0 THEN Len(args)
                      ELSE IF n > Len(args) THEN Len(args) + n ELSE 2 * Len(args), s))
      [] name = "fill" ->
            LET from == IF Len(args) < 2 \/ args[2].num < 0 THEN 0 ELSE args[2].num
                to   == IF Len(args) < 3 \/ args[3].num > n THEN n ELSE args[3].num
            IN  IF ~Numbers(2) THEN Fails(s)
                ELSE Gives(self, WriteElements(self, [i \in DOMAIN els |->
                         IF i \in from + 1 .. to THEN args[1] ELSE els[i]], s))
      [] name = "chunk" -> IF ~IsNum(args[1]) \/ args[1].num <= 0 THEN Fails(s)
                           ELSE arrayChunk(self, args[1].num, s)

arrayMethod(self, name, args, s) ==
    CASE name \in {"map", "filter", "partition", "find", "forEach", "sortWith"} ->
            arrayCallback(self, name, args, s)
      [] name \in {"every", "some", "findIndex", "reduce"} \/ (name = "count" /\ args # <<>>) ->
            arrayFold(self, name, args, s)
      [] name \in {"push", "concat", "pop", "remove", "removeValue", "clear", "reverse",
                   "shuffle", "sort", "sortNumbers"} -> arrayWrite(self, name, args, s)
      [] name \in {"insert", "shift", "unshift", "fill", "chunk"} -> arrayResize(self, name, args, s)
      [] name \in {"slice", "take", "drop", "unique", "flatten"} -> arrayPart(self, name, args, s)
      [] name \in {"join", "sum", "max", "min"} -> arraySum(self, name, args, s)
      [] OTHER -> arrayRead(self, name, args, s)

----------------------------------------------------------------------------
(* Dictionaries *)

hashCallback(self, name, fn, s) ==
    LET keys == Keys(Object(self, s))
        Each(init, On(_, _, _, _, _), Result(_, _)) ==
            ForPairs(self, fn, init, On, Result, s)
        \* out.Pairs[k] = h.Pairs[k], after the callback: a deleted key has none
        Now(i, t) == LET p == Object(self, t).pairs
                     IN  IF Has(p, keys[i]) THEN p[keys[i]] ELSE Nil
        NewPairs(pairs, t) == NewObject("hash", [pairs |-> pairs, order |-> <<>>], t)
    IN
    CASE name = "map" ->
            Each(Empty, LAMBDA acc, res, i, item, t : OnWith((keys[i] :> res) @@ acc), NewPairs)
      [] name = "filter" ->
            Each(Empty, LAMBDA acc, res, i, item, t :
                     OnWith(IF Truthy(res, t) THEN (keys[i] :> Now(i, t)) @@ acc ELSE acc), NewPairs)
      [] name = "find" ->
            Each(Empty, LAMBDA acc, res, i, item, t :
                     IF Truthy(res, t) THEN StopWith(Now(i, t)) ELSE OnWith(acc),
                 LAMBDA acc, t : Gives(Null, t))
      [] name = "forEach" ->
            Each(Empty, LAMBDA acc, res, i, item, t : OnWith(acc), LAMBDA acc, t : Gives(self, t))

PrintKeys(self, F(_), s) ==
    LET keys == Keys(Object(self, s))
    IN  Gives(Null, [s EXCEPT !.out = @ \o [i \in DOMAIN keys |-> F(keys[i])]])

hashPrintValues(self, s) == PrintKeys(self, LAMBDA k : Inspect(Object(self, s).pairs[k], s), s)

hashKeysMethod(self, s) ==
    LET keys == Keys(Object(self, s)) IN NewArray([i \in DOMAIN keys |-> Str(keys[i])], s)

\* A list of lists, one for each key with its value.
hashItems(self, s) ==
    LET h == Object(self, s)
        r == FoldLeft(LAMBDA acc, k : LET p == NewArray(<<Str(k), h.pairs[k]>>, acc.s)
                                      IN  Gives(Append(acc.v, p.v), p.s),
                      Gives(<<>>, s), Keys(h))
    IN  NewArray(r.v, r.s)

hashHasValue(self, value, s) ==
    LET pairs == Object(self, s).pairs
    IN  Gives(Bool(\E k \in DOMAIN pairs : Equal(pairs[k], value, s)), s)

hashMethod(self, name, args, s) ==
    LET h    == Object(self, s)
        Key  == args[1].str
        List(F(_), seq) == NewArray([i \in DOMAIN seq |-> F(seq[i])], s)
        Put(new)    == SetObject(self, new, s)
    IN
    CASE name \in {"has", "get", "set", "delete"} /\ args[1].t # "string" -> Fails(s)
      [] name = "update" /\ args[1].t # "hash" -> Fails(s)
      [] name = "printKeys"   -> PrintKeys(self, LAMBDA k : k, s)
      [] name = "printValues" -> hashPrintValues(self, s)
      [] name = "printAll"    -> PrintKeys(self, LAMBDA k : k \o <<": ">> \o Inspect(h.pairs[k], s), s)
      [] name = "keys"        -> hashKeysMethod(self, s)
      [] name = "sortedKeys"  -> List(Str, SortedKeys(h))
      [] name = "values"      -> List(LAMBDA k : h.pairs[k], Keys(h))
      [] name = "size"        -> Gives(Num(Cardinality(DOMAIN h.pairs)), s)
      [] name = "isEmpty"     -> Gives(Bool(h.pairs = Empty), s)
      [] name = "has"         -> Gives(Bool(Has(h.pairs, Key)), s)
      [] name = "get"         ->
            Gives(IF Has(h.pairs, Key) THEN h.pairs[Key]
                  ELSE IF Len(args) = 2 THEN args[2] ELSE Null, s)
      [] name = "set"         -> Gives(self, Put(PairsSet(h, Key, args[2])))
      [] name = "delete"      ->
            Gives(Bool(Has(h.pairs, Key)),
                  Put([h EXCEPT !.pairs = [k \in DOMAIN @ \ {Key} |-> @[k]]]))
      [] name = "clear"       -> Gives(self, Put([h EXCEPT !.pairs = Empty]))
      [] name = "copy"        -> NewObject("hash", [pairs |-> h.pairs, order |-> <<>>], s)
      [] name = "deepCopy"    -> DeepCopy(self, s)
      [] name = "hasValue"    -> hashHasValue(self, args[1], s)
      [] name = "update"      -> Gives(self, Put([h EXCEPT !.pairs = Object(args[1], s).pairs @@ @]))
      [] name = "items"       -> hashItems(self, s)

----------------------------------------------------------------------------

\* A bound method applied to arguments.
CallBound(bound, args, s) ==
    LET self == bound.self
        name == bound.name
    IN
    CASE Len(args) \notin MethodsOf(self)[name] -> Fails(s)
      [] self.t = "array" -> arrayMethod(self, name, args, s)
      [] self.t = "hash"  ->
            IF name \in {"map", "filter", "find", "forEach"}
            THEN hashCallback(self, name, args[1], s)
            ELSE hashMethod(self, name, args, s)
      [] OTHER -> PlainMethod(self, name, args, s)

\* A method named without () is called there and then, with no arguments.
ResolveValue(r) ==
    IF r.v.t = "bound" THEN CallBound(r.v, <<>>, r.s) ELSE r
=============================================================================
