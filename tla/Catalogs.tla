------------------------------ MODULE Catalogs ------------------------------
(***************************************************************************)
(* Translations (internal/stdlib/i18n.go, i18n_po.go, i18n_mo.go): the     *)
(* catalogs of messages a program loads from files, with the rules for     *)
(* plurals, and how it finds the text for a message.                       *)
(*                                                                         *)
(* A text is a sequence of pieces: words, places for a variable, %d, and,  *)
(* in the header of a catalog, its rule for plurals.  A language is the    *)
(* sequence of its code's parts, in small letters: en_US is en, us.  The   *)
(* state t of the module: the language, the gender, the catalogs of        *)
(* languages, and how many functions of the program hear of changes and do *)
(* no more.  The values of variables hold no places for others.            *)
(***************************************************************************)
EXTENDS Vfs, Integers

\* The files of catalogs in the order a directory lists them, each with its
\* name, the language it is named for, and whether it is an .mo.
CONSTANT CatalogFiles

Word(w)  == [k |-> "word", w |-> w]
Hole(v)  == [k |-> "hole", w |-> v]
Count    == [k |-> "count", w |-> "%d"]
Forms(h) == [k |-> "forms", forms |-> h]

fmtNum(n) == ToString(n)

\* Every place of a variable, and %d by what says how many.
interpolateI18n(text, vars) ==
    LET counts == SelectSeq(<<"amount", "n", "count">>, LAMBDA v : Has(vars, v))
        Piece(p) == CASE p.k = "hole" /\ Has(vars, p.w)   -> Word(vars[p.w])
                      [] p.k = "count" /\ counts # <<>>   -> Word(vars[counts[1]])
                      [] OTHER                            -> p
    IN  [i \in DOMAIN text |-> Piece(text[i])]

----------------------------------------------------------------------------
(* Languages *)

normalizeLangCode(code) ==
    CASE code \in {<<"hebrew">>, <<"iw">>} -> <<"he">>
      [] code = <<"english">>              -> <<"en">>
      [] code = <<"arabic">>               -> <<"ar">>
      [] OTHER                             -> code

i18nDirForLang(code) ==
    IF Head(normalizeLangCode(code)) \in {"he", "iw", "ar", "fa", "ur", "yi", "ps"}
    THEN "rtl" ELSE "ltr"

I18nDirection(t) == i18nDirForLang(t.lang)

\* Which form of a message stands for n things.
pluralFuncForLang(code, n) ==
    LET base == Head(normalizeLangCode(code))
        few  == n % 10 \in 2 .. 4 /\ n % 100 \notin 10 .. 19
        tail == n % 100
    IN
    CASE base \in {"he", "iw"} -> IF n \in {1, 2} THEN n - 1 ELSE 2
      [] base = "ar" -> IF n \in 0 .. 2 THEN n
                        ELSE IF tail \in 3 .. 10 THEN 3 ELSE IF tail >= 11 THEN 4 ELSE 5
      [] base \in {"ru", "uk", "sr", "hr", "bs"} ->
            IF n % 10 = 1 /\ tail # 11 THEN 0 ELSE IF few THEN 1 ELSE 2
      [] base = "pl" -> IF n = 1 THEN 0 ELSE IF few THEN 1 ELSE 2
      [] OTHER -> IF n = 1 THEN 0 ELSE 1

\* A rule is the language it is that of, or has one form for all.
OneForm == <<"one form">>
PluralOf(rule, n) == IF rule = OneForm THEN 0 ELSE pluralFuncForLang(rule, n)

\* The rules a header may give, of the many there are.
tryParsePluralForms(h) ==
    CASE h.nplurals = 1                 -> <<OneForm>>
      [] h.nplurals # 1 /\ h.rule = "n==1?0:n==2?1:2" -> <<<<"he">>>>
      [] h.nplurals # 1 /\ h.rule \in {"n!=1", "n>1"} -> <<<<"en">>>>
      [] OTHER                          -> <<>>

pluralFuncFromHeader(header, code) ==
    IF header # <<>> /\ tryParsePluralForms(header[1]) # <<>>
    THEN tryParsePluralForms(header[1])[1] ELSE code

extractPluralForms(text) ==
    LET i == SelectInSeq(text, LAMBDA p : p.k = "forms")
    IN  IF i = 0 THEN <<>> ELSE <<text[i].forms>>

----------------------------------------------------------------------------
(* Files of catalogs: what one holds, its messages and its header *)

i18nKey(ctxt, id) == <<ctxt, id>>

NoMsg == [ctxt |-> <<>>, id |-> <<>>, plural |-> <<>>, strs |-> <<>>]
IsHeader(msg) == msg.id = <<>> /\ msg.ctxt = <<>>

Form(strs, i) == IF i <= Len(strs) THEN strs[i] ELSE <<>>
SetForm(strs, i, text) ==
    [j \in 1 .. Max({Len(strs), i}) |-> IF j = i THEN text ELSE Form(strs, j)]

\* A line of a message; a form without a number is the first.
SetField(msg, line, text) ==
    CASE line.k = "msgctxt"      -> [msg EXCEPT !.ctxt = text]
      [] line.k = "msgid"        -> [msg EXCEPT !.id = text]
      [] line.k = "msgid_plural" -> [msg EXCEPT !.plural = text]
      [] line.k = "msgstr"       -> [msg EXCEPT !.strs = SetForm(@, line.n + 1, text)]

EndMsg(p) ==
    LET q == [p EXCEPT !.msg = NoMsg, !.open = <<>>] IN
    CASE IsHeader(p.msg) /\ p.msg.strs # <<>> -> [q EXCEPT !.header = extractPluralForms(p.msg.strs[1])]
      [] p.msg.id # <<>> -> [q EXCEPT !.msgs = (i18nKey(p.msg.ctxt, p.msg.id) :> p.msg) @@ @]
      [] OTHER -> q

\* Lines of text in quotes go on with the field right above them, if its text is
\* in quotes too; an empty line ends a message, and nothing else does.
parsePOFile(lines) ==
    LET Field(p, line) ==
            [p EXCEPT !.msg = SetField(@, line, line.text),
                      !.open = IF line.quoted THEN <<line>> ELSE <<>>]
        Line(p, line) ==
            CASE line.k = "empty" -> EndMsg(p)
              [] line.k \in {"comment", "other"} -> [p EXCEPT !.open = <<>>]
              [] line.k = "string" ->
                    IF p.open = <<>> THEN p
                    ELSE Field(p, [p.open[1] EXCEPT !.text = @ \o line.text])
              [] OTHER -> Field(p, line)
        end == EndMsg(FoldLeft(Line, [msg |-> NoMsg, open |-> <<>>, msgs |-> <<>>, header |-> <<>>], lines))
    IN  <<[msgs |-> end.msgs, header |-> end.header]>>

\* A table of messages, which ends where the file does; a text outside the file
\* is passed over.
parseMO(table) ==
    LET cut    == SelectInSeq(table, LAMBDA e : e.at = "table out")
        inside == SelectSeq(SubSeq(table, 1, IF cut = 0 THEN Len(table) ELSE cut - 1),
                            LAMBDA e : e.at = "in")
        Entry(p, e) == IF IsHeader(e.msg) THEN [p EXCEPT !.header = extractPluralForms(e.msg.strs[1])]
                       ELSE [p EXCEPT !.msgs = (i18nKey(e.msg.ctxt, e.msg.id) :> e.msg) @@ @]
    IN  FoldLeft(Entry, [msgs |-> <<>>, header |-> <<>>], inside)

----------------------------------------------------------------------------
(* Loading *)

Beginning == [lang |-> <<"he">>, gender |-> <<>>, catalogs |-> <<>>, hooks |-> 0]

\* A catalog that is there already keeps the messages the new one has not.
Merged(t, code, msgs, header) ==
    LET lang == normalizeLangCode(code)
        rule == pluralFuncFromHeader(header, lang)
        new  == [msgs |-> msgs, plural |-> rule]
        both == [msgs |-> msgs @@ t.catalogs[lang].msgs,
                 plural |-> IF header # <<>> THEN rule ELSE t.catalogs[lang].plural]
    IN  [t EXCEPT !.catalogs = (lang :> IF Has(@, lang) THEN both ELSE new) @@ @]

\* What is no catalog has no messages, if it need not be an .mo.
Parsed(mo, data) ==
    IF mo THEN IF data.k = "mo" THEN <<parseMO(data.table)>> ELSE <<>>
    ELSE parsePOFile(IF data.k = "po" THEN data.lines ELSE <<>>)

IsMo(name) == \E i \in DOMAIN CatalogFiles : CatalogFiles[i].name = name /\ CatalogFiles[i].mo

\* found: what is in the file, if it can be read.
i18nLoadFileInto(t, code, name, found) ==
    LET c == IF found = <<>> THEN <<>> ELSE Parsed(IsMo(name), found[1])
    IN  IF c = <<>> THEN <<>> ELSE <<Merged(t, code, c[1].msgs, c[1].header)>>

i18nResolvePath(base, path) == IF IsAbs(path) THEN path ELSE Join(base, path)

\* All the files one after the other, or those that can be loaded.
LoadAll(t, files, Found(_), strict) ==
    LET Load(r, f) ==
          LET new == i18nLoadFileInto(r[1], f.code, f.name, Found(f))
          IN  IF r = <<>> THEN r ELSE IF new # <<>> THEN new ELSE IF strict THEN <<>> ELSE r
    IN  FoldLeft(Load, <<t>>, files)

Common == {<<"en">>, <<"he">>, <<"ar">>, <<"ru">>, <<"fr">>, <<"de">>, <<"es">>}

\* The catalogs of a directory on the disk, an .mo before a .po and the first of
\* two; where there is no such directory on the disk, of the common languages
\* whatever can be read, a .po over an .mo.
i18nLoadDir(t, active, disk, cwd, dir) ==
    LET Found(f) == ReadPrefer(active, disk, cwd, Append(dir, f.name))
        on    == SelectSeq(CatalogFiles, LAMBDA f : IsFile(disk, Append(dir, f.name)))
        Lang(f)  == normalizeLangCode(f.code)
        Best(i)  == \A j \in DOMAIN on :
                        j # i /\ Lang(on[j]) = Lang(on[i])
                        => \/ on[i].mo /\ ~on[j].mo
                           \/ on[i].mo = on[j].mo /\ i < j
        best  == [i \in DOMAIN on |-> IF Best(i) THEN <<on[i]>> ELSE <<>>]
        common == SelectSeq(CatalogFiles, LAMBDA f : f.code \in Common)
        sorted == SelectSeq(common, LAMBDA f : f.mo) \o SelectSeq(common, LAMBDA f : ~f.mo)
    IN  IF IsFolder(disk, dir) THEN LoadAll(t, FlattenSeq(best), Found, TRUE)
        ELSE LoadAll(t, sorted, Found, FALSE)

----------------------------------------------------------------------------
(* Texts *)

\* A message of a language, of its context or else of none, with the rule for
\* plurals of the catalog.
i18nFindLocked(t, code, ctxt, id) ==
    LET lang == normalizeLangCode(code)
        cat  == t.catalogs[lang]
        keys == SelectSeq(<<i18nKey(ctxt, id), i18nKey(<<>>, id)>>, LAMBDA k : Has(cat.msgs, k))
    IN  IF ~Has(t.catalogs, lang) \/ keys = <<>> THEN <<>>
        ELSE <<[msg |-> cat.msgs[keys[1]], plural |-> cat.plural]>>

FirstForm(msg) == Form(msg.strs, 1)

\* The form for n things, n < 0 for a message without a number.
FormFor(found, id, n) ==
    LET msg == found.msg
        i   == Min({PluralOf(found.plural, n), Len(msg.strs) - 1})
        Or(text, other) == IF text # <<>> THEN text ELSE other
    IN  IF n >= 0 /\ Len(msg.strs) > 1
        THEN Or(msg.strs[i + 1], IF n # 1 THEN Or(msg.plural, id) ELSE id)
        ELSE Or(FirstForm(msg), id)

\* A language without the message has it in Hebrew.  vars: <<>> for none.
i18nLookup(t, ctxt, id, n, vars) ==
    LET found == i18nFindLocked(t, t.lang, ctxt, id) \o i18nFindLocked(t, <<"he">>, ctxt, id)
        text  == IF found = <<>> THEN id ELSE FormFor(found[1], id, n)
        much  == ("amount" :> fmtNum(n)) @@ ("n" :> fmtNum(n))
    IN  CASE id = <<>> -> id
          [] id # <<>> /\ vars # <<>> ->
                interpolateI18n(text, IF n >= 0 /\ ~Has(vars[1], "amount") THEN much @@ vars[1] ELSE vars[1])
          [] id # <<>> /\ vars = <<>> /\ n >= 0 ->
                [i \in DOMAIN text |-> IF text[i] = Count THEN Word(fmtNum(n)) ELSE text[i]]
          [] OTHER -> text

i18nT(t, id, vars) == i18nLookup(t, <<>>, id, -1, vars)

i18nTCtx(t, ctxt, id, vars) == i18nLookup(t, ctxt, id, -1, vars)

VarsOf(vars) == IF vars = <<>> THEN <<>> ELSE vars[1]

i18nTN(t, one, many, n, vars) ==
    LET all  == ("amount" :> fmtNum(n)) @@ ("n" :> fmtNum(n)) @@ VarsOf(vars)
        text == i18nLookup(t, <<>>, one, n, <<all>>)
    IN  IF text # one THEN text ELSE interpolateI18n(IF n # 1 THEN many ELSE one, all)

\* Here the program's variables come before the number.
i18nTNCtx(t, ctxt, one, many, n, vars) ==
    LET all  == VarsOf(vars) @@ ("amount" :> fmtNum(n)) @@ ("n" :> fmtNum(n))
        text == i18nLookup(t, ctxt, one, n, <<all>>)
    IN  IF text # one \/ n = 1 THEN text ELSE interpolateI18n(many, all)

\* The gender is the context; what it does not change is looked for without.
i18nTGender(t, id, vars) ==
    LET text == i18nLookup(t, t.gender, id, -1, vars)
    IN  IF t.gender # <<>> /\ text # id THEN text ELSE i18nT(t, id, vars)

i18nHas(t, id) ==
    LET found == i18nFindLocked(t, t.lang, <<>>, id)
    IN  found # <<>> /\ FirstForm(found[1].msg) # <<>>

----------------------------------------------------------------------------
(* Changes, which the program's functions hear of *)

\* The catalog of a language, or the Hebrew one, as far as it has a text.
i18nFlatCatalogLocked(t, code) ==
    LET cats == SelectSeq(<<normalizeLangCode(code), <<"he">>>>, LAMBDA l : Has(t.catalogs, l))
        msgs == t.catalogs[cats[1]].msgs
    IN  IF cats = <<>> THEN <<>>
        ELSE [k \in {j \in DOMAIN msgs : FirstForm(msgs[j]) # <<>>} |-> FirstForm(msgs[k])]

i18nExportCatalog(t) ==
    [lang |-> t.lang, gender |-> t.gender, dir |-> I18nDirection(t),
     texts |-> i18nFlatCatalogLocked(t, t.lang)]

\* Each function is called with what the program has now.
i18nNotifyUI(t) == [i \in 1 .. t.hooks |-> i18nExportCatalog(t)]

Quietly(t)  == [t |-> t, heard |-> <<>>]
Notified(t) == [t |-> t, heard |-> i18nNotifyUI(t)]

i18nOnChange(t)       == Quietly([t EXCEPT !.hooks = @ + 1])
i18nSetLang(t, code)  == Notified([t EXCEPT !.lang = normalizeLangCode(code)])
i18nSetGender(t, g)   == Notified([t EXCEPT !.gender = g])

\* A catalog of another language than the current one is not told of.
IfCurrent(t, code) == IF normalizeLangCode(code) = t.lang THEN Notified(t) ELSE Quietly(t)

i18nRegister(t, code, texts) ==
    LET msgs == [k \in {i18nKey(<<>>, id) : id \in DOMAIN texts} |->
                   [NoMsg EXCEPT !.id = k[2], !.strs = <<texts[k[2]]>>]]
    IN  IfCurrent(Merged(t, code, msgs, <<>>), code)

\* The program asks for its functions to be called.
i18nRefreshUI(t) == Notified(t)

i18nGetLang(t)   == t.lang
i18nGetGender(t) == t.gender
i18nIsRTL(code)  == i18nDirForLang(code) = "rtl"

\* A program's question, by the name of the function it calls.
Answer(t, q) ==
    CASE q.ask = "text"   -> i18nT(t, q.id, q.vars)
      [] q.ask = "ctx"    -> i18nTCtx(t, q.ctxt, q.id, q.vars)
      [] q.ask = "many"   -> i18nTN(t, q.id, q.many, q.n, q.vars)
      [] q.ask = "manyCtx" -> i18nTNCtx(t, q.ctxt, q.id, q.many, q.n, q.vars)
      [] q.ask = "gender" -> i18nTGender(t, q.id, q.vars)
      [] q.ask = "has"    -> i18nHas(t, q.id)
      [] q.ask = "all"    -> i18nExportCatalog(t)
      [] q.ask = "lang"   -> i18nGetLang(t)
      [] q.ask = "whom"   -> i18nGetGender(t)
      [] q.ask = "dir"    -> I18nDirection(t)
      [] q.ask = "rtl"    -> i18nIsRTL(q.code)
=============================================================================
