----------------------------- MODULE MCPacking -----------------------------
(* A project in C:\w\app with a module, assets, data and a test, a design   *)
(* directory beside it, a source of its own beside those, and the engine.   *)
EXTENDS Packing, Programs

App0 == <<Drive, "w", "app">>
W    == <<Drive, "w">>
At(dir, names) == dir \o names

MCStem == ("start.yod" :> "start") @@ ("m.yod" :> "m") @@ ("s.yod" :> "s")
          @@ ("d.yod" :> "d") @@ (".h.yod" :> ".h") @@ ("lone.yod" :> "lone") @@ ("test_m.yod" :> "test_m")
MCExeOf == [name \in {Drive, "w", "app", "sub"} \cup DOMAIN MCStem \cup Range(MCStem) |-> name \o ".exe"]
MCNames == STRING
MCHome == <<Drive, "yod">>
MCElsewhere == <<Drive, "else">>

Do(k, path, place) == [k |-> k, path |-> path, place |-> place, also |-> <<>>]
Does(k, from, to)  == [Do(k, from, "top") EXCEPT !.also = to]
With(step, more)   == step @@ more

\* What the main file may do.
MainSteps ==
    {Do("include", <<"m.yod">>, place) : place \in {"top", "block", "function"}}
    \cup {Do("include", p, "top") : p \in {<<Up, "design", "d.yod">>, <<"sub", "s.yod">>, <<"math">>,
                                           <<"lib">>, <<"test_m.yod">>}}
    \cup {Do("read", p, "top") : p \in {<<"assets", "logo.txt">>, <<"data", "d.txt">>, <<Up, "design", "page.html">>}}
    \cup {Do("readResult", p, "top") : p \in {<<"assets", "logo.txt">>, <<"none.txt">>}}
    \cup {Do("list", p, "top") : p \in {<<"assets">>, <<Up, "design">>}}
    \cup {Do("exists", p, "top") : p \in {<<"assets", "logo.txt">>, <<"assets">>, <<"data">>, <<"none.txt">>}}
    \cup {Do("isdir", p, "top") : p \in {<<"assets">>, <<"assets", "logo.txt">>, <<Up, "design">>}}
    \cup {Do("save", <<"assets", "new.txt">>, "top")}

\* What the module may do.
ModuleSteps ==
    {Do("include", p, "top") : p \in {<<"sub", "s.yod">>, <<Up, "design", "d.yod">>, <<"start.yod">>}}
    \cup {Do("read", <<"assets", "logo.txt">>, "top")}

DeepSteps == {Do("include", p, "top") : p \in {<<Up, "m.yod">>, <<Up, Up, "design", "d.yod">>, <<Up, "design", "d.yod">>}}

Note == <<"note.txt">>
LogFile == <<"log.txt">>
LogoFile == <<"assets", "logo.txt">>
Forward(id, all) == With(Do("step", <<>>, "top"), [id |-> id, all |-> all])

\* What a program does on the disk: beside itself, with what is packed, and with
\* what is not.
DiskPrograms ==
    {<<Do("save", Note, "top"), Do("append", Note, "top"), Do("size", Note, "top"), Does("copy", Note, LogFile),
       Does("move", LogFile, <<"old.txt">>), Does("rename", <<"old.txt">>, LogFile), Do("read", LogFile, "top"),
       Do("delete", LogFile, "top"), Do("deleteAll", <<"old.txt">>, "top"), Do("exists", LogFile, "top")>>,
     <<Do("save", Note, "top"), Does("start", Note, LogFile), Forward(1, FALSE), Do("read", LogFile, "top"),
       Does("start", Note, <<"old.txt">>), Forward(1, TRUE), Forward(2, TRUE), Forward(2, TRUE),
       With(Do("cancel", <<>>, "top"), [id |-> 1]), Do("read", LogFile, "top")>>,
     <<Does("copy", LogoFile, Note), Do("read", Note, "top")>>,
     <<Do("delete", <<"assets", "logo.txt">>, "top")>>, <<Do("append", Note, "top"), Do("size", Note, "top")>>,
     <<Do("save", Note, "top"), Do("list", <<"assets">>, "top"), Do("exists", Note, "top")>>}

\* Catalogs: an English .po, a Hebrew .mo, and more of both languages.
Text(w)    == <<Word(w)>>
Line(k, text) == [k |-> k, text |-> text, quoted |-> TRUE, n |-> 0]
EmptyLine  == Line("empty", <<>>)
Files1     == <<Word("files"), Count>>
English    ==
    <<Line("msgid", <<>>), Line("msgstr", <<>>), Line("string", <<Forms([nplurals |-> 2, rule |-> "n!=1"])>>), EmptyLine,
      Line("comment", <<>>), Line("msgid", Text("save")), Line("msgstr", Text("Save")), EmptyLine,
      Line("msgctxt", Text("f")), Line("msgid", Text("hello")), Line("msgstr", <<Word("Hello Ms"), Hole("name")>>), EmptyLine,
      Line("msgid", Text("file")), Line("msgid_plural", Files1), Line("msgstr", Text("One file")),
      [Line("msgstr", <<Count>>) EXCEPT !.n = 1], Line("string", Text(" files"))>>
Hebrew     ==
    <<[at |-> "in", msg |-> [NoMsg EXCEPT !.strs = <<<<Forms([nplurals |-> 3, rule |-> "n==1?0:n==2?1:2"])>>>>]],
      [at |-> "in", msg |-> [NoMsg EXCEPT !.id = Text("file"), !.strs = <<Text("one"), Text("two"), <<Count>>>>]],
      [at |-> "text out", msg |-> NoMsg], [at |-> "table out", msg |-> NoMsg]>>
Po(id, lines) == [k |-> "po", id |-> id, lines |-> lines]
Mo(id, table) == [k |-> "mo", id |-> id, table |-> table]
CatalogAt(name, data) == At(App0, <<"assets", name>>) :> data
TwoCatalogs == CatalogAt("en.po", Po("english", English)) @@ CatalogAt("he.mo", Mo("hebrew", Hebrew))

Named2(name, code, mo) == [name |-> name, code |-> code, mo |-> mo]
MCCatalogFiles ==
    <<Named2("en.mo", <<"en">>, TRUE), Named2("en.po", <<"en">>, FALSE), Named2("he.mo", <<"he">>, TRUE),
      Named2("iw.po", <<"iw">>, FALSE), Named2("pl.po", <<"pl">>, FALSE)>>

Calls(k, more) == With(Do(k, <<>>, "top"), more)
Ask(more)  == Calls("ask", [q |-> more @@ [vars |-> <<>>]])
Say(w)     == Ask([ask |-> "text", id |-> Text(w)])
Many(n)    == Ask([ask |-> "many", id |-> Text("file"), many |-> Files1, n |-> n])
Lang(code) == Calls("lang", [code |-> code])
LoadDir(p) == Do("loadDir", p, "top")
LoadPo     == With(Do("load", <<"assets", "en.po">>, "top"), [code |-> <<"en">>])
Gendered   == Ask([ask |-> "gender", id |-> Text("hello"), vars |-> <<"name" :> "Dana">>])
Export     == Ask([ask |-> "all"])
Tell       == Calls("onChange", <<>>)
Refresh    == Calls("refresh", <<>>)
Register(code) == Calls("register", [code |-> code, texts |-> (Text("save") :> Text("Keep"))])

CatalogPrograms ==
    {<<LoadDir(<<"assets">>), Tell, Many(2), Many(7), Say("save"), Lang(<<"english">>), Say("save"), Many(1), Many(7),
       Calls("gender", [gender |-> Text("f")]), Gendered, Export,
       Ask([ask |-> "lang"]), Ask([ask |-> "whom"]), Ask([ask |-> "dir"]), Ask([ask |-> "rtl", code |-> <<"iw">>]), Refresh>>,
     <<Tell, LoadPo, Register(<<"iw">>), Lang(<<"en">>), Register(<<"en">>), LoadPo, Say("save"),
       Ask([ask |-> "has", id |-> Text("hello")]), Ask([ask |-> "ctx", ctxt |-> Text("f"), id |-> Text("save")]),
       Ask([ask |-> "manyCtx", ctxt |-> Text("f"), id |-> Text("file"), many |-> Files1, n |-> 3])>>}
OneCatalog == {<<LoadDir(<<"assets">>), Lang(<<"pl">>), Many(3), Lang(<<"en">>), Say("save"), Export>>}

Upto(set, n) == UNION {[1 .. k -> set] : k \in 0 .. n}

Base ==
    (At(App0, <<"assets", "logo.txt">>) :> Asset("logo"))
    @@ (At(App0, <<"data", "d.txt">>) :> Asset("data"))
    @@ (At(App0, <<"test_m.yod">>) :> Source("test", <<>>, TRUE))
    @@ (At(App0, <<"other.txt">>) :> Asset("other"))
    @@ (At(W, <<"design", "d.yod">>) :> Source("d", <<>>, TRUE))
    @@ (At(W, <<"design", "page.html">>) :> Asset("page"))
    @@ (At(W, <<"design", "data", "log.txt">>) :> Asset("log"))
    @@ (At(W, <<"lib", Main>>) :> Source("lib", <<>>, TRUE))
    @@ (At(W, <<"lone.yod">>) :> Source("lone", <<Do("include", <<"app", "m.yod">>, "top")>>, TRUE))
    @@ (At(MCHome, <<"yod.exe">>) :> Engine)
    @@ (At(MCHome, <<"yod.ico">>) :> Asset("yod icon"))

World(main, mod, deep, plain) ==
    (At(App0, <<Main>>) :> Source("main", main, TRUE))
    @@ (At(App0, <<"m.yod">>) :> Source("module", mod, plain))
    @@ (At(App0, <<"sub", "s.yod">>) :> Source("sub", deep, TRUE))
    @@ Base

Logo(id) == At(App0, <<"logo.png">>) :> Asset(id)
Old == At(App0, <<Dist, "app.exe">>) :>
          Exe(<<[k |-> "script", text |-> Source("old", <<>>, TRUE)]>>, <<>>)

ToModule == <<Do("include", <<"m.yod">>, "top")>>
Pairs ==
    {<<Do("save", <<"assets", "new.txt">>, "top"), Do(k, p, "top")>> :
        k \in {"read", "list"}, p \in {<<"assets">>, <<"assets", "new.txt">>}}
    \cup {ToModule \o <<Do("include", <<"sub", "s.yod">>, "block")>>}

\* Programs that do more, in projects with the catalogs they load.
DiskWorlds    == {World(main, <<>>, <<>>, TRUE) : main \in DiskPrograms}
CatalogWorlds ==
    {World(main, <<>>, <<>>, TRUE) @@ TwoCatalogs : main \in CatalogPrograms}
    \cup {World(main, <<>>, <<>>, TRUE) @@ TwoCatalogs @@ more : main \in OneCatalog,
            more \in {CatalogAt("en.mo", Mo("english", <<>>)), CatalogAt("en.mo", Asset("broken")),
                      CatalogAt("pl.po", Po("polish", English)), CatalogAt("iw.po", Po("hebrew", English))}}

\* A program that includes a hidden source.
HiddenWorlds ==
    {World(<<Do("include", <<".h.yod">>, "top")>>, <<>>, <<>>, TRUE)
        @@ (At(App0, <<".h.yod">>) :> Source("hidden", <<>>, TRUE))}

MCWorlds ==
    HiddenWorlds \cup DiskWorlds \cup CatalogWorlds \cup
    {World(main, <<>>, <<>>, TRUE) : main \in Upto(MainSteps, 1) \cup Pairs}
    \cup {World(ToModule, mod, deep, TRUE) : mod \in Upto(ModuleSteps, 1), deep \in Upto(DeepSteps, 1)}
    \cup {World(ToModule, <<>>, <<>>, FALSE)}
    \cup {World(ToModule, <<>>, <<>>, TRUE) @@ more :
             more \in {Logo("logo"), Logo("broken"), Old}}
    \cup {World(<<Do("include", <<Up, "design", "d.yod">>, "top")>>, <<>>, <<>>, TRUE)
            @@ (At(App0, <<"design", "d.yod">>) :> Source("own", <<>>, TRUE))}

MCOrders == {<<App0, <<>>>>, <<App0, <<Drive, "out">>>>,
             <<At(App0, <<"sub", "s.yod">>), <<>>>>, <<At(W, <<"lone.yod">>), <<>>>>}
\* A target beside the sources.
MCTarget == {<<App0, At(App0, <<"app.exe">>)>>}
MCParts(S) == {{}, S} \cup {{p} : p \in S}
MCTexts   == {Source("edited", <<>>, TRUE)}
MCParcels == {<<App0, At(W, <<"lib">>)>>}

\* Without a target beside the sources no packing writes where the user does.
ASSUME Orders \cap MCTarget = {} => PlacesApart /\ EnginesApart /\ OldExesSound /\ PlacesNotNested
=============================================================================
