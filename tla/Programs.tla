------------------------------ MODULE Programs ------------------------------
(***************************************************************************)
(* A program as a whole: the bundle of all it includes                     *)
(* (internal/pack/collect.go), and a run of it from the disk or from the   *)
(* bundle behind the engine (cmd/yod/main.go, the evaluator's include).    *)
(***************************************************************************)
EXTENDS Packer

\* The files in the order they are found; a key is taken once.  panics: a switch
\* without a default is walked as a block that is not there.
RECURSIVE Collected(_, _, _, _)
Collected(d, queue, root, design) ==
    LET open == SelectSeq(queue, LAMBDA q : ~q.read) IN
    IF open = <<>> THEN queue
    ELSE LET cur   == open[1]
             data  == Packed(cur.abs, d[cur.abs])
             deps  == IF data.k = "source" THEN extractUserDeps(data) ELSE <<>>
             found == [i \in DOMAIN deps |-> resolveCollectPath(d, Front(cur.abs), deps[i], root, design)]
             enqueue(q, f) ==
                IF f = <<>> THEN q
                ELSE LET key == virtualKey(root, design, f[1]) IN
                     IF key = <<>> \/ \E i \in DOMAIN q : q[i].key = key[1] THEN q
                     ELSE Append(q, [abs |-> f[1], key |-> key[1], read |-> FALSE])
             done == [i \in DOMAIN queue |-> IF queue[i] = cur THEN [cur EXCEPT !.read = TRUE] ELSE queue[i]]
         IN  Collected(d, FoldLeft(enqueue, done, found), root, design)

\* The modules of a program, by their keys; panics: one of them makes the walk panic.
CollectModules(d, entry) ==
    LET root    == RootOf(d, entry)
        design  == IF IsFolder(d, SiblingDesign(root)) THEN SiblingDesign(root) ELSE <<>>
        queue   == Collected(d, <<[abs |-> entry, key |-> After(root, entry), read |-> FALSE]>>, root, design)
        modules == [k \in {queue[i].key : i \in DOMAIN queue} |->
                      LET i == SelectInSeq(queue, LAMBDA q : q.key = k)
                      IN  Packed(queue[i].abs, d[queue[i].abs])]
    IN  [entry |-> After(root, entry),
         panics |-> \E i \in DOMAIN queue : d[queue[i].abs].k = "source" /\ ~d[queue[i].abs].plain,
         files |-> modules]

----------------------------------------------------------------------------

\* What a program saw and did: what it read, and the steps that led there; it
\* stops at the first that fails.
RECURSIVE RunText(_, _, _, _)
RunText(at, base, data, s) ==
    LET Step(r, a) ==
          LET full  == resolveUserFile(r.disk, at, base, a.path)
              found == ReadPrefer(at.active, r.disk, at.cwd, full)
              to    == CASE a.k = "include" -> full
                         [] a.k \in CatalogKinds -> i18nResolvePath(at.app, a.path)
                         [] OTHER -> Abs(at.cwd, a.path)
              also  == IF a.also = <<>> THEN to ELSE Abs(at.cwd, a.also)
              noted == [r EXCEPT !.log = Append(@, [base |-> base, does |-> a, to |-> to, also |-> also])]
          IN  CASE ~r.ok -> r
                [] r.ok /\ a.k = "include" ->
                     IF Last(a.path) \in Libraries THEN r
                     ELSE IF full \in r.included THEN noted
                     ELSE IF found = <<>> THEN Stops(noted)
                     ELSE RunText(at, Front(full), found[1],
                            [Sees(noted, found[1].id) EXCEPT !.included = @ \cup {full}])
                [] r.ok /\ a.k \in DiskKinds        -> DiskStep(noted, a, to, also)
                [] r.ok /\ a.k \in {"step", "cancel"} -> CopyStep(noted, a)
                [] r.ok /\ a.k \in CatalogKinds     -> CatalogStep(at, noted, a, to)
                [] OTHER                            -> ReadStep(at, noted, a)
    IN  FoldLeft(Step, s, data.does)

Begin(d) == [disk |-> d, copies |-> NoCopies, t |-> Beginning,
             included |-> {}, saw |-> <<>>, log |-> <<>>, ok |-> TRUE]

\* Catalogs are looked for from the directory of the source.
runSource(d, at, entry, data) ==
    RunText([active |-> at.active, cwd |-> at.cwd, app |-> Front(entry)], Front(entry), data,
            [Begin(d) EXCEPT !.saw = <<data.id>>])

\* From the disk, by somebody who works in the directory cwd.
runFile(d, cwd, entry) ==
    LET at == [active |-> Unmounted, cwd |-> cwd] IN runSource(d, at, entry, d[entry])

runEmbedded(d, exe) ==
    LET p == LoadEmbedded(d, exe)[1] IN
    runSource(d, [active |-> p.active, cwd |-> Front(exe)], p.entry, p.text)
=============================================================================
