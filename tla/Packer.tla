------------------------------- MODULE Packer -------------------------------
(***************************************************************************)
(* What a packed program is made of (internal/project, internal/pack) and  *)
(* the steps it takes when it runs.  An executable is the engine and,      *)
(* behind it, a bundle of the files the program needs, from which it reads *)
(* them as if they lay beside it.  Programs puts the pieces together.      *)
(*                                                                         *)
(* A source is the sequence of what it does with files and translations:   *)
(* it includes a file, at its top, in a block, or in a function with a     *)
(* name, it calls a function of the module of files or of translations.    *)
(* The order of the files in an archive and all formats are left out.      *)
(***************************************************************************)
EXTENDS Files, Catalogs, FiniteSets, FiniteSetsExt

CONSTANTS Stem,        \* the names of sources, to their names without extension
          AssetNames,  \* names with the extension of an asset
          IconNames, ImageNames, YodIcons, \* a project's icons, its images, Yod's icons
          ExeOf,       \* the names of programs, to those of their executables
          AssetDirs,   \* directories whose assets are packed
          DataNames,   \* directories a program keeps its data in, and of tests
          TestNames,   \* names of sources that are tests
          HiddenNames, \* names that begin with a dot
          Libraries    \* the modules of the standard library

Main     == "start.yod"
Dist     == "dist"
Design   == "design"
Packages == ".packages"

ASSUME PackerAssumption == Main \in DOMAIN Stem /\ Dist \in DataNames

Source(id, does, plain) == [k |-> "source", id |-> id, does |-> does, plain |-> plain]
\* behind: what is behind the engine; as: how the program ran when it was packed.
Exe(behind, as)         == [k |-> "exe", behind |-> behind, as |-> as]
Engine                  == Exe(<<>>, <<>>)
IsEngine(data)          == data.k = "exe" /\ data.behind = <<>>
IsPacked(data)          == data.k = "exe" /\ data.behind # <<>>
Starter(prog, as)       == [k |-> "starter", prog |-> prog, as |-> as]

Under(d, dir)      == {p \in DOMAIN d : Below(dir, p)}

----------------------------------------------------------------------------
(* Project *)

IsYodSource(path) == Last(path) \in DOMAIN Stem

Dirs(d, start) == IF IsFile(d, start) THEN Front(start) ELSE start

\* The nearest directory above that has a main file.
FindProjectRoot(d, start) ==
    LET dir  == Dirs(d, start)
        tops == {n \in 1 .. Len(dir) : IsFile(d, Append(SubSeq(dir, 1, n), Main))}
    IN  IF tops = {} THEN <<>> ELSE SubSeq(dir, 1, Max(tops))

RootOf(d, src) == IF FindProjectRoot(d, src) = <<>> THEN Front(src) ELSE FindProjectRoot(d, src)

\* The source a user means: of a directory its main file, which may be missing.
ResolveEntry(d, path) ==
    IF IsFile(d, path) THEN <<path>>
    ELSE IF IsFile(d, Append(path, Main)) THEN <<Append(path, Main)>> ELSE <<>>

\* Old distributions looked for in the root itself.
DistInRoot(d, src) == RootOf(d, src)

DefaultDistDir(d, src) == Append(RootOf(d, src), Dist)

\* An executable has its project's name.
DefaultAppName(d, src) == IF Last(src) = Main THEN Last(RootOf(d, src)) ELSE Stem[Last(src)]
DefaultEXEPath(d, src) == Append(DefaultDistDir(d, src), ExeOf[DefaultAppName(d, src)])

----------------------------------------------------------------------------
(* What goes into a distribution *)

isRuntimeDataDir(name) == name \in DataNames
isPackSkipSource(name) == name \in TestNames

\* A walk that skips nothing.
AnyBelow(dir, path) == Below(dir, path)

\* A walk from dir comes to the path unless a directory of data is in between.
Walked(dir, path) ==
    Below(dir, path) /\ \A n \in Len(dir) + 1 .. Len(path) - 1 : ~isRuntimeDataDir(path[n])

isProjectAsset(rel) ==
    /\ Last(rel) \in AssetNames
    /\ Last(rel) \in IconNames \cup ImageNames \cup YodIcons \/ Head(rel) \in AssetDirs

\* The project's own files, and those of the design directory beside it.
ProjectFiles(d, root) ==
    {p \in DOMAIN d : /\ Walked(root, p) /\ ~isPackSkipSource(Last(p))
                      /\ IsYodSource(p) \/ isProjectAsset(After(root, p))}
SiblingDesign(root) == Append(Front(root), Design)
SharedFiles(d, root) == {p \in DOMAIN d : Walked(SiblingDesign(root), p)}

\* ..\design\ becomes design\ wherever it is written, and ..\design once more
\* where it is what a text begins with.
Rewritten(path) ==
    LET Step(acc, name) == IF name = Design /\ acc # <<>> /\ Last(acc) = Up
                           THEN Append(Front(acc), name) ELSE Append(acc, name)
    IN  Append(FoldLeft(Step, <<>>, Front(path)), Last(path))
RewrittenText(path) ==
    LET q == Rewritten(path)
    IN  IF path = <<>> THEN path ELSE IF IsPrefix(<<Up, Design>>, q) THEN Tail(q) ELSE q

\* Sources packed as they were written.
AsWritten(data) == data

rewriteSiblingIncludes(data) ==
    IF data.k # "source" THEN data
    ELSE Source(data.id, [i \in DOMAIN data.does |->
                             [data.does[i] EXCEPT !.path = RewrittenText(@), !.also = RewrittenText(@)]],
                data.plain)

Packed(path, data) == IF IsYodSource(path) THEN rewriteSiblingIncludes(data) ELSE data

----------------------------------------------------------------------------
(* The bundle *)

virtualKey(root, design, abs) ==
    IF IsPrefix(root, abs) THEN <<After(root, abs)>>
    ELSE IF design # <<>> /\ IsPrefix(design, abs) THEN <<<<Design>> \o After(design, abs)>>
    ELSE <<>>

\* The sources of a directory with this name, whatever their extension.
Named(d, dir, stem) == {Append(dir, n) : n \in {m \in DOMAIN Stem : Stem[m] = stem /\ IsFile(d, Append(dir, m))}}

WithExtension(d, c) ==
    IF IsFile(d, c) THEN {c} ELSE IF IsYodSource(c) THEN {} ELSE Named(d, Front(c), Last(c))

resolveCollectPath(d, dir, dep, root, design) ==
    LET again == Rewritten(dep)
        rest  == IF Head(again) = Design THEN Tail(again) ELSE again
        last  == SubSeq(dep, SelectInSeq(dep, LAMBDA n : n = Design) + 1, Len(dep))
        candidates ==
            <<Join(dir, dep)>>
            \o (IF again = dep THEN <<>> ELSE <<Join(dir, again)>>)
            \o (IF again = dep \/ design = <<>> THEN <<>>
                ELSE <<Join(root, again), Join(design, rest), Join(design, last)>>)
        i == SelectInSeq(candidates, LAMBDA c : WithExtension(d, c) # {})
    IN  IF i = 0 THEN <<>> ELSE <<CHOOSE p \in WithExtension(d, candidates[i]) : TRUE>>

\* The walk over the tree does not look into what a variable is bound to, and a
\* function with a name is a variable.
extractUserDeps(data) ==
    LET seen == SelectSeq(data.does, LAMBDA a : /\ a.k = "include" /\ a.place # "function"
                                                /\ Last(a.path) \notin Libraries)
    IN  [i \in DOMAIN seen |-> seen[i].path]

----------------------------------------------------------------------------
(* The steps of a run *)

\* The packages of a directory are looked through too.
resolveUserFile(d, at, base, path) ==
    LET stem  == IF IsYodSource(path) THEN Stem[Last(path)] ELSE Last(path)
        store == Append(base, Packages)
        candidates == <<Join(base, path), Join(store, path)>>
                      \o SetToSeq(Named(d, store, Last(path)))
                      \o <<Append(Append(store, stem), Last(path)), Append(Append(store, stem), Main)>>
        There(c) == \/ IsFile(d, c)
                    \/ at.active # <<>> /\ Exists(at.active[1], at.cwd, c) /\ ~IsDir(at.active[1], at.cwd, c)
        i == SelectInSeq(candidates, There)
    IN  IF i = 0 THEN Join(base, path) ELSE candidates[i]

Sees(r, x) == [r EXCEPT !.saw = Append(@, x)]
Stops(r)   == [r EXCEPT !.ok = FALSE]

\* A text or a size, which may be missing.
SeesIfThere(r, found) == IF found = <<>> THEN Stops(r) ELSE Sees(r, found[1])

\* A result the program looks into: a text, or that there is none.
filesReadResult(found) == [ok |-> found # <<>>, value |-> IF found = <<>> THEN <<>> ELSE <<found[1].id>>]

\* What the program reads of files, packed or on the disk.
ReadStep(at, r, a) ==
    LET read == filesRead(at.active, r.disk, at.cwd, a.path) IN
    CASE a.k = "read"   -> IF read = <<>> THEN Stops(r) ELSE Sees(r, read[1].id)
      [] a.k = "readResult" -> Sees(r, filesReadResult(read))
      [] a.k = "exists" -> Sees(r, filesExists(at.active, r.disk, at.cwd, a.path))
      [] a.k = "isdir"  -> Sees(r, filesIsDir(at.active, r.disk, at.cwd, a.path))
      [] a.k = "list"   -> Sees(r, filesList(at.active, r.disk, at.cwd, a.path))

DiskKinds == {"save", "append", "delete", "deleteAll", "size", "copy", "move", "rename", "start"}

\* What it does on the disk.
DiskStep(r, a, to, also) ==
    LET held    == Held(r.copies)
        Did1(x) == [r EXCEPT !.disk = x.disk, !.ok = x.ok]
        begun   == filesStartCopy(r.disk, r.copies, to, also)
    IN
    CASE a.k = "save"      -> Did1(filesWrite(r.disk, to))
      [] a.k = "append"    -> Did1(filesAppend(r.disk, to))
      [] a.k = "delete"    -> Did1(filesDelete(r.disk, held, to))
      [] a.k = "deleteAll" -> Did1(filesDeleteRecursive(r.disk, held, to))
      [] a.k = "size"      -> SeesIfThere(r, filesSize(r.disk, to))
      [] a.k = "copy"      -> Did1(filesCopy(r.disk, to, also))
      [] a.k = "move"      -> Did1(filesMove(r.disk, held, to, also))
      [] a.k = "rename"    -> Did1(filesRename(r.disk, held, to, also))
      [] a.k = "start"     ->
            IF ~CanStart(r.disk, to, also) THEN Stops(r)
            ELSE Sees([r EXCEPT !.disk = begun.disk, !.copies = begun.copies],
                      copyStatusHash(Last(begun.copies)))

\* A copy goes on, or is given up.
CopyStep(r, a) ==
    LET next == filesStepCopy(r.disk, r.copies, a.id, a.all) IN
    CASE a.k = "cancel" -> [r EXCEPT !.copies = filesCancelCopy(@, a.id)]
      [] a.k = "step" /\ ~IsCopying(r.copies, a.id) -> Stops(r)
      [] a.k = "step" /\ IsCopying(r.copies, a.id)  ->
            Sees([r EXCEPT !.disk = next.disk, !.copies = next.copies],
                 copyStatusHash(next.copies[a.id]))

CatalogKinds == {"ask", "onChange", "refresh", "lang", "gender", "register", "load", "loadDir"}

\* What it does with translations, and what its functions hear.
CatalogStep(at, r, a, to) ==
    LET Turns(x) == [r EXCEPT !.t = x.t, !.saw = @ \o x.heard]
        Loads(new, x) == IF new = <<>> THEN Stops(r) ELSE Turns(x)
        file  == i18nLoadFileInto(r.t, a.code, Last(to), ReadPrefer(at.active, r.disk, at.cwd, to))
        files == i18nLoadDir(r.t, at.active, r.disk, at.cwd, to)
    IN
    CASE a.k = "ask"      -> Sees(r, Answer(r.t, a.q))
      [] a.k = "onChange" -> Turns(i18nOnChange(r.t))
      [] a.k = "refresh"  -> Turns(i18nRefreshUI(r.t))
      [] a.k = "lang"     -> Turns(i18nSetLang(r.t, a.code))
      [] a.k = "gender"   -> Turns(i18nSetGender(r.t, a.gender))
      [] a.k = "register" -> Turns(i18nRegister(r.t, a.code, a.texts))
      [] a.k = "load"     -> Loads(file, IfCurrent(file[1], a.code))
      [] a.k = "loadDir"  -> Loads(files, Notified(files[1]))

----------------------------------------------------------------------------
(* What is behind an engine *)

fsFromZip(dir, files) ==
    LET Added(fs, key) == Add(fs, key, files[key])
    IN  FoldLeft(Added, New(dir), SetToSeq(DOMAIN files))

parseBundleOverlay(dir, behind) ==
    IF behind # <<>> /\ behind[1].k = "bundle" THEN <<fsFromZip(dir, behind[1].files)>> ELSE <<>>

\* The bundle is mounted at the directory of the executable; an old executable
\* has one text behind it and nothing to mount.
LoadEmbedded(d, exe) ==
    LET behind == d[exe].behind
        dir    == Front(exe)
        bundle == parseBundleOverlay(dir, behind)
    IN  IF bundle # <<>>
        THEN LET body == Get(bundle[1], behind[1].entry) IN
             IF body = <<>> THEN <<>>
             ELSE <<[active |-> Mount(bundle[1]), entry |-> dir \o behind[1].entry, text |-> body[1]]>>
        ELSE IF behind # <<>>
             THEN <<[active |-> Unmounted, entry |-> Append(dir, Main), text |-> behind[1].text]>>
        ELSE <<>>
=============================================================================
