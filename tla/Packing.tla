------------------------------ MODULE Packing ------------------------------
(***************************************************************************)
(* The command that packs (cmd/yod/pack.go, internal/pack): it makes one   *)
(* executable, or a folder with the engine and the sources, in place of    *)
(* what an earlier packing left there.  Its steps write to the disk one    *)
(* after the other, and each may fail; around it the user edits sources,   *)
(* adds packages, and runs what was packed.                                *)
(***************************************************************************)
EXTENDS Packer

\* The modules of a program and the two ways to run it: CollectModules, runFile and
\* runEmbedded of Programs.
CONSTANTS Collects(_, _), Runs(_, _, _), RunsPacked(_, _)

\* bound: which parts of a set of files a removal or a copy that fails gets through.
CONSTANT Parts(_)

CONSTANTS Names,       \* the names of files and directories
          Worlds,      \* the disks the user may begin with
          Home,        \* the directory of the engine
          Elsewhere,   \* a directory to copy an executable to
          Orders,      \* what the user packs, a source or a directory, and the
                       \* target the user gives, <<>> for none
          Texts,       \* what the user may write into a source
          Parcels,     \* what the user may add as a package
          MaxCommands, \* bound: how many commands the user gives
          MaxPackings  \* bound: how many of them pack

Path     == Seq(Names)
FilePath == Path \ {<<>>}

\* Where the user may have packages put.
PackageDirs(from) ==
    {Join(from[1], <<Packages, name>>) :
        name \in {Last(from[2])} \cup {Stem[n] : n \in {Last(from[2])} \cap DOMAIN Stem}}

ASSUME PackingAssumption ==
    /\ MaxCommands \in Nat /\ MaxPackings \in Nat
    /\ Elsewhere \in Path
    /\ \A d \in Worlds : DOMAIN d \subseteq FilePath
    /\ \A o \in Orders : o[1] \in Path /\ Len(o[1]) >= 2 /\ o[2] \in Path
    /\ \A text \in Texts : text.k = "source"
    /\ \A from \in Parcels : from[1] \in Path /\ from[2] \in FilePath /\ PackageDirs(from) \subseteq Path

\* Every program that may be packed has a name for its executable, which has an
\* extension of its own.
ASSUME NamesAssumption ==
    /\ {"app.ico", "yod.ico", "yod.exe", "run.bat", "manifest", "readme"} \subseteq Names
    /\ {Main, Dist, Design} \subseteq Names
    /\ Stem \in [DOMAIN Stem -> Names] /\ ExeOf \in [DOMAIN ExeOf -> Names]
    /\ \A o \in Orders : ToSet(o[1]) \cup {Main} \cup Range(Stem) \subseteq DOMAIN ExeOf
    /\ (Range(ExeOf) \cup {"yod.exe"})
          \cap (DOMAIN Stem \cup AssetNames \cup IconNames \cup ImageNames \cup YodIcons) = {}
    /\ DOMAIN Stem \cap (IconNames \cup YodIcons \cup {"app.ico", "yod.ico", "manifest"}) = {}
    /\ Design \notin DataNames

VARIABLES disk,     \* absolute paths to what the files hold
          running,  \* the executable that is running, or <<>>
          cmd       \* the packing in progress

VARIABLES mine,     \* history: the files of the user, as the user or a program
                    \* the user ran left them
          halves,   \* history: engines without a program that a packing left
          kept,     \* history: files that should have been removed and were not
          fresh,    \* history: directories as a packing left them
          verdict,  \* history: what the last run saw, and what it should have seen
          given,    \* bound: how many commands have been given
          packings  \* bound: how many of them packed

historyVars == <<mine, halves, kept, fresh, verdict, given, packings>>
vars        == <<disk, running, cmd, historyVars>>

Idle == [at |-> "idle", src |-> <<>>, out |-> <<>>]
Same == <<<<>>, <<>>>>

Init ==
    /\ disk \in Worlds
    /\ running = <<>> /\ cmd = Idle
    /\ mine = Without(disk, {p \in DOMAIN disk : disk[p].k = "exe"})
    /\ halves = {} /\ kept = {} /\ fresh = {} /\ verdict = Same
    /\ given = 0 /\ packings = 0

----------------------------------------------------------------------------
(* Icons and copies *)

\* A file copied to itself is empty before it is read.
copyFile(d, from, to) == Put(d, to, IF from = to THEN Asset("empty") ELSE d[from])

packIconSearchDirs(d, src) == <<RootOf(d, src), Front(src)>>

\* The icon of the project, an icon made of its image, or Yod's; an image may be
\* broken.
resolvePackIcon(d, src) ==
    LET dirs == packIconSearchDirs(d, src)
        In(names) == {p \in DOMAIN d : p # <<>> /\ Front(p) \in ToSet(dirs) /\ Last(p) \in names}
        yod  == In(YodIcons) \cup {p \in DOMAIN d : Front(p) = Home /\ Last(p) \in YodIcons}
        Some(set) == <<CHOOSE p \in set : TRUE>>
    IN  CASE In(IconNames) # {} -> [ok |-> TRUE, from |-> Some(In(IconNames))]
          [] In(IconNames) = {} /\ In(ImageNames) # {} ->
               [ok |-> d[Some(In(ImageNames))[1]].id # "broken", from |-> Some(In(ImageNames))]
          [] OTHER -> [ok |-> TRUE, from |-> IF yod = {} THEN <<>> ELSE Some(yod)]

copyProjectIcon(d, src, dir) ==
    LET icon == resolvePackIcon(d, src) IN
    IF ~icon.ok \/ icon.from = <<>> THEN d
    ELSE copyFile(copyFile(d, icon.from[1], Append(dir, "app.ico")), icon.from[1], Append(dir, "yod.ico"))

----------------------------------------------------------------------------
(* What a packed program is expected to do *)

\* A file that is there and is not one of those that are packed.
NotPacked(d, root, p) == IsFile(d, p) /\ p \notin ProjectFiles(d, root) \cup SharedFiles(d, root)

\* ..\design is rewritten as if every source lay directly in the root and the
\* root had no design directory of its own.
Displaced(d, root, step) ==
    /\ \E path \in {step.does.path, step.does.also} : RewrittenText(path) # path
    /\ step.base # root \/ IsFolder(d, Append(root, Design))

\* The names of what a distribution adds.
OwnNames == {"yod.exe", "run.bat", "manifest", "readme"} \cup Range(ExeOf) \cup IconNames \cup YodIcons

\* A path on the disk where a distribution has not what the project has: what is
\* not packed, a directory without anything packed; beside an executable there is
\* no directory and nothing that is packed.
NotBeside(d, root, folder, p) ==
    \/ \E q \in AllOf(d, p) : NotPacked(d, root, q)
    \/ Front(p) # root /\ \A q \in Under(d, Front(p)) : NotPacked(d, root, q)
    \/ ~folder /\ (Front(p) # root \/ AllOf(d, p) # {})

\* Catalogs that are found in the directory on the disk and not, or not the same
\* way, by the common names: of another language, or two of one.
Uncommon(d, dir) ==
    LET on == {i \in DOMAIN CatalogFiles : IsFile(d, Append(dir, CatalogFiles[i].name))}
        Lang(i) == normalizeLangCode(CatalogFiles[i].code)
    IN  \/ \E i \in on : CatalogFiles[i].code \notin Common
        \/ \E i, j \in on : i # j /\ Lang(i) = Lang(j)

\* The steps of a run that a distribution is known not to repeat: what is not
\* packed, or has the name of what is added; in an executable also a package, an include within a function, what
\* the program changes below what is packed, which hides it, and a directory of
\* catalogs; in a folder all it does when it does not lie in the root, for it is
\* copied there.
Known(d, src, log, folder) ==
    LET root == RootOf(d, src)
        Odd(s) ==
            \/ s.does.k \in {"include", "read", "readResult", "load"} /\ NotPacked(d, root, s.to)
            \/ /\ s.does.k \in {"exists", "isdir"}
               /\ AllOf(d, s.to) # {} /\ \A p \in AllOf(d, s.to) : NotPacked(d, root, p)
            \/ s.does.k \in {"list", "loadDir"} /\ \E p \in Under(d, s.to) : NotPacked(d, root, p)
            \/ s.does.k \in DiskKinds /\ \E p \in {s.to, s.also} : NotBeside(d, root, folder, p)
            \/ \E p \in {s.to, s.also} : p # <<>> /\ Last(p) \in OwnNames
            \/ Displaced(d, root, s)
            \/ ~folder /\ s.does.k = "include" /\ (s.does.place = "function" \/ Packages \in ToSet(s.to))
            \/ /\ ~folder /\ s.does.k = "list" /\ IsPrefix(s.to, root)
               /\ \E i \in DOMAIN log : log[i].does.k \in DiskKinds
            \/ ~folder /\ s.does.k = "loadDir" /\ Uncommon(d, s.to)
            \/ folder /\ Front(src) # root
    IN  {i \in DOMAIN log : Odd(log[i])}

\* How the program runs from the disk, in the directory of the project, unless
\* it is known to run otherwise when it is packed, or runs otherwise after what
\* it did the first time.
Promise(d, src, folder) ==
    LET root  == RootOf(d, src)
        r     == Runs(d, root, src)
        again == Runs(r.disk, root, src)
        Seen(x) == [saw |-> x.saw, ok |-> x.ok]
    IN  IF ~r.ok \/ Known(d, src, r.log, folder) # {} \/ Seen(again) # Seen(r) THEN <<>>
        ELSE <<Seen(r)>>

----------------------------------------------------------------------------
(* The command: where to, and what was there *)

\* The directory an earlier packing is removed from.
OldDist(d, src, out, folder) ==
    CASE out = <<>> -> DefaultDistDir(d, src)
      [] out # <<>> /\ folder -> out
      [] out # <<>> /\ ~folder /\ Last(out) = Dist -> out
      [] out # <<>> /\ ~folder /\ Last(out) # Dist /\ Last(Front(out)) = Dist -> Front(out)
      [] OTHER -> <<>>

\* An executable that is running cannot be removed, nor can what another program
\* holds; what lies beside them may be.
clearOldPackDist(src, out, folder, next) ==
    LET dist == OldDist(disk, src, out, folder)
        old  == IF dist = <<>> THEN {} ELSE Under(disk, dist) \ {running}
        held == running # <<>> /\ dist # <<>> /\ Below(dist, running)
    IN  /\ fresh' = fresh \ {dist}
        /\ \/ /\ ~held
              /\ disk' = Without(disk, old)
              /\ kept' = IF dist = <<>> THEN kept ELSE {p \in kept : ~Below(dist, p)}
              /\ cmd' = next
           \/ /\ held \/ old # {}
              /\ \E part \in Parts(old) :
                    /\ disk' = Without(disk, part \cap old)
                    /\ kept' = kept \cup (old \ part)
              /\ cmd' = Idle

\* A target that is a directory, or has no extension, gets the name of the program.
ExePath(src, out) ==
    LET name == ExeOf[DefaultAppName(disk, src)] IN
    IF out = <<>> THEN DefaultEXEPath(disk, src)
    ELSE IF IsFolder(disk, out) \/ Last(out) \notin Range(ExeOf) THEN Append(out, name)
    ELSE out

FolderPath(src, out) == IF out = <<>> THEN DefaultDistDir(disk, src) ELSE out

Give == cmd = Idle /\ given < MaxCommands /\ given' = given + 1

\* The user packs a source, or a directory that has a main file.
packApp(path, out, folder) ==
    LET src == ResolveEntry(disk, path) IN
    /\ Give
    /\ packings < MaxPackings /\ packings' = packings + 1
    /\ src # <<>> /\ IsYodSource(src[1])
    /\ clearOldPackDist(src[1], out, folder,
          [at |-> IF folder THEN "app" ELSE "engine", src |-> src[1],
           out |-> IF folder THEN FolderPath(src[1], out) ELSE out])
    /\ UNCHANGED <<running, mine, halves, verdict>>

GoesOn(step) == cmd' = [cmd EXCEPT !.at = step]
Ends         == cmd' = Idle

\* An error that leaves the target as it is.
LeaveTarget == Ends /\ UNCHANGED <<disk, halves>>

\* An error after the target was written: it is removed, unless that fails too, or
\* the process is killed; neither is reported.
Withdraw ==
    /\ Ends
    /\ \/ disk' = Without(disk, {cmd.out}) /\ halves' = halves \ {cmd.out}
       \/ UNCHANGED disk /\ halves' = halves \cup {cmd.out}

----------------------------------------------------------------------------
(* One executable *)

\* The modules, the assets of the project and the design directory beside it; a
\* key is taken once.
CollectBundle(d, src) ==
    LET root    == RootOf(d, src)
        sibling == SiblingDesign(root)
        assets  == [k \in {After(root, p) : p \in {q \in ProjectFiles(d, root) : isProjectAsset(After(root, q))}} |->
                      d[root \o k]]
        shared  == [k \in {<<Design>> \o After(sibling, p) : p \in SharedFiles(d, root)} |->
                      Packed(k, d[sibling \o Tail(k)])]
        modules == Collects(d, src)
    IN  [entry |-> modules.entry, panics |-> modules.panics,
         files |-> Over(modules.files, Over(assets, shared))]

\* The engine is written alone; a write that fails may leave a piece of it, which
\* this error alone does not remove.
WriteEngine ==
    LET to == ExePath(cmd.src, cmd.out) IN
    /\ cmd.at = "engine"
    /\ \/ /\ to # running
          /\ disk' = Put(disk, to, Engine)
          /\ fresh' = fresh \ {Front(to)}
          /\ \/ cmd' = [cmd EXCEPT !.at = "icon", !.out = to] /\ UNCHANGED halves
             \/ Ends /\ halves' = halves \cup {to}
       \/ Ends /\ UNCHANGED <<disk, halves, fresh>>
    /\ UNCHANGED <<running, mine, kept, verdict, given, packings>>

ApplyIcon ==
    /\ cmd.at = "icon"
    /\ \/ resolvePackIcon(disk, cmd.src).ok /\ GoesOn("bundle") /\ UNCHANGED <<disk, halves>>
       \/ Withdraw
    /\ UNCHANGED <<running, mine, kept, fresh, verdict, given, packings>>

\* The bundle goes behind the engine; a collection that panics ends the process.
WriteBundle ==
    LET b == CollectBundle(disk, cmd.src) IN
    /\ cmd.at = "bundle"
    /\ IF b.panics THEN Ends /\ halves' = halves \cup {cmd.out} /\ UNCHANGED disk
       ELSE \/ /\ GoesOn("beside")
               /\ disk' = Put(disk, cmd.out,
                     Exe(<<[k |-> "bundle", entry |-> b.entry, files |-> b.files]>>,
                         Promise(disk, cmd.src, FALSE)))
               /\ halves' = halves \ {cmd.out}
            \/ Withdraw
    /\ UNCHANGED <<running, mine, kept, fresh, verdict, given, packings>>

WriteBeside ==
    LET dir == Front(cmd.out) IN
    /\ cmd.at = "beside"
    /\ GoesOn("tidy")
    /\ disk' = copyProjectIcon(Put(disk, Append(dir, "manifest"), Asset("manifest")), cmd.src, dir)
    /\ UNCHANGED <<running, historyVars>>

\* Directories of data directly in a distribution.
RemoveRuntimeData(d, dir) ==
    Without(d, {p \in Under(d, dir) : Len(p) > Len(dir) + 1 /\ isRuntimeDataDir(Child(dir, p))})

\* Only executables, their manifests, icons and hidden files stay.
Stays(name) == name \in Range(ExeOf) \cup IconNames \cup YodIcons \cup HiddenNames \cup {"manifest"}
InDirs(d, dir) == {p \in Under(d, dir) : Len(p) > Len(dir) + 1}
Loose(d, dir)  == {p \in Under(d, dir) : Len(p) = Len(dir) + 1 /\ ~Stays(Last(p))}

\* A file that cannot be removed is passed over, a directory ends the command.
removePackagedSources(d, dir, stuck) == Without(d, InDirs(d, dir) \cup (Loose(d, dir) \ stuck))

PrepareBinaryDist(d, src, dir, stuck) ==
    LET root == FindProjectRoot(d, src)
        tidy == copyProjectIcon(removePackagedSources(RemoveRuntimeData(d, dir), dir, stuck), src, dir)
    IN  IF root \in {<<>>, Front(src)} THEN tidy ELSE copyProjectIcon(tidy, root, dir)

TidyDist ==
    LET dir   == Front(cmd.out)
        loose == Loose(disk, dir)
        all   == InDirs(disk, dir) \cup loose
    IN
    /\ cmd.at = "tidy"
    /\ Ends
    /\ \/ \E stuck \in Parts(loose) :
             /\ disk' = PrepareBinaryDist(disk, cmd.src, dir, stuck)
             /\ kept' = {p \in kept : ~Below(dir, p)} \cup (loose \cap stuck)
             /\ fresh' = fresh \cup {dir}
       \/ /\ InDirs(disk, dir) # {}
          /\ \E part \in Parts(all) \ {{}} :
                disk' = Without(disk, part \cap all) /\ kept' = kept \cup (all \ part)
          /\ UNCHANGED fresh
       \/ UNCHANGED <<disk, kept, fresh>>
    /\ UNCHANGED <<running, mine, halves, verdict, given, packings>>

----------------------------------------------------------------------------
(* A folder *)

\* The program, the engine, what starts them, and icons.
Started(d, src, dir) ==
    LET prog == Append(dir, Last(src))
        In(e, name, data) == Put(e, Append(dir, name), data)
    IN  In(In(In(In(d, Last(src), Packed(prog, d[src])), "yod.exe", Engine),
              "run.bat", Starter(prog, <<>>)), "manifest", Asset("manifest"))

App ==
    LET dir == cmd.out IN
    /\ cmd.at = "app"
    /\ \/ /\ IsFile(disk, cmd.src) /\ ~IsFile(disk, dir)
          /\ disk' = Put(copyProjectIcon(Started(disk, cmd.src, dir), cmd.src, dir),
                         Append(dir, "readme"), Asset("readme"))
          /\ GoesOn("sources")
       \/ Ends /\ UNCHANGED disk
    /\ UNCHANGED <<running, historyVars>>

\* The sources and assets of the project, and the design directory beside it as
\* it is, over what is there.
PrepareCleanProjectDist(d, src, dir) ==
    LET root    == RootOf(d, src)
        sibling == SiblingDesign(root)
        inside  == Append(dir, Design)
        files   == [p \in {dir \o After(root, q) : q \in ProjectFiles(d, root)} |->
                      Packed(p, d[root \o After(dir, p)])]
        copied  == Over(files, RemoveRuntimeData(d, dir))
        design  == [p \in {inside \o After(sibling, q) : q \in SharedFiles(d, root)} |->
                      d[sibling \o After(inside, p)]]
        renewed == IF IsFolder(d, sibling) THEN Over(design, Without(copied, Under(copied, inside))) ELSE copied
    IN  RemoveRuntimeData(renewed, dir)

CopySources ==
    /\ cmd.at = "sources"
    /\ Ends
    /\ \/ /\ disk' = Put(PrepareCleanProjectDist(disk, cmd.src, cmd.out), Append(cmd.out, "run.bat"),
                        Starter(Append(cmd.out, Last(cmd.src)), Promise(disk, cmd.src, TRUE)))
          /\ fresh' = fresh \cup {cmd.out}
       \/ UNCHANGED <<disk, fresh>>
    /\ UNCHANGED <<running, mine, halves, kept, verdict, given, packings>>

----------------------------------------------------------------------------
(* The user *)

\* What a program does to the user's files is the user's doing.
Ran(r, as) ==
    /\ disk' = r.disk
    /\ mine' = [p \in DOMAIN mine \cap DOMAIN r.disk |-> r.disk[p]]
    /\ verdict' = <<as, <<[saw |-> r.saw, ok |-> r.ok]>>>>

\* Where a removal ended halfway nothing is expected of a folder, nor of an executable
\* that finds a part of a directory beside itself.
Expected(p) ==
    IF \E q \in kept : Below(Front(p), q) /\ (disk[p].k = "starter" \/ Front(q) # Front(p))
    THEN <<>> ELSE disk[p].as

\* main: a program behind the engine is run, in the directory of the executable.
RunExe(exe) ==
    /\ Give
    /\ disk[exe].k = "exe" /\ LoadEmbedded(disk, exe) # <<>>
    /\ Ran(RunsPacked(disk, exe), Expected(exe))
    /\ running' \in {<<>>, exe}
    /\ fresh' = fresh \ {Front(exe)}
    /\ UNCHANGED <<cmd, halves, kept, packings>>

\* run.bat
RunFolder(bat) ==
    /\ Give
    /\ disk[bat].k = "starter" /\ IsFile(disk, disk[bat].prog)
    /\ Ran(Runs(disk, Front(bat), disk[bat].prog), Expected(bat))
    /\ fresh' = fresh \ {Front(bat)}
    /\ UNCHANGED <<running, cmd, halves, kept, packings>>

Close ==
    /\ running # <<>>
    /\ running' = <<>>
    /\ UNCHANGED <<disk, cmd, historyVars>>

\* An executable is taken away from what lies beside it.
Carry(exe) ==
    /\ Give
    /\ IsPacked(disk[exe]) /\ Front(exe) # Elsewhere
    /\ disk' = Put(disk, Append(Elsewhere, Last(exe)), disk[exe])
    /\ UNCHANGED <<running, cmd, mine, halves, kept, fresh, verdict, packings>>

Edit(path, text) ==
    /\ Give
    /\ Has(mine, path) /\ disk[path].k = "source" /\ disk[path] # text
    /\ disk' = Put(disk, path, text)
    /\ mine' = Put(mine, path, text)
    /\ UNCHANGED <<running, cmd, halves, kept, fresh, verdict, packings>>

\* A source or a directory becomes a package of the directory cwd, in place of
\* one of its name, which is gone before anything is read; removing and copying
\* may each fail after a part.
pkgAdd(cwd, from) ==
    LET name  == IF IsFile(disk, from) /\ IsYodSource(from) THEN Stem[Last(from)] ELSE Last(from)
        dest  == Join(cwd, <<Packages, name>>)
        old   == AllOf(disk, dest)
        left  == Without(disk, old)
        base  == IF IsFile(disk, from) THEN Front(from) ELSE from
        files == IF IsFile(disk, from) THEN {from} \cap DOMAIN left ELSE Under(left, from)
        Added(part) == [p \in {dest \o After(base, q) : q \in part} |-> disk[base \o After(dest, p)]]
        Becomes(gone, new) == disk' = Over(new, Without(disk, gone)) /\ mine' = Over(new, Without(mine, gone))
    IN  /\ Give
        /\ AllOf(disk, from) # {}
        /\ \/ \E part \in Parts(old) : Becomes(part \cap old, <<>>)
           \/ \E part \in {files} \cup Parts(files) : Becomes(old, Added(part \cap files))
        /\ UNCHANGED <<running, cmd, halves, kept, fresh, verdict, packings>>

----------------------------------------------------------------------------

Packing == WriteEngine \/ ApplyIcon \/ WriteBundle \/ WriteBeside \/ TidyDist \/ App \/ CopySources

Next ==
    \/ \E o \in Orders, folder \in BOOLEAN : packApp(o[1], o[2], folder)
    \/ Packing
    \/ \E p \in DOMAIN disk : RunExe(p) \/ RunFolder(p) \/ Carry(p)
    \/ Close
    \/ \E p \in DOMAIN mine : \E text \in Texts : Edit(p, text)
    \/ \E from \in Parcels : pkgAdd(from[1], from[2])

Spec == Init /\ [][Next]_vars

----------------------------------------------------------------------------
(* What a distribution may hold *)

\* No directory on the way to the file is one of data.
NoData(path) == \A n \in 1 .. Len(path) - 1 : ~isRuntimeDataDir(path[n])

\* A bundle, if it is one, holds of such directories only sources.
BundleClean(data) ==
    data.behind[1].k = "bundle" =>
        \A key \in DOMAIN data.behind[1].files : IsYodSource(key) \/ NoData(key)

\* Sources beside an executable lie in no directory, and are hidden ones or could
\* not be removed.
IsClean(d, left, dir) ==
    \A p \in Under(d, dir) :
        /\ NoData(After(dir, p))
        /\ IsPacked(d[p]) =>
              /\ BundleClean(d[p])
              /\ \A q \in Under(d, dir) :
                    IsYodSource(q) => Front(q) = dir /\ (Last(q) \in HiddenNames \/ q \in left)

----------------------------------------------------------------------------
(* Places *)

\* The directories a packing may write into and clear: a distribution in a
\* directory above the program, the target, and the directory of a target that
\* is an executable or lies in a distribution.
Places(o) ==
    LET dists(src) == {Append(SubSeq(src, 1, n), Dist) : n \in 0 .. Len(src)}
        beside     == Last(o[2]) \in Range(ExeOf) \/ Last(Front(o[2])) = Dist
    IN  IF o[2] = <<>> THEN dists(o[1]) \cup dists(Append(o[1], Main))
        ELSE {o[2]} \cup {dir \in {Front(o[2])} : beside}

OrderPlaces == UNION {Places(o) : o \in Orders}
AllPlaces   == {Elsewhere} \cup OrderPlaces

\* The user keeps nothing of his own there, and adds no package there.
PlacesApart ==
    /\ \A d \in Worlds : \A p \in DOMAIN d : d[p].k # "exe" => \A dir \in AllPlaces : ~Below(dir, p)
    /\ \A from \in Parcels : \A dest \in PackageDirs(from) : \A dir \in AllPlaces :
          ~IsPrefix(dir, dest) /\ ~IsPrefix(dest, dir)

\* An engine that is alone is Yod's own, and what a packing writes is taken
\* neither for a package nor for a design directory.
EnginesApart ==
    /\ \A d \in Worlds : \A p \in DOMAIN d : IsEngine(d[p]) => Last(p) = "yod.exe"
    /\ \A dir \in AllPlaces : Design \notin ToSet(dir)
    /\ \A from \in Parcels, dir \in AllPlaces : ~IsPrefix(from[2], dir) /\ ~IsPrefix(dir, from[2])

\* The executables the user begins with were packed, and are where packings put
\* them.
ExesSound(d) ==
    \A p \in DOMAIN d : IsPacked(d[p]) =>
        Front(p) \in AllPlaces /\ Last(p) \in Range(ExeOf) /\ BundleClean(d[p])
OldExesSound == \A d \in Worlds : ExesSound(d)

\* No place is in another, and nobody carries an executable into one.
PlacesNotNested ==
    /\ \A a, b \in OrderPlaces : ~Below(a, b)
    /\ \A dir \in OrderPlaces : ~IsPrefix(dir, Elsewhere)

----------------------------------------------------------------------------
(* Properties *)

\* Packing takes nothing of the user's own: at every step of it, every file the
\* user wrote is where it was and holds what it held.
SourcesKept == \A p \in DOMAIN mine : Has(disk, p) /\ disk[p] = mine[p]

\* A packed program does what the program does where it was written: it finds
\* every file it includes, reads or lists, and finds the same in it, beside its
\* sources or carried elsewhere, whatever the user has changed since.
RunsAlike == verdict[1] # <<>> => verdict[1] = verdict[2]

\* A packing that is over, well or with an error at any of its steps, left no
\* executable without a program behind it, except where the writing of the engine
\* itself failed, where the removal after a later error failed, and where the
\* process ended in between; one that ends well leaves none there either.
WholeExe ==
    cmd = Idle => \A p \in DOMAIN disk :
        IsEngine(disk[p]) => p \in halves \/ Last(p) = "yod.exe"

\* What was packed carries nothing of the programs' data: no directory of data is
\* beside it or behind it, and the only sources beside an executable are hidden
\* files of an earlier packing and files that could not be removed.
CleanDist == \A dir \in fresh : IsClean(disk, kept, dir)
=============================================================================
