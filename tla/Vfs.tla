-------------------------------- MODULE Vfs --------------------------------
(***************************************************************************)
(* The virtual file system of a packed program (internal/vfs) and the file *)
(* calls of a program that look into it (internal/stdlib/files.go); Files  *)
(* has the calls that see only the disk.                                   *)
(*                                                                         *)
(* A path is a sequence of names, an absolute one begins with the drive; a *)
(* key of the virtual file system is a path without "..".  A disk is a     *)
(* function from absolute paths to what the files hold; a directory is     *)
(* there as long as a file is below it.  What may be missing is a sequence *)
(* of at most one element.                                                 *)
(***************************************************************************)
EXTENDS Naturals, SequencesExt

Drive == "C:"
Up    == ".."

Has(f, x) == x \in DOMAIN f
IsAbs(path) == path # <<>> /\ Head(path) = Drive
After(dir, path) == SubSeq(path, Len(dir) + 1, Len(path))
Below(dir, path) == IsStrictPrefix(dir, path)

\* A name that goes up takes the one before it away, if there is one.
Normalize(path) ==
    LET Step(stack, name) ==
          IF name # Up THEN Append(stack, name)
          ELSE IF stack \in {<<>>, <<Drive>>} THEN stack ELSE Front(stack)
    IN  FoldLeft(Step, <<>>, path)

Join(dir, path) == Normalize(dir \o path)

\* The absolute path, for a program that runs in the directory cwd.
Abs(cwd, path) == IF IsAbs(path) THEN Normalize(path) ELSE Join(cwd, path)

----------------------------------------------------------------------------

New(root) == [root |-> root, files |-> <<>>, dirs |-> {<<>>}]

\* The directories above a key are there too.
Add(fs, rel, data) ==
    LET key == Normalize(rel) IN
    IF key = <<>> THEN fs
    ELSE [fs EXCEPT !.files = (key :> data) @@ @,
                    !.dirs = @ \cup {SubSeq(key, 1, n) : n \in 0 .. Len(key) - 1}]

\* A path under the root has a key, one outside has none.
keyFor(fs, cwd, path) ==
    LET abs == Abs(cwd, path) IN
    IF IsPrefix(fs.root, abs) THEN <<After(fs.root, abs)>> ELSE <<>>

Get(fs, key) == IF Has(fs.files, Normalize(key)) THEN <<fs.files[Normalize(key)]>> ELSE <<>>

Read(fs, cwd, path) ==
    LET key == keyFor(fs, cwd, path) IN
    IF key # <<>> /\ Get(fs, key[1]) # <<>> THEN Get(fs, key[1]) ELSE Get(fs, path)

IsDir(fs, cwd, path) ==
    LET key == keyFor(fs, cwd, path) IN
    key # <<>> /\ (key[1] \in fs.dirs \/ \E f \in DOMAIN fs.files : Below(key[1], f))

Exists(fs, cwd, path) ==
    LET key == keyFor(fs, cwd, path) IN
    key # <<>> /\ (Has(fs.files, key[1]) \/ key[1] \in fs.dirs)

Child(dir, path) == path[Len(dir) + 1]

\* The names of what is directly in a directory.
List(fs, cwd, path) ==
    LET key == keyFor(fs, cwd, path) IN
    IF ~IsDir(fs, cwd, path) THEN <<>>
    ELSE <<{Child(key[1], x) : x \in {y \in DOMAIN fs.files \cup fs.dirs : Below(key[1], y)}}>>

----------------------------------------------------------------------------
(* The mounted file system, if there is one, before the disk *)

Mount(fs) == <<fs>>
Unmounted == <<>>

IsFile(disk, path)   == Has(disk, path)
IsFolder(disk, path) == \E f \in DOMAIN disk : Below(path, f)

ReadPrefer(active, disk, cwd, path) ==
    IF active # <<>> /\ Read(active[1], cwd, path) # <<>> THEN Read(active[1], cwd, path)
    ELSE IF IsFile(disk, Abs(cwd, path)) THEN <<disk[Abs(cwd, path)]>>
    ELSE <<>>

ExistsPrefer(active, disk, cwd, path) ==
    \/ active # <<>> /\ Exists(active[1], cwd, path)
    \/ IsFile(disk, Abs(cwd, path)) \/ IsFolder(disk, Abs(cwd, path))

IsDirPrefer(active, disk, cwd, path) ==
    (active # <<>> /\ IsDir(active[1], cwd, path)) \/ IsFolder(disk, Abs(cwd, path))

\* קבצים.קרא
filesRead(active, disk, cwd, path) == ReadPrefer(active, disk, cwd, path)

\* קבצים.קיים and קבצים.האם_תיקייה
filesExists(active, disk, cwd, path) == ExistsPrefer(active, disk, cwd, path)
filesIsDir(active, disk, cwd, path)  == IsDirPrefer(active, disk, cwd, path)

\* קבצים.רשימה: a directory of the virtual file system hides the one on the disk.
filesList(active, disk, cwd, path) ==
    LET dir == Abs(cwd, path) IN
    IF active # <<>> /\ List(active[1], cwd, path) # <<>> THEN List(active[1], cwd, path)
    ELSE IF IsFolder(disk, dir) THEN <<{Child(dir, f) : f \in {g \in DOMAIN disk : Below(dir, g)}}>>
    ELSE <<>>
=============================================================================
