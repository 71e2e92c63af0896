------------------------------- MODULE Files -------------------------------
(***************************************************************************)
(* The calls of a program that write, copy, move and remove files          *)
(* (internal/stdlib/files.go), and copies made in steps                    *)
(* (files_copy_progress.go).  They see only the disk, whatever is mounted. *)
(*                                                                         *)
(* A call gives whether it succeeded and the disk it leaves, for one that  *)
(* fails may have done a part.  A directory that holds nothing is not      *)
(* there.  A file has an id for what it holds and, for a copy in steps,    *)
(* two blocks unless it is empty.  held: the files open in a copy, which   *)
(* cannot be removed or renamed until it is over.                          *)
(***************************************************************************)
EXTENDS Vfs

Asset(id) == [k |-> "asset", id |-> id]
Saved     == Asset("saved")
EmptyFile == Asset("empty")

Put(d, path, data) == [p \in DOMAIN d \cup {path} |-> IF p = path THEN data ELSE d[p]]
\* Files written over what is there.
Over(files, d)     == [p \in DOMAIN files \cup DOMAIN d |-> IF Has(files, p) THEN files[p] ELSE d[p]]
Without(d, gone)   == [p \in DOMAIN d \ gone |-> d[p]]
\* A file, or the files of a directory.
AllOf(d, path)     == {p \in DOMAIN d : IsPrefix(path, p)}

Did(d)   == [ok |-> TRUE, disk |-> d]
Fails(d) == [ok |-> FALSE, disk |-> d]

\* os.MkdirAll, os.Create
CanMakeDir(d, dir) == \A n \in 1 .. Len(dir) : ~IsFile(d, SubSeq(dir, 1, n))
CanCreate(d, path) == IsFolder(d, Front(path)) /\ ~IsFolder(d, path)

----------------------------------------------------------------------------

filesWrite(d, path) == IF CanCreate(d, path) THEN Did(Put(d, path, Saved)) ELSE Fails(d)

filesAppend(d, path) ==
    CASE ~CanCreate(d, path) -> Fails(d)
      [] IsFile(d, path)     -> Did(Put(d, path, Asset(d[path].id \o " saved")))
      [] OTHER               -> Did(Put(d, path, Saved))

filesDelete(d, held, path) ==
    IF IsFile(d, path) /\ path \notin held THEN Did(Without(d, {path})) ELSE Fails(d)

\* Nothing there is no failure.
filesDeleteRecursive(d, held, path) ==
    [ok |-> AllOf(d, path) \cap held = {}, disk |-> Without(d, AllOf(d, path) \ held)]

\* The size of what a file holds, or <<>> for what is not there.
filesSize(d, path) ==
    IF IsFile(d, path) THEN <<d[path].id>> ELSE IF IsFolder(d, path) THEN <<"directory">> ELSE <<>>

\* A target is made, empty, before anything is read.
Copied(d, from, to) == Put(d, to, IF IsFolder(d, from) \/ from = to THEN EmptyFile ELSE d[from])

filesCopy(d, from, to) ==
    IF \/ ~CanMakeDir(d, Front(to)) \/ IsFolder(d, to)
       \/ ~IsFile(d, from) /\ ~IsFolder(d, from)
    THEN Fails(d)
    ELSE [ok |-> IsFile(d, from), disk |-> Copied(d, from, to)]

\* os.Rename: a file takes the place of another, a directory of none.
CanRename(d, held, from, to) ==
    /\ AllOf(d, from) # {} /\ (AllOf(d, from) \cup {to}) \cap held = {}
    /\ IsFolder(d, Front(to))
    /\ \/ IsFile(d, from) /\ ~IsFolder(d, to)
       \/ IsFolder(d, from) /\ AllOf(d, to) = {} /\ ~IsPrefix(from, to)
Renamed(d, from, to) ==
    LET rest == DOMAIN d \ AllOf(d, from)
        new  == {to \o After(from, p) : p \in AllOf(d, from)}
    IN  [p \in rest \cup new |-> IF p \in new THEN d[from \o After(to, p)] ELSE d[p]]

filesRename(d, held, from, to) ==
    IF CanRename(d, held, from, to) THEN Did(Renamed(d, from, to)) ELSE Fails(d)

\* What cannot be renamed is copied and removed; a directory is not, and a copy
\* whose source cannot be removed stays.
filesMove(d, held, from, to) ==
    CASE CanRename(d, held, from, to) -> Did(Renamed(d, from, to))
      [] ~CanRename(d, held, from, to) /\ (AllOf(d, from) = {} \/ ~CanCreate(d, to)) -> Fails(d)
      [] OTHER -> IF IsFile(d, from) THEN filesDelete(Copied(d, from, to), held, from)
                  ELSE Fails(Copied(d, from, to))

----------------------------------------------------------------------------
(* Copies in steps: a copy is known by its place, and is over or open.      *)
(* first: what the file held when its first block was read, if only that.   *)

NoCopies == <<>>

Blocks(d, path) == IF IsFolder(d, path) \/ d[path] = EmptyFile THEN 0 ELSE 2

Held(copies) == UNION {{c.from, c.to} : c \in {b \in ToSet(copies) : b.open}}

CanStart(d, from, to) ==
    /\ CanMakeDir(d, Front(to)) /\ ~IsFolder(d, to)
    /\ IsFile(d, from) \/ IsFolder(d, from)

\* The disk and the copies once one is begun.
filesStartCopy(d, copies, from, to) ==
    [disk |-> Put(d, to, EmptyFile),
     copies |-> Append(copies, [from |-> from, to |-> to, total |-> Blocks(d, from),
                                written |-> 0, first |-> <<>>, open |-> TRUE, err |-> FALSE])]

closeCopySession(c) == [c EXCEPT !.open = FALSE]

copyStatusHash(c) == [written |-> c.written, total |-> c.total, done |-> ~c.open, err |-> c.err]

\* What a target holds after one block of data, and after the second.
HalfOf(data) == Asset("half of " \o data.id)
Whole(first, data) == IF first \in {<<>>, <<data>>} THEN data ELSE Asset("mixed")

\* One block, or all there are; the end is seen only when there is none left.
\* A directory can be opened and not read.
filesStepCopy(d, copies, id, all) ==
    LET c    == copies[id]
        left == Blocks(d, c.from) - c.written
        data == d[c.from]
        Now(disk, new) == [disk |-> disk, copies |-> [copies EXCEPT ![id] = new]]
    IN
    CASE IsFolder(d, c.from) -> Now(d, closeCopySession([c EXCEPT !.err = TRUE]))
      [] ~IsFolder(d, c.from) /\ left <= 0 -> Now(d, closeCopySession(c))
      [] OTHER ->
            IF all \/ left = 1
            THEN Now(Put(d, c.to, Whole(c.first, data)), [c EXCEPT !.written = 2])
            ELSE Now(Put(d, c.to, HalfOf(data)), [c EXCEPT !.written = 1, !.first = <<data>>])

IsCopying(copies, id) == id \in DOMAIN copies /\ copies[id].open

\* Nothing to cancel is no failure.
filesCancelCopy(copies, id) ==
    IF IsCopying(copies, id) THEN [copies EXCEPT ![id] = closeCopySession(@)] ELSE copies
=============================================================================
