----------------------------- MODULE Transfers -----------------------------
(***************************************************************************)
(* The connections to file servers that the connects of Sessions hand out, *)
(* and what a program does with them: net_ftp.go, net_sftp.go,             *)
(* net_ftp_upload_async.go and net_sftp_upload_async.go of                 *)
(* internal/stdlib.                                                        *)
(*                                                                         *)
(* A connection remembers the directories it made, to spare the server a   *)
(* second request.  An FTP connection has a mutex, because its commands    *)
(* must follow each other.  An SFTP connection has none: others come       *)
(* between a call's request to the server and what it then remembers or    *)
(* forgets of it.  An upload in the background is a session with atomic    *)
(* fields: its goroutine counts what it sent and stores an error and then  *)
(* that it is done, while pollers read those fields one after the other.   *)
(*                                                                         *)
(* The file server is external: its directories, and the files that have   *)
(* arrived there, whole or not.  It may refuse a request or break off a    *)
(* transfer.                                                               *)
(***************************************************************************)
EXTENDS Sessions, SequencesExt

CONSTANTS Links,       \* the SFTP connections
          Uploads,
          Names,
          Directories, \* paths: sequences of names, closed under prefixes
          Target,      \* Target[u]: the path an upload writes to
          Size,        \* how many pieces a local file has
          MaxCalls,    \* bound: calls that change the server
          Clerks,      \* bound: the pollers that use connections
          Nobody

Connections == Dials \cup Links

ASSUME TransfersAssumption ==
    /\ Links \cap Sessions = {} /\ Uploads \cap Sessions = {}
    /\ Nobody \notin Uploads \cup Pollers /\ Uploads \cap Pollers = {}
    /\ Directories \subseteq Seq(Names) \ {<<>>}
    /\ \A d \in Directories : \A k \in 1 .. Len(d) : SubSeq(d, 1, k) \in Directories
    /\ \A u \in Uploads : Target[u] \in Seq(Names) \ {<<>>}
    /\ Clerks \subseteq Pollers
    /\ Size \in Nat \ {0} /\ MaxCalls \in Nat
    /\ \A u, v \in Uploads : Target[u] = Target[v] => u = v

VARIABLES there,   \* the directories of the server
          files,   \* the uploads whose file is on the server, whole or not
          known,   \* the directories a connection remembers
          sftp,    \* the SFTP connections: none, open or closed
          mutex,   \* who has the mutex of an FTP connection
          quit,    \* the QUIT of an FTP connection
          errand,  \* what SFTP calls and uploads owe after a request to the server
          up,      \* the uploads
          listed,  \* the uploads in the tables
          look     \* the status call each poller is in, with what it has read

VARIABLES told,    \* history: how a status call said an upload ended
          landed,  \* history: uploads whose file the server has taken whole
          gone,    \* history: directories taken away that no call then forgets
          calls    \* bound: how many calls have changed the server

serverVars   == <<there, files>>
wireVars     == <<known, sftp, mutex, quit, errand>>
uploadVars   == <<up, listed, look>>
accountVars  == <<told, landed, gone, calls>>
transferVars == <<serverVars, wireVars, uploadVars, accountVars>>
netVars      == <<vars, transferVars>>

NoLook == [at |-> "idle", up |-> Nobody, done |-> FALSE]
NoErrand == [at |-> "none", conn |-> NoSession, dir |-> <<>>, up |-> Nobody]

NetInit ==
    /\ Init
    /\ there = {}
    /\ files = {}
    /\ known = [c \in Connections |-> {}]
    /\ sftp  = [c \in Links |-> "none"]
    /\ mutex = [c \in Dials |-> Nobody]
    /\ quit  = [c \in Dials |-> "no"]
    /\ errand = [a \in Pollers \cup Uploads |-> NoErrand]
    /\ up = [u \in Uploads |-> [at |-> "off", conn |-> NoSession, written |-> 0, sent |-> 0,
                                again |-> FALSE, cancel |-> FALSE, err |-> "", done |-> FALSE]]
    /\ listed = {}
    /\ look = [p \in Pollers |-> NoLook]
    /\ told = [u \in Uploads |-> "nothing"]
    /\ landed = {} /\ calls = 0
    /\ gone = [c \in Connections |-> {}]

Outside(p) == look[p].at = "idle" /\ errand[p].at = "none"
Free(p)    == poll[p].at = "idle" /\ Outside(p)

\* The program has been given the connection.
Given(c) == IF c \in Dials THEN delivered[c] > 0 ELSE sftp[c] # "none"

\* The server answers on it.
Open(c) == IF c \in Dials THEN link[c] = "open" ELSE sftp[c] = "open"

----------------------------------------------------------------------------
(* Directories *)

Above(path) == Front(path)
Under(d, path) == IsPrefix(d, path)

\* The directories from the root down to d.
Down(d) == [k \in 1 .. Len(d) |-> SubSeq(d, 1, k)]

\* What a connection knows and the server has, after ok or not.
Knows(k, t, ok) == [known |-> k, there |-> t, ok |-> ok]
AsItIs(c) == Knows(known[c], there, TRUE)

\* One MakeDir per name, none for a directory the connection remembers; "exists
\* already" counts as made.  refused: the depth at which the server says no.  The
\* first MakeDir that fails ends the call; what was made before stays made.
MadeFtp(c, d, refused) ==
    LET asked == ToSet(Down(d)) \ known[c]
        fails == {p \in asked : \/ Len(p) >= refused
                                \/ Len(p) > 1 /\ Above(p) \in known[c] \ there}
        made  == {p \in asked : \A f \in fails : ~Under(f, p)}
    IN  Knows(known[c] \cup made, there \cup made, fails = {})

\* MkdirAll, which looks at the server.
MkdirAll(d, refused) == there' = there \cup {p \in ToSet(Down(d)) : Len(p) < refused}

\* Nothing to make, or nothing that the connection does not remember.
Ensured(c, d) == d = <<>> \/ d \in known[c]

EnsureFtp(c, d, refused) ==
    IF Ensured(c, d) THEN AsItIs(c) ELSE MadeFtp(c, d, refused)

\* A closed connection answers nothing.
Refusals(c, d) == IF Open(c) THEN 1 .. Len(d) + 1 ELSE {1}

Learn(c, r) ==
    /\ known' = [known EXCEPT ![c] = r.known]
    /\ there' = r.there

(* SFTP: between the server and the memory *)

Owes(a, e) == errand' = [errand EXCEPT ![a] = e]
Errand(at, c, d, u) == [at |-> at, conn |-> c, dir |-> d, up |-> u]

\* sftpDirMarkCached; only d itself is remembered.
MarkCached(a) == known' = [known EXCEPT ![errand[a].conn] = @ \cup {errand[a].dir}]

\* Made on the server, and about to be remembered by c.
Marking(c) ==
    {errand[a].dir :
        a \in {b \in Pollers \cup Uploads : errand[b].at = "mark" /\ errand[b].conn = c}}

\* Removed on the server by c, and about to be forgotten.
Clearing(c) ==
    {d \in known[c] : \E p \in Pollers :
        errand[p].at = "clear" /\ errand[p].conn = c /\ Under(errand[p].dir, d)}

----------------------------------------------------------------------------
(* An upload in the background: its goroutine *)

Enlist(p, u, c, at) ==
    /\ Free(p) /\ Given(c) /\ up[u].at = "off"
    /\ up' = [up EXCEPT ![u].at = at, ![u].conn = c]
    /\ listed' = listed \cup {u}
    /\ UNCHANGED <<vars, serverVars, wireVars, look, accountVars>>

StartFtpUpload(p, u, c)  == c \in Dials /\ Enlist(p, u, c, "queue")
StartSftpUpload(p, u, c) == c \in Links /\ Enlist(p, u, c, "dirs")

\* The goroutine without the mutex.
WireShared(c) == TRUE

\* mu.Lock() of the connection.
WireFree(c) == mutex[c] = Nobody

TakeWire(u) ==
    /\ up[u].at = "queue" /\ WireFree(up[u].conn)
    /\ mutex' = [mutex EXCEPT ![up[u].conn] = u]
    /\ up' = [up EXCEPT ![u].at = "dirs"]
    /\ UNCHANGED <<vars, serverVars, known, sftp, quit, errand, listed, look, accountVars>>

\* The error is stored, and the deferred calls follow; the goroutine's own
\* variables are dead.
Ends(u, err) ==
    up' = [up EXCEPT ![u].at = "leaving", ![u].err = err, ![u].sent = 0, ![u].again = FALSE]

MakeDirsFtp(u) ==
    LET c == up[u].conn  d == Above(Target[u]) IN
    /\ c \in Dials /\ up[u].at = "dirs"
    /\ \E refused \in Refusals(c, d) :
          LET r == EnsureFtp(c, d, refused) IN
          /\ Learn(c, r)
          /\ IF r.ok THEN up' = [up EXCEPT ![u].at = "open"] ELSE Ends(u, "failed")
    /\ UNCHANGED <<vars, files, sftp, mutex, quit, errand, listed, look, accountVars>>

MakeDirsSftp(u) ==
    LET c == up[u].conn  d == Above(Target[u]) IN
    /\ c \in Links /\ up[u].at = "dirs" /\ errand[u].at = "none"
    /\ IF Ensured(c, d) THEN up' = [up EXCEPT ![u].at = "open"] /\ UNCHANGED <<there, errand>>
       ELSE \E refused \in Refusals(c, d) :
               /\ MkdirAll(d, refused)
               /\ IF Len(d) < refused THEN Owes(u, Errand("mark", c, d, Nobody)) /\ UNCHANGED up
                                      ELSE Ends(u, "failed") /\ UNCHANGED errand
    /\ UNCHANGED <<vars, files, known, sftp, mutex, quit, listed, look, accountVars>>

MarkDirs(u) ==
    /\ errand[u].at = "mark"
    /\ MarkCached(u) /\ Owes(u, NoErrand)
    /\ up' = [up EXCEPT ![u].at = "open"]
    /\ UNCHANGED <<vars, serverVars, sftp, mutex, quit, listed, look, accountVars>>

\* The local file cannot be opened.
CannotOpen(u) ==
    /\ up[u].at = "open" /\ ~up[u].again
    /\ Ends(u, "failed")
    /\ UNCHANGED <<vars, serverVars, wireVars, listed, look, accountVars>>

\* Stor came back with an error: the first time the file is sent again.
StorFailed(u) ==
    /\ up[u].conn \in Dials
    /\ IF ~up[u].cancel /\ ~up[u].again
       THEN up' = [up EXCEPT ![u].at = "delete"]
       ELSE Ends(u, IF up[u].cancel THEN "cancelled" ELSE "failed")

CopyFailed(u) ==
    /\ up[u].conn \in Links
    /\ Ends(u, IF up[u].cancel THEN "cancelled" ELSE "failed")

\* STOR, or Create: the file begins anew.
BeginStore(u) ==
    LET c == up[u].conn IN
    /\ up[u].at = "open"
    /\ Open(c) /\ (Above(Target[u]) = <<>> \/ Above(Target[u]) \in there)
    /\ files' = files \cup {u}
    /\ up' = [up EXCEPT ![u].at = "send"]
    /\ UNCHANGED <<vars, there, wireVars, listed, look, accountVars>>

RefuseStore(u) ==
    /\ up[u].at = "open"
    /\ StorFailed(u) \/ (up[u].conn \in Links /\ Ends(u, "failed"))
    /\ UNCHANGED <<vars, serverVars, wireVars, listed, look, accountVars>>

\* countingReader.Read
Send(u) ==
    /\ up[u].at = "send" /\ Open(up[u].conn)
    /\ ~up[u].cancel /\ up[u].sent < Size
    /\ up' = [up EXCEPT ![u].sent = @ + 1, ![u].written = @ + 1]
    /\ UNCHANGED <<vars, serverVars, wireVars, listed, look, accountVars>>

\* A cancel makes the reader fail; the server may break off at any time.
BreakOff(u) ==
    /\ up[u].at = "send"
    /\ StorFailed(u) \/ CopyFailed(u)
    /\ UNCHANGED <<vars, serverVars, wireVars, listed, look, accountVars>>

Stored(u) ==
    /\ up[u].at = "send" /\ Open(up[u].conn)
    /\ ~up[u].cancel /\ up[u].sent = Size
    /\ landed' = landed \cup {u}
    /\ Ends(u, "")
    /\ UNCHANGED <<vars, serverVars, wireVars, listed, look, told, gone, calls>>

\* A second try that goes on counting where the first one stopped.
GoOnCounting(n) == n
CountAnew(n) == 0

\* What the first try left is deleted, and the file is sent once more.
TryAgain(u) ==
    /\ up[u].at = "delete"
    /\ \/ Open(up[u].conn) /\ files' = files \ {u}
       \/ UNCHANGED files
    /\ \/ up' = [up EXCEPT ![u].at = "open", ![u].again = TRUE, ![u].sent = 0,
                           ![u].written = CountAnew(@)]
       \/ Ends(u, "failed")
    /\ UNCHANGED <<vars, there, wireVars, listed, look, accountVars>>

\* The deferred calls, last first: mu.Unlock(), then done.
LeaveWire(u) ==
    LET c == up[u].conn IN
    /\ up[u].at = "leaving" /\ c \in Dials
    /\ up' = [up EXCEPT ![u].at = "left"]
    /\ mutex' = [mutex EXCEPT ![c] = Nobody]
    /\ UNCHANGED <<vars, serverVars, known, sftp, quit, errand, listed, look, accountVars>>

MarkDone(u) ==
    /\ up[u].at = IF up[u].conn \in Dials THEN "left" ELSE "leaving"
    /\ up' = [up EXCEPT ![u].at = "over", ![u].done = TRUE]
    /\ UNCHANGED <<vars, serverVars, wireVars, listed, look, accountVars>>

----------------------------------------------------------------------------
(* An upload in the background: status and cancel *)

\* The count is read too; nothing is decided by it.
AskUpload(p, u) ==
    /\ Free(p) /\ u \in listed
    /\ look' = [look EXCEPT ![p] = [NoLook EXCEPT !.at = "done", !.up = u]]
    /\ UNCHANGED <<vars, serverVars, wireVars, up, listed, accountVars>>

ReadDone(p) ==
    /\ look[p].at = "done"
    /\ look' = [look EXCEPT ![p].at = "err", ![p].done = up[look[p].up].done]
    /\ UNCHANGED <<vars, serverVars, wireVars, up, listed, accountVars>>

\* done as it was read before err, and as it is now.
SawDone(p)  == look[p].done
DoneNow(p)  == up[look[p].up].done

\* s.err, the share in percent, and the table.
Answer(p, u) ==
    /\ look[p].at = "err"
    /\ told' = [told EXCEPT ![u] = IF ~SawDone(p) THEN @
                                   ELSE IF up[u].err = "" THEN "stored" ELSE up[u].err]
    /\ listed' = IF SawDone(p) THEN listed \ {u} ELSE listed
    /\ look' = [look EXCEPT ![p] = NoLook]
    /\ UNCHANGED <<vars, serverVars, wireVars, up, landed, gone, calls>>

FtpUploadStatus(p)  == \E u \in Uploads : look[p].up = u /\ up[u].conn \in Dials /\ Answer(p, u)
SftpUploadStatus(p) == \E u \in Uploads : look[p].up = u /\ up[u].conn \in Links /\ Answer(p, u)

Cancel(p, u) ==
    /\ Free(p) /\ u \in listed /\ ~up[u].cancel
    /\ up' = [up EXCEPT ![u].cancel = TRUE]
    /\ UNCHANGED <<vars, serverVars, wireVars, listed, look, accountVars>>
FtpCancelUpload(p, u)  == up[u].conn \in Dials /\ Cancel(p, u)
SftpCancelUpload(p, u) == up[u].conn \in Links /\ Cancel(p, u)

----------------------------------------------------------------------------
(* The other calls of a connection.  On FTP each holds the mutex and is one
   step; all of them are refused on a closed connection and then change nothing. *)

CanCall(p, c) ==
    /\ Free(p) /\ Given(c) /\ Open(c)
    /\ c \in Dials => WireFree(c)
    /\ calls < MaxCalls

Called == calls' = calls + 1

Made(p, c, r) ==
    /\ CanCall(p, c)
    /\ Learn(c, r)
    /\ Called
    /\ UNCHANGED <<vars, files, sftp, mutex, quit, errand, uploadVars, told, landed, gone>>

MkdirFtp(p, c, d) ==
    c \in Dials /\ \E refused \in Refusals(c, d) : Made(p, c, MadeFtp(c, d, refused))

\* The upload that returns when it is over: the server takes the file or not.
UploadFtp(p, c, u) ==
    LET d == Above(Target[u]) IN
    /\ c \in Dials /\ CanCall(p, c)
    /\ \E refused \in Refusals(c, d) :
          LET r == EnsureFtp(c, d, refused) IN
          /\ Learn(c, r)
          /\ \/ UNCHANGED files
             \/ r.ok /\ (d = <<>> \/ d \in r.there) /\ files' = files \cup {u}
    /\ Called
    /\ UNCHANGED <<vars, sftp, mutex, quit, errand, uploadVars, told, landed, gone>>

\* What follows when the directories of a call are made and remembered: an upload stores.
Onward(c, u) == IF u = Nobody THEN NoErrand ELSE Errand("store", c, <<>>, u)

\* An SFTP call needs the directory d: the server is asked, if the memory has it not.
Require(p, c, d, u) ==
    /\ c \in Links /\ CanCall(p, c)
    /\ IF Ensured(c, d) THEN Owes(p, Onward(c, u)) /\ UNCHANGED there
       ELSE \E refused \in Refusals(c, d) :
               /\ MkdirAll(d, refused)
               /\ IF Len(d) < refused THEN Owes(p, Errand("mark", c, d, u)) ELSE UNCHANGED errand
    /\ Called
    /\ UNCHANGED <<vars, files, known, sftp, mutex, quit, uploadVars, told, landed, gone>>

MkdirSftp(p, c, d)  == Require(p, c, d, Nobody)
UploadSftp(p, c, u) == Require(p, c, Above(Target[u]), u)

MarkMade(p) ==
    /\ errand[p].at = "mark"
    /\ MarkCached(p)
    /\ Owes(p, Onward(errand[p].conn, errand[p].up))
    /\ UNCHANGED <<vars, serverVars, sftp, mutex, quit, uploadVars, accountVars>>

StoreSftp(p, u) ==
    LET d == Above(Target[u]) IN
    /\ errand[p].at = "store" /\ errand[p].up = u
    /\ \/ UNCHANGED files
       \/ Open(errand[p].conn) /\ (d = <<>> \/ d \in there) /\ files' = files \cup {u}
    /\ Owes(p, NoErrand)
    /\ UNCHANGED <<vars, there, known, sftp, mutex, quit, uploadVars, accountVars>>

\* Everything at and under a path is gone.
Vanish(path) ==
    /\ there' = {d \in there : ~Under(path, d)}
    /\ files' = {u \in files : ~Under(path, Target[u])}

\* It is gone, and these connections go on remembering it; so does any that has made it
\* and is about to remember it.
Unnoticed(path, by) ==
    gone' = [c \in Connections |->
               gone[c] \cup {d \in there \cap (Marking(c) \cup IF c \in by THEN known[c] ELSE {}) :
                              Under(path, d)}]

Delete(p, c, u) ==
    /\ CanCall(p, c)
    /\ u \in files
    /\ files' = files \ {u}
    /\ Called
    /\ UNCHANGED <<vars, there, wireVars, uploadVars, told, landed, gone>>

DeleteFtp(p, c, u)  == c \in Dials /\ Delete(p, c, u)
DeleteSftp(p, c, u) == c \in Links /\ Delete(p, c, u)

Empty(d) ==
    /\ \A e \in there : Under(d, e) => e = d
    /\ \A u \in files : ~Under(d, Target[u])

\* What the connection remembers is left as it is.
RemoveDir(p, c, d) ==
    /\ CanCall(p, c)
    /\ d \in there /\ Empty(d)
    /\ Vanish(d) /\ Unnoticed(d, Connections)
    /\ Called
    /\ UNCHANGED <<vars, wireVars, uploadVars, told, landed>>

RemoveDirFtp(p, c, d)  == c \in Dials /\ RemoveDir(p, c, d)
RemoveDirSftp(p, c, d) == c \in Links /\ RemoveDir(p, c, d)

\* Renaming a directory to a name outside the model.
Rename(p, c, d) ==
    /\ CanCall(p, c)
    /\ d \in there
    /\ Vanish(d) /\ Unnoticed(d, Connections)
    /\ Called
    /\ UNCHANGED <<vars, wireVars, uploadVars, told, landed>>

RenameFtp(p, c, d)  == c \in Dials /\ Rename(p, c, d)
RenameSftp(p, c, d) == c \in Links /\ Rename(p, c, d)

\* Removing without forgetting.
RememberDirs(c) == UNCHANGED known

ForgetDirs(c) == known' = [known EXCEPT ![c] = {}]

Removal(p, c) ==
    /\ CanCall(p, c)
    /\ Called
    /\ UNCHANGED <<vars, sftp, mutex, quit, uploadVars, told, landed>>

\* Some of what is at and under d is gone, and the server, or the connection, fails.
Partly(d) ==
    \E e \in there \cup {Target[u] : u \in files} :
        Under(d, e) /\ Vanish(e) /\ Unnoticed(e, Connections)

\* All of it is gone, and this connection is to forget what it remembers.
Wholly(c, d) == Vanish(d) /\ Unnoticed(d, Connections \ {c})

\* A removal that ends in an error leaves what the connection remembers.
RemoveAllFtp(p, c, d) ==
    /\ c \in Dials /\ Removal(p, c)
    /\ \/ Wholly(c, d) /\ ForgetDirs(c)
       \/ Partly(d) /\ UNCHANGED known
    /\ UNCHANGED errand

\* An error counts as removed if the path is not there; then too nothing is forgotten.
RemoveAllSftp(p, c, d) ==
    /\ c \in Links /\ Removal(p, c)
    /\ \/ d \in there /\ Wholly(c, d) /\ Owes(p, Errand("clear", c, d, Nobody))
       \/ d \notin there /\ UNCHANGED <<serverVars, gone, errand>>
       \/ Partly(d) /\ UNCHANGED errand
    /\ UNCHANGED known

ForgetRemoved(p) ==
    /\ errand[p].at = "clear"
    /\ ForgetDirs(errand[p].conn) /\ Owes(p, NoErrand)
    /\ UNCHANGED <<vars, serverVars, sftp, mutex, quit, uploadVars, accountVars>>

----------------------------------------------------------------------------
(* Connecting and disconnecting *)

\* SFTP connects in one call that returns with the connection.
ConnectSftp(p, c) ==
    /\ Free(p) /\ sftp[c] = "none"
    /\ sftp' = [sftp EXCEPT ![c] = "open"]
    /\ UNCHANGED <<vars, serverVars, known, mutex, quit, errand, uploadVars, accountVars>>

DisconnectSftp(p, c) ==
    /\ Free(p) /\ sftp[c] = "open"
    /\ ForgetDirs(c) /\ Owes(p, Errand("close", c, <<>>, Nobody))
    /\ UNCHANGED <<vars, serverVars, sftp, mutex, quit, uploadVars, accountVars>>

CloseSftp(p) ==
    /\ errand[p].at = "close"
    /\ sftp' = [sftp EXCEPT ![errand[p].conn] = "closed"] /\ Owes(p, NoErrand)
    /\ UNCHANGED <<vars, serverVars, known, mutex, quit, uploadVars, accountVars>>

\* ftpQuitSoft: a goroutine sends QUIT; the caller keeps the mutex and waits.
Disconnect(p, c) ==
    /\ Free(p) /\ Given(c) /\ WireFree(c) /\ quit[c] = "no"
    /\ ForgetDirs(c)
    /\ quit'  = [quit EXCEPT ![c] = "waited"]
    /\ mutex' = [mutex EXCEPT ![c] = p]
    /\ look'  = [look EXCEPT ![p].at = "quitting"]
    /\ UNCHANGED <<vars, serverVars, sftp, errand, up, listed, accountVars>>

Return(c) ==
    /\ mutex' = [mutex EXCEPT ![c] = Nobody]
    /\ look'  = [look EXCEPT ![mutex[c]] = NoLook]

QuitAnswered(c) ==
    /\ quit[c] \in {"waited", "left"}
    /\ quit' = [quit EXCEPT ![c] = "over"]
    /\ link' = [link EXCEPT ![c] = "closed"]
    /\ IF quit[c] = "waited" THEN Return(c) ELSE UNCHANGED <<mutex, look>>
    /\ UNCHANGED <<table, work, stateVars, dial, held, poll, historyVars,
                   serverVars, known, sftp, errand, up, listed, accountVars>>

\* Two seconds are over; QUIT is still on its way.
QuitGuard(c) ==
    /\ quit[c] = "waited"
    /\ quit' = [quit EXCEPT ![c] = "left"]
    /\ Return(c)
    /\ UNCHANGED <<vars, serverVars, known, sftp, errand, up, listed, accountVars>>

----------------------------------------------------------------------------

\* Bound: a behaviour has requests, mails and recordings, or FTP connections, or
\* SFTP connections.  They share the pollers and, the last two, perhaps a server.
Apart ==
    LET started == {i \in Sessions : work'[i] # "off"} \cup {c \in Links : sftp'[c] # "none"}
    IN  \E group \in {Plain, Dials, Links} : started \subseteq group

\* What a program calls on an FTP connection.
CallFtp(p, c) ==
    \/ \E u \in Uploads : StartFtpUpload(p, u, c) \/ UploadFtp(p, c, u) \/ DeleteFtp(p, c, u)
    \/ \E d \in Directories :
          \/ MkdirFtp(p, c, d) \/ RemoveDirFtp(p, c, d)
          \/ RenameFtp(p, c, d) \/ RemoveAllFtp(p, c, d)
    \/ Disconnect(p, c)

\* And on an SFTP connection.
CallSftp(p, c) ==
    \/ \E u \in Uploads : StartSftpUpload(p, u, c) \/ UploadSftp(p, c, u) \/ DeleteSftp(p, c, u)
    \/ \E d \in Directories :
          \/ MkdirSftp(p, c, d) \/ RemoveDirSftp(p, c, d)
          \/ RenameSftp(p, c, d) \/ RemoveAllSftp(p, c, d)
    \/ ConnectSftp(p, c) \/ DisconnectSftp(p, c)

Calling(p) ==
    \/ \E c \in Dials : CallFtp(p, c)
    \/ \E c \in Links : CallSftp(p, c)
    \/ \E u \in Uploads : AskUpload(p, u) \/ FtpCancelUpload(p, u) \/ SftpCancelUpload(p, u)
    \/ ReadDone(p) \/ FtpUploadStatus(p) \/ SftpUploadStatus(p)
    \/ MarkMade(p) \/ ForgetRemoved(p) \/ CloseSftp(p) \/ \E u \in Uploads : StoreSftp(p, u)

\* Bound: connections are used while no call about a session is in progress.
ConnectsQuiet == \A q \in Pollers : poll[q].at = "idle"

Uploading(u) ==
    \/ TakeWire(u) \/ MakeDirsFtp(u) \/ MakeDirsSftp(u) \/ MarkDirs(u)
    \/ CannotOpen(u) \/ BeginStore(u) \/ RefuseStore(u)
    \/ Send(u) \/ BreakOff(u) \/ Stored(u) \/ TryAgain(u) \/ LeaveWire(u) \/ MarkDone(u)

NetNext ==
    /\ \/ \E p \in Pollers : Outside(p) /\ PollerStep(p) /\ UNCHANGED transferVars
       \/ SessionStep /\ UNCHANGED transferVars
       \/ \E p \in Clerks : ConnectsQuiet /\ Calling(p)
       \/ \E u \in Uploads : Uploading(u)
       \/ \E c \in Dials : QuitAnswered(c) \/ QuitGuard(c)
    /\ Apart

\* The guard of a connect is a timer of the process, and the goroutine it wakes
\* is run.  Nothing is assumed of the network.
Fairness ==
    \A i \in Dials : /\ WF_netVars(GiveUp(i) /\ UNCHANGED transferVars)
                     /\ WF_netVars(Settle(i) /\ UNCHANGED transferVars)

NetSpec  == NetInit /\ [][NetNext]_netVars
FairSpec == NetSpec /\ Fairness

----------------------------------------------------------------------------
(* Properties *)

\* The uploads that are using connection c.
Sending(c) == {u \in Uploads : up[u].conn = c /\ up[u].at \in {"dirs", "open", "send", "delete"}}

\* An outcome is not lost unread: an upload that is done stays in its table until
\* a status call has told how it ended; the other sessions likewise.
NothingLostUnread ==
    /\ ResultKept
    /\ \A u \in Uploads : up[u].done => u \in listed \/ told[u] # "nothing"

\* What a status call says of an upload's end is how it ended, although it reads
\* the fields one by one while the goroutine and a cancel write them: "stored"
\* when the server took the whole file and the count is the size of the file,
\* also after a second try; an error only when it did not; "cancelled" only when
\* somebody cancelled.
ToldAsItEnded ==
    \A u \in Uploads :
        /\ told[u] = "stored" => u \in landed /\ up[u].written = Size
        /\ told[u] \in {"failed", "cancelled"} => u \notin landed
        /\ told[u] = "cancelled" => up[u].cancel

\* Commands of one FTP connection follow each other: two uploads never send on it
\* at a time, and none does while a disconnect waits for the answer to its QUIT.
\* (A QUIT the disconnect no longer waits for may meet an upload.)
AloneOnTheWire ==
    \A c \in Dials : Cardinality(Sending(c)) <= IF quit[c] = "waited" THEN 0 ELSE 1

\* A directory a connection remembers, and therefore no longer makes, is on the
\* server, but for three cases.  It was taken away by a call that leaves the memory as
\* it is: removing one directory, renaming, a removal that ended in an error, or a call
\* of another connection.  It was taken away by this connection, and forgetting it is
\* what the removal does next.  Or it was taken away after an SFTP call had made it and
\* before that call remembered it: nothing keeps the two from each other, and if the
\* removal forgets first the memory stays wrong.
CacheTrue == \A c \in Connections : known[c] \subseteq there \cup gone[c] \cup Clearing(c)
=============================================================================
