----------------------------- MODULE WebSocket -----------------------------
(***************************************************************************)
(* The sockets of internal/stdlib/net_ws.go, a server's and those the      *)
(* program connects itself.  A goroutine per socket reads messages and     *)
(* tells Yod code of them: through the queue of the UI thread while a      *)
(* window is open, itself otherwise; in both cases under the run lock.     *)
(*                                                                         *)
(* The program starts its server in the background, with the callbacks it  *)
(* set before, and waits, in a window or in a call that lets go of the     *)
(* lock.  What is sent is left out.                                        *)
(***************************************************************************)
EXTENDS Naturals, Sequences, SequencesExt

CONSTANTS Sockets,
          Outgoing,    \* those the program connects; the others are its server's
          Program,     \* the goroutine of the program and of the UI thread
          Nobody,
          MaxMessages  \* bound: messages the other side of a socket sends

ASSUME SocketAssumption ==
    /\ Outgoing \subseteq Sockets
    /\ Program \notin Sockets /\ Nobody \notin Sockets \cup {Program}
    /\ MaxMessages \in Nat

VARIABLES sent, gone,    \* the other side: messages sent, and whether it has left
          closed,        \* st.closed, and st.conn is nil
          cut,           \* sockets whose connection is closed
          hooks,         \* st.onMsg and st.onClose, as far as they are set
          reader,        \* where the goroutine of each socket is
          seen,          \* messages it has read
          due,           \* what it has yet to tell
          via            \* syncFn as runOnUI read it

VARIABLES server,        \* how far the server is; st.running while it is not "off"
          clients,       \* st.clients
          serverHooks,   \* the callbacks of the server
          runner,        \* holder of the run lock
          at,            \* where the program is
          call,          \* the close or stop in progress, under the lock
          window,        \* the window; uiSyncFn is set while there is one
          queue          \* what was posted with Synchronize

VARIABLES known,         \* sockets the program has in hand
          told,          \* history: what Yod code was told of each socket
          byProgram,     \* history: sockets the program closed
          hurried,       \* history: sockets with something posted as the window closed
          dismissed      \* history: clients at the beginning of the last stop

otherVars   == <<sent, gone>>
socketVars  == <<closed, cut, hooks>>
readerVars  == <<reader, seen, due, via>>
serverVars  == <<server, clients, serverHooks>>
programVars == <<at, call, window, queue>>
storyVars   == <<known, told, byProgram, hurried, dismissed>>
wsVars      == <<otherVars, socketVars, readerVars, serverVars, runner, programVars, storyVars>>

Lock == INSTANCE RunLock
            WITH Goroutines <- Sockets \cup {Program}, NoOwner <- Nobody, pending <- {}

NoCall == [k |-> "none", left |-> {}, socket |-> Nobody]

Told(s, what, n) == [socket |-> s, what |-> what, n |-> n]

WsInit ==
    /\ sent = [s \in Sockets |-> 0] /\ gone = {}
    /\ closed = {} /\ cut = {} /\ hooks = [s \in Sockets |-> {}]
    /\ reader = [s \in Sockets |-> "off"] /\ seen = [s \in Sockets |-> 0]
    /\ due = [s \in Sockets |-> <<>>] /\ via = [s \in Sockets |-> FALSE]
    /\ server = "off" /\ clients = {} /\ serverHooks \in SUBSET {"connect", "message"}
    /\ runner = Program /\ at = "code" /\ call = NoCall /\ window = "none" /\ queue = <<>>
    /\ known = {} /\ told = [s \in Sockets |-> <<>>]
    /\ byProgram = {} /\ hurried = {} /\ dismissed = {}

Reader(s, where) == reader' = [reader EXCEPT ![s] = where]

\* Whoever holds the lock runs Yod code, unless it is inside a close or a stop.
InCode == runner # Nobody /\ call = NoCall

----------------------------------------------------------------------------
(* The other side *)

SendMessage(s) ==
    /\ reader[s] \notin {"off", "over"} /\ s \notin gone \cup cut
    /\ sent[s] < MaxMessages
    /\ sent' = [sent EXCEPT ![s] = @ + 1]
    /\ UNCHANGED <<gone, socketVars, readerVars, serverVars, runner, programVars, storyVars>>

Leave(s) ==
    /\ reader[s] \notin {"off", "over"} /\ s \notin gone \cup cut
    /\ gone' = gone \cup {s}
    /\ UNCHANGED <<sent, socketVars, readerVars, serverVars, runner, programVars, storyVars>>

----------------------------------------------------------------------------
(* Telling Yod code: runOnUI and invokeYod *)

Tell(s, events, otherwise) ==
    /\ due' = [due EXCEPT ![s] = events]
    /\ Reader(s, IF events # <<>> THEN "tell" ELSE otherwise)

\* Where the goroutine goes on when the first of what is due has been told.
AfterTelling(s) ==
    /\ due' = [due EXCEPT ![s] = Tail(@)]
    /\ Reader(s, CASE Tail(due[s]) # <<>> -> "tell"
                   [] Tail(due[s]) = <<>> /\ Head(due[s]).what = "close" -> "over"
                   [] OTHER -> "read")

ReadSync(s) ==
    /\ reader[s] = "tell"
    /\ via' = [via EXCEPT ![s] = window # "none"]
    /\ Reader(s, "send")
    /\ UNCHANGED <<otherVars, socketVars, seen, due, serverVars, runner, programVars, storyVars>>

\* The window's function looks once more whether the window is open.
Look(s) ==
    /\ reader[s] = "send"
    /\ via' = [via EXCEPT ![s] = FALSE]
    /\ Reader(s, IF via[s] /\ window = "open" THEN "post" ELSE "enter")
    /\ UNCHANGED <<otherVars, socketVars, seen, due, serverVars, runner, programVars, storyVars>>

Post(s) ==
    /\ reader[s] = "post"
    /\ queue' = Append(queue, Head(due[s]))
    /\ hurried' = IF window = "open" THEN hurried ELSE hurried \cup {s}
    /\ AfterTelling(s)
    /\ UNCHANGED <<otherVars, socketVars, seen, via, serverVars, runner, at, call, window,
                   known, told, byProgram, dismissed>>

\* The program gets a socket of its server in hand with a callback.
Hears(e) ==
    /\ told' = [told EXCEPT ![e.socket] = Append(@, e)]
    /\ known' = IF e.what \in {"connect", "any message"} THEN known \cup {e.socket} ELSE known
    /\ UNCHANGED <<byProgram, hurried, dismissed>>

Enter(s) ==
    /\ reader[s] = "enter"
    /\ Lock!Grant(s)
    /\ Reader(s, "in")
    /\ Hears(Head(due[s]))
    /\ UNCHANGED <<otherVars, socketVars, seen, due, via, serverVars, programVars>>

LeaveCode(s) ==
    /\ reader[s] = "in" /\ call = NoCall
    /\ Lock!Yield(s)
    /\ AfterTelling(s)
    /\ UNCHANGED <<otherVars, socketVars, seen, via, serverVars, programVars, storyVars>>

----------------------------------------------------------------------------
(* The goroutine of a socket: wsReadLoop *)

netWSConnect(s) ==
    /\ InCode
    /\ s \in Outgoing /\ reader[s] = "off"
    /\ Reader(s, "read")
    /\ known' = known \cup {s}
    /\ UNCHANGED <<otherVars, socketVars, seen, due, via, serverVars, runner, programVars,
                   told, byProgram, hurried, dismissed>>

\* A socket the program has closed has no connection to read from.
TakeConn(s) ==
    /\ reader[s] = "read"
    /\ Reader(s, IF s \in closed THEN "end" ELSE "receive")
    /\ UNCHANGED <<otherVars, socketVars, seen, due, via, serverVars, runner, programVars, storyVars>>

\* The callback of the socket is told before that of the server.
Receive(s) ==
    LET n == seen[s] + 1 IN
    /\ reader[s] = "receive" /\ seen[s] < sent[s]
    /\ seen' = [seen EXCEPT ![s] = n]
    /\ Tell(s, (IF "message" \in hooks[s] THEN <<Told(s, "message", n)>> ELSE <<>>)
               \o (IF s \notin Outgoing /\ "message" \in serverHooks
                   THEN <<Told(s, "any message", n)>> ELSE <<>>), "read")
    /\ UNCHANGED <<otherVars, socketVars, via, serverVars, runner, programVars, storyVars>>

Fail(s) ==
    /\ reader[s] = "receive" /\ s \in gone \cup cut
    /\ Reader(s, "end")
    /\ UNCHANGED <<otherVars, socketVars, seen, due, via, serverVars, runner, programVars, storyVars>>

\* A close that is told of whoever closed the socket.
TellsAlways(s) == "close" \in hooks[s]

TellsClose(s) == s \notin closed /\ "close" \in hooks[s]

\* The deferred function: the mark, then the connection and the server's list.
End(s) ==
    /\ reader[s] = "end"
    /\ closed' = closed \cup {s}
    /\ due' = [due EXCEPT ![s] = IF TellsClose(s) THEN <<Told(s, "close", MaxMessages + 1)>> ELSE <<>>]
    /\ Reader(s, "tidy")
    /\ UNCHANGED <<otherVars, cut, hooks, seen, via, serverVars, runner, programVars, storyVars>>

\* A list that only a stop makes shorter.
DropStopping(s) == clients' = IF call.k = "stop" THEN clients \ {s} ELSE clients

Drop(s) == clients' = clients \ {s}

Tidy(s) ==
    /\ reader[s] = "tidy"
    /\ cut' = cut \cup {s}
    /\ Drop(s)
    /\ Reader(s, IF due[s] # <<>> THEN "tell" ELSE "over")
    /\ UNCHANGED <<otherVars, closed, hooks, seen, due, via, server, serverHooks, runner, programVars, storyVars>>

----------------------------------------------------------------------------
(* Calls of Yod code *)

\* שקע.בהודעה and שקע.בסגירה
SetHook(s, h) ==
    /\ InCode
    /\ s \in known /\ h \notin hooks[s]
    /\ hooks' = [hooks EXCEPT ![s] = @ \cup {h}]
    /\ UNCHANGED <<otherVars, closed, cut, readerVars, serverVars, runner, programVars, storyVars>>

Mark(s) == closed' = closed \cup {s} /\ byProgram' = byProgram \cup {s}

wsConnClose(s) ==
    /\ InCode
    /\ s \in known \ closed
    /\ Mark(s)
    /\ call' = [k |-> "close", left |-> {}, socket |-> s]
    /\ UNCHANGED <<otherVars, cut, hooks, readerVars, serverVars, runner, at, window, queue,
                   known, told, hurried, dismissed>>

\* The rest of a close, also within a stop.
FinishClose ==
    LET s == call.socket IN
    /\ s # Nobody
    /\ cut' = cut \cup {s}
    /\ Drop(s)
    /\ call' = IF call.k = "close" THEN NoCall ELSE [call EXCEPT !.socket = Nobody]
    /\ UNCHANGED <<otherVars, closed, hooks, readerVars, server, serverHooks, runner, at, window, queue,
                   storyVars>>

----------------------------------------------------------------------------
(* The server *)

\* net.Listen may fail, which leaves the server as it was.
wsServerStart ==
    /\ InCode
    /\ server = "off"
    /\ server' = "bound"
    /\ dismissed' = {}
    /\ UNCHANGED <<otherVars, socketVars, readerVars, clients, serverHooks, runner, programVars,
                   known, told, byProgram, hurried>>

\* http.Server.Serve returns at once if it was closed before.
WsServe ==
    /\ \/ server = "bound" /\ server' = "serving"
       \/ server \in {"serving", "closing"} /\ server' = "off"
    /\ UNCHANGED <<otherVars, socketVars, readerVars, clients, serverHooks, runner, programVars, storyVars>>

\* A connection that has been upgraded is no longer the http.Server's.
Upgrade(s) ==
    /\ s \notin Outgoing /\ reader[s] = "off"
    /\ server = "serving"
    /\ Reader(s, "upgraded")
    /\ UNCHANGED <<otherVars, socketVars, seen, due, via, serverVars, runner, programVars, storyVars>>

Register(s) ==
    /\ reader[s] = "upgraded"
    /\ clients' = clients \cup {s}
    /\ Tell(s, IF "connect" \in serverHooks THEN <<Told(s, "connect", 0)>> ELSE <<>>, "read")
    /\ UNCHANGED <<otherVars, socketVars, seen, via, server, serverHooks, runner, programVars, storyVars>>

\* The list of clients is copied, each is closed, and then the server.
wsServerStop ==
    /\ InCode
    /\ call' = [k |-> "stop", left |-> clients, socket |-> Nobody]
    /\ dismissed' = clients
    /\ UNCHANGED <<otherVars, socketVars, readerVars, serverVars, runner, at, window, queue,
                   known, told, byProgram, hurried>>

StopClient(s) ==
    /\ call.k = "stop" /\ call.socket = Nobody /\ s \in call.left
    /\ call' = [k |-> "stop", left |-> call.left \ {s},
                socket |-> IF s \in closed THEN Nobody ELSE s]
    /\ IF s \in closed THEN UNCHANGED <<closed, byProgram>> ELSE Mark(s)
    /\ UNCHANGED <<otherVars, cut, hooks, readerVars, serverVars, runner, at, window, queue,
                   known, told, hurried, dismissed>>

CloseServer ==
    /\ call.k = "stop" /\ call.socket = Nobody /\ call.left = {}
    /\ call' = NoCall
    /\ server' = IF server \in {"bound", "serving"} THEN "closing" ELSE server
    /\ UNCHANGED <<otherVars, socketVars, readerVars, clients, serverHooks, runner, at, window, queue,
                   storyVars>>

----------------------------------------------------------------------------
(* The program and its window *)

AtProgram(from, to) == at = from /\ at' = to

LetGo(to) ==
    /\ runner = Program /\ AtProgram("code", to) /\ call = NoCall
    /\ Lock!Yield(Program)

Wait ==
    /\ LetGo("away")
    /\ UNCHANGED <<otherVars, socketVars, readerVars, serverVars, call, window, queue, storyVars>>

GoOn ==
    /\ AtProgram("away", "code")
    /\ Lock!Grant(Program)
    /\ UNCHANGED <<otherVars, socketVars, readerVars, serverVars, call, window, queue, storyVars>>

OpenWindow ==
    /\ window = "none" /\ window' = "open"
    /\ LetGo("loop")
    /\ UNCHANGED <<otherVars, socketVars, readerVars, serverVars, call, queue, storyVars>>

\* The UI thread takes what was posted first, and waits for the lock with it.
UiTake ==
    /\ AtProgram("loop", "due")
    /\ queue # <<>>
    /\ UNCHANGED <<otherVars, socketVars, readerVars, serverVars, runner, call, window, queue, storyVars>>

UiEnter ==
    /\ AtProgram("due", "callback")
    /\ Lock!Grant(Program)
    /\ Hears(Head(queue)) /\ queue' = Tail(queue)
    /\ UNCHANGED <<otherVars, socketVars, readerVars, serverVars, call, window>>

\* Handlers of the window run Yod code too.
UiEvent ==
    /\ AtProgram("loop", "callback")
    /\ Lock!Grant(Program)
    /\ UNCHANGED <<otherVars, socketVars, readerVars, serverVars, call, window, queue, storyVars>>

UiLeave ==
    /\ AtProgram("callback", "loop") /\ call = NoCall
    /\ Lock!Yield(Program)
    /\ UNCHANGED <<otherVars, socketVars, readerVars, serverVars, call, window, queue, storyVars>>

CloseWindow ==
    /\ at = "loop" /\ window = "open"
    /\ window' = "closing"
    /\ hurried' = hurried \cup {queue[i].socket : i \in DOMAIN queue}
    /\ UNCHANGED <<otherVars, socketVars, readerVars, serverVars, runner, at, call, queue,
                   known, told, byProgram, dismissed>>

\* What is still posted when the loop ends is never told.
LoopEnds ==
    /\ AtProgram("loop", "away") /\ window = "closing"
    /\ window' = "closed"
    /\ UNCHANGED <<otherVars, socketVars, readerVars, serverVars, runner, call, queue, storyVars>>

----------------------------------------------------------------------------

WsNext ==
    \/ \E s \in Sockets :
          \/ SendMessage(s) \/ Leave(s)
          \/ ReadSync(s) \/ Look(s) \/ Post(s) \/ Enter(s) \/ LeaveCode(s)
          \/ netWSConnect(s) \/ TakeConn(s) \/ Receive(s) \/ Fail(s) \/ End(s) \/ Tidy(s)
          \/ wsConnClose(s) \/ StopClient(s) \/ Upgrade(s) \/ Register(s)
          \/ \E h \in {"message", "close"} : SetHook(s, h)
    \/ FinishClose \/ wsServerStart \/ WsServe \/ wsServerStop \/ CloseServer
    \/ Wait \/ GoOn \/ OpenWindow \/ UiTake \/ UiEnter \/ UiEvent \/ UiLeave \/ CloseWindow \/ LoopEnds

----------------------------------------------------------------------------
(* Properties *)

\* Yod code hears the story of a socket in order and nothing of it twice: that it
\* connected, its messages as they came, that it was closed, though some of it goes
\* through the queue of the window and some does not; and it is not told of a close
\* that was its own.  The exception is a window that closes while something is posted.
StoryInOrder ==
    \A s \in Sockets :
        /\ s \notin hurried =>
              \A i, j \in DOMAIN told[s] : i < j =>
                 \/ told[s][i].n < told[s][j].n
                 \/ told[s][i].n = told[s][j].n /\ told[s][i].what = "message"
                    /\ told[s][j].what = "any message"
        /\ s \in byProgram => \A i \in DOMAIN told[s] : told[s][i].what # "close"

\* The list a broadcast goes to, and a stop: an open socket of the server is in it
\* as soon as Yod code can know of it, a closed one leaves it with whoever closes
\* it, and a stop closes all that were in it, whatever the sockets do meanwhile.  (A
\* client that comes while the stop is under way stays connected.)
ClientsTrue ==
    /\ \A s \in clients : s \in closed => call.socket = s \/ reader[s] = "tidy"
    /\ \A s \in Sockets \ Outgoing : reader[s] \notin {"off", "upgraded"} => s \in clients \cup closed
    /\ call = NoCall => dismissed \subseteq closed
=============================================================================
