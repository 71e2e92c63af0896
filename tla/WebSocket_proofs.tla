-------------------------- MODULE WebSocket_proofs --------------------------
(***************************************************************************)
(* The sockets of net_ws.go, for any number of sockets and messages: the   *)
(* list of the server's clients is true, and Yod code hears the story of a *)
(* socket in order, though it reaches it by two ways.                      *)
(***************************************************************************)
EXTENDS Servers, SequenceTheorems, TLAPS

WsSpec == WsInit /\ [][WsNext]_wsVars

Places == {"off", "upgraded", "read", "receive", "end", "tidy", "tell", "send", "post",
           "enter", "in", "over"}
Telling == {"tell", "send", "post", "enter", "in"}
Events == [socket : Sockets, what : {"connect", "message", "any message", "close"}, n : Nat]
Calls == [k : {"none", "close", "stop"}, left : SUBSET Sockets, socket : Sockets \cup {Nobody}]

TypeOther ==
    /\ sent \in [Sockets -> Nat] /\ \A s \in Sockets : sent[s] <= MaxMessages
    /\ gone \subseteq Sockets /\ closed \subseteq Sockets /\ cut \subseteq Sockets
    /\ hooks \in [Sockets -> SUBSET {"message", "close"}]
    /\ serverHooks \subseteq {"connect", "message"}
    /\ server \in {"off", "bound", "serving", "closing"}
    /\ runner \in Sockets \cup {Program, Nobody}

TypeReaders ==
    /\ reader \in [Sockets -> Places]
    /\ seen \in [Sockets -> Nat] /\ \A s \in Sockets : seen[s] <= sent[s]
    /\ due \in [Sockets -> Seq(Events)]
    /\ via \in [Sockets -> BOOLEAN]

TypeProgram ==
    /\ at \in {"code", "away", "loop", "due", "callback"}
    /\ window \in {"none", "open", "closing", "closed"}
    /\ queue \in Seq(Events)
    /\ told \in [Sockets -> Seq(Events)]

TypeSets ==
    /\ call \in Calls
    /\ clients \subseteq Sockets /\ known \subseteq Sockets
    /\ byProgram \subseteq Sockets /\ hurried \subseteq Sockets /\ dismissed \subseteq Sockets

WsTypeOK == TypeOther /\ TypeReaders /\ TypeProgram /\ TypeSets

Fresh(s) == reader[s] \in {"off", "upgraded"}

\* The list of clients, while a close, a stop or the end of a reader is half done: a
\* stop has closed what it has not before it; who is being taken off is closed; and no
\* part of the program has a socket whose reader has not begun.
ListOK ==
    /\ \A s \in clients : s \in closed => call.socket = s \/ reader[s] = "tidy"
    /\ \A s \in Sockets \ Outgoing : ~Fresh(s) => s \in clients \cup closed
    /\ dismissed \subseteq closed \cup call.left
    /\ call.k # "stop" => call.left = {}
    /\ call.k = "none" => call.socket = Nobody
    /\ call.socket # Nobody => call.socket \in closed
    /\ \A s \in Sockets : reader[s] = "tidy" => s \in closed
    /\ \A s \in closed \cup clients \cup known \cup call.left : ~Fresh(s)
    /\ \A i \in DOMAIN queue : ~Fresh(queue[i].socket)

Posted(s) == {i \in DOMAIN queue : queue[i].socket = s}

Before(d, e) == \/ d.n < e.n
                \/ d.n = e.n /\ d.what = "message" /\ e.what = "any message"

\* What a goroutine has to tell is of its own socket, and is either the end of it or
\* messages it has read; and while it has something to tell it does nothing else.
DueOK(s) ==
    /\ \A i \in DOMAIN due[s] : due[s][i].socket = s
    /\ reader[s] \in Telling => due[s] # <<>>
    /\ due[s] # <<>> => reader[s] \in Telling \cup {"tidy"}
    /\ \/ \A i \in DOMAIN due[s] : due[s][i].what # "close" /\ due[s][i].n <= seen[s]
       \/ Len(due[s]) = 1 /\ due[s][1].what = "close" /\ due[s][1].n = MaxMessages + 1
    /\ Fresh(s) => due[s] = <<>> /\ told[s] = <<>> /\ seen[s] = 0

\* What was told, what is posted and what is due are in order, each and one after the
\* other.  What a goroutine is just telling is still due.
DueInOrder(s) ==
    /\ \A i, j \in DOMAIN due[s] : i < j => Before(due[s][i], due[s][j])
    /\ \A i, j \in Posted(s) : i < j => Before(queue[i], queue[j])
    /\ \A i \in Posted(s), j \in DOMAIN due[s] : Before(queue[i], due[s][j])
    /\ \A i \in DOMAIN told[s], j \in DOMAIN due[s] :
          (reader[s] = "in" => j # 1) => Before(told[s][i], due[s][j])

ToldInOrder(s) ==
    s \notin hurried =>
        /\ \A i, j \in DOMAIN told[s] : i < j => Before(told[s][i], told[s][j])
        /\ \A i \in DOMAIN told[s], j \in Posted(s) : Before(told[s][i], queue[j])

\* Nothing was told or posted of what is not read, unless the socket is over.
PastOK(s) ==
    /\ \A i \in Posted(s) : queue[i].n <= seen[s] \/ reader[s] = "over"
    /\ \A i \in DOMAIN told[s] :
          \/ told[s][i].n <= seen[s] \/ reader[s] = "over"
          \/ (reader[s] = "in" /\ due[s][1].what = "close")

\* Who tells of a close is who closed the socket.
CloseOK(s) ==
    /\ s \in byProgram => s \in closed
    /\ \A i \in DOMAIN due[s] : due[s][i].what = "close" => s \in closed \ byProgram
    /\ \A i \in Posted(s) : queue[i].what = "close" => s \in closed \ byProgram
    /\ \A i \in DOMAIN told[s] : told[s][i].what = "close" => s \in closed \ byProgram

\* A goroutine that tells its events itself has nothing in the queue before them,
\* unless the window was closed over it.
WayOK(s) ==
    /\ reader[s] = "post" \/ via[s] => window # "none"
    /\ reader[s] = "enter" \/ (reader[s] = "send" /\ ~via[s]) =>
          s \in hurried \/ Posted(s) = {}

StoryOK(s) == DueOK(s) /\ DueInOrder(s) /\ ToldInOrder(s) /\ PastOK(s) /\ CloseOK(s) /\ WayOK(s)

QueueOK ==
    /\ window = "none" => queue = <<>>
    /\ window \in {"closing", "closed"} => \A i \in DOMAIN queue : queue[i].socket \in hurried
    /\ at = "due" => queue # <<>>

WsInv == WsTypeOK /\ ListOK /\ QueueOK /\ \A s \in Sockets : StoryOK(s)

-----------------------------------------------------------------------------
(* What the steps have in common *)

\* The type of what the story of the sockets is told with.
LEMMA Kinds ==
    ASSUME WsInv
    PROVE  /\ reader \in [Sockets -> Places] /\ seen \in [Sockets -> Nat]
           /\ via \in [Sockets -> BOOLEAN]
           /\ due \in [Sockets -> Seq(Events)] /\ told \in [Sockets -> Seq(Events)]
           /\ queue \in Seq(Events)
           /\ Len(queue) \in Nat /\ DOMAIN queue = 1 .. Len(queue)
           /\ \A i \in DOMAIN queue :
                 queue[i] \in Events /\ queue[i].n \in Nat /\ queue[i].socket \in Sockets
           /\ \A s \in Sockets :
                 /\ Len(due[s]) \in Nat /\ DOMAIN due[s] = 1 .. Len(due[s])
                 /\ \A i \in DOMAIN due[s] : due[s][i] \in Events /\ due[s][i].n \in Nat
                 /\ Len(told[s]) \in Nat /\ DOMAIN told[s] = 1 .. Len(told[s])
                 /\ \A i \in DOMAIN told[s] : told[s][i] \in Events /\ told[s][i].n \in Nat
<1>1. \A q \in Seq(Events) :
         /\ Len(q) \in Nat /\ DOMAIN q = 1 .. Len(q)
         /\ \A i \in DOMAIN q : q[i] \in Events
  OBVIOUS
<1>2. \A e \in Events : e.n \in Nat /\ e.socket \in Sockets
  BY DEF Events
<1> QED BY <1>1, <1>2 DEF WsInv, WsTypeOK, TypeReaders, TypeProgram

LEMMA EventSeqs ==
    ASSUME NEW q \in Seq(Events)
    PROVE  /\ Len(q) \in Nat /\ DOMAIN q = 1 .. Len(q)
           /\ q # <<>> => 1 \in DOMAIN q
           /\ \A i \in DOMAIN q :
                 i \in Nat /\ q[i] \in Events /\ q[i].n \in Nat /\ q[i].socket \in Sockets
<1>1. \A i \in DOMAIN q : q[i] \in Events
  OBVIOUS
<1>2. \A e \in Events : e.n \in Nat /\ e.socket \in Sockets
  BY DEF Events
<1> QED BY <1>1, <1>2, EmptySeq

LEMMA Later ==
    ASSUME NEW d, NEW e, d.n < e.n
    PROVE  Before(d, e)
  BY DEF Before

\* What is left of a sequence without its head, and with something at its end.
LEMMA QueueHead ==
    ASSUME NEW S, NEW q \in Seq(S), q # <<>>
    PROVE  /\ Len(q) \in Nat \ {0} /\ 1 \in DOMAIN q /\ Head(q) = q[1] /\ Head(q) \in S
           /\ Tail(q) \in Seq(S) /\ Len(Tail(q)) = Len(q) - 1
           /\ DOMAIN Tail(q) = 1 .. Len(q) - 1
           /\ \A i \in DOMAIN Tail(q) : i + 1 \in DOMAIN q /\ Tail(q)[i] = q[i + 1]
  BY EmptySeq

LEMMA QueueEnd ==
    ASSUME NEW S, NEW q \in Seq(S), NEW e \in S
    PROVE  /\ Append(q, e) \in Seq(S) /\ Len(q) \in Nat
           /\ Len(Append(q, e)) = Len(q) + 1 /\ DOMAIN Append(q, e) = 1 .. Len(q) + 1
           /\ \A i \in DOMAIN q : i \in DOMAIN Append(q, e) /\ Append(q, e)[i] = q[i]
           /\ Append(q, e)[Len(q) + 1] = e
           /\ Append(q, e) # <<>>
  OBVIOUS

\* A socket whose own state a step leaves alone keeps its story, whatever the step
\* makes of the rest of the queue.
LEMMA Others ==
    ASSUME WsInv, NEW t \in Sockets, NEW k \in {0, 1},
           told'[t] = told[t], due'[t] = due[t], reader'[t] = reader[t],
           seen'[t] = seen[t], via'[t] = via[t],
           t \in closed' <=> t \in closed, t \in byProgram' <=> t \in byProgram,
           t \in hurried => t \in hurried', window # "none" => window' # "none",
           \A i \in DOMAIN queue' :
              queue'[i].socket = t => i + k \in DOMAIN queue /\ queue'[i] = queue[i + k],
           DOMAIN queue' \subseteq Nat
    PROVE  StoryOK(t)'
<1>0. StoryOK(t)
  BY DEF WsInv
<1>k. DOMAIN queue \subseteq Nat
  BY Kinds
<1>p. \A i \in Posted(t)' : i \in Nat /\ i + k \in Posted(t) /\ queue'[i] = queue[i + k]
  BY <1>k DEF Posted
<1>1. DueOK(t)'
  BY <1>0 DEF StoryOK, DueOK, Fresh
<1>2. DueInOrder(t)'
  <2>1. DueInOrder(t)
    BY <1>0 DEF StoryOK
  <2>2. \A i, j \in Posted(t)' : i < j => Before(queue'[i], queue'[j])
    <3> SUFFICES ASSUME NEW i \in Posted(t)', NEW j \in Posted(t)', i < j
                 PROVE  Before(queue'[i], queue'[j])
      OBVIOUS
    <3>1. i + k < j + k
      BY <1>p
    <3> QED BY <2>1, <3>1, <1>p DEF DueInOrder
  <2>3. \A i \in Posted(t)', j \in DOMAIN due'[t] : Before(queue'[i], due'[t][j])
    BY <2>1, <1>p DEF DueInOrder
  <2>4. \A i, j \in DOMAIN due'[t] : i < j => Before(due'[t][i], due'[t][j])
    BY <2>1 DEF DueInOrder
  <2>5. \A i \in DOMAIN told'[t], j \in DOMAIN due'[t] :
           (reader'[t] = "in" => j # 1) => Before(told'[t][i], due'[t][j])
    BY <2>1 DEF DueInOrder
  <2> QED BY <2>2, <2>3, <2>4, <2>5 DEF DueInOrder, Before
<1>3. ToldInOrder(t)'
  <2>1. ToldInOrder(t)
    BY <1>0 DEF StoryOK
  <2>2. t \notin hurried =>
           \A i \in DOMAIN told'[t], j \in Posted(t)' : Before(told'[t][i], queue'[j])
    BY <2>1, <1>p DEF ToldInOrder
  <2>3. t \notin hurried =>
           \A i, j \in DOMAIN told'[t] : i < j => Before(told'[t][i], told'[t][j])
    BY <2>1 DEF ToldInOrder
  <2> QED BY <2>2, <2>3 DEF ToldInOrder, Before
<1>4. PastOK(t)'
  BY <1>0, <1>p DEF StoryOK, PastOK
<1>5. CloseOK(t)'
  BY <1>0, <1>p DEF StoryOK, CloseOK
<1>6. WayOK(t)'
  BY <1>0, <1>p DEF StoryOK, WayOK
<1> QED BY <1>1, <1>2, <1>3, <1>4, <1>5, <1>6 DEF StoryOK

storyState == <<reader, seen, due, via, closed, queue, told, byProgram>>

\* Steps that have nothing to do with what is told.
LEMMA Quiet ==
    ASSUME WsInv, UNCHANGED storyState, hurried \subseteq hurried',
           window # "none" => window' # "none"
    PROVE  \A s \in Sockets : StoryOK(s)'
<1> SUFFICES ASSUME NEW t \in Sockets PROVE StoryOK(t)'
  OBVIOUS
<1>1. \A i \in DOMAIN queue' : i + 0 \in DOMAIN queue /\ queue'[i] = queue[i + 0]
  BY Kinds DEF storyState
<1>2. DOMAIN queue' \subseteq Nat
  BY Kinds DEF storyState
<1> HIDE DEF WsInv
<1> QED BY <1>1, <1>2, Others, 0 \in {0, 1} DEF storyState

-----------------------------------------------------------------------------
(* Steps that tell nothing *)

\* The other side sends and leaves.
LEMMA OtherSide ==
    ASSUME WsInv, NEW s \in Sockets, SendMessage(s) \/ Leave(s)
    PROVE  WsInv'
<1>1. WsTypeOK'
  <2>1. TypeOther'
    <3>1. sent' \in [Sockets -> Nat] /\ \A r \in Sockets : sent'[r] <= MaxMessages
      BY SocketAssumption DEF SendMessage, Leave, otherVars, WsInv, WsTypeOK, TypeOther
    <3> QED
      BY <3>1
      DEF SendMessage, Leave, socketVars, serverVars, WsInv, WsTypeOK, TypeOther
  <2>2. TypeReaders'
    <3>1. \A r \in Sockets : sent[r] \in Nat /\ sent'[r] \in Nat /\ sent[r] <= sent'[r]
      BY DEF SendMessage, Leave, WsInv, WsTypeOK, TypeOther
    <3> QED BY <3>1 DEF SendMessage, Leave, readerVars, WsInv, WsTypeOK, TypeReaders
  <2>3. TypeProgram' /\ TypeSets'
    BY DEF SendMessage, Leave, serverVars, programVars, storyVars, WsInv, WsTypeOK,
           TypeProgram, TypeSets
  <2> QED BY <2>1, <2>2, <2>3 DEF WsTypeOK
<1>2. ListOK'
  BY SocketAssumption
  DEF SendMessage, Leave, otherVars, socketVars, readerVars, serverVars, programVars,
      storyVars, WsInv, WsTypeOK, TypeOther, TypeReaders, TypeProgram, TypeSets, ListOK,
      Fresh, Calls, NoCall
<1>3. QueueOK'
  BY DEF SendMessage, Leave, otherVars, socketVars, readerVars, serverVars, programVars,
      storyVars, WsInv, QueueOK
<1>4. \A r \in Sockets : StoryOK(r)'
  BY Quiet
  DEF SendMessage, Leave, otherVars, socketVars, readerVars, serverVars, programVars,
      storyVars, storyState
<1> QED BY <1>1, <1>2, <1>3, <1>4 DEF WsInv

\* A callback is set.
LEMMA Hooks ==
    ASSUME WsInv, NEW s \in Sockets, NEW h \in {"message", "close"}, SetHook(s, h)
    PROVE  WsInv'
<1>1. WsTypeOK'
  BY SocketAssumption
  DEF SetHook, InCode, otherVars, socketVars, readerVars, serverVars, programVars,
      storyVars, WsInv, WsTypeOK, TypeOther, TypeReaders, TypeProgram, TypeSets, Places,
      Calls, NoCall
<1>2. ListOK'
  BY SocketAssumption
  DEF SetHook, InCode, otherVars, socketVars, readerVars, serverVars, programVars,
      storyVars, WsInv, WsTypeOK, TypeOther, TypeReaders, TypeProgram, TypeSets, ListOK,
      Fresh, Calls, NoCall
<1>3. QueueOK'
  BY DEF SetHook, InCode, otherVars, socketVars, readerVars, serverVars, programVars,
      storyVars, WsInv, QueueOK
<1>4. \A r \in Sockets : StoryOK(r)'
  BY Quiet DEF SetHook, InCode, otherVars, socketVars, readerVars, serverVars, programVars,
      storyVars, storyState
<1> QED BY <1>1, <1>2, <1>3, <1>4 DEF WsInv

\* The server starts and serves.
LEMMA ServerRuns ==
    ASSUME WsInv, wsServerStart \/ WsServe
    PROVE  WsInv'
<1>1. WsTypeOK'
  BY SocketAssumption
  DEF wsServerStart, WsServe, InCode, otherVars, socketVars, readerVars, serverVars,
      programVars, storyVars, WsInv, WsTypeOK, TypeOther, TypeReaders, TypeProgram,
      TypeSets, Places, Calls, NoCall
<1>2. ListOK'
  BY SocketAssumption
  DEF wsServerStart, WsServe, InCode, otherVars, socketVars, readerVars, serverVars,
      programVars, storyVars, WsInv, WsTypeOK, TypeOther, TypeReaders, TypeProgram,
      TypeSets, ListOK, Fresh, Calls, NoCall
<1>3. QueueOK'
  BY DEF wsServerStart, WsServe, InCode, otherVars, socketVars, readerVars, serverVars,
      programVars, storyVars, WsInv, QueueOK
<1>4. \A s \in Sockets : StoryOK(s)'
  BY Quiet
  DEF wsServerStart, WsServe, InCode, otherVars, socketVars, readerVars, serverVars,
      programVars, storyVars, storyState
<1> QED BY <1>1, <1>2, <1>3, <1>4 DEF WsInv

\* A stop begins with the clients there are, and ends.
LEMMA ServerStops ==
    ASSUME WsInv, wsServerStop \/ CloseServer
    PROVE  WsInv'
<1>1. WsTypeOK'
  <2>1. clients \in SUBSET Sockets
    BY DEF WsInv, WsTypeOK, TypeSets
  <2>2. [k |-> "stop", left |-> clients, socket |-> Nobody] \in Calls /\ NoCall \in Calls
    BY <2>1 DEF Calls, NoCall
  <2>3. call' \in Calls
    BY <2>2 DEF wsServerStop, CloseServer
  <2>4. server' \in {"off", "bound", "serving", "closing"} /\ dismissed' \subseteq Sockets
    BY <2>1 DEF wsServerStop, CloseServer, serverVars, storyVars, WsInv, WsTypeOK,
                TypeOther, TypeSets
  <2>5. TypeOther'
    BY <2>4 DEF wsServerStop, CloseServer, otherVars, socketVars, serverVars, WsInv,
                WsTypeOK, TypeOther
  <2>6. TypeReaders' /\ TypeProgram'
    BY DEF wsServerStop, CloseServer, otherVars, readerVars, storyVars, WsInv, WsTypeOK,
           TypeReaders, TypeProgram
  <2>7. TypeSets'
    BY <2>3, <2>4 DEF wsServerStop, CloseServer, serverVars, storyVars, WsInv, WsTypeOK,
                      TypeSets
  <2> QED BY <2>5, <2>6, <2>7 DEF WsTypeOK
<1>2. ListOK'
  BY SocketAssumption
  DEF wsServerStop, CloseServer, InCode, otherVars, socketVars, readerVars, serverVars,
      programVars, storyVars, WsInv, WsTypeOK, TypeOther, TypeReaders, TypeProgram,
      TypeSets, ListOK, Fresh, Calls, NoCall
<1>3. QueueOK'
  BY DEF wsServerStop, CloseServer, InCode, otherVars, socketVars, readerVars, serverVars,
      programVars, storyVars, WsInv, QueueOK
<1>4. \A s \in Sockets : StoryOK(s)'
  BY Quiet
  DEF wsServerStop, CloseServer, InCode, otherVars, socketVars, readerVars, serverVars,
      programVars, storyVars, storyState
<1> QED BY <1>1, <1>2, <1>3, <1>4 DEF WsInv

\* Whoever is closed leaves the list.
LEMMA Closing ==
    ASSUME WsInv, FinishClose
    PROVE  WsInv'
<1>1. WsTypeOK'
  <2>1. call \in Calls /\ call.socket \in Sockets
    BY DEF FinishClose, WsInv, WsTypeOK, TypeSets, Calls
  <2>2. [call EXCEPT !.socket = Nobody] \in Calls /\ NoCall \in Calls
    BY <2>1 DEF Calls, NoCall
  <2>3. call' \in Calls
    BY <2>2 DEF FinishClose
  <2>4. clients' \subseteq Sockets /\ cut' \subseteq Sockets
    BY <2>1 DEF FinishClose, Drop, WsInv, WsTypeOK, TypeOther, TypeSets
  <2>5. TypeOther'
    BY <2>4 DEF FinishClose, otherVars, serverVars, WsInv, WsTypeOK, TypeOther
  <2>6. TypeReaders' /\ TypeProgram'
    BY DEF FinishClose, otherVars, readerVars, storyVars, WsInv, WsTypeOK,
           TypeReaders, TypeProgram
  <2> QED BY <2>3, <2>4, <2>5, <2>6 DEF FinishClose, storyVars, WsInv, WsTypeOK, TypeSets
<1>2. ListOK'
  BY SocketAssumption
  DEF FinishClose, Drop, otherVars, socketVars, readerVars, serverVars, programVars,
      storyVars, WsInv, WsTypeOK, TypeOther, TypeReaders, TypeProgram, TypeSets, ListOK,
      Fresh, Calls, NoCall
<1>3. QueueOK'
  BY DEF FinishClose, Drop, otherVars, socketVars, readerVars, serverVars, programVars,
      storyVars, WsInv, QueueOK
<1>4. \A s \in Sockets : StoryOK(s)'
  BY Quiet
  DEF FinishClose, Drop, otherVars, socketVars, readerVars, serverVars, programVars,
      storyVars, storyState
<1> QED BY <1>1, <1>2, <1>3, <1>4 DEF WsInv

\* The program waits and goes on.
LEMMA Moves ==
    ASSUME WsInv, Wait \/ GoOn \/ UiTake \/ UiEvent \/ UiLeave
    PROVE  WsInv'
<1>1. WsTypeOK'
  BY SocketAssumption
  DEF Wait, GoOn, UiTake, UiEvent, UiLeave, LetGo, AtProgram, Lock!Grant, Lock!Yield,
      otherVars, socketVars, readerVars, serverVars, programVars, storyVars, WsInv,
      WsTypeOK, TypeOther, TypeReaders, TypeProgram, TypeSets, Places, Calls, NoCall
<1>2. ListOK'
  BY SocketAssumption
  DEF Wait, GoOn, UiTake, UiEvent, UiLeave, LetGo, AtProgram, Lock!Grant, Lock!Yield,
      otherVars, socketVars, readerVars, serverVars, programVars, storyVars, WsInv,
      WsTypeOK, TypeOther, TypeReaders, TypeProgram, TypeSets, ListOK, Fresh, Calls,
      NoCall
<1>3. QueueOK'
  BY DEF Wait, GoOn, UiTake, UiEvent, UiLeave, LetGo, AtProgram, Lock!Grant, Lock!Yield,
      otherVars, socketVars, readerVars, serverVars, programVars, storyVars, WsInv,
      QueueOK
<1>4. \A s \in Sockets : StoryOK(s)'
  BY Quiet
  DEF Wait, GoOn, UiTake, UiEvent, UiLeave, LetGo, AtProgram, Lock!Grant, Lock!Yield,
      otherVars, socketVars, readerVars, serverVars, programVars, storyVars, storyState
<1> QED BY <1>1, <1>2, <1>3, <1>4 DEF WsInv

\* The window opens and closes.
LEMMA Windows ==
    ASSUME WsInv, OpenWindow \/ CloseWindow \/ LoopEnds
    PROVE  WsInv'
<1>1. WsTypeOK'
  <2>1. {queue[i].socket : i \in DOMAIN queue} \subseteq Sockets
    BY Kinds
  <2>2. hurried' \subseteq Sockets
    BY <2>1 DEF OpenWindow, CloseWindow, LoopEnds, storyVars, WsInv, WsTypeOK, TypeSets
  <2> QED
    BY <2>2, SocketAssumption
    DEF OpenWindow, CloseWindow, LoopEnds, LetGo, AtProgram, Lock!Yield, otherVars,
        socketVars, readerVars, serverVars, programVars, storyVars, WsInv, WsTypeOK,
        TypeOther, TypeReaders, TypeProgram, TypeSets
<1>2. ListOK'
  BY SocketAssumption
  DEF OpenWindow, CloseWindow, LoopEnds, LetGo, AtProgram, Lock!Grant, Lock!Yield,
      otherVars, socketVars, readerVars, serverVars, programVars, storyVars, WsInv,
      WsTypeOK, TypeOther, TypeReaders, TypeProgram, TypeSets, ListOK, Fresh, Calls,
      NoCall
<1>3. QueueOK'
  BY DEF OpenWindow, CloseWindow, LoopEnds, LetGo, AtProgram, Lock!Grant, Lock!Yield,
      otherVars, socketVars, readerVars, serverVars, programVars, storyVars, WsInv,
      QueueOK
<1>4. \A s \in Sockets : StoryOK(s)'
  BY Quiet DEF OpenWindow, CloseWindow, LoopEnds, LetGo, AtProgram, Lock!Grant, Lock!Yield,
      otherVars, socketVars, readerVars, serverVars, programVars, storyVars, storyState
<1> QED BY <1>1, <1>2, <1>3, <1>4 DEF WsInv

-----------------------------------------------------------------------------
(* The goroutine of a socket moves *)

\* A step of the goroutine of one socket leaves the others their story.
LEMMA OneReader ==
    ASSUME WsInv, NEW s \in Sockets, NEW t \in Sockets \ {s},
           told'[t] = told[t], due'[t] = due[t], reader'[t] = reader[t],
           seen'[t] = seen[t], via'[t] = via[t],
           t \in closed' <=> t \in closed, t \in byProgram' <=> t \in byProgram,
           UNCHANGED <<queue, window, hurried>>
    PROVE  StoryOK(t)'
<1>1. \A i \in DOMAIN queue' : i + 0 \in DOMAIN queue /\ queue'[i] = queue[i + 0]
  BY Kinds
<1>2. DOMAIN queue' \subseteq Nat
  BY Kinds
<1> HIDE DEF WsInv
<1> QED BY <1>1, <1>2, Others, 0 \in {0, 1}

\* Where nothing is told, posted or due anew, the order stays.
LEMMA SameOrder ==
    ASSUME NEW s \in Sockets, UNCHANGED <<queue, due, told>>, Posted(s)' = Posted(s),
           reader[s] = "in" => reader'[s] = "in", s \in hurried => s \in hurried',
           DueInOrder(s), ToldInOrder(s)
    PROVE  DueInOrder(s)' /\ ToldInOrder(s)'
<1>1. \A i \in DOMAIN told'[s], j \in DOMAIN due'[s] :
         (reader'[s] = "in" => j # 1) => Before(told'[s][i], due'[s][j])
  BY DEF DueInOrder
<1>2. \A i, j \in DOMAIN due'[s] : i < j => Before(due'[s][i], due'[s][j])
  BY DEF DueInOrder
<1>3. \A i, j \in Posted(s)' : i < j => Before(queue'[i], queue'[j])
  BY DEF DueInOrder
<1>4. \A i \in Posted(s)', j \in DOMAIN due'[s] : Before(queue'[i], due'[s][j])
  BY DEF DueInOrder
<1>5. s \notin hurried' =>
         /\ \A i, j \in DOMAIN told'[s] : i < j => Before(told'[s][i], told'[s][j])
         /\ \A i \in DOMAIN told'[s], j \in Posted(s)' : Before(told'[s][i], queue'[j])
  BY DEF ToldInOrder
<1> QED BY <1>1, <1>2, <1>3, <1>4, <1>5 DEF DueInOrder, ToldInOrder, Before

\* While it does not tell, its own story is only where it stands.
LEMMA OwnReader ==
    ASSUME WsInv, NEW s \in Sockets, reader[s] \notin {"in", "over"},
           UNCHANGED <<queue, due, seen, told, byProgram, hurried>>, closed \subseteq closed'
    PROVE  DueInOrder(s)' /\ ToldInOrder(s)' /\ PastOK(s)' /\ CloseOK(s)'
<1>0. StoryOK(s)
  BY DEF WsInv
<1>1. Posted(s)' = Posted(s)
  BY DEF Posted
<1>2. DueInOrder(s)' /\ ToldInOrder(s)'
  BY <1>0, <1>1, SameOrder DEF StoryOK
<1>4. PastOK(s)'
  BY <1>0, <1>1 DEF StoryOK, PastOK
<1>5. CloseOK(s)'
  BY <1>0, <1>1 DEF StoryOK, CloseOK
<1> QED BY <1>2, <1>4, <1>5

\* It begins, goes round its loop, ends it, and looks which way it is to tell.
LEMMA Walks ==
    ASSUME WsInv, NEW s \in Sockets,
           \/ netWSConnect(s) \/ Upgrade(s) \/ TakeConn(s) \/ Fail(s)
           \/ ReadSync(s) \/ Look(s) \/ Tidy(s)
    PROVE  WsInv'
<1> USE DEF netWSConnect, Upgrade, TakeConn, Fail, ReadSync, Look, Tidy, Reader, Drop,
            InCode, otherVars, socketVars, readerVars, serverVars, programVars, storyVars
<1>0. StoryOK(s)
  BY DEF WsInv
<1>1. WsTypeOK'
  BY SocketAssumption
  DEF WsInv, WsTypeOK, TypeOther, TypeReaders, TypeProgram, TypeSets, Places
<1>2. ListOK'
  <2>1. /\ reader \in [Sockets -> Places] /\ closed \subseteq Sockets
        /\ clients \subseteq Sockets /\ known \subseteq Sockets /\ call.left \subseteq Sockets
        /\ \A i \in DOMAIN queue : queue[i].socket \in Sockets
    BY Kinds DEF WsInv, WsTypeOK, TypeOther, TypeSets, Calls
  <2>2. CASE ~Tidy(s)
    <3>1. \A t \in Sockets : ~Fresh(t) => ~Fresh(t)'
      BY <2>1, <2>2 DEF Places, Fresh
    <3>2. \A t \in Sockets \ Outgoing : ~Fresh(t)' => ~Fresh(t)
      BY <2>1, <2>2 DEF Places, Fresh
    <3>3. \A t \in Sockets : reader'[t] = "tidy" <=> reader[t] = "tidy"
      BY <2>1, <2>2 DEF Places
    <3>4. known' = known \/ (known' = known \cup {s} /\ ~Fresh(s)')
      BY <2>1, <2>2 DEF Fresh
    <3>5. UNCHANGED <<closed, clients, call, dismissed, queue>>
      BY <2>2
    <3> QED
      <4>1. \A t \in (closed \cup clients \cup known \cup call.left)' : ~Fresh(t)'
        BY <2>1, <3>1, <3>4, <3>5 DEF WsInv, ListOK
      <4>2. \A i \in DOMAIN queue' : ~Fresh(queue[i].socket)'
        BY <2>1, <3>1, <3>5 DEF WsInv, ListOK
      <4>3. \A t \in Sockets \ Outgoing : ~Fresh(t)' => t \in clients' \cup closed'
        BY <3>2, <3>5 DEF WsInv, ListOK
      <4>4. \A t \in clients' : t \in closed' => call'.socket = t \/ reader'[t] = "tidy"
        BY <2>1, <3>3, <3>5 DEF WsInv, ListOK
      <4>5. \A t \in Sockets : reader'[t] = "tidy" => t \in closed'
        BY <3>3, <3>5 DEF WsInv, ListOK
      <4> QED BY <4>1, <4>2, <4>3, <4>4, <4>5, <3>5 DEF WsInv, ListOK, Fresh
  <2>3. CASE Tidy(s)
    BY <2>1, <2>3 DEF Places, WsInv, WsTypeOK, TypeReaders, TypeSets, ListOK, Fresh
  <2> QED BY <2>2, <2>3
<1>3. QueueOK'
  BY DEF WsInv, QueueOK
<1>4. \A t \in Sockets \ {s} : StoryOK(t)'
  BY OneReader, Kinds
<1>5. DueOK(s)'
  BY <1>0, Kinds DEF StoryOK, DueOK, Fresh, Telling
<1>6. DueInOrder(s)' /\ ToldInOrder(s)' /\ PastOK(s)' /\ CloseOK(s)'
  BY OwnReader
<1>7. WayOK(s)'
  <2>1. Posted(s)' = Posted(s)
    BY DEF Posted
  <2>2. window \in {"closing", "closed"} /\ Posted(s) # {} => s \in hurried
    BY DEF WsInv, QueueOK, Posted
  <2>3. window = "none" => Posted(s) = {}
    BY DEF WsInv, QueueOK, Posted
  <2>4. window \in {"none", "open", "closing", "closed"}
    BY DEF WsInv, WsTypeOK, TypeProgram
  <2> QED BY <1>0, <2>1, <2>2, <2>3, <2>4, Kinds DEF StoryOK, WayOK
<1> QED BY <1>1, <1>2, <1>3, <1>4, <1>5, <1>6, <1>7 DEF WsInv, StoryOK

-----------------------------------------------------------------------------
(* The program closes a socket *)

\* A socket that was open has told of no close, and will not.
LEMMA Closes ==
    ASSUME WsInv, NEW s \in Sockets, wsConnClose(s) \/ StopClient(s)
    PROVE  WsInv'
<1> DEFINE stop1 == [k |-> "stop", left |-> call.left \ {s}, socket |-> Nobody]
           stop2 == [k |-> "stop", left |-> call.left \ {s}, socket |-> s]
           close == [k |-> "close", left |-> {}, socket |-> s]
<1>1. /\ call.left \subseteq Sockets /\ call.socket \in Sockets \cup {Nobody}
      /\ closed \subseteq Sockets /\ clients \subseteq Sockets /\ known \subseteq Sockets
      /\ Nobody \notin Sockets
  BY SocketAssumption DEF WsInv, WsTypeOK, TypeOther, TypeSets, Calls
<1>2. \/ call' = close /\ call = NoCall /\ s \in known \ closed /\ Mark(s)
      \/ call' = stop1 /\ call.k = "stop" /\ call.socket = Nobody /\ s \in call.left
         /\ s \in closed /\ UNCHANGED <<closed, byProgram>>
      \/ call' = stop2 /\ call.k = "stop" /\ call.socket = Nobody /\ s \in call.left
         /\ s \notin closed /\ Mark(s)
  <2>1. CASE wsConnClose(s)
    BY <2>1 DEF wsConnClose, InCode
  <2>2. CASE StopClient(s)
    BY <2>2 DEF StopClient
  <2> QED BY <2>1, <2>2
<1>3. /\ UNCHANGED <<otherVars, cut, hooks, readerVars, serverVars, runner, at, window, queue>>
      /\ UNCHANGED <<known, told, hurried, dismissed>>
  BY DEF wsConnClose, StopClient
<1>4. WsTypeOK'
  <2>1. stop1 \in Calls /\ stop2 \in Calls /\ close \in Calls
    BY <1>1 DEF Calls
  <2>2. call' \in Calls /\ closed' \subseteq Sockets /\ byProgram' \subseteq Sockets
    BY <1>1, <1>2, <2>1 DEF Mark, WsInv, WsTypeOK, TypeSets
  <2> QED BY <2>2, <1>3 DEF otherVars, readerVars, serverVars, WsInv, WsTypeOK, TypeOther,
                            TypeReaders, TypeProgram, TypeSets
<1>5. ListOK'
  <2>1. UNCHANGED <<reader, clients, known, dismissed, queue>>
    BY <1>3 DEF readerVars, serverVars
  <2>2. CASE call' = close /\ call = NoCall /\ s \in known \ closed /\ Mark(s)
    BY <1>1, <2>1, <2>2 DEF Mark, NoCall, WsInv, ListOK, Fresh
  <2>3. CASE /\ call' = stop1 /\ call.k = "stop" /\ call.socket = Nobody /\ s \in call.left
             /\ s \in closed /\ UNCHANGED <<closed, byProgram>>
    BY <1>1, <2>1, <2>3 DEF WsInv, ListOK, Fresh
  <2>4. CASE /\ call' = stop2 /\ call.k = "stop" /\ call.socket = Nobody /\ s \in call.left
             /\ s \notin closed /\ Mark(s)
    BY <1>1, <2>1, <2>4 DEF Mark, WsInv, ListOK, Fresh
  <2> QED BY <1>2, <2>2, <2>3, <2>4
<1>6. QueueOK'
  BY <1>3 DEF WsInv, QueueOK
<1>7. \A t \in Sockets \ {s} : StoryOK(t)'
  BY <1>2, <1>3, OneReader DEF Mark, readerVars
<1>8. StoryOK(s)'
  <2>1. StoryOK(s)
    BY DEF WsInv
  <2>2. UNCHANGED <<reader, seen, due, via, queue, window, told, hurried>>
    BY <1>3 DEF readerVars
  <2>3. Posted(s)' = Posted(s)
    BY <2>2 DEF Posted
  <2>4. DueOK(s)' /\ PastOK(s)' /\ WayOK(s)'
    BY <2>1, <2>2, <2>3 DEF StoryOK, DueOK, PastOK, WayOK, Fresh
  <2>5. DueInOrder(s)' /\ ToldInOrder(s)'
    BY <2>1, <2>2, <2>3, SameOrder DEF StoryOK
  <2>6. CloseOK(s)'
    BY <1>2, <2>1, <2>2, <2>3 DEF StoryOK, CloseOK, Mark
  <2> QED BY <2>4, <2>5, <2>6 DEF StoryOK
<1> QED BY <1>4, <1>5, <1>6, <1>7, <1>8 DEF WsInv

-----------------------------------------------------------------------------
(* The goroutine of a socket has something new to tell *)

\* What is new comes after what was told and posted.
LEMMA NewDue ==
    ASSUME WsInv, NEW s \in Sockets, reader[s] \in {"upgraded", "receive", "end"},
           NEW new \in Seq(Events), due'[s] = new,
           UNCHANGED <<queue, told, hurried>>,
           \A i, j \in DOMAIN new : i < j => Before(new[i], new[j]),
           ~Fresh(s) => \A i \in DOMAIN new : new[i].n > seen[s]
    PROVE  DueInOrder(s)' /\ ToldInOrder(s)'
<1>0. StoryOK(s)
  BY DEF WsInv
<1>1. Posted(s)' = Posted(s) /\ (Fresh(s) => Posted(s) = {} /\ DOMAIN told[s] = {})
  BY <1>0, Kinds DEF Posted, WsInv, ListOK, StoryOK, DueOK
<1>2. \A j \in DOMAIN new : new[j].n \in Nat
  BY EventSeqs
<1>3. /\ \A i \in Posted(s) : queue[i].n \in Nat /\ queue[i].n <= seen[s]
      /\ \A i \in DOMAIN told[s] : told[s][i].n \in Nat /\ told[s][i].n <= seen[s]
  BY <1>0, Kinds DEF StoryOK, PastOK, Posted
<1>4. \A i \in Posted(s), j \in DOMAIN new : Before(queue[i], new[j])
  <2> SUFFICES ASSUME NEW i \in Posted(s), NEW j \in DOMAIN new, ~Fresh(s)
               PROVE  Before(queue[i], new[j])
    BY <1>1
  <2>1. queue[i].n < new[j].n
    BY <1>2, <1>3, Kinds
  <2> QED BY <2>1, Later
<1>5. \A i \in DOMAIN told[s], j \in DOMAIN new : Before(told[s][i], new[j])
  <2> SUFFICES ASSUME NEW i \in DOMAIN told[s], NEW j \in DOMAIN new, ~Fresh(s)
               PROVE  Before(told[s][i], new[j])
    BY <1>1
  <2>1. told[s][i].n < new[j].n
    BY <1>2, <1>3, Kinds
  <2> QED BY <2>1, Later
<1>6. DueInOrder(s)'
  <2>1. \A i \in Posted(s)', j \in DOMAIN due'[s] : Before(queue'[i], due'[s][j])
    BY <1>1, <1>4
  <2>2. \A i \in DOMAIN told'[s], j \in DOMAIN due'[s] : Before(told'[s][i], due'[s][j])
    BY <1>5
  <2>3. \A i, j \in DOMAIN due'[s] : i < j => Before(due'[s][i], due'[s][j])
    OBVIOUS
  <2>4. \A i, j \in Posted(s)' : i < j => Before(queue'[i], queue'[j])
    BY <1>0, <1>1 DEF StoryOK, DueInOrder
  <2> QED BY <2>1, <2>2, <2>3, <2>4 DEF DueInOrder, Before
<1>7. ToldInOrder(s)'
  <2>1. s \notin hurried' =>
           /\ \A i, j \in DOMAIN told'[s] : i < j => Before(told'[s][i], told'[s][j])
           /\ \A i \in DOMAIN told'[s], j \in Posted(s)' : Before(told'[s][i], queue'[j])
    BY <1>0, <1>1 DEF StoryOK, ToldInOrder
  <2> QED BY <2>1 DEF ToldInOrder, Before
<1> QED BY <1>6, <1>7

\* A message is told to the socket's callback and to the server's, as far as they are set.
LEMMA ReceiveKeeps ==
    ASSUME WsInv, NEW s \in Sockets, Receive(s)
    PROVE  WsInv'
<1> DEFINE n == seen[s] + 1
           own == Told(s, "message", n)
           any == Told(s, "any message", n)
           mine == IF "message" \in hooks[s] THEN <<own>> ELSE <<>>
           theirs == IF s \notin Outgoing /\ "message" \in serverHooks THEN <<any>> ELSE <<>>
           new == mine \o theirs
<1>0. StoryOK(s)
  BY DEF WsInv
<1>1. seen[s] \in Nat /\ n \in Nat /\ own \in Events /\ any \in Events
  <2>1. seen[s] \in Nat /\ n \in Nat
    BY Kinds
  <2> QED BY <2>1 DEF Events, Told
<1>2. /\ mine \in Seq(Events) /\ Len(mine) \in 0 .. 1 /\ (Len(mine) = 1 => mine[1] = own)
      /\ theirs \in Seq(Events) /\ Len(theirs) \in 0 .. 1
      /\ (Len(theirs) = 1 => theirs[1] = any)
  <2> HIDE DEF own, any
  <2> QED BY <1>1, EmptySeq
<1>3. /\ new \in Seq(Events)
      /\ \A i \in DOMAIN new : new[i] \in {own, any}
      /\ \A i, j \in DOMAIN new : i < j => new[i] = own /\ new[j] = any
  <2> HIDE DEF own, any, mine, theirs
  <2>1. /\ new \in Seq(Events) /\ Len(new) = Len(mine) + Len(theirs)
        /\ \A i \in 1 .. Len(mine) + Len(theirs) :
              new[i] = IF i <= Len(mine) THEN mine[i] ELSE theirs[i - Len(mine)]
    BY <1>2, ConcatProperties
  <2>2. DOMAIN new = 1 .. Len(mine) + Len(theirs)
    BY <2>1
  <2> HIDE DEF new
  <2> QED BY <1>2, <2>1, <2>2
<1>4. /\ \A e \in {own, any} : e.socket = s /\ e.n = n /\ e.what # "close"
      /\ Before(own, any)
  BY DEF Told, Before
<1>5. /\ reader[s] = "receive" /\ seen[s] < sent[s]
      /\ seen' = [seen EXCEPT ![s] = n] /\ due' = [due EXCEPT ![s] = new]
      /\ reader' = [reader EXCEPT ![s] = IF new # <<>> THEN "tell" ELSE "read"]
      /\ UNCHANGED <<otherVars, socketVars, via, serverVars, runner, programVars, storyVars>>
  BY DEF Receive, Tell, Reader
<1> HIDE DEF new, mine, theirs, own, any, n
<1>6. WsTypeOK'
  <2>1. seen'[s] = n /\ n <= sent[s]
    BY <1>1, <1>5, Kinds DEF n, WsInv, WsTypeOK, TypeOther
  <2>2. TypeReaders'
    BY <1>1, <1>3, <1>5, <2>1 DEF otherVars, WsInv, WsTypeOK, TypeReaders, Places
  <2> QED BY <1>5, <2>2 DEF otherVars, socketVars, serverVars, programVars, storyVars,
                            WsInv, WsTypeOK, TypeOther, TypeProgram, TypeSets
<1>7. ListOK'
  <2>1. \A t \in Sockets :
           (Fresh(t)' <=> Fresh(t)) /\ (reader'[t] = "tidy" <=> reader[t] = "tidy")
    BY <1>5, Kinds DEF Fresh
  <2> QED BY <1>5, <2>1, Kinds
          DEF socketVars, serverVars, programVars, storyVars, WsInv, WsTypeOK, TypeOther,
              TypeSets, Calls, ListOK
<1>8. QueueOK'
  BY <1>5 DEF programVars, storyVars, WsInv, QueueOK
<1>9. \A t \in Sockets \ {s} : StoryOK(t)'
  BY <1>5, OneReader, Kinds DEF socketVars, programVars, storyVars
<1>10. StoryOK(s)'
  <2>1. /\ due'[s] = new /\ seen'[s] = n /\ seen[s] < n
        /\ reader'[s] = IF new # <<>> THEN "tell" ELSE "read"
    BY <1>1, <1>5, Kinds DEF n
  <2>2. DueOK(s)'
    <3>1. reader'[s] \in {"tell", "read"} /\ (reader'[s] = "tell" <=> new # <<>>)
      BY <2>1
    <3>2. \A i \in DOMAIN new : new[i].socket = s /\ new[i].what # "close" /\ new[i].n <= n
      BY <1>1, <1>3, <1>4
    <3> QED BY <2>1, <3>1, <3>2 DEF DueOK, Fresh, Telling
  <2>3. DueInOrder(s)' /\ ToldInOrder(s)'
    BY <1>1, <1>3, <1>4, <1>5, <2>1, NewDue DEF programVars, storyVars
  <2>4. Posted(s)' = Posted(s)
    BY <1>5 DEF Posted, programVars
  <2>5. PastOK(s)'
    <3>1. /\ \A i \in Posted(s) : queue[i].n \in Nat /\ queue[i].n <= seen[s]
          /\ \A i \in DOMAIN told[s] : told[s][i].n \in Nat /\ told[s][i].n <= seen[s]
      BY <1>0, <1>5, Kinds DEF StoryOK, PastOK, Posted
    <3>2. /\ \A i \in Posted(s) : queue[i].n <= n
          /\ \A i \in DOMAIN told[s] : told[s][i].n <= n
      BY <1>1, <2>1, <3>1
    <3> QED BY <1>5, <2>1, <2>4, <3>2 DEF PastOK, programVars, storyVars
  <2>6. CloseOK(s)'
    BY <1>0, <1>3, <1>4, <1>5, <2>1, <2>4
    DEF StoryOK, CloseOK, socketVars, programVars, storyVars
  <2>7. WayOK(s)'
    BY <1>0, <1>5, <2>1, <2>4 DEF StoryOK, WayOK, programVars, storyVars
  <2> QED BY <2>2, <2>3, <2>5, <2>6, <2>7 DEF StoryOK
<1> QED BY <1>6, <1>7, <1>8, <1>9, <1>10 DEF WsInv

\* A connection enters the list and the goroutine has the connect to tell.
LEMMA RegisterKeeps ==
    ASSUME WsInv, NEW s \in Sockets, Register(s)
    PROVE  WsInv'
<1> DEFINE first == Told(s, "connect", 0)
           new == IF "connect" \in serverHooks THEN <<first>> ELSE <<>>
<1>0. StoryOK(s)
  BY DEF WsInv
<1>1. first \in Events /\ first.socket = s /\ first.n = 0 /\ first.what # "close"
  BY DEF Events, Told
<1>2. /\ reader[s] = "upgraded" /\ clients' = clients \cup {s}
      /\ due' = [due EXCEPT ![s] = new]
      /\ reader' = [reader EXCEPT ![s] = IF new # <<>> THEN "tell" ELSE "read"]
      /\ UNCHANGED <<otherVars, socketVars, seen, via, server, serverHooks, runner,
                     programVars, storyVars>>
  BY DEF Register, Tell, Reader
<1>3. /\ new \in Seq(Events)
      /\ (Len(new) = 1 /\ new[1] = first) \/ (Len(new) = 0 /\ new = <<>>)
      /\ \A i \in DOMAIN new : i = 1 /\ new[i] = first
  <2> HIDE DEF first
  <2> QED BY <1>1, EmptySeq
<1> HIDE DEF new, first
<1>4. WsTypeOK'
  <2>1. TypeReaders'
    BY <1>2, <1>3 DEF otherVars, WsInv, WsTypeOK, TypeReaders, Places
  <2> QED BY <1>2, <2>1 DEF otherVars, socketVars, programVars, storyVars,
                            WsInv, WsTypeOK, TypeOther, TypeProgram, TypeSets
<1>5. ListOK'
  <2>1. \A t \in Sockets : ~Fresh(t) => ~Fresh(t)'
    BY <1>2, Kinds DEF Fresh
  <2>2. \A t \in Sockets \ {s} : ~Fresh(t)' => ~Fresh(t)
    BY <1>2, Kinds DEF Fresh
  <2>3. \A t \in Sockets : reader'[t] = "tidy" <=> reader[t] = "tidy"
    BY <1>2, Kinds
  <2>4. ~Fresh(s)' /\ s \notin closed
    BY <1>2, Kinds DEF Fresh, WsInv, ListOK
  <2> QED BY <1>2, <2>1, <2>2, <2>3, <2>4, Kinds
          DEF socketVars, programVars, storyVars, WsInv, WsTypeOK, TypeOther, TypeSets,
              Calls, ListOK
<1>6. QueueOK'
  BY <1>2 DEF programVars, storyVars, WsInv, QueueOK
<1>7. \A t \in Sockets \ {s} : StoryOK(t)'
  BY <1>2, OneReader, Kinds DEF socketVars, programVars, storyVars
<1>8. StoryOK(s)'
  <2>1. /\ due'[s] = new /\ seen'[s] = 0 /\ told[s] = <<>>
        /\ reader'[s] = IF new # <<>> THEN "tell" ELSE "read"
    BY <1>0, <1>2, Kinds DEF StoryOK, DueOK, Fresh
  <2>2. Posted(s)' = {} /\ Posted(s) = {}
    BY <1>2 DEF Posted, Fresh, programVars, WsInv, ListOK
  <2>3. DueOK(s)'
    <3>1. reader'[s] \in {"tell", "read"} /\ (reader'[s] = "tell" <=> new # <<>>)
      BY <2>1
    <3> QED BY <1>1, <1>3, <2>1, <3>1 DEF DueOK, Fresh, Telling
  <2>4. DueInOrder(s)' /\ ToldInOrder(s)'
    BY <1>2, <1>3, <2>1, NewDue DEF Fresh, programVars, storyVars
  <2>5. told'[s] = <<>> /\ DOMAIN told'[s] = {}
    BY <1>2, <2>1 DEF storyVars
  <2>6. PastOK(s)'
    BY <2>2, <2>5 DEF PastOK
  <2>7. CloseOK(s)'
    BY <1>0, <1>1, <1>2, <1>3, <2>1, <2>2, <2>5
    DEF StoryOK, CloseOK, socketVars, programVars, storyVars
  <2>8. WayOK(s)'
    BY <1>0, <1>2, <2>1, <2>2 DEF StoryOK, WayOK, programVars, storyVars
  <2> QED BY <2>3, <2>4, <2>6, <2>7, <2>8 DEF StoryOK
<1> QED BY <1>4, <1>5, <1>6, <1>7, <1>8 DEF WsInv

\* The goroutine ends: who marks the socket closed is to tell of it.
LEMMA EndKeeps ==
    ASSUME WsInv, NEW s \in Sockets, End(s)
    PROVE  WsInv'
<1> DEFINE last == Told(s, "close", MaxMessages + 1)
           new == IF TellsClose(s) THEN <<last>> ELSE <<>>
<1>0. StoryOK(s)
  BY DEF WsInv
<1>1. last \in Events /\ last.socket = s /\ last.n = MaxMessages + 1 /\ last.what = "close"
  BY SocketAssumption DEF Events, Told
<1>2. /\ reader[s] = "end" /\ closed' = closed \cup {s}
      /\ due' = [due EXCEPT ![s] = new] /\ reader' = [reader EXCEPT ![s] = "tidy"]
      /\ UNCHANGED <<otherVars, cut, hooks, seen, via, serverVars, runner, programVars,
                     storyVars>>
  BY DEF End, Reader
<1>3. /\ new \in Seq(Events)
      /\ (Len(new) = 1 /\ new[1] = last) \/ (Len(new) = 0 /\ new = <<>>)
      /\ \A i \in DOMAIN new : i = 1 /\ new[i] = last
      /\ new # <<>> => s \notin closed
  <2> HIDE DEF last
  <2> QED BY <1>1, EmptySeq DEF TellsClose
<1>n. seen[s] \in Nat /\ seen[s] < MaxMessages + 1
  BY SocketAssumption DEF WsInv, WsTypeOK, TypeOther, TypeReaders
<1> HIDE DEF new, last
<1>4. WsTypeOK'
  <2>1. TypeReaders' /\ closed' \subseteq Sockets
    BY <1>2, <1>3 DEF otherVars, WsInv, WsTypeOK, TypeReaders, TypeOther, Places
  <2> QED BY <1>2, <2>1 DEF otherVars, serverVars, programVars, storyVars,
                            WsInv, WsTypeOK, TypeOther, TypeProgram, TypeSets
<1>5. ListOK'
  <2>1. \A t \in Sockets : Fresh(t)' <=> Fresh(t)
    BY <1>2, Kinds DEF Fresh
  <2>2. \A t \in Sockets \ {s} : reader'[t] = reader[t]
    BY <1>2, Kinds
  <2>3. ~Fresh(s) /\ reader'[s] = "tidy"
    BY <1>2, Kinds DEF Fresh
  <2> QED BY <1>2, <2>1, <2>2, <2>3, Kinds
          DEF serverVars, programVars, storyVars, WsInv, WsTypeOK, TypeOther, TypeSets,
              Calls, ListOK
<1>6. QueueOK'
  BY <1>2 DEF programVars, storyVars, WsInv, QueueOK
<1>7. \A t \in Sockets \ {s} : StoryOK(t)'
  BY <1>2, OneReader, Kinds DEF programVars, storyVars
<1>8. StoryOK(s)'
  <2>1. /\ due'[s] = new /\ seen'[s] = seen[s] /\ reader'[s] = "tidy"
        /\ UNCHANGED <<queue, window, told, hurried, byProgram, via>>
    BY <1>2, Kinds DEF programVars, storyVars
  <2>2. Posted(s)' = Posted(s)
    BY <2>1 DEF Posted
  <2>3. DueOK(s)'
    <3>1. \A i \in DOMAIN new : new[i].socket = s
      BY <1>1, <1>3
    <3>2. \/ new = <<>> /\ DOMAIN new = {}
          \/ Len(new) = 1 /\ new[1].what = "close" /\ new[1].n = MaxMessages + 1
      BY <1>1, <1>3
    <3> QED BY <2>1, <3>1, <3>2 DEF DueOK, Fresh, Telling
  <2>4. DueInOrder(s)' /\ ToldInOrder(s)'
    BY <1>1, <1>2, <1>3, <1>n, <2>1, NewDue
  <2>5. PastOK(s)'
    BY <1>0, <1>2, <2>1, <2>2 DEF StoryOK, PastOK
  <2>6. CloseOK(s)'
    <3>1. s \in closed' /\ (new # <<>> => s \notin byProgram)
      BY <1>0, <1>2, <1>3 DEF StoryOK, CloseOK
    <3>2. \A i \in DOMAIN new : new # <<>>
      BY <1>3
    <3> QED BY <1>0, <2>1, <2>2, <3>1, <3>2 DEF StoryOK, CloseOK
  <2>7. WayOK(s)'
    BY <1>0, <2>1, <2>2 DEF StoryOK, WayOK
  <2> QED BY <2>3, <2>4, <2>5, <2>6, <2>7 DEF StoryOK
<1> QED BY <1>4, <1>5, <1>6, <1>7, <1>8 DEF WsInv

-----------------------------------------------------------------------------
(* What is due is told *)

\* The head of what is due, and what remains once it is told.
LEMMA TellingHead ==
    ASSUME WsInv, NEW s \in Sockets, reader[s] \in Telling
    PROVE  /\ Head(due[s]) = due[s][1] /\ 1 \in DOMAIN due[s]
           /\ due[s][1] \in Events /\ due[s][1].socket = s
           /\ due[s][1].what = "close" => Len(due[s]) = 1 /\ due[s][1].n = MaxMessages + 1
           /\ due[s][1].what # "close" => due[s][1].n <= seen[s]
           /\ \A i \in DOMAIN Tail(due[s]) :
                 i \in Nat \ {0} /\ i + 1 \in DOMAIN due[s] /\ Tail(due[s])[i] = due[s][i + 1]
           /\ Tail(due[s]) \in Seq(Events)
           /\ Tail(due[s]) # <<>> => due[s][1].what # "close"
<1>1. DueOK(s) /\ due[s] # <<>> /\ due[s] \in Seq(Events)
  BY Kinds DEF WsInv, StoryOK, DueOK
<1>2. /\ Len(due[s]) \in Nat \ {0} /\ 1 \in DOMAIN due[s] /\ Head(due[s]) = due[s][1]
      /\ due[s][1] \in Events
      /\ Tail(due[s]) \in Seq(Events) /\ Len(Tail(due[s])) = Len(due[s]) - 1
      /\ DOMAIN Tail(due[s]) = 1 .. Len(due[s]) - 1
      /\ \A i \in DOMAIN Tail(due[s]) :
            i + 1 \in DOMAIN due[s] /\ Tail(due[s])[i] = due[s][i + 1]
  BY <1>1, QueueHead
<1>3. Tail(due[s]) # <<>> => Len(due[s]) # 1
  BY <1>2, EmptySeq
<1> QED BY <1>1, <1>2, <1>3 DEF DueOK

LEMMA AfterTells ==
    ASSUME WsInv, NEW s \in Sockets, reader[s] \in Telling, AfterTelling(s),
           UNCHANGED <<seen, via, sent>>
    PROVE  /\ TypeReaders'
           /\ \A t \in Sockets \ {s} : due'[t] = due[t] /\ reader'[t] = reader[t]
           /\ due'[s] = Tail(due[s])
           /\ reader'[s] \in {"tell", "read", "over"}
           /\ due[s][1].what = "close" => reader'[s] = "over"
           /\ DueOK(s)'
<1> DEFINE rest == Tail(due[s])
<1>1. /\ due' = [due EXCEPT ![s] = rest] /\ due'[s] = rest
      /\ reader'[s] = CASE rest # <<>> -> "tell"
                        [] rest = <<>> /\ due[s][1].what = "close" -> "over"
                        [] OTHER -> "read"
      /\ \A t \in Sockets \ {s} : due'[t] = due[t] /\ reader'[t] = reader[t]
      /\ reader' \in [Sockets -> Places] /\ rest \in Seq(Events)
  BY Kinds, TellingHead DEF AfterTelling, Reader, Places
<1>2. /\ reader'[s] \in {"tell", "read", "over"} /\ (reader'[s] = "tell" <=> rest # <<>>)
      /\ due[s][1].what = "close" => reader'[s] = "over"
  BY <1>1, TellingHead
<1>3. TypeReaders'
  BY <1>1 DEF WsInv, WsTypeOK, TypeReaders
<1>4. /\ \A i \in DOMAIN rest : rest[i].socket = s
      /\ \A i \in DOMAIN rest : rest[i].what # "close" /\ rest[i].n <= seen[s]
  <2>1. DueOK(s)
    BY DEF WsInv, StoryOK
  <2>2. \A i \in DOMAIN rest : rest # <<>> /\ i \in Nat \ {0} /\ i + 1 \in DOMAIN due[s]
                               /\ rest[i] = due[s][i + 1]
    BY TellingHead, EmptySeq
  <2>3. rest # <<>> => ~(Len(due[s]) = 1 /\ due[s][1].what = "close")
    BY TellingHead
  <2> HIDE DEF rest
  <2> QED BY <2>1, <2>2, <2>3 DEF DueOK
<1> HIDE DEF rest
<1>5. DueOK(s)'
  BY <1>1, <1>2, <1>4 DEF DueOK, Telling, Fresh
<1> QED BY <1>1, <1>2, <1>3, <1>5 DEF rest

\* The list of clients does not change with what is told.
LEMMA TellingList ==
    ASSUME WsInv, NEW s \in Sockets, reader[s] \in Telling,
           reader'[s] \notin {"off", "upgraded", "tidy"},
           \A t \in Sockets \ {s} : reader'[t] = reader[t],
           UNCHANGED <<closed, clients, call, dismissed>>,
           known' \subseteq known \cup {s},
           \A i \in DOMAIN queue' : queue'[i].socket = s
                                    \/ \E j \in DOMAIN queue : queue'[i] = queue[j]
    PROVE  ListOK'
<1>1. \A t \in Sockets : Fresh(t)' <=> Fresh(t)
  BY DEF Fresh, Telling
<1>2. \A t \in Sockets : reader'[t] = "tidy" <=> reader[t] = "tidy"
  BY DEF Telling
<1>3. ~Fresh(s) /\ ~Fresh(s)'
  BY DEF Fresh, Telling
<1>4. \A i \in DOMAIN queue' : ~Fresh(queue'[i].socket) /\ queue'[i].socket \in Sockets
  BY <1>3, Kinds DEF WsInv, ListOK
<1> QED
  <2>1. \A t \in (closed \cup clients \cup known \cup call.left)' : ~Fresh(t)'
    BY <1>1, <1>3 DEF WsInv, WsTypeOK, TypeOther, TypeSets, Calls, ListOK
  <2>2. \A i \in DOMAIN queue' : ~Fresh(queue[i].socket)'
    BY <1>1, <1>4 DEF Fresh
  <2>3. \A t \in Sockets \ Outgoing : ~Fresh(t)' => t \in clients' \cup closed'
    BY <1>1 DEF WsInv, ListOK
  <2>4. \A t \in clients' : t \in closed' => call'.socket = t \/ reader'[t] = "tidy"
    BY <1>2 DEF WsInv, WsTypeOK, TypeSets, ListOK
  <2>5. \A t \in Sockets : reader'[t] = "tidy" => t \in closed'
    BY <1>2 DEF WsInv, ListOK
  <2> QED BY <2>1, <2>2, <2>3, <2>4, <2>5 DEF WsInv, ListOK

\* The goroutine leaves Yod code, which has heard the head of what was due.
LEMMA LeaveKeeps ==
    ASSUME WsInv, NEW s \in Sockets, LeaveCode(s)
    PROVE  WsInv'
<1>0. StoryOK(s)
  BY DEF WsInv
<1>1. /\ reader[s] = "in" /\ reader[s] \in Telling /\ AfterTelling(s)
      /\ runner' = Nobody
      /\ UNCHANGED <<otherVars, socketVars, seen, via, serverVars, programVars, storyVars>>
  BY DEF LeaveCode, Telling, Lock!Yield
<1>2. UNCHANGED <<seen, via, sent, queue, window, told, hurried, closed, byProgram>>
  BY <1>1 DEF otherVars, socketVars, programVars, storyVars
<1>3. /\ TypeReaders' /\ DueOK(s)' /\ due'[s] = Tail(due[s])
      /\ reader'[s] \in {"tell", "read", "over"}
      /\ due[s][1].what = "close" => reader'[s] = "over"
      /\ \A t \in Sockets \ {s} : due'[t] = due[t] /\ reader'[t] = reader[t]
  BY <1>1, <1>2, AfterTells
<1>4. WsTypeOK'
  BY <1>1, <1>3
  DEF otherVars, socketVars, serverVars, programVars, storyVars, WsInv, WsTypeOK, TypeOther,
      TypeProgram, TypeSets
<1>5. ListOK'
  BY <1>1, <1>3, TellingList DEF socketVars, serverVars, programVars, storyVars
<1>6. QueueOK'
  BY <1>1 DEF programVars, storyVars, WsInv, QueueOK
<1>7. \A t \in Sockets \ {s} : StoryOK(t)'
  BY <1>2, <1>3, OneReader
<1>8. Posted(s)' = Posted(s)
  BY <1>2 DEF Posted
<1>9. \A i \in DOMAIN due'[s] :
         i \in Nat \ {0} /\ i + 1 \in DOMAIN due[s] /\ i + 1 # 1 /\ due'[s][i] = due[s][i + 1]
  BY <1>1, <1>3, TellingHead
<1>10. DueInOrder(s)'
  <2>0. DueInOrder(s)
    BY <1>0 DEF StoryOK
  <2>1. \A i \in Posted(s)', j \in DOMAIN due'[s] : Before(queue'[i], due'[s][j])
    BY <1>2, <1>8, <1>9, <2>0 DEF DueInOrder
  <2>2. \A i \in DOMAIN told'[s], j \in DOMAIN due'[s] : Before(told'[s][i], due'[s][j])
    BY <1>2, <1>9, <2>0 DEF DueInOrder
  <2>3. \A i, j \in DOMAIN due'[s] : i < j => Before(due'[s][i], due'[s][j])
    <3>1. \A i, j \in DOMAIN due'[s] : i < j => i + 1 < j + 1
      BY <1>9
    <3> QED BY <1>9, <2>0, <3>1 DEF DueInOrder
  <2>4. \A i, j \in Posted(s)' : i < j => Before(queue'[i], queue'[j])
    BY <1>2, <1>8, <2>0 DEF DueInOrder
  <2> QED BY <2>1, <2>2, <2>3, <2>4 DEF DueInOrder, Before
<1>11. ToldInOrder(s)'
  <2>1. s \notin hurried' =>
           /\ \A i, j \in DOMAIN told'[s] : i < j => Before(told'[s][i], told'[s][j])
           /\ \A i \in DOMAIN told'[s], j \in Posted(s)' : Before(told'[s][i], queue'[j])
    BY <1>0, <1>2, <1>8 DEF StoryOK, ToldInOrder
  <2> QED BY <2>1 DEF ToldInOrder, Before
<1>12. PastOK(s)'
  BY <1>0, <1>1, <1>2, <1>3, <1>8 DEF StoryOK, PastOK
<1>13. CloseOK(s)'
  BY <1>0, <1>2, <1>8, <1>9 DEF StoryOK, CloseOK
<1>14. WayOK(s)'
  BY <1>0, <1>2, <1>3, <1>8 DEF StoryOK, WayOK
<1> QED BY <1>3, <1>4, <1>5, <1>6, <1>7, <1>10, <1>11, <1>12, <1>13, <1>14
        DEF WsInv, StoryOK

\* The goroutine enters Yod code, which hears the head of what is due: nothing that is
\* posted is before it.
LEMMA EnterKeeps ==
    ASSUME WsInv, NEW s \in Sockets, Enter(s)
    PROVE  WsInv'
<1> DEFINE e == due[s][1]
<1>0. StoryOK(s)
  BY DEF WsInv
<1>1. /\ reader[s] = "enter" /\ reader[s] \in Telling
      /\ reader' = [reader EXCEPT ![s] = "in"] /\ runner' = s
      /\ UNCHANGED <<otherVars, socketVars, seen, due, via, serverVars, programVars,
                     byProgram, hurried, dismissed>>
  BY DEF Enter, Reader, Hears, Telling, Lock!Grant
<1>2. /\ e \in Events /\ e.socket = s
      /\ told' = [told EXCEPT ![s] = Append(@, e)]
      /\ known' \subseteq known \cup {s}
  BY <1>1, TellingHead DEF Enter, Hears
<1>3. /\ UNCHANGED <<queue, window, closed>>
      /\ reader'[s] = "in" /\ told'[s] = Append(told[s], e)
      /\ \A t \in Sockets \ {s} : reader'[t] = reader[t] /\ told'[t] = told[t]
  BY <1>1, <1>2, Kinds DEF socketVars, programVars
<1>4. WsTypeOK'
  <2>1. reader' \in [Sockets -> Places]
    BY <1>1, Kinds DEF Places
  <2>2. told[s] \in Seq(Events) /\ Append(told[s], e) \in Seq(Events)
    BY <1>2, Kinds
  <2>3. told' \in [Sockets -> Seq(Events)]
    BY <1>2, <2>2, Kinds
  <2> QED BY <1>1, <1>2, <2>1, <2>3
          DEF otherVars, socketVars, serverVars, programVars, WsInv, WsTypeOK, TypeOther,
              TypeReaders, TypeProgram, TypeSets
<1>5. ListOK'
  BY <1>1, <1>2, <1>3, TellingList DEF serverVars, programVars
<1>6. QueueOK'
  BY <1>1 DEF programVars, WsInv, QueueOK
<1>7. \A t \in Sockets \ {s} : StoryOK(t)'
  BY <1>1, <1>3, OneReader
<1>8. Posted(s)' = Posted(s) /\ (s \in hurried \/ Posted(s) = {})
  BY <1>0, <1>1, <1>3 DEF Posted, StoryOK, WayOK
<1>9. /\ DOMAIN told'[s] = 1 .. Len(told[s]) + 1 /\ Len(told[s]) \in Nat
      /\ \A i \in DOMAIN told'[s] :
            (i \in DOMAIN told[s] /\ told'[s][i] = told[s][i]) \/ (i = Len(told[s]) + 1 /\ told'[s][i] = e)
      /\ DOMAIN told[s] = 1 .. Len(told[s])
  BY <1>2, <1>3, Kinds, QueueEnd
<1> HIDE DEF e
<1>10. DueInOrder(s)'
  <2>0. DueInOrder(s)
    BY <1>0 DEF StoryOK
  <2>1. \A i \in Posted(s)', j \in DOMAIN due'[s] : Before(queue'[i], due'[s][j])
    BY <1>1, <1>3, <1>8, <2>0 DEF DueInOrder
  <2>2. \A i \in DOMAIN told'[s], j \in DOMAIN due'[s] : j # 1 => Before(told'[s][i], due'[s][j])
    <3>1. \A i \in DOMAIN told[s], j \in DOMAIN due[s] : Before(told[s][i], due[s][j])
      BY <1>1, <2>0 DEF DueInOrder
    <3>2. \A j \in DOMAIN due[s] : j # 1 => 1 < j
      BY Kinds
    <3>3. \A j \in DOMAIN due[s] : j # 1 => Before(e, due[s][j])
      BY <1>1, <2>0, <3>2, TellingHead DEF DueInOrder, e
    <3> QED BY <1>1, <1>9, <3>1, <3>3
  <2>3. \A i, j \in DOMAIN due'[s] : i < j => Before(due'[s][i], due'[s][j])
    BY <1>1, <2>0 DEF DueInOrder
  <2>4. \A i, j \in Posted(s)' : i < j => Before(queue'[i], queue'[j])
    BY <1>3, <1>8, <2>0 DEF DueInOrder
  <2> QED BY <1>3, <2>1, <2>2, <2>3, <2>4 DEF DueInOrder, Before
<1>11. ToldInOrder(s)'
  <2>1. \A i \in DOMAIN told[s] : Before(told[s][i], e)
    BY <1>0, <1>1, TellingHead DEF StoryOK, DueInOrder, e
  <2>2. s \notin hurried' =>
           \A i, j \in DOMAIN told'[s] : i < j => Before(told'[s][i], told'[s][j])
    <3> SUFFICES ASSUME s \notin hurried, NEW i \in DOMAIN told'[s], NEW j \in DOMAIN told'[s], i < j
                 PROVE  Before(told'[s][i], told'[s][j])
      BY <1>1
    <3>1. i \in DOMAIN told[s] /\ told'[s][i] = told[s][i]
      BY <1>9
    <3> QED BY <1>0, <1>9, <2>1, <3>1 DEF StoryOK, ToldInOrder
  <2>3. s \notin hurried' =>
           \A i \in DOMAIN told'[s], j \in Posted(s)' : Before(told'[s][i], queue'[j])
    BY <1>1, <1>8
  <2> QED BY <2>2, <2>3 DEF ToldInOrder, Before
<1>12. PastOK(s)'
  <2>1. e.what = "close" \/ e.n <= seen[s]
    BY <1>1, TellingHead DEF e
  <2>2. \A i \in DOMAIN told[s] : told[s][i].n <= seen[s]
    BY <1>0, <1>1 DEF StoryOK, PastOK
  <2> QED BY <1>0, <1>1, <1>3, <1>8, <1>9, <2>1, <2>2 DEF StoryOK, PastOK, e
<1>13. CloseOK(s)'
  <2>1. e.what = "close" => s \in closed \ byProgram
    BY <1>0, <1>1, TellingHead DEF StoryOK, CloseOK, e
  <2> QED BY <1>0, <1>1, <1>3, <1>8, <1>9, <2>1 DEF StoryOK, CloseOK
<1>14. DueOK(s)' /\ WayOK(s)'
  BY <1>0, <1>1, <1>3, <1>8 DEF StoryOK, DueOK, WayOK, Telling, Fresh
<1> QED BY <1>4, <1>5, <1>6, <1>7, <1>10, <1>11, <1>12, <1>13, <1>14 DEF WsInv, StoryOK

\* The goroutine posts the head of what is due: what it told or posted is before it.
LEMMA PostKeeps ==
    ASSUME WsInv, NEW s \in Sockets, Post(s)
    PROVE  WsInv'
<1> DEFINE e == due[s][1]
           last == Len(queue) + 1
<1>0. StoryOK(s)
  BY DEF WsInv
<1>1. /\ reader[s] = "post" /\ reader[s] \in Telling /\ AfterTelling(s)
      /\ hurried' = IF window = "open" THEN hurried ELSE hurried \cup {s}
      /\ UNCHANGED <<otherVars, socketVars, seen, via, serverVars, runner, at, call, window,
                     known, told, byProgram, dismissed>>
  BY DEF Post, Telling
<1>2. e \in Events /\ e.socket = s /\ queue' = Append(queue, e)
  BY <1>1, TellingHead DEF Post
<1>3. UNCHANGED <<seen, via, sent, window, told, closed, byProgram>>
  BY <1>1 DEF otherVars, socketVars
<1>4. /\ TypeReaders' /\ DueOK(s)' /\ due'[s] = Tail(due[s])
      /\ reader'[s] \in {"tell", "read", "over"}
      /\ e.what = "close" => reader'[s] = "over"
      /\ \A t \in Sockets \ {s} : due'[t] = due[t] /\ reader'[t] = reader[t]
  BY <1>1, <1>3, AfterTells
<1>5. /\ queue' \in Seq(Events) /\ Len(queue) \in Nat /\ DOMAIN queue' = 1 .. last
      /\ DOMAIN queue = 1 .. Len(queue)
      /\ \A i \in DOMAIN queue : i \in DOMAIN queue' /\ queue'[i] = queue[i]
      /\ queue'[last] = e
      /\ queue' # <<>>
  BY <1>2, Kinds, QueueEnd
<1>6. \A i \in DOMAIN queue' : (i \in DOMAIN queue /\ queue'[i] = queue[i]) \/ (i = last /\ queue'[i] = e)
  BY <1>5
<1> HIDE DEF e, last
<1>7. WsTypeOK'
  BY <1>1, <1>4, <1>5 DEF otherVars, socketVars, serverVars, WsInv, WsTypeOK,
                    TypeOther, TypeProgram, TypeSets
<1>8. ListOK'
  BY <1>1, <1>2, <1>4, <1>6, TellingList DEF socketVars, serverVars
<1>9. QueueOK'
  <2>1. window # "none"
    BY <1>0, <1>1 DEF StoryOK, WayOK
  <2>2. window \in {"closing", "closed"} => \A i \in DOMAIN queue' : queue'[i].socket \in hurried'
    BY <1>1, <1>2, <1>6 DEF WsInv, QueueOK
  <2> QED BY <1>1, <1>5, <2>1, <2>2 DEF QueueOK
<1>10. \A t \in Sockets \ {s} : StoryOK(t)'
  <2> SUFFICES ASSUME NEW t \in Sockets \ {s} PROVE StoryOK(t)'
    OBVIOUS
  <2>1. \A i \in DOMAIN queue' :
           queue'[i].socket = t => i + 0 \in DOMAIN queue /\ queue'[i] = queue[i + 0]
    BY <1>2, <1>5, <1>6
  <2>2. DOMAIN queue' \subseteq Nat /\ (t \in hurried => t \in hurried')
    BY <1>1, <1>5 DEF last
  <2> QED BY <1>3, <1>4, <2>1, <2>2, Others, 0 \in {0, 1}
<1>11. /\ \A i \in Posted(s)' : (i \in Posted(s) /\ queue'[i] = queue[i]) \/ (i = last /\ queue'[i] = e)
       /\ \A i \in Posted(s) : i \in Nat /\ i < last
       /\ last \in Nat
  BY <1>5, <1>6 DEF Posted, last
<1>12. \A i \in DOMAIN due'[s] :
         i \in Nat \ {0} /\ i + 1 \in DOMAIN due[s] /\ 1 < i + 1 /\ due'[s][i] = due[s][i + 1]
  BY <1>1, <1>4, TellingHead
<1>13. /\ \A i \in Posted(s) : Before(queue[i], e)
       /\ \A i \in DOMAIN told[s] : Before(told[s][i], e)
       /\ \A i \in DOMAIN due'[s] : Before(e, due'[s][i])
  BY <1>0, <1>1, <1>12, TellingHead DEF StoryOK, DueInOrder, e
<1>14. DueInOrder(s)'
  <2>0. DueInOrder(s)
    BY <1>0 DEF StoryOK
  <2>1. \A i \in Posted(s)', j \in DOMAIN due'[s] : Before(queue'[i], due'[s][j])
    BY <1>11, <1>12, <1>13, <2>0 DEF DueInOrder
  <2>2. \A i \in DOMAIN told'[s], j \in DOMAIN due'[s] : Before(told'[s][i], due'[s][j])
    BY <1>1, <1>3, <1>12, <2>0 DEF DueInOrder
  <2>3. \A i, j \in DOMAIN due'[s] : i < j => Before(due'[s][i], due'[s][j])
    <3>1. \A i, j \in DOMAIN due'[s] : i < j => i + 1 < j + 1
      BY <1>12
    <3> QED BY <1>12, <2>0, <3>1 DEF DueInOrder
  <2>4. \A i, j \in Posted(s)' : i < j => Before(queue'[i], queue'[j])
    <3> SUFFICES ASSUME NEW i \in Posted(s)', NEW j \in Posted(s)', i < j
                 PROVE  Before(queue'[i], queue'[j])
      OBVIOUS
    <3>1. i \in Posted(s) /\ queue'[i] = queue[i]
      BY <1>11
    <3> QED BY <1>11, <1>13, <2>0, <3>1 DEF DueInOrder
  <2> QED BY <2>1, <2>2, <2>3, <2>4 DEF DueInOrder, Before
<1>15. ToldInOrder(s)'
  <2>1. s \notin hurried' => s \notin hurried
    BY <1>1
  <2>2. s \notin hurried =>
           /\ \A i, j \in DOMAIN told'[s] : i < j => Before(told'[s][i], told'[s][j])
           /\ \A i \in DOMAIN told'[s], j \in Posted(s)' : Before(told'[s][i], queue'[j])
    BY <1>0, <1>3, <1>11, <1>13 DEF StoryOK, ToldInOrder
  <2> QED BY <2>1, <2>2 DEF ToldInOrder, Before
<1>16. PastOK(s)'
  <2>1. e.what = "close" \/ e.n <= seen[s]
    BY <1>1, TellingHead DEF e
  <2> QED BY <1>0, <1>1, <1>3, <1>4, <1>11, <2>1 DEF StoryOK, PastOK
<1>17. CloseOK(s)'
  <2>1. e.what = "close" => s \in closed \ byProgram
    BY <1>0, <1>1, TellingHead DEF StoryOK, CloseOK, e
  <2> QED BY <1>0, <1>3, <1>11, <1>12, <2>1 DEF StoryOK, CloseOK
<1>18. WayOK(s)'
  BY <1>0, <1>3, <1>4 DEF StoryOK, WayOK
<1> QED BY <1>4, <1>7, <1>8, <1>9, <1>10, <1>14, <1>15, <1>16, <1>17, <1>18
        DEF WsInv, StoryOK

\* The UI thread tells the head of the queue: what is posted or due is after it.
LEMMA UiEnterKeeps ==
    ASSUME WsInv, UiEnter
    PROVE  WsInv'
<1>1. /\ at = "due" /\ at' = "callback" /\ runner' = Program
      /\ queue # <<>> /\ queue' = Tail(queue)
      /\ UNCHANGED <<otherVars, socketVars, readerVars, serverVars, call, window,
                     byProgram, hurried, dismissed>>
  BY DEF UiEnter, AtProgram, Hears, Lock!Grant, WsInv, QueueOK
<1>2. /\ Head(queue) = queue[1] /\ 1 \in DOMAIN queue /\ queue[1] \in Events
      /\ queue[1].socket \in Sockets
      /\ queue' \in Seq(Events) /\ DOMAIN queue' = 1 .. Len(queue) - 1
      /\ \A i \in DOMAIN queue' :
            i \in Nat \ {0} /\ i + 1 \in DOMAIN queue /\ queue'[i] = queue[i + 1]
  <2>0. queue \in Seq(Events) /\ queue # <<>> /\ Len(queue) \in Nat
    BY <1>1, Kinds
  <2>1. /\ Head(queue) = queue[1] /\ 1 \in DOMAIN queue
        /\ Tail(queue) \in Seq(Events) /\ DOMAIN Tail(queue) = 1 .. Len(queue) - 1
        /\ \A i \in DOMAIN Tail(queue) : i + 1 \in DOMAIN queue /\ Tail(queue)[i] = queue[i + 1]
    BY <2>0, QueueHead
  <2>2. \A i \in DOMAIN Tail(queue) : i \in Nat \ {0}
    BY <2>0, <2>1
  <2>3. queue[1] \in Events /\ queue[1].socket \in Sockets
    BY <2>1, Kinds
  <2> QED BY <1>1, <2>1, <2>2, <2>3
<1>e. PICK e \in Events : e = queue[1]
  BY <1>2
<1>s. PICK s \in Sockets : s = e.socket
  BY <1>2, <1>e
<1>3. /\ told' = [told EXCEPT ![s] = Append(@, e)]
      /\ known' \subseteq known \cup {s}
  BY <1>2, <1>e, <1>s DEF UiEnter, Hears
<1>4. /\ UNCHANGED <<reader, seen, due, via, closed>>
      /\ told'[s] = Append(told[s], e)
      /\ \A t \in Sockets \ {s} : told'[t] = told[t]
  BY <1>1, <1>2, <1>3, Kinds DEF readerVars, socketVars
<1>5. WsTypeOK'
  <2>1. told[s] \in Seq(Events) /\ Append(told[s], e) \in Seq(Events)
    BY <1>2, Kinds
  <2>2. told' \in [Sockets -> Seq(Events)]
    BY <1>3, <2>1, Kinds
  <2> QED BY <1>1, <1>2, <1>3, <2>2, SocketAssumption
          DEF otherVars, socketVars, readerVars, serverVars, WsInv, WsTypeOK, TypeOther,
              TypeReaders, TypeProgram, TypeSets
<1>6. ListOK'
  <2>1. ~Fresh(s)
    BY <1>2, <1>e, <1>s DEF WsInv, ListOK
  <2>2. \A i \in DOMAIN queue' : ~Fresh(queue'[i].socket)
    BY <1>2 DEF WsInv, ListOK
  <2> QED BY <1>1, <1>3, <1>4, <2>1, <2>2 DEF serverVars, WsInv, ListOK, Fresh
<1>7. QueueOK'
  <2>1. window = "none" => FALSE
    BY <1>1 DEF WsInv, QueueOK
  <2> QED BY <1>1, <1>2, <2>1 DEF WsInv, QueueOK
<1>8. \A t \in Sockets \ {s} : StoryOK(t)'
  <2> SUFFICES ASSUME NEW t \in Sockets \ {s} PROVE StoryOK(t)'
    OBVIOUS
  <2>1. DOMAIN queue' \subseteq Nat
    BY <1>2
  <2>2. \A i \in DOMAIN queue' :
           queue'[i].socket = t => i + 1 \in DOMAIN queue /\ queue'[i] = queue[i + 1]
    BY <1>2
  <2> QED BY <1>1, <1>4, <2>1, <2>2, Others, 1 \in {0, 1}
<1>9. StoryOK(s)
  BY <1>2 DEF WsInv
<1>10. /\ \A i \in Posted(s)' : i \in Nat /\ i + 1 \in Posted(s) /\ 1 < i + 1 /\ queue'[i] = queue[i + 1]
       /\ 1 \in Posted(s)
  BY <1>2, <1>e, <1>s DEF Posted
<1>11. /\ DOMAIN told'[s] = 1 .. Len(told[s]) + 1 /\ Len(told[s]) \in Nat
       /\ \A i \in DOMAIN told'[s] :
            (i \in DOMAIN told[s] /\ told'[s][i] = told[s][i]) \/ (i = Len(told[s]) + 1 /\ told'[s][i] = e)
       /\ DOMAIN told[s] = 1 .. Len(told[s])
  BY <1>2, <1>4, Kinds, QueueEnd
<1>12. /\ \A i \in Posted(s)' : Before(e, queue'[i])
       /\ \A i \in DOMAIN due[s] : Before(e, due[s][i])
       /\ s \notin hurried => \A i \in DOMAIN told[s] : Before(told[s][i], e)
       /\ e.n <= seen[s] \/ reader[s] = "over"
       /\ e.what = "close" => s \in closed \ byProgram
  BY <1>9, <1>10, <1>e DEF StoryOK, DueInOrder, ToldInOrder, PastOK, CloseOK
<1>13. DueInOrder(s)'
  <2>0. DueInOrder(s)
    BY <1>9 DEF StoryOK
  <2>1. \A i \in Posted(s)', j \in DOMAIN due'[s] : Before(queue'[i], due'[s][j])
    BY <1>4, <1>10, <2>0 DEF DueInOrder
  <2>2. \A i \in DOMAIN told'[s], j \in DOMAIN due'[s] :
           (reader'[s] = "in" => j # 1) => Before(told'[s][i], due'[s][j])
    BY <1>4, <1>11, <1>12, <2>0 DEF DueInOrder
  <2>3. \A i, j \in DOMAIN due'[s] : i < j => Before(due'[s][i], due'[s][j])
    BY <1>4, <2>0 DEF DueInOrder
  <2>4. \A i, j \in Posted(s)' : i < j => Before(queue'[i], queue'[j])
    <3>1. \A i, j \in Posted(s)' : i < j => i + 1 < j + 1
      BY <1>10
    <3> QED BY <1>10, <2>0, <3>1 DEF DueInOrder
  <2> QED BY <2>1, <2>2, <2>3, <2>4 DEF DueInOrder, Before
<1>14. ToldInOrder(s)'
  <2>1. s \notin hurried' =>
           \A i, j \in DOMAIN told'[s] : i < j => Before(told'[s][i], told'[s][j])
    <3> SUFFICES ASSUME s \notin hurried, NEW i \in DOMAIN told'[s], NEW j \in DOMAIN told'[s], i < j
                 PROVE  Before(told'[s][i], told'[s][j])
      BY <1>1
    <3>1. i \in DOMAIN told[s] /\ told'[s][i] = told[s][i]
      BY <1>11
    <3> QED BY <1>9, <1>11, <1>12, <3>1 DEF StoryOK, ToldInOrder
  <2>2. s \notin hurried' =>
           \A i \in DOMAIN told'[s], j \in Posted(s)' : Before(told'[s][i], queue'[j])
    BY <1>1, <1>9, <1>10, <1>11, <1>12 DEF StoryOK, ToldInOrder
  <2> QED BY <2>1, <2>2 DEF ToldInOrder, Before
<1>15. PastOK(s)'
  BY <1>4, <1>9, <1>10, <1>11, <1>12 DEF StoryOK, PastOK
<1>16. CloseOK(s)'
  BY <1>1, <1>4, <1>9, <1>10, <1>11, <1>12 DEF StoryOK, CloseOK
<1>17. DueOK(s)' /\ WayOK(s)'
  <2>1. ~Fresh(s)
    BY <1>2, <1>e, <1>s DEF WsInv, ListOK
  <2> QED BY <1>1, <1>4, <1>9, <1>10, <2>1 DEF StoryOK, DueOK, WayOK, Fresh
<1> QED BY <1>5, <1>6, <1>7, <1>8, <1>13, <1>14, <1>15, <1>16, <1>17 DEF WsInv, StoryOK

-----------------------------------------------------------------------------

LEMMA InitWsInv == WsInit => WsInv
<1> SUFFICES ASSUME WsInit PROVE WsInv
  OBVIOUS
<1>1. <<>> \in Seq(Events)
  BY EmptySeq
<1>2. WsTypeOK
  <2>1. TypeOther /\ TypeSets
    BY SocketAssumption DEF WsInit, TypeOther, TypeSets, Calls, NoCall
  <2>2. TypeReaders /\ TypeProgram
    BY <1>1 DEF WsInit, TypeReaders, TypeProgram, Places
  <2> QED BY <2>1, <2>2 DEF WsTypeOK
<1>3. ListOK /\ QueueOK
  BY <1>1 DEF WsInit, ListOK, QueueOK, Fresh, NoCall
<1>4. ASSUME NEW s \in Sockets PROVE StoryOK(s)
  <2>1. due[s] = <<>> /\ told[s] = <<>> /\ DOMAIN due[s] = {} /\ DOMAIN told[s] = {}
    BY DEF WsInit
  <2>2. Posted(s) = {}
    BY DEF WsInit, Posted
  <2> QED
    BY <2>1, <2>2
    DEF WsInit, StoryOK, DueOK, DueInOrder, ToldInOrder, PastOK, CloseOK, WayOK, Fresh,
        Telling
<1> QED BY <1>2, <1>3, <1>4 DEF WsInv

LEMMA WsStep == WsInv /\ [WsNext]_wsVars => WsInv'
<1> SUFFICES ASSUME WsInv, [WsNext]_wsVars PROVE WsInv'
  OBVIOUS
<1>1. ASSUME NEW s \in Sockets, SendMessage(s) \/ Leave(s) PROVE WsInv'
  BY <1>1, OtherSide
<1>2. ASSUME NEW s \in Sockets,
             \/ netWSConnect(s) \/ Upgrade(s) \/ TakeConn(s) \/ Fail(s)
             \/ ReadSync(s) \/ Look(s) \/ Tidy(s)
      PROVE  WsInv'
  BY <1>2, Walks
<1>3. ASSUME NEW s \in Sockets, wsConnClose(s) \/ StopClient(s) PROVE WsInv'
  BY <1>3, Closes
<1>4. ASSUME NEW s \in Sockets, Receive(s) \/ Register(s) \/ End(s) PROVE WsInv'
  BY <1>4, ReceiveKeeps, RegisterKeeps, EndKeeps
<1>5. ASSUME NEW s \in Sockets, Post(s) \/ Enter(s) \/ LeaveCode(s) PROVE WsInv'
  BY <1>5, PostKeeps, EnterKeeps, LeaveKeeps
<1>6. ASSUME NEW s \in Sockets, NEW h \in {"message", "close"}, SetHook(s, h) PROVE WsInv'
  BY <1>6, Hooks
<1>7. CASE FinishClose \/ wsServerStart \/ WsServe \/ wsServerStop \/ CloseServer
  BY <1>7, Closing, ServerRuns, ServerStops
<1>8. CASE \/ Wait \/ GoOn \/ OpenWindow \/ UiTake \/ UiEnter \/ UiEvent \/ UiLeave
           \/ CloseWindow \/ LoopEnds
  BY <1>8, Moves, Windows, UiEnterKeeps
<1>9. CASE UNCHANGED wsVars
  <2>1. UNCHANGED <<otherVars, socketVars, readerVars, serverVars, runner, programVars, storyVars>>
    BY <1>9 DEF wsVars
  <2>2. WsTypeOK' /\ ListOK' /\ QueueOK'
    BY <2>1
    DEF otherVars, socketVars, readerVars, serverVars, programVars, storyVars, WsInv,
        WsTypeOK, TypeOther, TypeReaders, TypeProgram, TypeSets, ListOK, QueueOK, Fresh
  <2>3. \A s \in Sockets : StoryOK(s)'
    BY <2>1, Quiet DEF storyState, socketVars, readerVars, programVars, storyVars
  <2> QED BY <2>2, <2>3 DEF WsInv
<1> QED BY <1>1, <1>2, <1>3, <1>4, <1>5, <1>6, <1>7, <1>8, <1>9 DEF WsNext

\* The invariant: the types, the list of clients, and the story of each socket in what
\* was told, posted and is due.
THEOREM Invariance == WsSpec => []WsInv
  BY InitWsInv, WsStep, PTL DEF WsSpec

\* Every variable keeps its type, for any number of sockets and messages.
THEOREM TypesCorrect == WsSpec => []WsTypeOK
<1>1. WsInv => WsTypeOK
  BY DEF WsInv
<1> QED BY <1>1, Invariance, PTL

\* Yod code hears the story of a socket in order, nothing of it twice, and of no close
\* that was its own, whichever of the two ways its goroutine takes; unless the window
\* was closed over something posted.
THEOREM InOrder == WsSpec => []StoryInOrder
<1>1. WsInv => StoryInOrder
  BY DEF WsInv, StoryInOrder, StoryOK, ToldInOrder, CloseOK, Before
<1> QED BY <1>1, Invariance, PTL

\* The list of a server's clients is true while sockets come, close and are closed, and
\* a stop closes all that were in it.
THEOREM ListTrue == WsSpec => []ClientsTrue
<1>1. WsInv => ClientsTrue
  BY SocketAssumption DEF WsInv, ClientsTrue, ListOK, Fresh, NoCall
<1> QED BY <1>1, Invariance, PTL

\* A program with either kind of server does with its sockets what the module says of
\* them, so that both hold of it.
THEOREM BothServers == ServersSpec => WsSpec /\ [](StoryInOrder /\ ClientsTrue)
<1>1. ServersInit => WsInit
  BY DEF ServersInit
<1>2. [ServersNext]_allVars => [WsNext]_wsVars
  BY DEF ServersNext, allVars
<1>3. ServersSpec => WsSpec
  BY <1>1, <1>2, PTL DEF ServersSpec, WsSpec
<1> QED BY <1>3, InOrder, ListTrue, PTL
=============================================================================
