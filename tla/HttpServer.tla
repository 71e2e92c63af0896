----------------------------- MODULE HttpServer -----------------------------
(***************************************************************************)
(* The HTTP server of a Yod program: internal/stdlib/net_server.go.  A     *)
(* server object may be started, in the background or not, stopped, and    *)
(* started again; every start makes an http.Server of its own, an          *)
(* instance here.                                                          *)
(*                                                                         *)
(* Yod code runs in the main program and in the handlers of requests.      *)
(* Handlers are goroutines of net/http which do not take the run lock, so  *)
(* any of them may start and stop the server at any moment.                *)
(***************************************************************************)
EXTENDS Naturals

CONSTANTS Handlers,    \* goroutines that may serve a request
          Main,        \* the main program
          MaxStarts    \* bound: instances made in a behaviour

Callers   == Handlers \cup {Main}
Instances == 1 .. MaxStarts
None      == 0

ASSUME HttpServerAssumption == Main \notin Handlers /\ MaxStarts \in Nat

VARIABLES running,  \* st.running
          srv,      \* st.srv
          phase,    \* how far each instance is
          open,     \* instances whose listener is open
          shut,     \* instances on which Shutdown was called
          pc,       \* where each caller is
          inst,     \* its local: the instance it starts or stops
          serves    \* the instance whose request a handler serves

vars == <<running, srv, phase, open, shut, pc, inst, serves>>

Init ==
    /\ running = FALSE
    /\ srv = None
    /\ phase = [i \in Instances |-> "unused"]
    /\ open = {} /\ shut = {}
    /\ pc = [c \in Callers |-> IF c = Main THEN "code" ELSE "out"]
    /\ inst = [c \in Callers |-> None]
    /\ serves = [h \in Handlers |-> None]

Goto(c, label, i) ==
    /\ pc' = [pc EXCEPT ![c] = label]
    /\ inst' = [inst EXCEPT ![c] = i]

----------------------------------------------------------------------------
(* Start *)

\* A start that does not look at st.running.
MayAlways == TRUE

MayStart == ~running

\* A start that makes an http.Server only once.
OldServer(i) == srv' = IF srv = None THEN i ELSE srv

NewServer(i) == srv' = i

\* The check of st.running, the new instance and the mark are one critical section.
Start(c, i) ==
    /\ pc[c] = "code"
    /\ MayStart
    /\ phase[i] = "unused"
    /\ \A j \in Instances : j < i => phase[j] # "unused"
    /\ NewServer(i)
    /\ running' = TRUE
    /\ phase' = [phase EXCEPT ![i] = "made"]
    /\ Goto(c, "listen", i)
    /\ UNCHANGED <<open, shut, serves>>

\* Listen fails if a listener of this server has the port, or another program.
ListenFails(c) ==
    /\ pc[c] = "listen"
    /\ phase' = [phase EXCEPT ![inst[c]] = "over"]
    /\ running' = FALSE
    /\ srv' = None
    /\ Goto(c, "code", None)
    /\ UNCHANGED <<open, shut, serves>>

\* הפעל_ברקע returns with the goroutine that serves launched, הפעל serves itself.
Listen(c, background) ==
    /\ pc[c] = "listen"
    /\ open = {}
    /\ open' = {inst[c]}
    /\ phase' = [phase EXCEPT ![inst[c]] = "bound"]
    /\ IF background THEN Goto(c, "code", None) ELSE Goto(c, "serve", inst[c])
    /\ UNCHANGED <<running, srv, shut, serves>>

----------------------------------------------------------------------------
(* Serving *)

\* A server that serves although Shutdown came first.
StaysOpen(i) == phase' = [phase EXCEPT ![i] = "serving"] /\ UNCHANGED open

\* http.Server.Serve: an instance that was shut down closes its listener at once.
BeginServe(i) ==
    IF i \in shut
    THEN phase' = [phase EXCEPT ![i] = "returned"] /\ open' = open \ {i}
    ELSE phase' = [phase EXCEPT ![i] = "serving"] /\ UNCHANGED open

Serve(i) ==
    /\ phase[i] = "bound"
    /\ BeginServe(i)
    /\ UNCHANGED <<running, srv, shut, pc, inst, serves>>

\* Accept fails, for certain once the listener is closed.
ServeReturns(i) ==
    /\ phase[i] = "serving"
    /\ phase' = [phase EXCEPT ![i] = "returned"]
    /\ open' = open \ {i}
    /\ UNCHANGED <<running, srv, shut, pc, inst, serves>>

\* The end of a start: running is FALSE only after Serve has returned.
MarkStopped(i) ==
    /\ phase[i] = "returned"
    /\ phase' = [phase EXCEPT ![i] = "over"]
    /\ running' = FALSE
    /\ pc' = [c \in Callers |-> IF pc[c] = "serve" /\ inst[c] = i THEN "code" ELSE pc[c]]
    /\ inst' = [c \in Callers |-> IF pc[c] = "serve" /\ inst[c] = i THEN None ELSE inst[c]]
    /\ UNCHANGED <<srv, open, shut, serves>>

\* A request arrives; its handler calls Yod code.
Request(h, i) ==
    /\ pc[h] = "out"
    /\ phase[i] = "serving" /\ i \in open
    /\ serves' = [serves EXCEPT ![h] = i]
    /\ Goto(h, "code", None)
    /\ UNCHANGED <<running, srv, phase, open, shut>>

Respond(h) ==
    /\ h \in Handlers /\ pc[h] = "code"
    /\ serves' = [serves EXCEPT ![h] = None]
    /\ Goto(h, "out", None)
    /\ UNCHANGED <<running, srv, phase, open, shut>>

----------------------------------------------------------------------------
(* Stop *)

\* st.srv is read under the mutex, Shutdown called after it.
Stop(c) ==
    /\ pc[c] = "code"
    /\ srv # None
    /\ Goto(c, "stop", srv)
    /\ UNCHANGED <<running, srv, phase, open, shut, serves>>

\* Shutdown closes the listeners of an instance that serves.
CloseListener(i) == open' = IF phase[i] = "serving" THEN open \ {i} ELSE open

Shutdown(c) ==
    /\ pc[c] = "stop"
    /\ shut' = shut \cup {inst[c]}
    /\ CloseListener(inst[c])
    /\ Goto(c, "drain", inst[c])
    /\ UNCHANGED <<running, srv, phase, serves>>

AllServed(i) == \A h \in Handlers : serves[h] # i

\* A Shutdown without a deadline.
NoDeadline(c) == FALSE

\* The context ends after three seconds, which can be at any moment.
Deadline(c) == pc[c] = "drain"

StopReturns(c) ==
    /\ pc[c] = "drain"
    /\ AllServed(inst[c]) \/ Deadline(c)
    /\ Goto(c, "code", None)
    /\ UNCHANGED <<running, srv, phase, open, shut, serves>>

----------------------------------------------------------------------------

Next ==
    \/ \E c \in Callers :
          \/ \E i \in Instances : Start(c, i)
          \/ ListenFails(c)
          \/ \E background \in BOOLEAN : Listen(c, background)
          \/ Stop(c) \/ Shutdown(c) \/ StopReturns(c)
    \/ \E i \in Instances : Serve(i) \/ ServeReturns(i) \/ MarkStopped(i)
    \/ \E h \in Handlers : Respond(h) \/ \E i \in Instances : Request(h, i)

\* Goroutines that can go on do, inside net/http and around it, and the deadline
\* comes.  Nothing is assumed of requests, handlers or the main program.
Fairness ==
    /\ \A i \in Instances :
          /\ WF_vars(Serve(i)) /\ WF_vars(MarkStopped(i))
          /\ WF_vars(i \notin open /\ ServeReturns(i))
    /\ \A c \in Callers :
          /\ WF_vars(Shutdown(c)) /\ WF_vars(StopReturns(c))
          /\ WF_vars(ListenFails(c) \/ Listen(c, TRUE) \/ Listen(c, FALSE))

Spec     == Init /\ [][Next]_vars
FairSpec == Spec /\ Fairness

----------------------------------------------------------------------------
(* Properties *)

TypeOK ==
    /\ running \in BOOLEAN
    /\ srv \in Instances \cup {None}
    /\ phase \in [Instances -> {"unused", "made", "bound", "serving", "returned", "over"}]
    /\ open \subseteq Instances /\ shut \subseteq Instances
    /\ pc \in [Callers -> {"out", "code", "listen", "serve", "stop", "drain"}]
    /\ inst \in [Callers -> Instances \cup {None}]
    /\ \A c \in Callers : inst[c] = None <=> pc[c] \in {"out", "code"}
    /\ serves \in [Handlers -> Instances \cup {None}]

\* A start never finds its port taken by an earlier start of the same server: once
\* the check of st.running has let it through, the old listener is closed.
PortFree == \A c \in Callers : pc[c] = "listen" => open = {}

\* A server that accepts requests can be stopped: its instance is the one st.srv
\* names and st.running says so, whatever starts failed or ended meanwhile.
ServedIsStoppable == \A i \in open : running /\ srv = i

\* Stop is never lost: an instance that was shut down, even before it listened,
\* is over some day, and with it its listener.
StopTakesEffect == \A i \in Instances : (i \in shut) ~> (phase[i] = "over" /\ i \notin open)

\* A call of stop returns, even one made by a handler the shutdown waits for.
StopAnswered == \A c \in Callers : (pc[c] = "drain") ~> (pc[c] = "code")
=============================================================================
