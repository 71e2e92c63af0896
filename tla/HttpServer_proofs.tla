-------------------------- MODULE HttpServer_proofs --------------------------
(***************************************************************************)
(* A server of net_server.go finds its port free and can be stopped, for   *)
(* any number of handlers and of restarts.                                 *)
(***************************************************************************)
EXTENDS HttpServer, TLAPS

\* An instance between its start and the end of that start.
Active(i) == phase[i] \in {"made", "bound", "serving", "returned"}

\* st.running and st.srv speak of the one active instance.
ActiveIsSrv == \A i \in Instances : Active(i) => running /\ srv = i

\* Listeners are open only between Listen and the end of Serve.
OpenPhase == \A i \in open : phase[i] \in {"bound", "serving"}

\* Whoever is about to listen does so for an instance that has not listened yet.
ListenPhase == \A c \in Callers : pc[c] = "listen" => phase[inst[c]] = "made"

\* No two starts are between their check and their Listen.
OneListen == \A c, d \in Callers : pc[c] = "listen" /\ pc[d] = "listen" => c = d

IInv ==
    /\ TypeOK
    /\ ActiveIsSrv
    /\ OpenPhase
    /\ ListenPhase
    /\ OneListen

LEMMA GotoType ==
    ASSUME TypeOK, NEW c \in Callers, NEW i \in Instances \cup {None},
           NEW label \in {"out", "code", "listen", "serve", "stop", "drain"},
           i = None <=> label \in {"out", "code"},
           Goto(c, label, i)
    PROVE  /\ pc' \in [Callers -> {"out", "code", "listen", "serve", "stop", "drain"}]
           /\ inst' \in [Callers -> Instances \cup {None}]
           /\ \A d \in Callers : inst'[d] = None <=> pc'[d] \in {"out", "code"}
           /\ pc'[c] = label /\ inst'[c] = i
           /\ \A d \in Callers \ {c} : pc'[d] = pc[d] /\ inst'[d] = inst[d]
  BY DEF TypeOK, Goto

LEMMA InstanceIsNumber == \A i \in Instances : i \in Nat /\ i # None
  BY HttpServerAssumption DEF Instances, None

LEMMA InitIInv == Init => IInv
  BY InstanceIsNumber, HttpServerAssumption
  DEF Init, IInv, TypeOK, ActiveIsSrv, OpenPhase, ListenPhase, OneListen, Active,
      Callers, None

\* The steps of a caller that leave the instances alone.
LEMMA QuietStep ==
    ASSUME IInv, NEW c \in Callers, NEW i \in Instances \cup {None},
           NEW label \in {"out", "code", "stop", "drain"},
           i = None <=> label \in {"out", "code"},
           Goto(c, label, i),
           UNCHANGED <<running, srv, phase>>,
           open' \subseteq open, shut' \subseteq Instances,
           serves' \in [Handlers -> Instances \cup {None}]
    PROVE  IInv'
<1>1. TypeOK'
  BY GotoType DEF IInv, TypeOK
<1>2. ActiveIsSrv' /\ OpenPhase'
  BY DEF IInv, ActiveIsSrv, OpenPhase, Active
<1>3. ListenPhase' /\ OneListen'
  BY GotoType DEF IInv, ListenPhase, OneListen
<1> QED BY <1>1, <1>2, <1>3 DEF IInv

LEMMA StartIInv ==
    ASSUME IInv, NEW c \in Callers, NEW i \in Instances, Start(c, i)
    PROVE  IInv'
<1>1. ~running /\ Goto(c, "listen", i)
  BY DEF Start, MayStart
<1>2. /\ running' = TRUE /\ srv' = i
      /\ phase' = [phase EXCEPT ![i] = "made"]
      /\ UNCHANGED <<open, shut, serves>>
  BY DEF Start, NewServer
<1>3. TypeOK'
  BY <1>1, <1>2, GotoType, InstanceIsNumber DEF IInv, TypeOK
<1>4. \A j \in Instances : ~Active(j)
  BY <1>1 DEF IInv, ActiveIsSrv
<1>5. open = {}
  BY <1>4 DEF IInv, OpenPhase, Active, TypeOK
<1>6. \A d \in Callers : pc[d] # "listen"
  BY <1>4 DEF IInv, ListenPhase, Active, TypeOK
<1>7. ActiveIsSrv' /\ OpenPhase'
  BY <1>2, <1>4, <1>5 DEF IInv, TypeOK, ActiveIsSrv, OpenPhase, Active
<1>8. ListenPhase' /\ OneListen'
  BY <1>1, <1>2, <1>6, GotoType, InstanceIsNumber
  DEF IInv, TypeOK, ListenPhase, OneListen
<1> QED BY <1>3, <1>7, <1>8 DEF IInv

LEMMA ListenIInv ==
    ASSUME IInv, NEW c \in Callers,
           ListenFails(c) \/ \E background \in BOOLEAN : Listen(c, background)
    PROVE  IInv'
<1> DEFINE i == inst[c]
<1>1. pc[c] = "listen" /\ i \in Instances /\ phase[i] = "made"
  BY DEF ListenFails, Listen, IInv, TypeOK, ListenPhase
<1>2. \A j \in Instances : Active(j) => j = i
  BY <1>1 DEF IInv, ActiveIsSrv, Active
<1>3. open = {}
  BY <1>1, <1>2 DEF IInv, OpenPhase, Active, TypeOK
<1>4. \A d \in Callers \ {c} : pc[d] # "listen"
  BY <1>1 DEF IInv, OneListen
<1>5. CASE ListenFails(c)
  <2>1. /\ phase' = [phase EXCEPT ![i] = "over"]
        /\ running' = FALSE /\ srv' = None /\ UNCHANGED <<open, shut, serves>>
        /\ Goto(c, "code", None)
    BY <1>5 DEF ListenFails
  <2>2. TypeOK'
    BY <1>1, <2>1, GotoType DEF IInv, TypeOK
  <2>3. ActiveIsSrv' /\ OpenPhase'
    BY <1>1, <1>2, <1>3, <2>1 DEF IInv, TypeOK, ActiveIsSrv, OpenPhase, Active
  <2>4. ListenPhase' /\ OneListen'
    BY <1>4, <2>1, GotoType DEF IInv, ListenPhase, OneListen
  <2> QED BY <2>2, <2>3, <2>4 DEF IInv
<1>6. CASE \E background \in BOOLEAN : Listen(c, background)
  <2>1. PICK label \in {"code", "serve"}, j \in Instances \cup {None} :
           Goto(c, label, j) /\ (j = None <=> label = "code")
    BY <1>1, <1>6, InstanceIsNumber DEF Listen
  <2>2. /\ open' = {i} /\ phase' = [phase EXCEPT ![i] = "bound"]
        /\ UNCHANGED <<running, srv, shut, serves>>
    BY <1>6 DEF Listen
  <2>3. TypeOK'
    BY <1>1, <2>1, <2>2, GotoType DEF IInv, TypeOK
  <2>4. ActiveIsSrv' /\ OpenPhase'
    BY <1>1, <1>2, <2>2 DEF IInv, TypeOK, ActiveIsSrv, OpenPhase, Active
  <2>5. ListenPhase' /\ OneListen'
    BY <1>4, <2>1, GotoType DEF IInv, ListenPhase, OneListen
  <2> QED BY <2>3, <2>4, <2>5 DEF IInv
<1> QED BY <1>5, <1>6

\* The steps of an instance whose Listen is behind it.
LEMMA ServeIInv ==
    ASSUME IInv, NEW i \in Instances, Serve(i) \/ ServeReturns(i)
    PROVE  IInv'
<1>1. phase[i] \in {"bound", "serving"}
  BY DEF Serve, ServeReturns
<1>2. /\ UNCHANGED <<running, srv, shut, pc, inst, serves>>
      /\ \/ phase' = [phase EXCEPT ![i] = "returned"] /\ open' = open \ {i}
         \/ phase' = [phase EXCEPT ![i] = "serving"] /\ open' = open
  BY DEF Serve, ServeReturns, BeginServe
<1>3. TypeOK'
  BY <1>2 DEF IInv, TypeOK
<1>4. ActiveIsSrv' /\ OpenPhase'
  BY <1>1, <1>2 DEF IInv, TypeOK, ActiveIsSrv, OpenPhase, Active
<1>5. ListenPhase' /\ OneListen'
  BY <1>1, <1>2 DEF IInv, TypeOK, ListenPhase, OneListen
<1> QED BY <1>3, <1>4, <1>5 DEF IInv

LEMMA MarkStoppedIInv ==
    ASSUME IInv, NEW i \in Instances, MarkStopped(i)
    PROVE  IInv'
<1>1. /\ phase[i] = "returned" /\ phase' = [phase EXCEPT ![i] = "over"]
      /\ running' = FALSE /\ UNCHANGED <<srv, open, shut, serves>>
  BY DEF MarkStopped
<1>2. /\ pc' = [c \in Callers |-> IF pc[c] = "serve" /\ inst[c] = i THEN "code" ELSE pc[c]]
      /\ inst' = [c \in Callers |-> IF pc[c] = "serve" /\ inst[c] = i THEN None ELSE inst[c]]
  BY DEF MarkStopped
<1>3. TypeOK'
  BY <1>1, <1>2, InstanceIsNumber DEF IInv, TypeOK
<1>4. \A j \in Instances : Active(j) => j = i
  BY <1>1 DEF IInv, ActiveIsSrv, Active
<1>5. ActiveIsSrv' /\ OpenPhase'
  BY <1>1, <1>4 DEF IInv, TypeOK, ActiveIsSrv, OpenPhase, Active
<1>6. \A c \in Callers : pc'[c] = "listen" => pc[c] = "listen" /\ inst'[c] = inst[c]
  BY <1>2
<1>7. ListenPhase' /\ OneListen'
  BY <1>1, <1>6 DEF IInv, TypeOK, ListenPhase, OneListen
<1> QED BY <1>3, <1>5, <1>7 DEF IInv

LEMMA CallerIInv ==
    ASSUME IInv, NEW c \in Callers, Stop(c) \/ Shutdown(c) \/ StopReturns(c)
    PROVE  IInv'
<1>1. CASE Stop(c)
  BY <1>1, QuietStep DEF Stop, IInv, TypeOK
<1>2. CASE Shutdown(c)
  <2>1. inst[c] \in Instances
    BY <1>2 DEF Shutdown, IInv, TypeOK
  <2>2. /\ Goto(c, "drain", inst[c]) /\ UNCHANGED <<running, srv, phase, serves>>
        /\ open' \subseteq open /\ shut' \subseteq Instances
    BY <1>2, <2>1 DEF Shutdown, CloseListener, IInv, TypeOK
  <2> QED BY <2>1, <2>2, QuietStep, InstanceIsNumber DEF IInv, TypeOK
<1>3. CASE StopReturns(c)
  BY <1>3, QuietStep DEF StopReturns, IInv, TypeOK
<1> QED BY <1>1, <1>2, <1>3

LEMMA HandlerIInv ==
    ASSUME IInv, NEW h \in Handlers, Respond(h) \/ \E i \in Instances : Request(h, i)
    PROVE  IInv'
<1>1. h \in Callers
  BY DEF Callers
<1>2. PICK label \in {"out", "code"} : Goto(h, label, None)
  BY DEF Respond, Request
<1>3. /\ UNCHANGED <<running, srv, phase, open, shut>>
      /\ serves' \in [Handlers -> Instances \cup {None}]
  BY DEF Respond, Request, IInv, TypeOK
<1> QED BY <1>1, <1>2, <1>3, QuietStep DEF IInv, TypeOK

LEMMA NextIInv == IInv /\ [Next]_vars => IInv'
<1> SUFFICES ASSUME IInv, [Next]_vars PROVE IInv'
  OBVIOUS
<1>1. CASE UNCHANGED vars
  BY <1>1 DEF vars, IInv, TypeOK, ActiveIsSrv, OpenPhase, ListenPhase, OneListen, Active
<1>2. CASE Next
  BY <1>2, StartIInv, ListenIInv, CallerIInv, ServeIInv, MarkStoppedIInv, HandlerIInv
  DEF Next
<1> QED BY <1>1, <1>2

\* The inductive invariant holds in every reachable state.
THEOREM Invariance == Spec => []IInv
  BY InitIInv, NextIInv, PTL DEF Spec

\* Types, and which callers have an instance in hand.
THEOREM TypeCorrect == Spec => []TypeOK
<1>1. IInv => TypeOK
  BY DEF IInv
<1> QED BY <1>1, Invariance, PTL

\* A restart never meets its own old listener.
THEOREM PortIsFree == Spec => []PortFree
<1>1. IInv => PortFree
  <2> SUFFICES ASSUME IInv, NEW c \in Callers, pc[c] = "listen", NEW i \in open
               PROVE  FALSE
    BY DEF PortFree
  <2>1. inst[c] \in Instances /\ phase[inst[c]] = "made"
    BY DEF IInv, TypeOK, ListenPhase
  <2>2. i \in Instances /\ phase[i] \in {"bound", "serving"}
    BY DEF IInv, TypeOK, OpenPhase
  <2> QED BY <2>1, <2>2 DEF IInv, ActiveIsSrv, Active
<1> QED BY <1>1, Invariance, PTL

\* Whatever listens is what stop would shut down.
THEOREM Stoppable == Spec => []ServedIsStoppable
<1>1. IInv => ServedIsStoppable
  BY DEF IInv, TypeOK, ActiveIsSrv, OpenPhase, Active, ServedIsStoppable
<1> QED BY <1>1, Invariance, PTL

----------------------------------------------------------------------------
(* What a stop leaves behind: the half of StopTakesEffect that is no
   question of time. *)

\* Shutdown closes the listener of what serves, and what was shut down before it
\* serves never does.
ShutQuiet == \A i \in shut : i \in open => phase[i] = "bound"

LEMMA ShutQuietStep == IInv /\ ShutQuiet /\ [Next]_vars => ShutQuiet'
<1> SUFFICES ASSUME IInv, ShutQuiet, [Next]_vars, NEW j \in shut', j \in open'
             PROVE  phase'[j] = "bound"
  BY DEF ShutQuiet
<1>1. ASSUME UNCHANGED <<phase, open, shut>> PROVE phase'[j] = "bound"
  BY <1>1 DEF ShutQuiet
<1>2. ASSUME NEW c \in Callers, NEW i \in Instances, Start(c, i) PROVE phase'[j] = "bound"
  <2>1. phase[i] = "unused" /\ phase' = [phase EXCEPT ![i] = "made"] /\ UNCHANGED <<open, shut>>
    BY <1>2 DEF Start
  <2> QED BY <2>1 DEF IInv, TypeOK, OpenPhase, ShutQuiet
<1>3. ASSUME NEW c \in Callers, ListenFails(c) PROVE phase'[j] = "bound"
  <2>1. phase[inst[c]] = "made" /\ phase' = [phase EXCEPT ![inst[c]] = "over"] /\ UNCHANGED <<open, shut>>
    BY <1>3 DEF ListenFails, IInv, ListenPhase
  <2> QED BY <2>1 DEF IInv, TypeOK, OpenPhase, ShutQuiet
<1>4. ASSUME NEW c \in Callers, NEW background \in BOOLEAN, Listen(c, background) PROVE phase'[j] = "bound"
  <2>1. open' = {inst[c]} /\ phase' = [phase EXCEPT ![inst[c]] = "bound"] /\ inst[c] \in Instances
    BY <1>4 DEF Listen, IInv, TypeOK
  <2> QED BY <2>1 DEF IInv, TypeOK
<1>5. ASSUME NEW i \in Instances, Serve(i) PROVE phase'[j] = "bound"
  BY <1>5 DEF Serve, BeginServe, IInv, TypeOK, ShutQuiet
<1>6. ASSUME NEW i \in Instances, ServeReturns(i) \/ MarkStopped(i) PROVE phase'[j] = "bound"
  BY <1>6 DEF ServeReturns, MarkStopped, IInv, TypeOK, OpenPhase, ShutQuiet
<1>7. ASSUME NEW c \in Callers, Shutdown(c) PROVE phase'[j] = "bound"
  <2>1. shut' = shut \cup {inst[c]} /\ UNCHANGED phase
        /\ open' = IF phase[inst[c]] = "serving" THEN open \ {inst[c]} ELSE open
    BY <1>7 DEF Shutdown, CloseListener
  <2> QED BY <2>1 DEF IInv, TypeOK, OpenPhase, ShutQuiet
<1>8. ASSUME NEW c \in Callers, Stop(c) \/ StopReturns(c) PROVE phase'[j] = "bound"
  BY <1>1, <1>8 DEF Stop, StopReturns
<1>9. ASSUME NEW h \in Handlers, Respond(h) \/ \E i \in Instances : Request(h, i) PROVE phase'[j] = "bound"
  BY <1>1, <1>9 DEF Respond, Request
<1> QED BY <1>1, <1>2, <1>3, <1>4, <1>5, <1>6, <1>7, <1>8, <1>9 DEF Next, vars

\* Of an instance that was shut down, no request is begun, and when it is over it
\* stays so with its listener closed, whatever is started or stopped afterwards.
NothingAfterStop ==
    \A i \in shut :
        /\ \A h \in Handlers : serves'[h] = i => serves[h] = i
        /\ phase[i] = "over" => phase'[i] = "over" /\ i \notin open'

\* A stop is final: NothingAfterStop is kept by every step.
THEOREM StopIsFinal == Spec => [][NothingAfterStop]_vars
<1>1. Init => ShutQuiet
  BY DEF Init, ShutQuiet
<1>2. IInv /\ ShutQuiet /\ [Next]_vars => [NothingAfterStop]_vars
  <2> SUFFICES ASSUME IInv, ShutQuiet, Next, NEW i \in shut
               PROVE  /\ \A h \in Handlers : serves'[h] = i => serves[h] = i
                      /\ phase[i] = "over" => phase'[i] = "over" /\ i \notin open'
    BY DEF NothingAfterStop
  <2> i \in Instances
    BY DEF IInv, TypeOK
  <2>1. ASSUME NEW h \in Handlers, serves'[h] = i PROVE serves[h] = i
    <3>1. CASE UNCHANGED serves
      BY <2>1, <3>1
    <3>2. ASSUME NEW g \in Handlers, Respond(g) PROVE serves[h] = i
      BY <2>1, <3>2, InstanceIsNumber DEF Respond, IInv, TypeOK
    <3>3. ASSUME NEW g \in Handlers, NEW j \in Instances, Request(g, j) PROVE serves[h] = i
      <4>1. j # i
        BY <3>3 DEF Request, ShutQuiet
      <4> QED BY <2>1, <3>3, <4>1 DEF Request, IInv, TypeOK
    <3> QED BY <3>1, <3>2, <3>3
        DEF Next, Start, ListenFails, Listen, Stop, Shutdown, StopReturns, Serve, ServeReturns, MarkStopped
  <2>2. ASSUME phase[i] = "over" PROVE phase'[i] = "over" /\ i \notin open'
    <3>0. i \notin open
      BY <2>2 DEF IInv, OpenPhase
    <3>1. CASE UNCHANGED <<phase, open>>
      BY <2>2, <3>0, <3>1
    <3>2. ASSUME NEW c \in Callers, NEW j \in Instances, Start(c, j) PROVE phase'[i] = "over" /\ i \notin open'
      BY <2>2, <3>0, <3>2 DEF Start, IInv, TypeOK
    <3>3. ASSUME NEW c \in Callers, ListenFails(c) \/ \E background \in BOOLEAN : Listen(c, background)
          PROVE  phase'[i] = "over" /\ i \notin open'
      <4>1. phase[inst[c]] = "made"
        BY <3>3 DEF ListenFails, Listen, IInv, ListenPhase
      <4> QED BY <2>2, <3>0, <3>3, <4>1 DEF ListenFails, Listen, IInv, TypeOK
    <3>4. ASSUME NEW j \in Instances, Serve(j) \/ ServeReturns(j) \/ MarkStopped(j)
          PROVE  phase'[i] = "over" /\ i \notin open'
      BY <2>2, <3>0, <3>4 DEF Serve, BeginServe, ServeReturns, MarkStopped, IInv, TypeOK
    <3>5. ASSUME NEW c \in Callers, Shutdown(c) PROVE phase'[i] = "over" /\ i \notin open'
      BY <2>2, <3>0, <3>5 DEF Shutdown, CloseListener
    <3> QED BY <3>1, <3>2, <3>3, <3>4, <3>5 DEF Next, Stop, StopReturns, Respond, Request
  <2> QED BY <2>1, <2>2
<1> QED BY <1>1, <1>2, ShutQuietStep, Invariance, PTL DEF Spec
=============================================================================
