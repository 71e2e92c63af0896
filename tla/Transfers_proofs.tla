-------------------------- MODULE Transfers_proofs --------------------------
(***************************************************************************)
(* Connections to file servers, uploads and the sessions before them, for  *)
(* any number of each: no outcome is lost unread or told wrongly, an open  *)
(* connection has an owner, its commands follow each other, and what it    *)
(* remembers of the server is true.                                        *)
(***************************************************************************)
EXTENDS Transfers, SequenceTheorems, FiniteSetTheorems, TLAPS

-----------------------------------------------------------------------------
(* Sessions: each call of a poller and each step of their goroutines *)

\* A call is about a session of the kind it is for, and a poller that has read a session
\* as done has been seen to read it.
PollOK ==
    \A p \in Pollers :
        /\ poll[p].at \in {"status", "read", "cancel"} => poll[p].id \in Sessions
        /\ poll[p].at = "read" =>
              poll[p].id \in Plain /\ (poll[p].done => poll[p].id \in answered)
        /\ poll[p].at = "cancel" => poll[p].id \in Dials

\* A session leaves its table only when its handle is answered.
KeptOK ==
    \A i \in Sessions :
        /\ done[i] => work[i] # "off"
        /\ work[i] # "off" => i \in table \cup answered

\* The outcome of a connect comes with the end of its goroutine.
OutcomeOK ==
    \A i \in Dials :
        /\ work[i] \in {"busy", "settling"} => i \in table
        /\ work[i] # "over" => ~done[i] /\ ~conn[i] /\ delivered[i] = 0
        /\ work[i] = "over" => done[i]
        /\ conn[i] => ~failed[i] /\ delivered[i] = 0
        /\ work[i] = "off" <=> dial[i] = "off"

\* Only a dial that came to its end opens a link, and it opens it for a goroutine that
\* waits, or for nobody.
LinkOK ==
    \A i \in Dials :
        /\ link[i] = "open" => dial[i] = "connected"
        /\ dial[i] = "dialling" => work[i] = "busy" \/ i \in gaveUp

SessionsInv ==
    /\ TypeOK
    /\ PollOK
    /\ KeptOK
    /\ OutcomeOK
    /\ LinkOK
    /\ OpenLinkOwned

-----------------------------------------------------------------------------

LEMMA Kinds ==
    /\ Requests \subseteq Plain /\ Mails \subseteq Plain /\ Burns \subseteq Plain
    /\ Plain \subseteq Sessions /\ Dials \subseteq Sessions
    /\ \A i \in Sessions : i \in Plain \/ i \in Dials
    /\ \A i \in Plain : i \notin Dials
    /\ NoSession \notin Sessions
  BY SessionsAssumption DEF Sessions, Plain

LEMMA InitSessions == Init => SessionsInv
<1> SUFFICES ASSUME Init PROVE SessionsInv
  OBVIOUS
<1>1. TypeOK
  BY Kinds DEF Init, Idle, TypeOK
<1>2. PollOK
  BY DEF Init, Idle, PollOK
<1>3. KeptOK /\ OutcomeOK /\ LinkOK /\ OpenLinkOwned
  BY Kinds DEF Init, KeptOK, OutcomeOK, LinkOK, OpenLinkOwned
<1> QED BY <1>1, <1>2, <1>3 DEF SessionsInv

-----------------------------------------------------------------------------
(* The calls of a poller *)

LEMMA StartKeeps ==
    ASSUME SessionsInv, NEW p \in Pollers, NEW i \in Sessions,
           StartRequest(p, i) \/ StartMail(p, i) \/ StartBurn(p, i) \/ StartConnect(p, i)
    PROVE  SessionsInv'
<1>1. TypeOK'
  BY Kinds
  DEF StartRequest, StartMail, StartBurn, StartConnect, Register, stateVars, dialVars,
      historyVars, SessionsInv, TypeOK
<1>2. PollOK'
  BY Kinds
  DEF StartRequest, StartMail, StartBurn, StartConnect, Register, stateVars, dialVars,
      historyVars, SessionsInv, TypeOK, PollOK
<1>3. KeptOK'
  BY Kinds
  DEF StartRequest, StartMail, StartBurn, StartConnect, Register, stateVars, dialVars,
      historyVars, SessionsInv, TypeOK, PollOK, KeptOK
<1>4. OutcomeOK'
  BY Kinds
  DEF StartRequest, StartMail, StartBurn, StartConnect, Register, stateVars, dialVars,
      historyVars, SessionsInv, TypeOK, PollOK, OutcomeOK
<1>5. LinkOK'
  BY Kinds
  DEF StartRequest, StartMail, StartBurn, StartConnect, Register, stateVars, dialVars,
      historyVars, SessionsInv, TypeOK, OutcomeOK, LinkOK
<1>6. OpenLinkOwned'
  BY Kinds
  DEF StartRequest, StartMail, StartBurn, StartConnect, Register, stateVars, dialVars,
      historyVars, SessionsInv, TypeOK, PollOK, OutcomeOK, LinkOK, OpenLinkOwned
<1> QED BY <1>1, <1>2, <1>3, <1>4, <1>5, <1>6 DEF SessionsInv

LEMMA LookUpKeeps ==
    ASSUME SessionsInv, NEW p \in Pollers, NEW i \in Sessions,
           LookUp(p, i, "status") \/ (i \in Dials /\ LookUp(p, i, "cancel"))
    PROVE  SessionsInv'
<1>1. TypeOK'
  <2>1. PICK call \in {"status", "cancel"} :
           poll' = [poll EXCEPT ![p] = [at |-> call, id |-> i, done |-> FALSE]]
    BY DEF LookUp, Idle
  <2>2. poll' \in [Pollers -> [at : {"idle", "status", "read", "cancel"},
                               id : Sessions \cup {NoSession}, done : BOOLEAN]]
    BY <2>1 DEF SessionsInv, TypeOK
  <2> QED BY <2>2 DEF LookUp, stateVars, dialVars, historyVars, SessionsInv, TypeOK
<1>2. PollOK'
  <2>1. PICK call \in {"status", "cancel"} :
           /\ poll' = [poll EXCEPT ![p] = [at |-> call, id |-> i, done |-> FALSE]]
           /\ call = "cancel" => i \in Dials
    BY DEF LookUp, Idle
  <2> QED BY <2>1 DEF LookUp, historyVars, SessionsInv, TypeOK, PollOK
<1>3. KeptOK'
  BY Kinds
  DEF LookUp, Idle, stateVars, dialVars, historyVars, SessionsInv, TypeOK, PollOK, KeptOK
<1>4. OutcomeOK'
  BY Kinds
  DEF LookUp, Idle, stateVars, dialVars, historyVars, SessionsInv, TypeOK, PollOK,
      OutcomeOK
<1>5. LinkOK'
  BY Kinds
  DEF LookUp, Idle, stateVars, dialVars, historyVars, SessionsInv, TypeOK, OutcomeOK,
      LinkOK
<1>6. OpenLinkOwned'
  BY Kinds
  DEF LookUp, Idle, stateVars, dialVars, historyVars, SessionsInv, TypeOK, PollOK,
      OutcomeOK, LinkOK, OpenLinkOwned
<1> QED BY <1>1, <1>2, <1>3, <1>4, <1>5, <1>6 DEF SessionsInv

LEMMA ReadPlainKeeps ==
    ASSUME SessionsInv, NEW p \in Pollers, ReadPlain(p)
    PROVE  SessionsInv'
<1>1. TypeOK'
  BY Kinds
  DEF ReadPlain, Saw, stateVars, dialVars, historyVars, SessionsInv, TypeOK
<1>2. PollOK'
  BY Kinds
  DEF ReadPlain, Saw, stateVars, dialVars, historyVars, SessionsInv, TypeOK, PollOK
<1>3. KeptOK'
  BY Kinds
  DEF ReadPlain, Saw, stateVars, dialVars, historyVars, SessionsInv, TypeOK, PollOK,
      KeptOK
<1>4. OutcomeOK'
  BY Kinds
  DEF ReadPlain, Saw, stateVars, dialVars, historyVars, SessionsInv, TypeOK, PollOK,
      OutcomeOK
<1>5. LinkOK'
  BY Kinds
  DEF ReadPlain, Saw, stateVars, dialVars, historyVars, SessionsInv, TypeOK, OutcomeOK,
      LinkOK
<1>6. OpenLinkOwned'
  BY Kinds
  DEF ReadPlain, Saw, stateVars, dialVars, historyVars, SessionsInv, TypeOK, PollOK,
      OutcomeOK, LinkOK, OpenLinkOwned
<1> QED BY <1>1, <1>2, <1>3, <1>4, <1>5, <1>6 DEF SessionsInv

LEMMA DropPlainKeeps ==
    ASSUME SessionsInv, NEW p \in Pollers, DropPlain(p)
    PROVE  SessionsInv'
<1>1. TypeOK'
  BY Kinds
  DEF DropPlain, Over, Idle, stateVars, dialVars, historyVars, SessionsInv, TypeOK
<1>2. PollOK'
  BY Kinds
  DEF DropPlain, Over, Idle, stateVars, dialVars, historyVars, SessionsInv, TypeOK, PollOK
<1>3. KeptOK'
  BY Kinds
  DEF DropPlain, Over, Idle, stateVars, dialVars, historyVars, SessionsInv, TypeOK,
      PollOK, KeptOK
<1>4. OutcomeOK'
  BY Kinds
  DEF DropPlain, Over, Idle, stateVars, dialVars, historyVars, SessionsInv, TypeOK,
      PollOK, OutcomeOK
<1>5. LinkOK'
  BY Kinds
  DEF DropPlain, Over, Idle, stateVars, dialVars, historyVars, SessionsInv, TypeOK,
      OutcomeOK, LinkOK
<1>6. OpenLinkOwned'
  BY Kinds
  DEF DropPlain, Over, Idle, stateVars, dialVars, historyVars, SessionsInv, TypeOK,
      PollOK, OutcomeOK, LinkOK, OpenLinkOwned
<1> QED BY <1>1, <1>2, <1>3, <1>4, <1>5, <1>6 DEF SessionsInv

LEMMA ReadConnectKeeps ==
    ASSUME SessionsInv, NEW p \in Pollers, ReadConnect(p)
    PROVE  SessionsInv'
<1>1. TypeOK'
  <2>1. Idle \in [at : {"idle", "status", "read", "cancel"},
                  id : Sessions \cup {NoSession}, done : BOOLEAN]
    BY DEF Idle
  <2>2. poll' \in [Pollers -> [at : {"idle", "status", "read", "cancel"},
                               id : Sessions \cup {NoSession}, done : BOOLEAN]]
    BY <2>1 DEF ReadConnect, SessionsInv, TypeOK
  <2>3. delivered' \in [Dials -> 0 .. 2]
    BY DEF ReadConnect, SessionsInv, TypeOK
  <2>4. conn' \in [Dials -> BOOLEAN] /\ table' \subseteq Sessions /\ answered' \subseteq Sessions
    BY Kinds DEF ReadConnect, TakeConnection, Saw, SessionsInv, TypeOK
  <2> QED
    BY <2>2, <2>3, <2>4
    DEF ReadConnect, dialVars, SessionsInv, TypeOK
<1>2. PollOK'
  BY Kinds
  DEF ReadConnect, TakeConnection, Saw, Idle, stateVars, dialVars, historyVars,
      SessionsInv, TypeOK, PollOK
<1>3. KeptOK'
  BY Kinds
  DEF ReadConnect, TakeConnection, Saw, Idle, stateVars, dialVars, historyVars,
      SessionsInv, TypeOK, PollOK, KeptOK
<1>4. OutcomeOK'
  BY Kinds
  DEF ReadConnect, TakeConnection, Saw, Idle, stateVars, dialVars, historyVars,
      SessionsInv, TypeOK, PollOK, OutcomeOK
<1>5. LinkOK'
  BY Kinds
  DEF ReadConnect, TakeConnection, Saw, Idle, stateVars, dialVars, historyVars,
      SessionsInv, TypeOK, OutcomeOK, LinkOK
<1>6. OpenLinkOwned'
  BY Kinds
  DEF ReadConnect, TakeConnection, Saw, Idle, stateVars, dialVars, historyVars,
      SessionsInv, TypeOK, PollOK, OutcomeOK, LinkOK, OpenLinkOwned
<1> QED BY <1>1, <1>2, <1>3, <1>4, <1>5, <1>6 DEF SessionsInv

LEMMA ForgetKeeps ==
    ASSUME SessionsInv, NEW p \in Pollers, NEW i \in Sessions,
           CancelRequest(p, i) \/ CancelBurn(p, i)
    PROVE  SessionsInv'
<1>1. TypeOK'
  BY Kinds
  DEF CancelRequest, CancelBurn, Forget, stateVars, dialVars, historyVars, SessionsInv,
      TypeOK
<1>2. PollOK'
  BY Kinds
  DEF CancelRequest, CancelBurn, Forget, stateVars, dialVars, historyVars, SessionsInv,
      TypeOK, PollOK
<1>3. KeptOK'
  BY Kinds
  DEF CancelRequest, CancelBurn, Forget, stateVars, dialVars, historyVars, SessionsInv,
      TypeOK, PollOK, KeptOK
<1>4. OutcomeOK'
  BY Kinds
  DEF CancelRequest, CancelBurn, Forget, stateVars, dialVars, historyVars, SessionsInv,
      TypeOK, PollOK, OutcomeOK
<1>5. LinkOK'
  BY Kinds
  DEF CancelRequest, CancelBurn, Forget, stateVars, dialVars, historyVars, SessionsInv,
      TypeOK, OutcomeOK, LinkOK
<1>6. OpenLinkOwned'
  BY Kinds
  DEF CancelRequest, CancelBurn, Forget, stateVars, dialVars, historyVars, SessionsInv,
      TypeOK, PollOK, OutcomeOK, LinkOK, OpenLinkOwned
<1> QED BY <1>1, <1>2, <1>3, <1>4, <1>5, <1>6 DEF SessionsInv

LEMMA CancelKeeps ==
    ASSUME SessionsInv, NEW p \in Pollers, CancelConnect(p)
    PROVE  SessionsInv'
<1>1. TypeOK'
  <2>1. Idle \in [at : {"idle", "status", "read", "cancel"},
                  id : Sessions \cup {NoSession}, done : BOOLEAN]
    BY DEF Idle
  <2>2. poll' \in [Pollers -> [at : {"idle", "status", "read", "cancel"},
                               id : Sessions \cup {NoSession}, done : BOOLEAN]]
    BY <2>1 DEF CancelConnect, SessionsInv, TypeOK
  <2> QED
    BY <2>2, Kinds
    DEF CancelConnect, PollOK, stateVars, dialVars, historyVars, SessionsInv, TypeOK
<1>2. PollOK'
  BY Kinds
  DEF CancelConnect, Idle, stateVars, dialVars, historyVars, SessionsInv, TypeOK, PollOK
<1>3. KeptOK'
  BY Kinds
  DEF CancelConnect, Idle, stateVars, dialVars, historyVars, SessionsInv, TypeOK, PollOK,
      KeptOK
<1>4. OutcomeOK'
  BY Kinds
  DEF CancelConnect, Idle, stateVars, dialVars, historyVars, SessionsInv, TypeOK, PollOK,
      OutcomeOK
<1>5. LinkOK'
  BY Kinds
  DEF CancelConnect, Idle, stateVars, dialVars, historyVars, SessionsInv, TypeOK,
      OutcomeOK, LinkOK
<1>6. OpenLinkOwned'
  BY Kinds
  DEF CancelConnect, Idle, stateVars, dialVars, historyVars, SessionsInv, TypeOK, PollOK,
      OutcomeOK, LinkOK, OpenLinkOwned
<1> QED BY <1>1, <1>2, <1>3, <1>4, <1>5, <1>6 DEF SessionsInv

-----------------------------------------------------------------------------
(* The goroutines of the sessions *)

LEMMA FinishKeeps ==
    ASSUME SessionsInv, NEW i \in Plain, FinishRequest(i) \/ FinishMail(i) \/ FinishBurn(i)
    PROVE  SessionsInv'
<1>1. TypeOK'
  <2>1. Finish(i)
    BY DEF FinishRequest, FinishMail, FinishBurn
  <2>2. work' \in [Sessions -> {"off", "busy", "settling", "over"}] /\ done' \in [Sessions -> BOOLEAN]
    BY <2>1 DEF Finish, SessionsInv, TypeOK
  <2> QED BY <2>1, <2>2 DEF Finish, dialVars, historyVars, SessionsInv, TypeOK
<1>2. PollOK'
  BY Kinds
  DEF FinishRequest, FinishMail, FinishBurn, Finish, stateVars, dialVars, historyVars,
      SessionsInv, TypeOK, PollOK
<1>3. KeptOK'
  BY Kinds
  DEF FinishRequest, FinishMail, FinishBurn, Finish, stateVars, dialVars, historyVars,
      SessionsInv, TypeOK, PollOK, KeptOK
<1>4. OutcomeOK'
  BY Kinds
  DEF FinishRequest, FinishMail, FinishBurn, Finish, stateVars, dialVars, historyVars,
      SessionsInv, TypeOK, PollOK, OutcomeOK
<1>5. LinkOK'
  BY Kinds
  DEF FinishRequest, FinishMail, FinishBurn, Finish, stateVars, dialVars, historyVars,
      SessionsInv, TypeOK, OutcomeOK, LinkOK
<1>6. OpenLinkOwned'
  BY Kinds
  DEF FinishRequest, FinishMail, FinishBurn, Finish, stateVars, dialVars, historyVars,
      SessionsInv, TypeOK, PollOK, OutcomeOK, LinkOK, OpenLinkOwned
<1> QED BY <1>1, <1>2, <1>3, <1>4, <1>5, <1>6 DEF SessionsInv

LEMMA DialKeeps ==
    ASSUME SessionsInv, NEW i \in Dials, Dial(i)
    PROVE  SessionsInv'
<1>1. TypeOK'
  BY Kinds
  DEF Dial, stateVars, dialVars, historyVars, SessionsInv, TypeOK
<1>2. PollOK'
  BY Kinds
  DEF Dial, stateVars, dialVars, historyVars, SessionsInv, TypeOK, PollOK
<1>3. KeptOK'
  BY Kinds
  DEF Dial, stateVars, dialVars, historyVars, SessionsInv, TypeOK, PollOK, KeptOK
<1>4. OutcomeOK'
  BY Kinds
  DEF Dial, stateVars, dialVars, historyVars, SessionsInv, TypeOK, PollOK, OutcomeOK
<1>5. LinkOK'
  BY Kinds
  DEF Dial, stateVars, dialVars, historyVars, SessionsInv, TypeOK, OutcomeOK, LinkOK
<1>6. OpenLinkOwned'
  BY Kinds
  DEF Dial, stateVars, dialVars, historyVars, SessionsInv, TypeOK, PollOK, OutcomeOK,
      LinkOK, OpenLinkOwned
<1> QED BY <1>1, <1>2, <1>3, <1>4, <1>5, <1>6 DEF SessionsInv

LEMMA TakeKeeps ==
    ASSUME SessionsInv, NEW i \in Dials, TakeDial(i) \/ GiveUp(i)
    PROVE  SessionsInv'
<1>1. TypeOK'
  BY Kinds
  DEF TakeDial, GiveUp, Take, GuardRunsOut, stateVars, dialVars, historyVars, SessionsInv,
      TypeOK
<1>2. PollOK'
  BY Kinds
  DEF TakeDial, GiveUp, Take, GuardRunsOut, stateVars, dialVars, historyVars, SessionsInv,
      TypeOK, PollOK
<1>3. KeptOK'
  BY Kinds
  DEF TakeDial, GiveUp, Take, GuardRunsOut, stateVars, dialVars, historyVars, SessionsInv,
      TypeOK, PollOK, KeptOK
<1>4. OutcomeOK'
  BY Kinds
  DEF TakeDial, GiveUp, Take, GuardRunsOut, stateVars, dialVars, historyVars, SessionsInv,
      TypeOK, PollOK, OutcomeOK
<1>5. LinkOK'
  BY Kinds
  DEF TakeDial, GiveUp, Take, GuardRunsOut, stateVars, dialVars, historyVars, SessionsInv,
      TypeOK, OutcomeOK, LinkOK
<1>6. OpenLinkOwned'
  BY Kinds
  DEF TakeDial, GiveUp, Take, GuardRunsOut, stateVars, dialVars, historyVars, SessionsInv,
      TypeOK, PollOK, OutcomeOK, LinkOK, OpenLinkOwned
<1> QED BY <1>1, <1>2, <1>3, <1>4, <1>5, <1>6 DEF SessionsInv

LEMMA SettleKeeps ==
    ASSUME SessionsInv, NEW i \in Dials, Settle(i)
    PROVE  SessionsInv'
<1>1. TypeOK'
  BY Kinds
  DEF Settle, CloseLink, stateVars, dialVars, historyVars, SessionsInv, TypeOK
<1>2. PollOK'
  BY Kinds
  DEF Settle, CloseLink, stateVars, dialVars, historyVars, SessionsInv, TypeOK, PollOK
<1>3. KeptOK'
  BY Kinds
  DEF Settle, CloseLink, stateVars, dialVars, historyVars, SessionsInv, TypeOK, PollOK,
      KeptOK
<1>4. OutcomeOK'
  BY Kinds
  DEF Settle, CloseLink, stateVars, dialVars, historyVars, SessionsInv, TypeOK, PollOK,
      OutcomeOK
<1>5. LinkOK'
  BY Kinds
  DEF Settle, CloseLink, stateVars, dialVars, historyVars, SessionsInv, TypeOK, OutcomeOK,
      LinkOK
<1>6. OpenLinkOwned'
  <2>1. /\ work[i] = "settling" /\ i \in table /\ ~conn[i] /\ delivered[i] = 0
        /\ UNCHANGED <<table, cancelled, held, delivered, gaveUp, late>>
    BY DEF Settle, historyVars, SessionsInv, OutcomeOK
  <2>2. \A j \in Dials \ {i} :
           UNCHANGED <<work[j], link[j], conn[j]>>
    BY DEF Settle, CloseLink, SessionsInv, TypeOK
  <2>3. link'[i] = "open" => \/ i \in table /\ conn'[i] /\ ~cancelled[i]
                             \/ i \in gaveUp \cup late
    <3>1. CASE held[i] = "link"
      BY <2>1, <3>1 DEF Settle, CloseLink, SessionsInv, TypeOK
    <3>2. CASE held[i] # "link"
      <4>1. link'[i] = link[i]
        BY <3>2 DEF Settle, CloseLink, SessionsInv, TypeOK
      <4>2. link[i] = "open" => i \in gaveUp \cup late
        BY <2>1, <3>2 DEF SessionsInv, OpenLinkOwned
      <4> QED BY <4>1, <4>2
    <3> QED BY <3>1, <3>2
  <2> QED BY <2>1, <2>2, <2>3 DEF SessionsInv, OpenLinkOwned
<1> QED BY <1>1, <1>2, <1>3, <1>4, <1>5, <1>6 DEF SessionsInv

LEMMA SessionsKeep ==
    ASSUME SessionsInv, SessionStep \/ \E p \in Pollers : PollerStep(p)
    PROVE  SessionsInv'
  BY StartKeeps, LookUpKeeps, ReadPlainKeeps, DropPlainKeeps, ReadConnectKeeps, ForgetKeeps,
     CancelKeeps, FinishKeeps, DialKeeps, TakeKeeps, SettleKeeps
  DEF SessionStep, PollerStep, RequestStatus, MailStatus, BurnStatus, PlainStatus

-----------------------------------------------------------------------------
(* Steps of others *)

LEMMA OthersKeep == SessionsInv /\ UNCHANGED vars => SessionsInv'
<1> SUFFICES ASSUME SessionsInv, UNCHANGED vars PROVE SessionsInv'
  OBVIOUS
<1>1. UNCHANGED <<table, work, done, failed, conn, cancelled, dial, link, held, poll,
                  answered, delivered, gaveUp, late>>
  BY DEF vars, stateVars, dialVars, historyVars
<1>2. TypeOK' /\ PollOK' /\ KeptOK'
  BY <1>1 DEF SessionsInv, TypeOK, PollOK, KeptOK
<1>3. OutcomeOK' /\ LinkOK' /\ OpenLinkOwned'
  BY <1>1 DEF SessionsInv, OutcomeOK, LinkOK, OpenLinkOwned
<1> QED BY <1>2, <1>3 DEF SessionsInv

\* A link is closed by the program that was given it.
LEMMA ClosingKeeps ==
    ASSUME SessionsInv, NEW c \in Dials, link' = [link EXCEPT ![c] = "closed"],
           UNCHANGED <<table, work, stateVars, dial, held, poll, historyVars>>
    PROVE  SessionsInv'
<1>1. UNCHANGED <<table, work, done, failed, conn, cancelled, dial, held, poll, answered,
                  delivered, gaveUp, late>>
  BY DEF stateVars, historyVars
<1>2. TypeOK' /\ PollOK' /\ KeptOK'
  BY <1>1 DEF SessionsInv, TypeOK, PollOK, KeptOK
<1>3. OutcomeOK' /\ LinkOK' /\ OpenLinkOwned'
  BY <1>1 DEF SessionsInv, TypeOK, OutcomeOK, LinkOK, OpenLinkOwned
<1> QED BY <1>2, <1>3 DEF SessionsInv

-----------------------------------------------------------------------------
(* Connections and uploads *)

Paths == Seq(Names)

Errands ==
    [at : {"none", "mark", "store", "clear", "close"}, conn : Links \cup {NoSession},
     dir : Paths, up : Uploads \cup {Nobody}]

\* The server, and what the connections remember of it.
ServerType ==
    /\ there \subseteq Paths
    /\ known \in [Connections -> SUBSET Paths]
    /\ gone \in [Connections -> SUBSET Paths]
    /\ errand \in [Pollers \cup Uploads -> Errands]

\* What an SFTP call or upload is about to remember is still there, or is known to have
\* been taken away.
OwedTrue ==
    /\ \A a \in Pollers \cup Uploads :
          /\ errand[a].at \in {"mark", "clear", "close", "store"} => errand[a].conn \in Links
          /\ errand[a].at = "mark" => errand[a].dir \in there \cup gone[errand[a].conn]
    /\ \A u \in Uploads : errand[u].at \in {"none", "mark"}

ServerInv == ServerType /\ OwedTrue /\ CacheTrue

UploadRecords ==
    [at : {"off", "queue", "dirs", "open", "send", "delete", "leaving", "left", "over"},
     conn : Connections \cup {NoSession}, written : 0 .. Size, sent : 0 .. Size,
     again : BOOLEAN, cancel : BOOLEAN, err : {"", "failed", "cancelled"}, done : BOOLEAN]

LookRecords ==
    [at : {"idle", "done", "err", "quitting"}, up : Uploads \cup {Nobody}, done : BOOLEAN]

UploadType ==
    /\ mutex \in [Dials -> Uploads \cup Pollers \cup {Nobody}]
    /\ quit \in [Dials -> {"no", "waited", "left", "over"}]
    /\ up \in [Uploads -> UploadRecords]
    /\ look \in [Pollers -> LookRecords]
    /\ told \in [Uploads -> {"nothing", "stored", "failed", "cancelled"}]

\* An FTP upload that has begun and not left holds the mutex of its connection, and so
\* does a poller that waits for the answer to a QUIT.
HolderOK ==
    /\ \A u \in Uploads :
          /\ up[u].at # "off" => up[u].conn \in Connections
          /\ up[u].at \in {"queue", "delete", "left"} => up[u].conn \in Dials
          /\ up[u].at \in {"dirs", "open", "send", "delete", "leaving"} /\ up[u].conn \in Dials =>
                mutex[up[u].conn] = u
    /\ \A c \in Dials : quit[c] = "waited" => mutex[c] \in Pollers

\* What an upload says of its end is how it ended, from the moment it begins to leave.
EndOK ==
    \A u \in Uploads :
        /\ up[u].at \notin {"leaving", "left", "over"} =>
              u \notin landed /\ up[u].sent = up[u].written
        /\ up[u].at \in {"leaving", "left", "over"} =>
              IF up[u].err = "" THEN u \in landed /\ up[u].written = Size ELSE u \notin landed
        /\ up[u].err = "cancelled" => up[u].cancel
        /\ up[u].done <=> up[u].at = "over"

\* A status call that has read done finds the error as it stays, and an upload is in its
\* table until one such call has told how it ended.
ToldOK ==
    /\ \A p \in Pollers :
          /\ look[p].at \in {"done", "err"} => look[p].up \in Uploads
          /\ look[p].at = "err" /\ look[p].done => up[look[p].up].at = "over"
    /\ \A u \in Uploads :
          /\ told[u] # "nothing" =>
                up[u].at = "over" /\ told[u] = IF up[u].err = "" THEN "stored" ELSE up[u].err
          /\ up[u].at # "off" => u \in listed \/ told[u] # "nothing"
          /\ u \in listed => up[u].at # "off"

UploadInv == UploadType /\ HolderOK /\ EndOK /\ ToldOK

\* An upload that is about to remember its directory is still at making it.
OwedUploads ==
    \A u \in Uploads : errand[u].at = "mark" => up[u].at = "dirs" /\ up[u].conn \in Links

NetInv ==
    /\ SessionsInv
    /\ ServerInv
    /\ UploadInv
    /\ OwedUploads

-----------------------------------------------------------------------------
(* Assumptions and small facts *)

LEMMA Apartness ==
    /\ Dials \subseteq Connections /\ Links \subseteq Connections /\ Links \cap Dials = {}
    /\ Nobody \notin Uploads /\ Nobody \notin Pollers /\ Uploads \cap Pollers = {}
    /\ NoSession \notin Dials /\ Clerks \subseteq Pollers
    /\ \A u \in Uploads : Target[u] \in Paths
    /\ \A d \in Directories : d \in Paths /\ d # <<>>
    /\ Size \in Nat \ {0}
  BY TransfersAssumption, SessionsAssumption DEF Connections, Sessions, Paths

\* The directories from the root down to d are paths, and d is the last of them.
LEMMA DownTo ==
    ASSUME NEW d \in Paths
    PROVE  /\ ToSet(Down(d)) \subseteq Paths
           /\ d # <<>> => d \in ToSet(Down(d))
           /\ Above(d) \in Paths
<1>1. Len(d) \in Nat /\ \A i \in 1 .. Len(d) : d[i] \in Names
  BY DEF Paths
<1>2. \A k \in 0 .. Len(d) : SubSeq(d, 1, k) \in Paths
  <2> SUFFICES ASSUME NEW k \in 0 .. Len(d) PROVE SubSeq(d, 1, k) \in Seq(Names)
    BY DEF Paths
  <2>1. \A i \in 1 .. k : d[i] \in Names
    BY <1>1
  <2> QED BY <2>1, SubSeqProperties
<1>3. ToSet(Down(d)) \subseteq Paths
  <2> SUFFICES ASSUME NEW k \in 1 .. Len(d) PROVE SubSeq(d, 1, k) \in Paths
    BY DEF ToSet, Down
  <2>1. k \in 0 .. Len(d)
    BY <1>1
  <2> QED BY <1>2, <2>1
<1>4. ASSUME d # <<>> PROVE d \in ToSet(Down(d))
  <2>1. Len(d) \in 1 .. Len(d)
    BY <1>4, EmptySeq DEF Paths
  <2>2. SubSeq(d, 1, Len(d)) = d
    BY DEF Paths
  <2> QED BY <2>1, <2>2 DEF ToSet, Down
<1>5. Above(d) \in Paths
  <2>1. CASE Len(d) = 0
    BY <1>1, <2>1, SubSeqEmpty, EmptySeq DEF Above, Front, Paths
  <2>2. CASE Len(d) # 0
    BY <1>1, <1>2, <2>2 DEF Above, Front
  <2> QED BY <2>1, <2>2
<1> QED BY <1>3, <1>4, <1>5

-----------------------------------------------------------------------------
(* What connections remember of the server *)

\* What a call that makes directories leaves of the server and of the connection's memory.
Sound(c, r) ==
    /\ there \subseteq r.there /\ r.there \subseteq Paths
    /\ r.known \subseteq Paths /\ r.known \subseteq known[c] \cup r.there

LEMMA EnsuredSound ==
    ASSUME ServerType, NEW c \in Connections, NEW d \in Paths, NEW refused
    PROVE  Sound(c, MadeFtp(c, d, refused)) /\ Sound(c, EnsureFtp(c, d, refused))
<1>1. known[c] \subseteq Paths /\ there \subseteq Paths
  BY DEF ServerType
<1>2. Sound(c, AsItIs(c))
  BY <1>1 DEF Sound, AsItIs, Knows
<1>3. Sound(c, MadeFtp(c, d, refused))
  <2> DEFINE asked == ToSet(Down(d)) \ known[c]
             fails == {p \in asked : \/ Len(p) >= refused
                                     \/ Len(p) > 1 /\ Above(p) \in known[c] \ there}
             made  == {p \in asked : \A f \in fails : ~Under(f, p)}
  <2>1. made \subseteq Paths
    BY DownTo
  <2>2. MadeFtp(c, d, refused) = Knows(known[c] \cup made, there \cup made, fails = {})
    BY DEF MadeFtp
  <2> HIDE DEF made, fails
  <2> QED BY <1>1, <2>1, <2>2 DEF Sound, Knows
<1> QED BY <1>2, <1>3 DEF EnsureFtp

\* A connection learns of directories.
LEMMA LearnKeeps ==
    ASSUME ServerInv, NEW c \in Connections, NEW r, Sound(c, r), Learn(c, r),
           UNCHANGED <<gone, errand>>
    PROVE  ServerInv'
<1>1. /\ there' = r.there /\ there \subseteq there'
      /\ \A b \in Connections : known'[b] = IF b = c THEN r.known ELSE known[b]
      /\ known' \in [Connections -> SUBSET Paths] /\ there' \subseteq Paths
  BY DEF Learn, Sound, ServerInv, ServerType
<1>2. ServerType' /\ OwedTrue'
  BY <1>1 DEF ServerInv, ServerType, OwedTrue
<1>3. ASSUME NEW b \in Connections, NEW d \in known'[b]
      PROVE  d \in there' \cup gone'[b] \cup Clearing(b)'
  <2>1. d \in known[b] \/ d \in there'
    BY <1>1, <1>3 DEF Sound
  <2>2. CASE d \in known[b]
    BY <1>1, <1>3, <2>2 DEF ServerInv, CacheTrue, Clearing
  <2> QED BY <2>1, <2>2
<1> QED BY <1>2, <1>3 DEF ServerInv, CacheTrue

\* Directories vanish, and every connection of by remembers them in vain; another one
\* forgets now, or owes to forget what is under a path at or above theirs.
LEMMA VanishKeeps ==
    ASSUME ServerInv, NEW path, NEW by \in SUBSET Connections, Vanish(path),
           Unnoticed(path, by), UNCHANGED errand,
           \/ by = Connections /\ UNCHANGED known
           \/ \E c \in Connections : by = Connections \ {c} /\ ForgetDirs(c)
    PROVE  ServerInv'
<1>1. \A c \in Connections : gone'[c] =
          gone[c] \cup {d \in there \cap (Marking(c) \cup IF c \in by THEN known[c] ELSE {}) :
                        Under(path, d)}
  BY DEF Unnoticed
<1>2. there' = {d \in there : ~Under(path, d)}
  BY DEF Vanish
<1>3. known' \in [Connections -> SUBSET Paths]
      /\ \A c \in Connections : known'[c] = {} \/ (c \in by /\ known'[c] = known[c])
  BY DEF ForgetDirs, ServerInv, ServerType
<1>4. gone' \in [Connections -> SUBSET Paths]
  BY <1>1 DEF Unnoticed, ServerInv, ServerType
<1>5. CacheTrue'
  BY <1>1, <1>2, <1>3 DEF ServerInv, CacheTrue, Clearing
<1>6. OwedTrue'
  BY <1>1, <1>2, Apartness DEF ServerInv, OwedTrue, Marking
<1> QED BY <1>2, <1>3, <1>4, <1>5, <1>6 DEF ServerInv, ServerType

\* A removal has taken directories from the server and owes to forget them.
LEMMA RemovedKeeps ==
    ASSUME ServerInv, NEW p \in Pollers, NEW c \in Links, NEW path \in Paths,
           Vanish(path), Unnoticed(path, Connections \ {c}), UNCHANGED known,
           errand[p].at = "none", Owes(p, Errand("clear", c, path, Nobody))
    PROVE  ServerInv'
<1> DEFINE e == Errand("clear", c, path, Nobody)
<1>1. \A b \in Connections : gone'[b] =
          gone[b] \cup {d \in there \cap (Marking(b) \cup IF b # c THEN known[b] ELSE {}) :
                        Under(path, d)}
  BY DEF Unnoticed
<1>2. there' = {d \in there : ~Under(path, d)}
  BY DEF Vanish
<1>3. e \in Errands /\ e.at = "clear" /\ e.conn = c /\ e.dir = path
  BY DEF Errand, Errands
<1> HIDE DEF e
<1>4. errand' \in [Pollers \cup Uploads -> Errands] /\ errand'[p] = e
      /\ \A a \in Pollers \cup Uploads : a # p => errand'[a] = errand[a]
  BY <1>3 DEF Owes, ServerInv, ServerType, e
<1>5. gone' \in [Connections -> SUBSET Paths]
  BY <1>1 DEF Unnoticed, ServerInv, ServerType
<1>6. OwedTrue'
  BY <1>1, <1>2, <1>3, <1>4, Apartness DEF ServerInv, OwedTrue, Marking
<1>7. ASSUME NEW b \in Connections, NEW d \in known'[b]
      PROVE  d \in there' \cup gone'[b] \cup Clearing(b)'
  <2>1. CASE d \in there
    <3>1. CASE b = c /\ Under(path, d)
      <4>1. d \in Clearing(b)'
        BY <1>3, <1>4, <1>7, <3>1 DEF Clearing
      <4> QED BY <4>1
    <3> QED BY <1>1, <1>2, <1>7, <2>1, <3>1
  <2>2. CASE d \in gone[b]
    BY <1>1, <2>2
  <2>3. CASE d \in Clearing(b)
    <3>1. d \in Clearing(b)'
      BY <1>4, <1>7, <2>3 DEF Clearing
    <3> QED BY <3>1
  <2> QED BY <1>7, <2>1, <2>2, <2>3 DEF ServerInv, CacheTrue
<1> QED BY <1>2, <1>4, <1>5, <1>6, <1>7 DEF ServerInv, ServerType, CacheTrue

\* Directories are made, and whoever asked for them may owe to remember one.
LEMMA OwingKeeps ==
    ASSUME ServerInv, NEW a \in Pollers \cup Uploads, NEW e \in Errands,
           there \subseteq there', there' \subseteq Paths, UNCHANGED <<known, gone>>, Owes(a, e),
           errand[a].at # "clear", e.at \in {"mark", "store", "close"} => e.conn \in Links,
           e.at # "clear", e.at = "mark" => e.dir \in there',
           a \in Uploads => e.at \in {"none", "mark"}
    PROVE  ServerInv'
<1>1. errand' \in [Pollers \cup Uploads -> Errands] /\ errand'[a] = e
      /\ \A b \in Pollers \cup Uploads : b # a => errand'[b] = errand[b]
  BY DEF Owes, ServerInv, ServerType
<1>2. ServerType'
  BY <1>1 DEF ServerInv, ServerType
<1>3. OwedTrue'
  BY <1>1 DEF ServerInv, OwedTrue
<1>4. \A c \in Connections : Clearing(c)' = Clearing(c)
  BY <1>1 DEF Clearing
<1> QED BY <1>2, <1>3, <1>4 DEF ServerInv, CacheTrue

\* What was owed is remembered.
LEMMA MarkKeeps ==
    ASSUME ServerInv, NEW a \in Pollers \cup Uploads, NEW e \in Errands,
           errand[a].at = "mark", MarkCached(a), Owes(a, e), UNCHANGED <<there, gone>>,
           e.at \in {"none", "store"}, e.at = "store" => e.conn \in Links,
           a \in Uploads => e.at = "none"
    PROVE  ServerInv'
<1> DEFINE c == errand[a].conn
           d == errand[a].dir
<1>1. errand' \in [Pollers \cup Uploads -> Errands] /\ errand'[a] = e
      /\ \A b \in Pollers \cup Uploads : b # a => errand'[b] = errand[b]
  BY DEF Owes, ServerInv, ServerType
<1>2. c \in Connections /\ d \in Paths /\ d \in there \cup gone[c]
  BY Apartness DEF ServerInv, ServerType, OwedTrue, Errands
<1>3. known' = [known EXCEPT ![c] = @ \cup {d}]
  BY DEF MarkCached
<1> HIDE DEF c, d
<1>4. ServerType' /\ OwedTrue'
  BY <1>1, <1>2, <1>3 DEF ServerInv, ServerType, OwedTrue
<1>5. \A b \in Connections : Clearing(b) \subseteq Clearing(b)'
  BY <1>1, <1>2, <1>3 DEF Clearing, ServerInv, ServerType
<1>6. ASSUME NEW b \in Connections PROVE known'[b] \subseteq there \cup gone[b] \cup Clearing(b)'
  BY <1>2, <1>3, <1>5 DEF ServerInv, ServerType, CacheTrue
<1> QED BY <1>4, <1>6 DEF ServerInv, CacheTrue

\* A connection forgets all it remembers.
LEMMA ForgetDirsKeeps ==
    ASSUME ServerInv, NEW c \in Connections, ForgetDirs(c), UNCHANGED <<there, gone>>,
           \/ UNCHANGED errand
           \/ \E p \in Pollers, e \in Errands :
                 /\ Owes(p, e) /\ (errand[p].at = "clear" => errand[p].conn = c)
                 /\ e.at \in {"none", "close"} /\ (e.at = "close" => e.conn \in Links)
    PROVE  ServerInv'
<1>1. known'[c] = {} /\ \A b \in Connections : b # c => known'[b] = known[b]
  BY DEF ForgetDirs, ServerInv, ServerType
<1>2. known' \in [Connections -> SUBSET Paths]
  BY DEF ForgetDirs, ServerInv, ServerType
<1>3. CASE UNCHANGED errand
  BY <1>1, <1>2, <1>3 DEF ServerInv, ServerType, OwedTrue, CacheTrue, Clearing
<1>4. ASSUME NEW p \in Pollers, NEW e \in Errands,
             Owes(p, e), errand[p].at = "clear" => errand[p].conn = c,
             e.at \in {"none", "close"}, e.at = "close" => e.conn \in Links
      PROVE  ServerInv'
  <2>1. errand' \in [Pollers \cup Uploads -> Errands] /\ errand'[p] = e
        /\ \A b \in Pollers \cup Uploads : b # p => errand'[b] = errand[b]
    BY <1>4 DEF Owes, ServerInv, ServerType
  <2>2. ServerType' /\ OwedTrue'
    BY <1>2, <1>4, <2>1, Apartness DEF ServerInv, ServerType, OwedTrue
  <2>3. \A b \in Connections : b # c => Clearing(b) \subseteq Clearing(b)'
    BY <1>1, <1>4, <2>1 DEF Clearing
  <2>4. ASSUME NEW b \in Connections PROVE known'[b] \subseteq there \cup gone[b] \cup Clearing(b)'
    BY <1>1, <2>3 DEF ServerInv, CacheTrue
  <2> QED BY <2>2, <2>4 DEF ServerInv, CacheTrue
<1> QED BY <1>3, <1>4

LEMMA ServerStays ==
    ASSUME ServerInv, UNCHANGED <<there, known, gone, errand>>
    PROVE  ServerInv'
  BY DEF ServerInv, ServerType, OwedTrue, CacheTrue, Clearing

\* Errands are well formed.
LEMMA ErrandsAre ==
    ASSUME NEW c \in Links, NEW d \in Paths, NEW u \in Uploads \cup {Nobody},
           NEW at \in {"none", "mark", "store", "clear", "close"}
    PROVE  /\ NoErrand \in Errands /\ NoErrand.at = "none"
           /\ Errand(at, c, d, u) \in Errands
           /\ Errand(at, c, d, u).at = at /\ Errand(at, c, d, u).conn = c
           /\ Errand(at, c, d, u).dir = d
           /\ Onward(c, u) \in Errands /\ Onward(c, u).at \in {"none", "store"}
           /\ Onward(c, u).at = "store" => Onward(c, u).conn = c
           /\ Onward(c, Nobody) = NoErrand
<1>1. <<>> \in Paths
  BY EmptySeq DEF Paths
<1> QED BY <1>1 DEF NoErrand, Errand, Onward, Errands

\* MkdirAll makes paths, and if the server does not refuse, d is there.
LEMMA MadeAll ==
    ASSUME ServerInv, NEW d \in Paths, NEW refused, MkdirAll(d, refused)
    PROVE  /\ there \subseteq there' /\ there' \subseteq Paths
           /\ d # <<>> /\ Len(d) < refused => d \in there'
  BY DownTo DEF MkdirAll, ServerInv, ServerType

\* The calls of both kinds of connections, in one list.
LEMMA CallsAre ==
    ASSUME NEW p, Calling(p)
    PROVE  \/ \E u \in Uploads, c \in Connections :
                 \/ StartFtpUpload(p, u, c) \/ StartSftpUpload(p, u, c)
                 \/ UploadFtp(p, c, u) \/ UploadSftp(p, c, u) \/ Delete(p, c, u)
           \/ \E u \in Uploads : StoreSftp(p, u)
           \/ MarkMade(p) \/ ForgetRemoved(p) \/ CloseSftp(p)
           \/ \E u \in Uploads : AskUpload(p, u) \/ FtpCancelUpload(p, u) \/ SftpCancelUpload(p, u)
           \/ ReadDone(p) \/ FtpUploadStatus(p) \/ SftpUploadStatus(p)
           \/ \E c \in Connections, d \in Directories :
                 \/ MkdirFtp(p, c, d) \/ MkdirSftp(p, c, d) \/ RemoveDir(p, c, d)
                 \/ Rename(p, c, d) \/ RemoveAllFtp(p, c, d) \/ RemoveAllSftp(p, c, d)
           \/ \E c \in Links : ConnectSftp(p, c) \/ DisconnectSftp(p, c)
           \/ \E c \in Dials : Disconnect(p, c)
<1>1. CASE \E c \in Dials : CallFtp(p, c)
  BY <1>1 DEF CallFtp, DeleteFtp, RemoveDirFtp, RenameFtp, Connections
<1>2. CASE \E c \in Links : CallSftp(p, c)
  BY <1>2 DEF CallSftp, DeleteSftp, RemoveDirSftp, RenameSftp, Connections
<1> QED BY <1>1, <1>2 DEF Calling

LEMMA RequireServer ==
    ASSUME ServerInv, NEW p \in Pollers, NEW c, NEW d \in Paths,
           NEW u \in Uploads \cup {Nobody}, Require(p, c, d, u)
    PROVE  ServerInv'
<1>1. c \in Links /\ errand[p].at = "none" /\ UNCHANGED <<known, gone>>
  BY DEF Require, CanCall, Free, Outside
<1>2. CASE UNCHANGED there /\ Owes(p, Onward(c, u))
  <2>1. there' \subseteq Paths
    BY <1>2 DEF ServerInv, ServerType
  <2> QED BY <1>1, <1>2, <2>1, ErrandsAre, OwingKeeps, Apartness
<1>3. CASE d # <<>> /\ \E refused :
              /\ MkdirAll(d, refused)
              /\ IF Len(d) < refused THEN Owes(p, Errand("mark", c, d, u)) ELSE UNCHANGED errand
  <2> PICK refused : /\ MkdirAll(d, refused)
                     /\ IF Len(d) < refused THEN Owes(p, Errand("mark", c, d, u))
                                            ELSE UNCHANGED errand
    BY <1>3
  <2>1. there \subseteq there' /\ there' \subseteq Paths /\ (Len(d) < refused => d \in there')
    BY <1>3, MadeAll
  <2>2. CASE Len(d) < refused
    BY <1>1, <2>1, <2>2, ErrandsAre, OwingKeeps, Apartness
  <2>3. CASE UNCHANGED errand
    BY <1>1, <2>1, <2>3 DEF ServerInv, ServerType, OwedTrue, CacheTrue, Clearing
  <2> QED BY <2>2, <2>3
<1> QED BY <1>2, <1>3 DEF Require, Ensured

LEMMA CallsServer ==
    ASSUME ServerInv, NEW p \in Clerks, Calling(p)
    PROVE  ServerInv'
<1>1. CASE \E u \in Uploads, c \in Connections : UploadFtp(p, c, u)
  <2> PICK u \in Uploads, c \in Connections : UploadFtp(p, c, u)
    BY <1>1
  <2>1. PICK r : Sound(c, r) /\ Learn(c, r)
    BY EnsuredSound, DownTo, Apartness DEF UploadFtp, ServerInv
  <2> QED BY <2>1, LearnKeeps DEF UploadFtp
<1>2. CASE \E c \in Connections, d \in Directories : MkdirFtp(p, c, d)
  <2> PICK c \in Connections, d \in Directories : MkdirFtp(p, c, d)
    BY <1>2
  <2>1. PICK r : Sound(c, r) /\ Made(p, c, r)
    BY EnsuredSound, Apartness DEF MkdirFtp, ServerInv
  <2> QED BY <2>1, LearnKeeps DEF Made
<1>3. CASE \E c \in Connections, d \in Directories : RemoveDir(p, c, d) \/ Rename(p, c, d)
  BY <1>3, VanishKeeps DEF RemoveDir, Rename, wireVars
<1>4. CASE \E c \in Connections, d \in Directories :
              RemoveAllFtp(p, c, d) \/ RemoveAllSftp(p, c, d)
  <2> PICK c \in Connections, d \in Directories : RemoveAllFtp(p, c, d) \/ RemoveAllSftp(p, c, d)
    BY <1>4
  <2>1. CASE Wholly(c, d) /\ ForgetDirs(c) /\ UNCHANGED errand
    BY <2>1, VanishKeeps DEF Wholly
  <2>2. CASE Partly(d) /\ UNCHANGED <<known, errand>>
    BY <2>2, VanishKeeps DEF Partly
  <2>3. CASE UNCHANGED <<serverVars, known, gone, errand>>
    BY <2>3, ServerStays DEF serverVars
  <2>4. CASE RemoveAllSftp(p, c, d) /\ Wholly(c, d) /\ Owes(p, Errand("clear", c, d, Nobody))
    <3>1. c \in Links /\ errand[p].at = "none" /\ UNCHANGED known
      BY <2>4 DEF RemoveAllSftp, Removal, CanCall, Free, Outside
    <3> QED BY <2>4, <3>1, RemovedKeeps, Apartness DEF Wholly
  <2> QED BY <2>1, <2>2, <2>3, <2>4 DEF RemoveAllFtp, RemoveAllSftp
<1>5. CASE \E c \in Dials : Disconnect(p, c)
  BY <1>5, ForgetDirsKeeps, Apartness DEF Disconnect, serverVars, accountVars
<1>6. CASE \E c \in Links : DisconnectSftp(p, c)
  <2> PICK c \in Links : DisconnectSftp(p, c)
    BY <1>6
  <2> DEFINE e == Errand("close", c, <<>>, Nobody)
  <2>1. <<>> \in Paths
    BY EmptySeq DEF Paths
  <2>2. e \in Errands /\ e.at = "close" /\ e.conn = c
    BY <2>1, ErrandsAre
  <2>3. Owes(p, e) /\ ForgetDirs(c) /\ UNCHANGED <<there, gone>> /\ errand[p].at = "none"
    BY DEF DisconnectSftp, Free, Outside, serverVars, accountVars
  <2> HIDE DEF e
  <2> QED BY <2>2, <2>3, ForgetDirsKeeps, Apartness
<1>7. CASE ForgetRemoved(p)
  <2>1. errand[p].at = "clear" /\ errand[p].conn \in Links
    BY <1>7, Apartness DEF ForgetRemoved, ServerInv, OwedTrue
  <2>2. NoErrand \in Errands /\ NoErrand.at = "none"
    BY <2>1, EmptySeq, ErrandsAre DEF Paths
  <2>3. Owes(p, NoErrand) /\ ForgetDirs(errand[p].conn) /\ UNCHANGED <<there, gone>>
    BY <1>7 DEF ForgetRemoved, serverVars, accountVars
  <2> QED BY <2>1, <2>2, <2>3, ForgetDirsKeeps, Apartness
<1>8. CASE MarkMade(p)
  <2>1. /\ errand[p].at = "mark" /\ errand[p].conn \in Links /\ MarkCached(p)
        /\ Owes(p, Onward(errand[p].conn, errand[p].up)) /\ UNCHANGED <<there, gone>>
    BY <1>8, Apartness DEF MarkMade, ServerInv, OwedTrue, serverVars, accountVars
  <2>2. errand[p].up \in Uploads \cup {Nobody} /\ errand[p].dir \in Paths
    BY Apartness DEF ServerInv, ServerType, Errands
  <2> QED BY <2>1, <2>2, MarkKeeps, ErrandsAre, Apartness
<1>9. CASE \/ CloseSftp(p)
           \/ \E u \in Uploads : StoreSftp(p, u)
  <2>1. /\ errand[p].at \in {"close", "store"} /\ errand[p].conn \in Links
        /\ Owes(p, NoErrand) /\ UNCHANGED <<there, known, gone>>
    BY <1>9, Apartness DEF CloseSftp, StoreSftp, ServerInv, OwedTrue, serverVars, accountVars
  <2>2. NoErrand \in Errands /\ NoErrand.at = "none"
    BY <2>1, EmptySeq, ErrandsAre DEF Paths
  <2>3. there' \subseteq Paths
    BY <2>1 DEF ServerInv, ServerType
  <2> QED BY <2>1, <2>2, <2>3, OwingKeeps, Apartness
<1>10. CASE \/ \E u \in Uploads, c \in Connections : UploadSftp(p, c, u)
            \/ \E c \in Connections, d \in Directories : MkdirSftp(p, c, d)
  BY <1>10, RequireServer, DownTo, Apartness DEF UploadSftp, MkdirSftp
<1>11. CASE \/ \E u \in Uploads, c \in Connections :
                  StartFtpUpload(p, u, c) \/ StartSftpUpload(p, u, c) \/ Delete(p, c, u)
            \/ \E u \in Uploads : AskUpload(p, u) \/ FtpCancelUpload(p, u) \/ SftpCancelUpload(p, u)
            \/ ReadDone(p) \/ FtpUploadStatus(p) \/ SftpUploadStatus(p)
            \/ \E c \in Links : ConnectSftp(p, c)
  <2>1. UNCHANGED <<there, known, gone, errand>>
    BY <1>11
    DEF StartFtpUpload, StartSftpUpload, Enlist, Delete, AskUpload, FtpCancelUpload,
        SftpCancelUpload, Cancel, ReadDone, FtpUploadStatus, SftpUploadStatus, Answer,
        ConnectSftp, serverVars, wireVars, accountVars
  <2> QED BY <2>1, ServerStays
<1> QED BY <1>1, <1>2, <1>3, <1>4, <1>5, <1>6, <1>7, <1>8, <1>9, <1>10, <1>11, CallsAre

LEMMA UploadsServer ==
    ASSUME ServerInv, HolderOK, NEW u \in Uploads, Uploading(u)
    PROVE  ServerInv'
<1> DEFINE c == up[u].conn
           d == Above(Target[u])
<1>0. d \in Paths
  BY DownTo, Apartness
<1>1. CASE MakeDirsFtp(u)
  <2>1. c \in Connections /\ UNCHANGED <<gone, errand>>
    BY <1>1, Apartness DEF MakeDirsFtp, accountVars
  <2>2. PICK r : Sound(c, r) /\ Learn(c, r)
    BY <1>0, <1>1, <2>1, EnsuredSound DEF MakeDirsFtp, ServerInv
  <2> QED BY <2>1, <2>2, LearnKeeps
<1>2. CASE MakeDirsSftp(u)
  <2>1. c \in Links /\ errand[u].at = "none" /\ UNCHANGED <<known, gone>>
    BY <1>2 DEF MakeDirsSftp, accountVars
  <2>2. CASE UNCHANGED <<there, errand>>
    BY <2>1, <2>2, ServerStays
  <2>3. CASE d # <<>> /\ \E refused :
                /\ MkdirAll(d, refused)
                /\ IF Len(d) < refused THEN Owes(u, Errand("mark", c, d, Nobody))
                                       ELSE UNCHANGED errand
    <3> PICK refused : /\ MkdirAll(d, refused)
                       /\ IF Len(d) < refused THEN Owes(u, Errand("mark", c, d, Nobody))
                                              ELSE UNCHANGED errand
      BY <2>3
    <3> HIDE DEF c, d
    <3>1. there \subseteq there' /\ there' \subseteq Paths /\ (Len(d) < refused => d \in there')
      BY <1>0, <2>3, MadeAll
    <3>2. CASE Len(d) < refused
      BY <1>0, <2>1, <3>1, <3>2, ErrandsAre, OwingKeeps, Apartness
    <3>3. CASE UNCHANGED errand
      BY <2>1, <3>1, <3>3 DEF ServerInv, ServerType, OwedTrue, CacheTrue, Clearing
    <3> QED BY <3>2, <3>3
  <2> QED BY <1>2, <2>2, <2>3 DEF MakeDirsSftp, Ensured
<1>3. CASE MarkDirs(u)
  <2>1. /\ errand[u].at = "mark" /\ errand[u].conn \in Links /\ MarkCached(u)
        /\ Owes(u, NoErrand) /\ UNCHANGED <<there, gone>>
    BY <1>3 DEF MarkDirs, ServerInv, OwedTrue, serverVars, accountVars
  <2>2. NoErrand \in Errands /\ NoErrand.at = "none"
    BY <2>1, EmptySeq, ErrandsAre DEF Paths
  <2> QED BY <2>1, <2>2, MarkKeeps
<1>4. CASE ~(MakeDirsFtp(u) \/ MakeDirsSftp(u) \/ MarkDirs(u))
  <2>1. UNCHANGED <<there, known, gone, errand>>
    BY <1>4
    DEF Uploading, TakeWire, CannotOpen, BeginStore, RefuseStore, Send, BreakOff, Stored,
        TryAgain, LeaveWire, MarkDone, serverVars, wireVars, accountVars
  <2> QED BY <2>1, ServerStays
<1> QED BY <1>1, <1>2, <1>3, <1>4

-----------------------------------------------------------------------------
(* A step of one upload *)

LEMMA Sizes == Size \in Nat /\ 0 \in 0 .. Size
<1>1. Size \in Nat
  BY TransfersAssumption
<1> QED BY <1>1

\* What the record r of upload u must be after a step of the upload itself.
Fits(u, r) ==
    /\ r \in UploadRecords
    /\ r.at # "off" /\ r.conn \in Connections
    /\ r.at \in {"queue", "delete", "left"} => r.conn \in Dials
    /\ r.at \in {"dirs", "open", "send", "delete", "leaving"} /\ r.conn \in Dials =>
          mutex'[r.conn] = u
    /\ r.at \notin {"leaving", "left", "over"} => u \notin landed' /\ r.sent = r.written
    /\ r.at \in {"leaving", "left", "over"} =>
          IF r.err = "" THEN u \in landed' /\ r.written = Size ELSE u \notin landed'
    /\ r.err = "cancelled" => r.cancel
    /\ r.done <=> r.at = "over"
    /\ up[u].at = "over" => r.at = "over" /\ r.err = up[u].err
    /\ u \in listed' \/ told[u] # "nothing"

\* A step of one upload.
LEMMA StepKeeps ==
    ASSUME UploadInv, NEW u \in Uploads, NEW r, Fits(u, r), up' = [up EXCEPT ![u] = r],
           UNCHANGED <<quit, look, told>>, listed \subseteq listed', listed' \subseteq listed \cup {u},
           landed' = landed \/ landed' = landed \cup {u},
           mutex' \in [Dials -> Uploads \cup Pollers \cup {Nobody}],
           \A c \in Dials : mutex'[c] = mutex[c] \/ mutex[c] \in {u, Nobody}
    PROVE  UploadInv'
<1>1. up' \in [Uploads -> UploadRecords] /\ up'[u] = r
  BY DEF UploadInv, UploadType, Fits
<1>2. \A v \in Uploads : v # u => up'[v] = up[v]
  BY DEF UploadInv, UploadType
<1>3. UploadType'
  BY <1>1 DEF UploadInv, UploadType
<1>4. HolderOK'
  <2>1. \A v \in Uploads :
           /\ up'[v].at # "off" => up'[v].conn \in Connections
           /\ up'[v].at \in {"queue", "delete", "left"} => up'[v].conn \in Dials
    BY <1>1, <1>2 DEF UploadInv, HolderOK, Fits
  <2>2. ASSUME NEW v \in Uploads, up'[v].conn \in Dials,
               up'[v].at \in {"dirs", "open", "send", "delete", "leaving"}
        PROVE  mutex'[up'[v].conn] = v
    <3>1. CASE v = u
      BY <1>1, <2>2, <3>1 DEF Fits
    <3>2. CASE v # u
      BY <1>2, <2>2, <3>2, Apartness DEF UploadInv, HolderOK
    <3> QED BY <3>1, <3>2
  <2>3. \A c \in Dials : quit[c] = "waited" => mutex'[c] \in Pollers
    BY Apartness DEF UploadInv, HolderOK
  <2> QED BY <2>1, <2>2, <2>3 DEF HolderOK
<1>5. EndOK'
  BY <1>1, <1>2 DEF UploadInv, EndOK, Fits
<1>6. ToldOK'
  <2>1. \A p \in Pollers :
           /\ look[p].at \in {"done", "err"} => look[p].up \in Uploads
           /\ look[p].at = "err" /\ look[p].done => up'[look[p].up].at = "over"
    <3> SUFFICES ASSUME NEW p \in Pollers, look[p].at \in {"done", "err"}
                 PROVE  /\ look[p].up \in Uploads
                        /\ look[p].at = "err" /\ look[p].done => up'[look[p].up].at = "over"
      OBVIOUS
    <3>1. look[p].up \in Uploads
      BY DEF UploadInv, ToldOK
    <3>2. look[p].at = "err" /\ look[p].done => up[look[p].up].at = "over"
      BY DEF UploadInv, ToldOK
    <3>3. CASE look[p].up = u
      BY <1>1, <3>1, <3>2, <3>3 DEF Fits
    <3>4. CASE look[p].up # u
      BY <1>2, <3>1, <3>2, <3>4
    <3> QED BY <3>1, <3>3, <3>4
  <2>2. ASSUME NEW v \in Uploads
        PROVE  /\ told[v] # "nothing" =>
                     /\ up'[v].at = "over"
                     /\ told[v] = IF up'[v].err = "" THEN "stored" ELSE up'[v].err
               /\ up'[v].at # "off" => v \in listed' \/ told[v] # "nothing"
               /\ v \in listed' => up'[v].at # "off"
    <3>1. CASE v = u
      BY <1>1, <3>1 DEF UploadInv, ToldOK, Fits
    <3>2. CASE v # u
      <4>1. up'[v] = up[v]
        BY <1>2, <3>2
      <4>2. v \in listed' <=> v \in listed
        BY <3>2
      <4> QED BY <4>1, <4>2 DEF UploadInv, ToldOK
    <3> QED BY <3>1, <3>2
  <2> QED BY <2>1, <2>2 DEF ToldOK
<1> QED BY <1>3, <1>4, <1>5, <1>6 DEF UploadInv

LEMMA EndsKeeps ==
    ASSUME UploadInv, NEW u \in Uploads, NEW err \in {"", "failed", "cancelled"},
           Ends(u, err), up[u].at \in {"dirs", "open", "send", "delete"},
           err = "cancelled" => up[u].cancel,
           IF err = "" THEN up[u].sent = Size /\ landed' = landed \cup {u}
                       ELSE UNCHANGED landed,
           UNCHANGED <<mutex, quit, listed, look, told>>
    PROVE  UploadInv'
<1> DEFINE r == [up[u] EXCEPT !.at = "leaving", !.err = err, !.sent = 0, !.again = FALSE]
<1>1. up[u] \in UploadRecords
  BY DEF UploadInv, UploadType
<1>2. up' = [up EXCEPT ![u] = r]
  BY DEF Ends
<1>3. 0 \in 0 .. Size
  BY Sizes
<1>4. r \in UploadRecords
  BY <1>1, <1>3 DEF UploadRecords
<1>5. Fits(u, r)
  BY <1>1, <1>2, <1>4 DEF UploadInv, HolderOK, EndOK, ToldOK, Fits, UploadRecords
<1>6. mutex' \in [Dials -> Uploads \cup Pollers \cup {Nobody}]
  BY DEF UploadInv, UploadType
<1> QED BY <1>2, <1>6, <1>5, StepKeeps

\* An upload goes on.
LEMMA MoveKeeps ==
    ASSUME UploadInv, NEW u \in Uploads, NEW to \in {"dirs", "open", "send", "delete"},
           up[u].at \in {"queue", "dirs", "open", "send"},
           up' = [up EXCEPT ![u].at = to], to = "delete" => up[u].conn \in Dials,
           UNCHANGED <<quit, listed, look, told, landed>>,
           \/ up[u].at # "queue" /\ UNCHANGED mutex
           \/ /\ up[u].conn \in Dials /\ mutex[up[u].conn] = Nobody
              /\ mutex' = [mutex EXCEPT ![up[u].conn] = u]
    PROVE  UploadInv'
<1> DEFINE r == [up[u] EXCEPT !.at = to]
<1>1. up[u] \in UploadRecords
  BY DEF UploadInv, UploadType
<1>2. mutex \in [Dials -> Uploads \cup Pollers \cup {Nobody}]
  BY DEF UploadInv, UploadType
<1>3. /\ mutex' \in [Dials -> Uploads \cup Pollers \cup {Nobody}]
      /\ \A c \in Dials : mutex'[c] = mutex[c] \/ mutex[c] \in {u, Nobody}
  BY <1>2
<1>4. /\ r \in UploadRecords /\ r.at = to /\ r.conn = up[u].conn /\ r.sent = up[u].sent
      /\ r.written = up[u].written /\ r.err = up[u].err /\ r.cancel = up[u].cancel
      /\ r.done = up[u].done
  BY <1>1 DEF UploadRecords
<1>5. up[u].conn \in Dials => mutex'[up[u].conn] = u
  BY <1>2 DEF UploadInv, HolderOK
<1> HIDE DEF r
<1>6. Fits(u, r)
  BY <1>4, <1>5 DEF UploadInv, HolderOK, EndOK, ToldOK, Fits
<1>7. up' = [up EXCEPT ![u] = r]
  BY DEF r
<1> QED BY <1>3, <1>6, <1>7, StepKeeps

-----------------------------------------------------------------------------
(* The goroutine of an upload *)

LEMMA UploadsStay ==
    ASSUME UploadInv, UNCHANGED <<mutex, quit, up, listed, look, told, landed>>
    PROVE  UploadInv'
<1>1. UploadType' /\ HolderOK'
  BY DEF UploadInv, UploadType, HolderOK
<1>2. EndOK' /\ ToldOK'
  BY DEF UploadInv, EndOK, ToldOK
<1> QED BY <1>1, <1>2 DEF UploadInv

LEMMA TakeWireKeeps ==
    ASSUME UploadInv, NEW u \in Uploads, TakeWire(u)
    PROVE  UploadInv'
<1>1. up[u].conn \in Dials
  BY DEF TakeWire, UploadInv, HolderOK
<1> QED BY <1>1, MoveKeeps DEF TakeWire, WireFree, accountVars

LEMMA MakeDirsKeeps ==
    ASSUME UploadInv, NEW u \in Uploads, MakeDirsFtp(u) \/ CannotOpen(u) \/ BeginStore(u)
    PROVE  UploadInv'
<1>1. UNCHANGED <<mutex, quit, listed, look, told, landed>>
  BY DEF MakeDirsFtp, CannotOpen, BeginStore, wireVars, accountVars
<1>2. up[u].at \in {"dirs", "open"}
  BY DEF MakeDirsFtp, CannotOpen, BeginStore
<1>3. \/ up' = [up EXCEPT ![u].at = "open"]
      \/ up' = [up EXCEPT ![u].at = "send"]
      \/ Ends(u, "failed")
  BY DEF MakeDirsFtp, CannotOpen, BeginStore
<1> QED BY <1>1, <1>2, <1>3, MoveKeeps, EndsKeeps

LEMMA MakeDirsSftpKeeps ==
    ASSUME UploadInv, OwedUploads, NEW u \in Uploads, MakeDirsSftp(u) \/ MarkDirs(u)
    PROVE  UploadInv'
<1>1. UNCHANGED <<mutex, quit, listed, look, told, landed>>
  BY DEF MakeDirsSftp, MarkDirs, accountVars
<1>2. up[u].at = "dirs"
  BY DEF MakeDirsSftp, MarkDirs, OwedUploads
<1>3. \/ up' = [up EXCEPT ![u].at = "open"]
      \/ UNCHANGED up
      \/ Ends(u, "failed")
  BY DEF MakeDirsSftp, MarkDirs
<1>4. CASE UNCHANGED up
  BY <1>1, <1>4, UploadsStay
<1> QED BY <1>1, <1>2, <1>3, <1>4, MoveKeeps, EndsKeeps

LEMMA FailKeeps ==
    ASSUME UploadInv, NEW u \in Uploads, RefuseStore(u) \/ BreakOff(u)
    PROVE  UploadInv'
<1>1. UNCHANGED <<mutex, quit, listed, look, told, landed>>
  BY DEF RefuseStore, BreakOff, wireVars, accountVars
<1>2. up[u].at \in {"open", "send"}
  BY DEF RefuseStore, BreakOff
<1>3. \/ up' = [up EXCEPT ![u].at = "delete"] /\ up[u].conn \in Dials
      \/ Ends(u, "failed")
      \/ Ends(u, "cancelled") /\ up[u].cancel
  BY DEF RefuseStore, BreakOff, StorFailed, CopyFailed
<1> QED BY <1>1, <1>2, <1>3, MoveKeeps, EndsKeeps

LEMMA SendKeeps ==
    ASSUME UploadInv, NEW u \in Uploads, Send(u)
    PROVE  UploadInv'
<1> DEFINE r == [up[u] EXCEPT !.sent = @ + 1, !.written = @ + 1]
<1>1. up[u] \in UploadRecords /\ up[u].at = "send" /\ up[u].sent < Size
  BY DEF Send, UploadInv, UploadType
<1>2. up' = [up EXCEPT ![u] = r] /\ UNCHANGED <<mutex, quit, look, told, listed, landed>>
  BY DEF Send, wireVars, accountVars
<1>3. up[u].sent = up[u].written
  BY <1>1 DEF UploadInv, EndOK
<1>4. up[u].sent + 1 \in 0 .. Size /\ up[u].written + 1 \in 0 .. Size
  <2>1. up[u].sent \in 0 .. Size
    BY <1>1 DEF UploadRecords
  <2> QED BY <1>1, <1>3, <2>1, Sizes
<1>5. /\ r \in UploadRecords /\ r.at = "send" /\ r.conn = up[u].conn /\ r.sent = r.written
      /\ r.err = up[u].err /\ r.cancel = up[u].cancel /\ r.done = up[u].done
  BY <1>1, <1>3, <1>4 DEF UploadRecords
<1> HIDE DEF r
<1>6. Fits(u, r)
  BY <1>1, <1>2, <1>5 DEF UploadInv, HolderOK, EndOK, ToldOK, Fits
<1>7. mutex' \in [Dials -> Uploads \cup Pollers \cup {Nobody}]
  BY <1>2 DEF UploadInv, UploadType
<1> QED BY <1>2, <1>6, <1>7, StepKeeps

LEMMA StoredKeeps ==
    ASSUME UploadInv, NEW u \in Uploads, Stored(u)
    PROVE  UploadInv'
  BY EndsKeeps DEF Stored, wireVars

LEMMA TryAgainKeeps ==
    ASSUME UploadInv, NEW u \in Uploads, TryAgain(u)
    PROVE  UploadInv'
<1> DEFINE r == [up[u] EXCEPT !.at = "open", !.again = TRUE, !.sent = 0, !.written = 0]
<1>1. up[u] \in UploadRecords /\ up[u].at = "delete"
  BY DEF TryAgain, UploadInv, UploadType
<1>2. UNCHANGED <<mutex, quit, look, told, listed, landed>>
  BY DEF TryAgain, wireVars, accountVars
<1>3. up' = [up EXCEPT ![u] = r] \/ Ends(u, "failed")
  BY DEF TryAgain, CountAnew
<1>4. /\ r \in UploadRecords /\ r.at = "open" /\ r.conn = up[u].conn /\ r.sent = r.written
      /\ r.err = up[u].err /\ r.cancel = up[u].cancel /\ r.done = up[u].done
  BY <1>1, Sizes DEF UploadRecords
<1> HIDE DEF r
<1>5. Fits(u, r)
  BY <1>1, <1>2, <1>4 DEF UploadInv, HolderOK, EndOK, ToldOK, Fits
<1>6. mutex' \in [Dials -> Uploads \cup Pollers \cup {Nobody}]
  BY <1>2 DEF UploadInv, UploadType
<1> QED BY <1>1, <1>2, <1>3, <1>5, <1>6, StepKeeps, EndsKeeps

LEMMA LeaveWireKeeps ==
    ASSUME UploadInv, NEW u \in Uploads, LeaveWire(u)
    PROVE  UploadInv'
<1> DEFINE r == [up[u] EXCEPT !.at = "left"]
<1>1. up[u] \in UploadRecords /\ up[u].at = "leaving"
  BY DEF LeaveWire, UploadInv, UploadType
<1>2. up' = [up EXCEPT ![u] = r] /\ UNCHANGED <<quit, look, told, listed, landed>>
  BY DEF LeaveWire, accountVars
<1>3. Fits(u, r)
  BY <1>1, <1>2 DEF LeaveWire, UploadInv, HolderOK, EndOK, ToldOK, Fits, UploadRecords
<1>4. /\ mutex' \in [Dials -> Uploads \cup Pollers \cup {Nobody}]
      /\ \A c \in Dials : mutex'[c] = mutex[c] \/ mutex[c] \in {u, Nobody}
  BY <1>1 DEF LeaveWire, UploadInv, UploadType, HolderOK
<1> QED BY <1>2, <1>3, <1>4, StepKeeps

LEMMA MarkDoneKeeps ==
    ASSUME UploadInv, NEW u \in Uploads, MarkDone(u)
    PROVE  UploadInv'
<1> DEFINE r == [up[u] EXCEPT !.at = "over", !.done = TRUE]
<1>1. up[u] \in UploadRecords /\ up[u].at \in {"left", "leaving"}
  BY DEF MarkDone, UploadInv, UploadType
<1>2. up' = [up EXCEPT ![u] = r] /\ UNCHANGED <<mutex, quit, look, told, listed, landed>>
  BY DEF MarkDone, wireVars, accountVars
<1>3. /\ r \in UploadRecords /\ r.at = "over" /\ r.conn = up[u].conn /\ r.done
      /\ r.written = up[u].written /\ r.err = up[u].err /\ r.cancel = up[u].cancel
  BY <1>1 DEF UploadRecords
<1> HIDE DEF r
<1>4. Fits(u, r)
  BY <1>1, <1>2, <1>3 DEF UploadInv, HolderOK, EndOK, ToldOK, Fits
<1>5. mutex' \in [Dials -> Uploads \cup Pollers \cup {Nobody}]
  BY <1>2 DEF UploadInv, UploadType
<1> QED BY <1>2, <1>4, <1>5, StepKeeps

LEMMA UploadingKeeps ==
    ASSUME UploadInv, OwedUploads, NEW u \in Uploads, Uploading(u)
    PROVE  UploadInv'
  BY TakeWireKeeps, MakeDirsKeeps, MakeDirsSftpKeeps, SendKeeps, FailKeeps, StoredKeeps, TryAgainKeeps,
     LeaveWireKeeps, MarkDoneKeeps
  DEF Uploading

LEMMA UploadingOwed ==
    ASSUME ServerInv, UploadInv, OwedUploads, NEW u \in Uploads, Uploading(u)
    PROVE  OwedUploads'
<1>1. up \in [Uploads -> UploadRecords] /\ errand \in [Pollers \cup Uploads -> Errands]
  BY DEF UploadInv, UploadType, ServerInv, ServerType
<1>2. \A v \in Uploads : v # u => up'[v] = up[v]
  BY <1>1
  DEF Uploading, TakeWire, MakeDirsFtp, MakeDirsSftp, MarkDirs, CannotOpen, BeginStore,
      RefuseStore, StorFailed, CopyFailed, Ends, Send, BreakOff, Stored, TryAgain, LeaveWire,
      MarkDone
<1>3. CASE MakeDirsSftp(u)
  <2>1. CASE UNCHANGED errand
    BY <1>2, <1>3, <2>1 DEF MakeDirsSftp, OwedUploads
  <2>2. CASE UNCHANGED up
    <3>1. \A v \in Uploads : v # u => errand'[v] = errand[v]
      BY <1>1, <1>3 DEF MakeDirsSftp, Owes
    <3>2. up[u].at = "dirs" /\ up[u].conn \in Links
      BY <1>3 DEF MakeDirsSftp
    <3> QED BY <2>2, <3>1, <3>2 DEF OwedUploads
  <2> QED BY <1>3, <2>1, <2>2 DEF MakeDirsSftp
<1>4. CASE MarkDirs(u)
  <2>1. errand'[u].at = "none" /\ \A v \in Uploads : v # u => errand'[v] = errand[v]
    BY <1>1, <1>4 DEF MarkDirs, Owes, NoErrand
  <2> QED BY <1>2, <2>1 DEF OwedUploads
<1>5. CASE ~(MakeDirsSftp(u) \/ MarkDirs(u))
  <2>1. up[u].at # "dirs" \/ up[u].conn \notin Links
    BY <1>5, Apartness
    DEF Uploading, TakeWire, MakeDirsFtp, CannotOpen, BeginStore, RefuseStore, Send, BreakOff,
        Stored, TryAgain, LeaveWire, MarkDone
  <2>2. UNCHANGED errand
    BY <1>5
    DEF Uploading, TakeWire, MakeDirsFtp, CannotOpen, BeginStore, RefuseStore, Send, BreakOff,
        Stored, TryAgain, LeaveWire, MarkDone, wireVars
  <2> QED BY <1>2, <2>1, <2>2 DEF OwedUploads
<1> QED BY <1>3, <1>4, <1>5

-----------------------------------------------------------------------------
(* The calls of a program *)

LEMMA EnlistKeeps ==
    ASSUME UploadInv, NEW p \in Pollers, NEW u \in Uploads, NEW c \in Connections,
           StartFtpUpload(p, u, c) \/ StartSftpUpload(p, u, c)
    PROVE  UploadInv'
<1>1. PICK at \in {"queue", "dirs"} :
         Enlist(p, u, c, at) /\ (IF at = "queue" THEN c \in Dials ELSE c \in Links)
  BY DEF StartFtpUpload, StartSftpUpload
<1> DEFINE r == [up[u] EXCEPT !.at = at, !.conn = c]
<1>2. up[u] \in UploadRecords /\ up[u].at = "off"
  BY <1>1 DEF Enlist, UploadInv, UploadType
<1>3. /\ up' = [up EXCEPT ![u] = r] /\ listed' = listed \cup {u}
      /\ UNCHANGED <<mutex, quit, look, told, landed>>
  BY <1>1 DEF Enlist, wireVars, accountVars
<1>4. /\ r \in UploadRecords /\ r.at = at /\ r.conn = c /\ r.sent = up[u].sent
      /\ r.written = up[u].written /\ r.err = up[u].err /\ r.cancel = up[u].cancel
      /\ r.done = up[u].done
  BY <1>2 DEF UploadRecords
<1> HIDE DEF r
<1>5. Fits(u, r)
  BY <1>1, <1>2, <1>3, <1>4, Apartness DEF UploadInv, EndOK, Fits
<1>6. mutex' \in [Dials -> Uploads \cup Pollers \cup {Nobody}]
  BY <1>3 DEF UploadInv, UploadType
<1> QED BY <1>3, <1>5, <1>6, StepKeeps

LEMMA CancelUploadKeeps ==
    ASSUME UploadInv, NEW p \in Pollers, NEW u \in Uploads,
           FtpCancelUpload(p, u) \/ SftpCancelUpload(p, u)
    PROVE  UploadInv'
<1> DEFINE r == [up[u] EXCEPT !.cancel = TRUE]
<1>1. up[u] \in UploadRecords /\ u \in listed
  BY DEF FtpCancelUpload, SftpCancelUpload, Cancel, UploadInv, UploadType
<1>2. up' = [up EXCEPT ![u] = r] /\ UNCHANGED <<mutex, quit, look, told, listed, landed>>
  BY DEF FtpCancelUpload, SftpCancelUpload, Cancel, wireVars, accountVars
<1>3. /\ r \in UploadRecords /\ r.at = up[u].at /\ r.conn = up[u].conn /\ r.sent = up[u].sent
      /\ r.written = up[u].written /\ r.err = up[u].err /\ r.cancel = TRUE
      /\ r.done = up[u].done
  BY <1>1 DEF UploadRecords
<1> HIDE DEF r
<1>4. Fits(u, r)
  BY <1>1, <1>2, <1>3 DEF UploadInv, HolderOK, EndOK, ToldOK, Fits
<1>5. mutex' \in [Dials -> Uploads \cup Pollers \cup {Nobody}]
  BY <1>2 DEF UploadInv, UploadType
<1> QED BY <1>2, <1>4, <1>5, StepKeeps

\* A poller goes on with a call, or begins one, or ends it.
LEMMA LookKeeps ==
    ASSUME UploadInv, NEW p \in Pollers, NEW l \in LookRecords, look' = [look EXCEPT ![p] = l],
           l.at \in {"done", "err"} => l.up \in Uploads,
           l.at = "err" /\ l.done => up[l.up].at = "over",
           UNCHANGED <<up, landed, told, listed>>,
           mutex' \in [Dials -> Uploads \cup Pollers \cup {Nobody}],
           quit' \in [Dials -> {"no", "waited", "left", "over"}], HolderOK'
    PROVE  UploadInv'
<1>1. look' \in [Pollers -> LookRecords] /\ look'[p] = l
      /\ \A q \in Pollers : q # p => look'[q] = look[q]
  BY DEF UploadInv, UploadType
<1>2. UploadType'
  BY <1>1 DEF UploadInv, UploadType
<1>3. EndOK'
  BY DEF UploadInv, EndOK
<1>4. ToldOK'
  BY <1>1 DEF UploadInv, ToldOK
<1> QED BY <1>2, <1>3, <1>4 DEF UploadInv

LEMMA AskKeeps ==
    ASSUME UploadInv, NEW p \in Pollers, (\E u \in Uploads : AskUpload(p, u)) \/ ReadDone(p)
    PROVE  UploadInv'
<1>1. UNCHANGED <<up, landed, told, listed, mutex, quit>>
  BY DEF AskUpload, ReadDone, wireVars, accountVars
<1>2. HolderOK' /\ mutex' \in [Dials -> Uploads \cup Pollers \cup {Nobody}]
      /\ quit' \in [Dials -> {"no", "waited", "left", "over"}]
  BY <1>1 DEF UploadInv, UploadType, HolderOK
<1>3. CASE \E u \in Uploads : AskUpload(p, u)
  <2> PICK u \in Uploads : AskUpload(p, u)
    BY <1>3
  <2> DEFINE l == [NoLook EXCEPT !.at = "done", !.up = u]
  <2>1. look' = [look EXCEPT ![p] = l]
    BY DEF AskUpload
  <2>2. NoLook \in LookRecords
    BY DEF NoLook, LookRecords
  <2>3. l \in LookRecords /\ l.at = "done" /\ l.up = u
    BY <2>2 DEF LookRecords
  <2> HIDE DEF l
  <2> QED BY <1>1, <1>2, <2>1, <2>3, LookKeeps
<1>4. CASE ReadDone(p)
  <2> DEFINE l == [look[p] EXCEPT !.at = "err", !.done = up[look[p].up].done]
  <2>1. look[p] \in LookRecords /\ look[p].at = "done" /\ look[p].up \in Uploads
    BY <1>4 DEF ReadDone, UploadInv, UploadType, ToldOK
  <2>2. up[look[p].up].done \in BOOLEAN
    BY <2>1 DEF UploadInv, UploadType, UploadRecords
  <2>3. look' = [look EXCEPT ![p] = l]
    BY <1>4 DEF ReadDone
  <2>4. l \in LookRecords /\ l.up = look[p].up /\ l.done = up[look[p].up].done
    BY <2>1, <2>2 DEF LookRecords
  <2>5. l.done => up[l.up].at = "over"
    BY <2>1, <2>4 DEF UploadInv, EndOK
  <2> HIDE DEF l
  <2> QED BY <1>1, <1>2, <2>1, <2>3, <2>4, <2>5, LookKeeps
<1> QED BY <1>3, <1>4

LEMMA AnswerKeeps ==
    ASSUME UploadInv, NEW p \in Pollers, FtpUploadStatus(p) \/ SftpUploadStatus(p)
    PROVE  UploadInv'
<1>1. PICK u \in Uploads : look[p].up = u /\ Answer(p, u)
  BY DEF FtpUploadStatus, SftpUploadStatus
<1>2. UNCHANGED <<up, landed, mutex, quit>> /\ look' = [look EXCEPT ![p] = NoLook]
  BY <1>1 DEF Answer, wireVars
<1>3. NoLook \in LookRecords /\ NoLook.at = "idle"
  BY DEF NoLook, LookRecords
<1>4. look' \in [Pollers -> LookRecords] /\ look'[p] = NoLook
      /\ \A q \in Pollers : q # p => look'[q] = look[q]
  BY <1>2, <1>3 DEF UploadInv, UploadType
<1>5. look[p].done => up[u].at = "over"
  BY <1>1 DEF Answer, UploadInv, ToldOK
<1>6. up[u].err \in {"", "failed", "cancelled"}
  BY DEF UploadInv, UploadType, UploadRecords
<1>7. \/ look[p].done /\ listed' = listed \ {u}
         /\ told' = [told EXCEPT ![u] = IF up[u].err = "" THEN "stored" ELSE up[u].err]
      \/ UNCHANGED <<told, listed>>
  BY <1>1 DEF Answer, SawDone, UploadInv, UploadType
<1>8. UploadType' /\ HolderOK'
  <2>1. told' \in [Uploads -> {"nothing", "stored", "failed", "cancelled"}]
    BY <1>6, <1>7 DEF UploadInv, UploadType
  <2>2. UploadType'
    BY <1>2, <1>4, <2>1 DEF UploadInv, UploadType
  <2>3. HolderOK'
    BY <1>2 DEF UploadInv, HolderOK
  <2> QED BY <2>2, <2>3
<1>9. EndOK'
  BY <1>2 DEF UploadInv, EndOK
<1>10. ToldOK'
  <2>1. \A q \in Pollers :
           /\ look'[q].at \in {"done", "err"} => look'[q].up \in Uploads
           /\ look'[q].at = "err" /\ look'[q].done => up'[look'[q].up].at = "over"
    BY <1>2, <1>3, <1>4 DEF UploadInv, ToldOK
  <2>2. \A v \in Uploads :
           /\ told'[v] # "nothing" =>
                 /\ up[v].at = "over"
                 /\ told'[v] = IF up[v].err = "" THEN "stored" ELSE up[v].err
           /\ up[v].at # "off" => v \in listed' \/ told'[v] # "nothing"
           /\ v \in listed' => up[v].at # "off"
    BY <1>5, <1>6, <1>7 DEF UploadInv, UploadType, ToldOK
  <2> QED BY <1>2, <2>1, <2>2 DEF ToldOK
<1> QED BY <1>8, <1>9, <1>10 DEF UploadInv

LEMMA DisconnectKeeps ==
    ASSUME UploadInv, NEW p \in Pollers, NEW c \in Dials, Disconnect(p, c)
    PROVE  UploadInv'
<1> DEFINE l == [look[p] EXCEPT !.at = "quitting"]
<1>1. /\ quit' = [quit EXCEPT ![c] = "waited"] /\ mutex' = [mutex EXCEPT ![c] = p]
      /\ mutex[c] = Nobody /\ UNCHANGED <<up, landed, told, listed>>
      /\ look' = [look EXCEPT ![p] = l]
  BY DEF Disconnect, WireFree, accountVars
<1>2. l \in LookRecords /\ l.at = "quitting"
  BY DEF UploadInv, UploadType, LookRecords
<1>3. mutex' \in [Dials -> Uploads \cup Pollers \cup {Nobody}]
      /\ quit' \in [Dials -> {"no", "waited", "left", "over"}]
  BY <1>1 DEF UploadInv, UploadType
<1>4. HolderOK'
  BY <1>1, Apartness DEF UploadInv, UploadType, HolderOK
<1> HIDE DEF l
<1> QED BY <1>1, <1>2, <1>3, <1>4, LookKeeps

LEMMA QuitKeeps ==
    ASSUME UploadInv, NEW c \in Dials, QuitAnswered(c) \/ QuitGuard(c)
    PROVE  UploadInv'
<1>1. PICK to \in {"over", "left"} : quit' = [quit EXCEPT ![c] = to]
  BY DEF QuitAnswered, QuitGuard
<1>2. UNCHANGED <<up, landed, told, listed>>
  BY DEF QuitAnswered, QuitGuard, accountVars
<1>3. CASE quit[c] = "waited"
  <2>1. /\ mutex[c] \in Pollers /\ mutex' = [mutex EXCEPT ![c] = Nobody]
        /\ look' = [look EXCEPT ![mutex[c]] = NoLook]
    BY <1>3 DEF QuitAnswered, QuitGuard, Return, UploadInv, HolderOK
  <2>2. NoLook \in LookRecords /\ NoLook.at = "idle"
    BY DEF NoLook, LookRecords
  <2>3. mutex' \in [Dials -> Uploads \cup Pollers \cup {Nobody}]
        /\ quit' \in [Dials -> {"no", "waited", "left", "over"}]
    BY <1>1, <2>1 DEF UploadInv, UploadType
  <2>4. HolderOK'
    BY <1>1, <1>2, <2>1, Apartness DEF UploadInv, UploadType, HolderOK
  <2> QED BY <1>2, <2>1, <2>2, <2>3, <2>4, LookKeeps
<1>4. CASE quit[c] # "waited"
  <2>1. UNCHANGED <<mutex, look>>
    BY <1>4 DEF QuitAnswered, QuitGuard
  <2>2. UploadType' /\ HolderOK'
    BY <1>1, <1>2, <2>1 DEF UploadInv, UploadType, HolderOK
  <2>3. EndOK' /\ ToldOK'
    BY <1>2, <2>1 DEF UploadInv, EndOK, ToldOK
  <2> QED BY <2>2, <2>3 DEF UploadInv
<1> QED BY <1>3, <1>4

\* No call of a program moves an upload that is about to remember its directory.
LEMMA CallsOwed ==
    ASSUME ServerInv, UploadInv, OwedUploads, NEW p \in Pollers, Calling(p)
    PROVE  OwedUploads'
<1>1. \A u \in Uploads : errand'[u] = errand[u]
  <2>1. UNCHANGED errand \/ \E e : Owes(p, e)
    BY CallsAre
    DEF StartFtpUpload, StartSftpUpload, Enlist, UploadFtp, UploadSftp, Require, StoreSftp,
        MarkMade, ForgetRemoved, CloseSftp, Delete, AskUpload, FtpCancelUpload,
        SftpCancelUpload, Cancel, ReadDone, FtpUploadStatus, SftpUploadStatus, Answer, MkdirFtp,
        MkdirSftp, Made, RemoveDir, Rename, RemoveAllFtp, RemoveAllSftp, Removal, ConnectSftp,
        DisconnectSftp, Disconnect, wireVars
  <2> QED BY <2>1, Apartness DEF Owes, ServerInv, ServerType
<1>2. ASSUME NEW u \in Uploads, up[u].at = "dirs"
      PROVE  up'[u].at = up[u].at /\ up'[u].conn = up[u].conn
  <2>1. up \in [Uploads -> UploadRecords] /\ up[u] \in UploadRecords
    BY DEF UploadInv, UploadType
  <2>2. CASE \E v \in Uploads, c \in Connections :
                StartFtpUpload(p, v, c) \/ StartSftpUpload(p, v, c)
    <3>1. PICK v \in Uploads, c \in Connections, at \in {"queue", "dirs"} : Enlist(p, v, c, at)
      BY <2>2 DEF StartFtpUpload, StartSftpUpload
    <3>2. v # u
      BY <1>2, <3>1 DEF Enlist
    <3> QED BY <2>1, <3>1, <3>2 DEF Enlist
  <2>3. CASE \E v \in Uploads : FtpCancelUpload(p, v) \/ SftpCancelUpload(p, v)
    <3>1. PICK v \in Uploads : up' = [up EXCEPT ![v].cancel = TRUE]
      BY <2>3 DEF FtpCancelUpload, SftpCancelUpload, Cancel
    <3> QED BY <2>1, <3>1 DEF UploadRecords
  <2>4. CASE UNCHANGED up
    BY <2>4
  <2>5. UNCHANGED up \/ (\E v \in Uploads, c \in Connections :
                              StartFtpUpload(p, v, c) \/ StartSftpUpload(p, v, c))
                     \/ (\E v \in Uploads : FtpCancelUpload(p, v) \/ SftpCancelUpload(p, v))
    BY CallsAre
    DEF UploadFtp, UploadSftp, Require, StoreSftp, MarkMade, ForgetRemoved, CloseSftp, Delete,
        AskUpload, ReadDone, FtpUploadStatus, SftpUploadStatus, Answer, MkdirFtp, MkdirSftp,
        Made, RemoveDir, Rename, RemoveAllFtp, RemoveAllSftp, Removal, ConnectSftp,
        DisconnectSftp, Disconnect, uploadVars
  <2> QED BY <2>2, <2>3, <2>4, <2>5
<1> QED BY <1>1, <1>2 DEF OwedUploads

LEMMA CallingKeeps ==
    ASSUME UploadInv, NEW p \in Pollers, Calling(p)
    PROVE  UploadInv'
<1>1. CASE \/ \E u \in Uploads, c \in Connections :
                 UploadFtp(p, c, u) \/ UploadSftp(p, c, u) \/ Delete(p, c, u)
           \/ \E u \in Uploads : StoreSftp(p, u)
           \/ MarkMade(p) \/ ForgetRemoved(p) \/ CloseSftp(p)
           \/ \E c \in Connections, d \in Directories :
                 \/ MkdirFtp(p, c, d) \/ MkdirSftp(p, c, d) \/ RemoveDir(p, c, d)
                 \/ Rename(p, c, d) \/ RemoveAllFtp(p, c, d) \/ RemoveAllSftp(p, c, d)
           \/ \E c \in Links : ConnectSftp(p, c) \/ DisconnectSftp(p, c)
  <2>1. UNCHANGED <<mutex, quit, up, listed, look, told, landed>>
    BY <1>1
    DEF UploadFtp, UploadSftp, Require, Delete, StoreSftp, MarkMade, ForgetRemoved, CloseSftp,
        MkdirFtp, MkdirSftp, Made, RemoveDir, Rename, RemoveAllFtp, RemoveAllSftp, Removal,
        ConnectSftp, DisconnectSftp, wireVars, uploadVars, accountVars
  <2> QED BY <2>1, UploadsStay
<1> QED BY <1>1, EnlistKeeps, AskKeeps, AnswerKeeps, CancelUploadKeeps, DisconnectKeeps,
          CallsAre

-----------------------------------------------------------------------------
(* The invariant of the whole *)

\* NetNext without the two bounds that keep TLC's state space small: sessions of all kinds
\* run in one behaviour, and a poller uses connections while others are inside their calls.
AnyNext ==
    \/ \E p \in Pollers : Outside(p) /\ PollerStep(p) /\ UNCHANGED transferVars
    \/ SessionStep /\ UNCHANGED transferVars
    \/ \E p \in Clerks : poll[p].at = "idle" /\ Calling(p)
    \/ \E u \in Uploads : Uploading(u)
    \/ \E c \in Dials : QuitAnswered(c) \/ QuitGuard(c)

AnySpec == NetInit /\ [][AnyNext]_netVars

LEMMA InitNet == NetInit => NetInv
<1> SUFFICES ASSUME NetInit PROVE NetInv
  OBVIOUS
<1>1. SessionsInv
  BY InitSessions DEF NetInit
<1>2. ServerInv
  <2>1. NoErrand \in Errands
    BY EmptySeq DEF NoErrand, Errands, Paths
  <2> QED BY <2>1 DEF NetInit, NoErrand, ServerInv, ServerType, OwedTrue, CacheTrue
<1>3. UploadType
  <2>1. NoLook \in LookRecords
    BY DEF NoLook, LookRecords
  <2>2. [at |-> "off", conn |-> NoSession, written |-> 0, sent |-> 0, again |-> FALSE,
         cancel |-> FALSE, err |-> "", done |-> FALSE] \in UploadRecords
    BY Sizes DEF UploadRecords
  <2> QED BY <2>1, <2>2 DEF NetInit, UploadType
<1>4. HolderOK /\ EndOK /\ ToldOK
  BY DEF NetInit, NoLook, HolderOK, EndOK, ToldOK
<1>5. OwedUploads
  BY DEF NetInit, NoErrand, OwedUploads
<1> QED BY <1>1, <1>2, <1>3, <1>4, <1>5 DEF NetInv, UploadInv

LEMMA NextNet == NetInv /\ [AnyNext]_netVars => NetInv'
<1> SUFFICES ASSUME NetInv, [AnyNext]_netVars PROVE NetInv'
  OBVIOUS
<1>1. ASSUME UNCHANGED transferVars PROVE ServerInv' /\ UploadInv' /\ OwedUploads'
  <2>1. UNCHANGED <<there, known, gone, errand>>
        /\ UNCHANGED <<mutex, quit, up, listed, look, told, landed>>
    BY <1>1 DEF transferVars, serverVars, wireVars, uploadVars, accountVars
  <2> QED BY <2>1, ServerStays, UploadsStay DEF NetInv, OwedUploads
<1>2. CASE UNCHANGED netVars
  <2>1. UNCHANGED vars /\ UNCHANGED transferVars
    BY <1>2 DEF netVars
  <2> QED BY <1>1, <2>1, OthersKeep DEF NetInv
<1>3. CASE \/ \E p \in Pollers : PollerStep(p) /\ UNCHANGED transferVars
           \/ SessionStep /\ UNCHANGED transferVars
  BY <1>1, <1>3, SessionsKeep DEF NetInv
<1>4. CASE \E p \in Clerks : Calling(p)
  <2> PICK p \in Clerks : Calling(p)
    BY <1>4
  <2>1. UNCHANGED vars
    BY CallsAre
    DEF StartFtpUpload, StartSftpUpload, Enlist, UploadFtp, UploadSftp, Require, StoreSftp,
        MarkMade, ForgetRemoved, CloseSftp, Delete, AskUpload, FtpCancelUpload,
        SftpCancelUpload, Cancel, ReadDone, FtpUploadStatus, SftpUploadStatus, Answer, MkdirFtp,
        MkdirSftp, Made, RemoveDir, Rename, RemoveAllFtp, RemoveAllSftp, Removal, ConnectSftp,
        DisconnectSftp, Disconnect
  <2> QED BY <2>1, OthersKeep, CallsServer, CallingKeeps, CallsOwed, Apartness DEF NetInv
<1>5. CASE \E u \in Uploads : Uploading(u)
  <2> PICK u \in Uploads : Uploading(u)
    BY <1>5
  <2>1. UNCHANGED vars
    BY DEF Uploading, TakeWire, MakeDirsFtp, MakeDirsSftp, MarkDirs, CannotOpen, BeginStore, RefuseStore, Send,
           BreakOff, Stored, TryAgain, LeaveWire, MarkDone
  <2> QED BY <2>1, OthersKeep, UploadsServer, UploadingKeeps, UploadingOwed DEF NetInv, UploadInv
<1>6. CASE \E c \in Dials : QuitAnswered(c) \/ QuitGuard(c)
  <2> PICK c \in Dials : QuitAnswered(c) \/ QuitGuard(c)
    BY <1>6
  <2>1. UploadInv'
    BY QuitKeeps DEF NetInv
  <2>2. ServerInv' /\ OwedUploads'
    BY ServerStays DEF QuitAnswered, QuitGuard, serverVars, accountVars, NetInv, OwedUploads
  <2>3. SessionsInv'
    BY OthersKeep, ClosingKeeps DEF QuitAnswered, QuitGuard, NetInv
  <2> QED BY <2>1, <2>2, <2>3 DEF NetInv
<1> QED BY <1>2, <1>3, <1>4, <1>5, <1>6 DEF AnyNext

\* The bounds only leave steps out.
LEMMA Bounded == [NetNext]_netVars => [AnyNext]_netVars
<1>1. ConnectsQuiet => \A p \in Clerks : poll[p].at = "idle"
  BY Apartness DEF ConnectsQuiet
<1> QED BY <1>1 DEF NetNext, AnyNext

\* The inductive invariant holds in every reachable state, with the bounds and without.
THEOREM Invariance == AnySpec => []NetInv
  BY InitNet, NextNet, PTL DEF AnySpec

LEMMA NetInvariance == NetSpec => []NetInv
  BY InitNet, NextNet, Bounded, PTL DEF NetSpec

\* Types: of the sessions, of the server and of the uploads.
THEOREM TypesCorrect == NetSpec => [](TypeOK /\ ServerType /\ UploadType)
<1>1. NetInv => TypeOK /\ ServerType /\ UploadType
  BY DEF NetInv, SessionsInv, ServerInv, UploadInv
<1> QED BY <1>1, NetInvariance, PTL

LEMMA OwnedInv == NetInv => OpenLinkOwned
  BY DEF NetInv, SessionsInv

\* A connection is handed out once, and while it is open it has an owner, unless the
\* guard gave it up or it was cancelled when it was done.
THEOREM LinksOwned == NetSpec => []OpenLinkOwned
  BY OwnedInv, NetInvariance, PTL

LEMMA KeptInv == NetInv => NothingLostUnread
<1> SUFFICES ASSUME NetInv PROVE NothingLostUnread
  OBVIOUS
<1>1. ResultKept
  BY DEF NetInv, SessionsInv, KeptOK, ResultKept
<1>2. \A u \in Uploads : up[u].done => u \in listed \/ told[u] # "nothing"
  BY DEF NetInv, UploadInv, EndOK, ToldOK
<1> QED BY <1>1, <1>2 DEF NothingLostUnread

\* A result of a session and the outcome of an upload stay in their table until they have
\* been read.
THEOREM NothingLost == NetSpec => []NothingLostUnread
  BY KeptInv, NetInvariance, PTL

LEMMA ToldInv == NetInv => ToldAsItEnded
<1> SUFFICES ASSUME NetInv, NEW u \in Uploads, told[u] # "nothing"
             PROVE  /\ told[u] = "stored" => u \in landed /\ up[u].written = Size
                    /\ told[u] \in {"failed", "cancelled"} => u \notin landed
                    /\ told[u] = "cancelled" => up[u].cancel
  BY DEF ToldAsItEnded
<1>1. up[u].at = "over" /\ told[u] = IF up[u].err = "" THEN "stored" ELSE up[u].err
  BY DEF NetInv, UploadInv, ToldOK
<1>2. up[u].err \in {"", "failed", "cancelled"}
  BY DEF NetInv, UploadInv, UploadType, UploadRecords
<1> QED BY <1>1, <1>2 DEF NetInv, UploadInv, EndOK

\* What a status call says of the end of an upload is how it ended.
THEOREM ToldTruly == NetSpec => []ToldAsItEnded
  BY ToldInv, NetInvariance, PTL

LEMMA WireInv == NetInv => AloneOnTheWire
<1> SUFFICES ASSUME NetInv, NEW c \in Dials
             PROVE  Cardinality(Sending(c)) <= IF quit[c] = "waited" THEN 0 ELSE 1
  BY DEF AloneOnTheWire
<1>1. \A u \in Sending(c) : mutex[c] = u /\ u \in Uploads
  BY DEF Sending, NetInv, UploadInv, HolderOK
<1>2. CASE quit[c] = "waited"
  <2>1. Sending(c) = {}
    BY <1>1, <1>2, Apartness DEF NetInv, UploadInv, HolderOK
  <2> QED BY <1>2, <2>1, FS_EmptySet
<1>3. CASE quit[c] # "waited"
  <2>1. Sending(c) \in SUBSET {mutex[c]}
    BY <1>1
  <2>2. IsFiniteSet({mutex[c]}) /\ Cardinality({mutex[c]}) = 1
    BY FS_Singleton
  <2>3. Cardinality(Sending(c)) <= 1
    BY <2>1, <2>2, FS_Subset
  <2> QED BY <1>3, <2>3
<1> QED BY <1>2, <1>3

\* No two uploads send on one FTP connection at a time, and none while a disconnect waits.
THEOREM OneAtATime == NetSpec => []AloneOnTheWire
  BY WireInv, NetInvariance, PTL

\* What a connection remembers is on the server, or was taken away by a call that leaves
\* the memory as it is, or by one that has still to forget it, or, on an SFTP connection,
\* between the call that made it and its own memory of it.
THEOREM MemoryTrue == NetSpec => []CacheTrue
<1>1. NetInv => CacheTrue
  BY DEF NetInv, ServerInv
<1> QED BY <1>1, NetInvariance, PTL

\* None of this is owed to the bounds: with sessions of all kinds at once, and calls on
\* connections while other pollers are inside theirs, all of it holds as well.
THEOREM AllKindsAtOnce ==
    AnySpec => [](OpenLinkOwned /\ NothingLostUnread /\ ToldAsItEnded /\ AloneOnTheWire
                  /\ CacheTrue)
<1>1. NetInv => /\ OpenLinkOwned /\ NothingLostUnread /\ ToldAsItEnded /\ AloneOnTheWire
                /\ CacheTrue
  BY OwnedInv, KeptInv, ToldInv, WireInv DEF NetInv, ServerInv
<1> QED BY <1>1, Invariance, PTL
=============================================================================
