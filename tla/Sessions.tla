------------------------------ MODULE Sessions ------------------------------
(***************************************************************************)
(* The handles a Yod program polls: HTTP requests (net_http_async.go),     *)
(* mails (email_async.go), recordings (record_async.go) and FTP connects   *)
(* (net_ftp_connect_async.go), all of internal/stdlib.  Starting one puts  *)
(* a session in a table and starts a goroutine; a status call looks the    *)
(* session up, reads it and, once it is done, takes it out of the table.   *)
(*                                                                         *)
(* A poller is a goroutine that runs Yod code.  The steps of two pollers   *)
(* may interleave, because the handlers of the HTTP server run Yod code    *)
(* without the run lock; so the sessions have mutexes of their own.        *)
(*                                                                         *)
(* A connect has a second goroutine that dials.  The first waits for it or *)
(* for a guard timeout.  The link is the connection the dial opened.       *)
(***************************************************************************)
EXTENDS Naturals

CONSTANTS Requests, Mails, Burns, Dials,   \* the sessions, by kind
          Pollers,
          NoSession

Plain    == Requests \cup Mails \cup Burns
Sessions == Plain \cup Dials

ASSUME SessionsAssumption ==
    /\ NoSession \notin Sessions
    /\ Plain \cap Dials = {}
    /\ Requests \cap Mails = {} /\ Requests \cap Burns = {} /\ Mails \cap Burns = {}

VARIABLES table,     \* the sessions in the tables (the ids differ)
          work,      \* the goroutine of each session
          done,      \* s.done
          failed,    \* s.err # "" of a connect
          conn,      \* s.conn # nil of a connect
          cancelled, \* s.cancelled of a connect
          dial,      \* the dialling goroutine of a connect
          link,      \* the connection it opened
          held,      \* what the connect's goroutine got from its select
          poll       \* the call each poller is in, with the flag it read

VARIABLES answered,  \* history: sessions a status call has read as done,
                     \* or whose handle a cancel has released
          delivered, \* history: connections handed out, counted up to 2
          gaveUp,    \* history: connects whose guard ran out
          late       \* history: connects cancelled when they were done

stateVars   == <<done, failed, conn, cancelled>>
dialVars    == <<dial, link, held>>
historyVars == <<answered, delivered, gaveUp, late>>
vars == <<table, work, stateVars, dialVars, poll, historyVars>>

Idle == [at |-> "idle", id |-> NoSession, done |-> FALSE]

Init ==
    /\ table = {}
    /\ work   = [i \in Sessions |-> "off"]
    /\ done   = [i \in Sessions |-> FALSE]
    /\ failed = [i \in Dials |-> FALSE]
    /\ conn = [i \in Dials |-> FALSE]
    /\ cancelled = [i \in Dials |-> FALSE]
    /\ dial = [i \in Dials |-> "off"]
    /\ link = [i \in Dials |-> "none"]
    /\ held = [i \in Dials |-> "nothing"]
    /\ poll = [p \in Pollers |-> Idle]
    /\ answered = {} /\ gaveUp = {} /\ late = {}
    /\ delivered = [i \in Dials |-> 0]

----------------------------------------------------------------------------
(* Starting a session *)

Register(p, i) ==
    /\ poll[p].at = "idle"
    /\ work[i] = "off"
    /\ work' = [work EXCEPT ![i] = "busy"]
    /\ table' = table \cup {i}
    /\ UNCHANGED <<stateVars, poll, historyVars>>

StartRequest(p, i) == i \in Requests /\ Register(p, i) /\ UNCHANGED dialVars
StartMail(p, i)    == i \in Mails /\ Register(p, i) /\ UNCHANGED dialVars
StartBurn(p, i)    == i \in Burns /\ Register(p, i) /\ UNCHANGED dialVars

StartConnect(p, i) ==
    /\ i \in Dials
    /\ Register(p, i)
    /\ dial' = [dial EXCEPT ![i] = "dialling"]
    /\ UNCHANGED <<link, held>>

----------------------------------------------------------------------------
(* The goroutines *)

\* done, errStr and result are set in one critical section, so done stands for
\* the outcome too.
Finish(i) ==
    /\ work[i] = "busy"
    /\ work' = [work EXCEPT ![i] = "over"]
    /\ done' = [done EXCEPT ![i] = TRUE]
    /\ UNCHANGED <<table, failed, conn, cancelled, dialVars, poll, historyVars>>

FinishRequest(i) == i \in Requests /\ Finish(i)
FinishMail(i)    == i \in Mails /\ Finish(i)
FinishBurn(i)    == i \in Burns /\ Finish(i)

\* dialFTPFromHash: a refused login closes the connection it opened.
Dial(i) ==
    /\ dial[i] = "dialling"
    /\ \/ /\ dial' = [dial EXCEPT ![i] = "connected"]
          /\ link' = [link EXCEPT ![i] = "open"]
       \/ /\ dial' = [dial EXCEPT ![i] = "refused"]
          /\ UNCHANGED link
    /\ UNCHANGED <<table, work, stateVars, held, poll, historyVars>>

Take(i, what) ==
    /\ work[i] = "busy"
    /\ work' = [work EXCEPT ![i] = "settling"]
    /\ held' = [held EXCEPT ![i] = what]

\* res = <-ch
TakeDial(i) ==
    /\ dial[i] \in {"connected", "refused"}
    /\ Take(i, IF dial[i] = "connected" THEN "link" ELSE "failure")
    /\ UNCHANGED <<table, stateVars, dial, link, poll, historyVars>>

\* A select without the guard.
NoGuard(i) == FALSE

\* time.After(guard) can fire, whatever the dial does.
GuardRunsOut(i) == work[i] = "busy"

GiveUp(i) ==
    /\ GuardRunsOut(i)
    /\ Take(i, "failure")
    /\ gaveUp' = gaveUp \cup {i}
    /\ UNCHANGED <<table, stateVars, dial, link, poll, answered, delivered, late>>

\* A cancelled connect that does not close what it got.
ForgetLink(i) == UNCHANGED link

CloseLink(i) == link' = [link EXCEPT ![i] = IF held[i] = "link" THEN "closed" ELSE @]

\* The critical section at the end of the connect's goroutine.
Settle(i) ==
    /\ work[i] = "settling"
    /\ work' = [work EXCEPT ![i] = "over"]
    /\ done' = [done EXCEPT ![i] = TRUE]
    /\ IF cancelled[i]
       THEN CloseLink(i) /\ UNCHANGED <<failed, conn>>
       ELSE /\ failed' = [failed EXCEPT ![i] = held[i] = "failure"]
            /\ conn' = [conn EXCEPT ![i] = held[i] = "link"]
            /\ UNCHANGED link
    /\ UNCHANGED <<table, cancelled, dial, held, poll, historyVars>>

----------------------------------------------------------------------------
(* Status *)

LookUp(p, i, call) ==
    /\ poll[p].at = "idle"
    /\ i \in table
    /\ poll' = [poll EXCEPT ![p] = [Idle EXCEPT !.at = call, !.id = i]]
    /\ UNCHANGED <<table, work, stateVars, dialVars, historyVars>>

Saw(i) == answered' = IF done[i] THEN answered \cup {i} ELSE answered

\* Under s.mu; the table is left for the next step.
ReadPlain(p) ==
    LET i == poll[p].id IN
    /\ poll[p].at = "status" /\ i \in Plain
    /\ poll' = [poll EXCEPT ![p] = [at |-> "read", id |-> i, done |-> done[i]]]
    /\ Saw(i)
    /\ UNCHANGED <<table, work, stateVars, dialVars, delivered, gaveUp, late>>

\* The flag as it is now, and not as the poller read it.
OverNow(p) == done[poll[p].id]

Over(p) == poll[p].done

DropPlain(p) ==
    LET q == poll[p] IN
    /\ q.at = "read"
    /\ table' = IF Over(p) THEN table \ {q.id} ELSE table
    /\ poll' = [poll EXCEPT ![p] = Idle]
    /\ UNCHANGED <<work, stateVars, dialVars, historyVars>>

\* The status calls of the kinds, each with a table of its own.  A recording has
\* three kinds of handles: burning texts in, listing microphones and stopping.
PlainStatus(p)   == ReadPlain(p) \/ DropPlain(p)
RequestStatus(p) == poll[p].id \in Requests /\ PlainStatus(p)
MailStatus(p)    == poll[p].id \in Mails /\ PlainStatus(p)
BurnStatus(p)    == poll[p].id \in Burns /\ PlainStatus(p)

\* s.conn = nil: the connection is handed out once.
TakeConnection(i) == conn' = [conn EXCEPT ![i] = FALSE]

\* The status of a connect reads and removes the session under s.mu.
ReadConnect(p) ==
    LET i   == poll[p].id
        out == done[i] /\ ~cancelled[i]
    IN
    /\ poll[p].at = "status" /\ i \in Dials
    /\ IF out
       THEN table' = table \ {i} /\ TakeConnection(i)
       ELSE UNCHANGED <<table, conn>>
    /\ poll' = [poll EXCEPT ![p] = Idle]
    /\ delivered' = [delivered EXCEPT ![i] =
                        IF out /\ ~failed[i] /\ conn[i] /\ @ < 2 THEN @ + 1 ELSE @]
    /\ Saw(i)
    /\ UNCHANGED <<work, done, failed, cancelled, dialVars, gaveUp, late>>

----------------------------------------------------------------------------
(* Cancelling *)

Forget(p, i) ==
    /\ poll[p].at = "idle"
    /\ work[i] # "off"
    /\ table' = table \ {i}
    /\ answered' = answered \cup {i}
    /\ UNCHANGED <<work, stateVars, dialVars, poll, delivered, gaveUp, late>>

CancelRequest(p, i) == i \in Requests /\ Forget(p, i)
CancelBurn(p, i)    == i \in Burns /\ Forget(p, i)

\* A connect is only marked; the mark is set under s.mu after the look-up.
CancelConnect(p) ==
    LET i == poll[p].id IN
    /\ poll[p].at = "cancel"
    /\ cancelled' = [cancelled EXCEPT ![i] = TRUE]
    /\ late' = IF done[i] THEN late \cup {i} ELSE late
    /\ poll' = [poll EXCEPT ![p] = Idle]
    /\ UNCHANGED <<table, work, done, failed, conn, dialVars,
                   answered, delivered, gaveUp>>

----------------------------------------------------------------------------

\* A call of a program's goroutine.
PollerStep(p) ==
    \/ \E i \in Sessions :
          \/ StartRequest(p, i) \/ StartMail(p, i) \/ StartBurn(p, i) \/ StartConnect(p, i)
          \/ LookUp(p, i, "status")
          \/ i \in Dials /\ LookUp(p, i, "cancel")
          \/ CancelRequest(p, i) \/ CancelBurn(p, i)
    \/ RequestStatus(p) \/ MailStatus(p) \/ BurnStatus(p)
    \/ ReadConnect(p) \/ CancelConnect(p)

\* A step of the sessions' own goroutines.
SessionStep ==
    \/ \E i \in Plain : FinishRequest(i) \/ FinishMail(i) \/ FinishBurn(i)
    \/ \E i \in Dials : Dial(i) \/ TakeDial(i) \/ GiveUp(i) \/ Settle(i)

----------------------------------------------------------------------------
(* Properties *)

TypeOK ==
    /\ table \subseteq Sessions
    /\ work \in [Sessions -> {"off", "busy", "settling", "over"}]
    /\ done \in [Sessions -> BOOLEAN]
    /\ failed \in [Dials -> BOOLEAN]
    /\ conn \in [Dials -> BOOLEAN]
    /\ cancelled \in [Dials -> BOOLEAN]
    /\ dial \in [Dials -> {"off", "dialling", "connected", "refused"}]
    /\ link \in [Dials -> {"none", "open", "closed"}]
    /\ held \in [Dials -> {"nothing", "link", "failure"}]
    /\ poll \in [Pollers -> [at : {"idle", "status", "read", "cancel"},
                             id : Sessions \cup {NoSession},
                             done : BOOLEAN]]
    /\ answered \subseteq Sessions
    /\ gaveUp \subseteq Dials /\ late \subseteq Dials
    /\ delivered \in [Dials -> 0 .. 2]

\* A result is not thrown away unread: a session that is done stays in its table
\* until a status call has read it as done or a cancel has released the handle.
ResultKept ==
    \A i \in Sessions : done[i] => i \in table \cup answered

\* A connection is handed to one caller only, and while it is open it has an owner:
\* the dial whose goroutine still waits for it, that goroutine, a session the program
\* can still ask for, or the program.  The exceptions are a connect given up by the
\* guard and one cancelled when it was done: the code closes neither.
OpenLinkOwned ==
    \A i \in Dials :
        /\ delivered[i] <= 1
        /\ link[i] = "open" =>
              \/ work[i] = "busy"
              \/ work[i] = "settling" /\ held[i] = "link"
              \/ i \in table /\ conn[i] /\ ~cancelled[i]
              \/ delivered[i] = 1
              \/ i \in gaveUp \cup late

\* A connect is over some day even if the dial never returns.
ConnectSettles == \A i \in Dials : (work[i] = "busy") ~> done[i]
=============================================================================
