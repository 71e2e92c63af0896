------------------------------- MODULE Servers -------------------------------
(***************************************************************************)
(* The two kinds of server a program can have, רשת.שרת and רשת.שקע_שרת:    *)
(* they share nothing but the program, so a behaviour has one of them.     *)
(***************************************************************************)
EXTENDS HttpServer, WebSocket, FiniteSets

CONSTANT First   \* a socket of the server

allVars == <<vars, wsVars>>

\* Bound: a program uses the server of net_server.go or the sockets of net_ws.go.
UsesHttp    == \E i \in Instances : phase[i] # "unused"
UsesSockets == serverHooks # {} \/ server # "off" \/ at # "code" \/ call # NoCall
                  \/ \E s \in Sockets : reader[s] # "off"

\* Bounds on the sockets: an outgoing one alone, or those of the server, from the first
\* on; two at once only where no window is opened and little is told.
Few ==
    LET used == {s \in Sockets : reader'[s] # "off"}
    IN  /\ used \subseteq Outgoing \/ (First \in used /\ used \cap Outgoing = {})
        /\ Cardinality(used) > 1 =>
              /\ window' = "none"
              /\ serverHooks = {} /\ \A s \in Sockets : hooks'[s] \subseteq {"close"}

ServersInit == Init /\ WsInit

ServersNext ==
    \/ ~UsesSockets /\ Next /\ UNCHANGED wsVars
    \/ pc[Main] = "code" /\ ~UsesHttp /\ WsNext /\ Few /\ UNCHANGED vars

ServersSpec == ServersInit /\ [][ServersNext]_allVars /\ Fairness
=============================================================================
