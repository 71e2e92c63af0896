------------------------------ MODULE MCServers ------------------------------
(* A main program with an HTTP server it starts up to three times and two     *)
(* handlers, or with two sockets of a server or one of its own.               *)
EXTENDS Servers

CONSTANTS main, h1, h2, s1, s2, o1
=============================================================================
