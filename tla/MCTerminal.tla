----------------------------- MODULE MCTerminal -----------------------------
(* One websocket, two connections (one over SSH), each kind of host, a       *)
(* second key exchange, data both ways and a request of the user.            *)
EXTENDS TerminalProxy
=============================================================================
