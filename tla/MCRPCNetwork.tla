---------------------------- MODULE MCRPCNetwork ----------------------------
(* Two nodes for TLC that dial each other; node 1 may dial twice, which it *)
(* does after a restart.                                                   *)
EXTENDS RPCNetworkProperties

CONSTANTS c12, c21, d12

Dialler_ == [c \in Conn |-> IF c = c21 THEN 2 ELSE 1]
Acceptor_ == [c \in Conn |-> IF c = c21 THEN 1 ELSE 2]
=============================================================================
