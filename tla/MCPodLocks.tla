----------------------------- MODULE MCPodLocks -----------------------------
(* A pod with a task of each kind.  The task h1 runs rounds; x1 is the     *)
(* Kubernetes watch at one time, answers a message at another, and sends   *)
(* at a third; c1 is a request or a handshake.                             *)
EXTENDS PodLocksProperties
=============================================================================
