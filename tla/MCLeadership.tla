---------------------------- MODULE MCLeadership ----------------------------
(* One or two nodes for TLC. *)
EXTENDS LeadershipProperties, TLC

Symmetry == Permutations(Node) \cup Permutations(Host)
=============================================================================
