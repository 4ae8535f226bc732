----------------------------- MODULE MCSenator -----------------------------
(* Three nodes for TLC. *)
EXTENDS SenatorInvariant, TLC

\* Every node knows the whole cluster.
FullViews == {Node}

\* A node may know any part of the cluster, and no other node at all.
AnyViews == SUBSET Node \ {{}}

\* The nodes that are bounded alike.
Symmetry == Permutations(Impatient)
=============================================================================
