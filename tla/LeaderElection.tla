--------------------------- MODULE LeaderElection ---------------------------
(***************************************************************************)
(* What the election of package congress promises to the rest of the       *)
(* ingress, whoever knows whom: terms only rise, and only to terms in      *)
(* which somebody stands; a node has one vote in a term; a candidate wins  *)
(* by the votes of more than half of the nodes it knows at the time, and   *)
(* its term only once; and a node follows only a node that has won.  How   *)
(* votes are requested, counted and lost is left to module Senator, which  *)
(* implements this specification.                                          *)
(*                                                                         *)
(* That a term has one winner is not promised: candidates that know few    *)
(* nodes need few votes.                                                   *)
(***************************************************************************)
EXTENDS Naturals, FiniteSets

CONSTANTS Node, None

VARIABLES
    term,            \* the term each node is in
    current_leader,  \* the leader each node follows, or None
    granted,         \* the votes given, <<voter, candidate, term>>
    elected          \* the elections won, <<node, term, number of nodes known>>

vars == <<term, current_leader, granted, elected>>

Init ==
    /\ term = [n \in Node |-> 0]
    /\ current_leader = [n \in Node |-> None]
    /\ granted = {}
    /\ elected = {}

Voters(c, t) == {v \in Node : <<v, c, t>> \in granted}

\* A candidate votes for itself.
Stood(t) == \E c \in Node : <<c, c, t>> \in granted

\* A node stands in the term after its own.
Stand(n) ==
    /\ term' = [term EXCEPT ![n] = @ + 1]
    /\ granted' = granted \cup {<<n, n, term[n] + 1>>}
    /\ current_leader' = [current_leader EXCEPT ![n] = None]
    /\ UNCHANGED elected

\* It votes for a candidate of a later term, and so at most once in a term.
Vote(n, c) ==
    /\ term'[n] > term[n] /\ <<c, c, term'[n]>> \in granted
    /\ term' = [term EXCEPT ![n] = term'[n]]
    /\ granted' = granted \cup {<<n, c, term'[n]>>}
    /\ UNCHANGED <<current_leader, elected>>

\* It moves to a later term without a vote.
Advance(n) ==
    /\ term'[n] > term[n] /\ Stood(term'[n])
    /\ term' = [term EXCEPT ![n] = term'[n]]
    /\ UNCHANGED <<current_leader, granted, elected>>

\* It wins its term, in which it stands and has the votes.
Elect(n) ==
    /\ \A e \in elected : ~(e[1] = n /\ e[2] = term[n])
    /\ n \in Voters(n, term[n])
    /\ \E known \in 1..Cardinality(Node) :
          /\ Cardinality(Voters(n, term[n])) >= 1 + known \div 2
          /\ elected' = elected \cup {<<n, term[n], known>>}
    /\ \E l \in {current_leader[n], n} :
          current_leader' = [current_leader EXCEPT ![n] = l]
    /\ UNCHANGED <<term, granted>>

\* It follows a node that has won the term it moves to, or an earlier one.
Follow(n) ==
    /\ term'[n] >= term[n] /\ Stood(term'[n])
    /\ term' = [term EXCEPT ![n] = term'[n]]
    /\ \E e \in elected :
          /\ e[2] <= term'[n]
          /\ current_leader' = [current_leader EXCEPT ![n] = e[1]]
    /\ UNCHANGED <<granted, elected>>

Next ==
    \E n \in Node :
        \/ Stand(n)
        \/ \E c \in Node : Vote(n, c)
        \/ Advance(n)
        \/ Elect(n)
        \/ Follow(n)

Spec == Init /\ [][Next]_vars
=============================================================================
