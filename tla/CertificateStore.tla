-------------------------- MODULE CertificateStore --------------------------
(***************************************************************************)
(* What the rounds of all nodes amount to, whoever leads: the cluster has  *)
(* one account with the authority, chosen once; only a node that uses it   *)
(* has certificates issued; a node serves what was issued, and writes what *)
(* it serves to the secret, over nothing or over the version that it has   *)
(* read last. Module Leadership implements this specification.             *)
(***************************************************************************)

CONSTANTS Node, Host, None

VARIABLES
    account,  \* the node whose account the cluster uses, or None
    using,    \* the account that a node uses, or None
    issued,   \* the hosts that have got a certificate
    served,   \* the hosts whose certificates a node serves
    stored,   \* the hosts whose certificates the secret holds, or None
    readers   \* the nodes that have read the present version of the secret

vars == <<account, using, issued, served, stored, readers>>

Init ==
    /\ account \in Node \cup {None}
    /\ using = [n \in Node |-> None]
    /\ issued = {}
    /\ served = [n \in Node |-> {}]
    /\ stored = None
    /\ readers = {}

\* Of several nodes that have found no account one registers that of the cluster.
Register(n) ==
    /\ account = None
    /\ account' = n
    /\ UNCHANGED <<using, issued, served, stored, readers>>

\* A node begins to use the account, for as long as it runs.
Adopt(n) ==
    /\ using[n] = None /\ account # None
    /\ using' = [using EXCEPT ![n] = account]
    /\ \E hosts \in SUBSET issued : served' = [served EXCEPT ![n] = hosts]
    /\ UNCHANGED <<account, issued, stored, readers>>

\* The node that ordered the certificate may not get it.
Issue(n, h) ==
    /\ using[n] # None
    /\ issued' = issued \cup {h}
    /\ served' \in {served, [served EXCEPT ![n] = @ \cup {h}]}
    /\ UNCHANGED <<account, using, stored, readers>>

\* A node takes over what another one served, at any time before.
Receive(n) ==
    /\ \E hosts \in SUBSET issued : served' = [served EXCEPT ![n] = hosts]
    /\ UNCHANGED <<account, using, issued, stored, readers>>

Read(n) ==
    /\ using[n] # None /\ stored # None
    /\ readers' = readers \cup {n}
    /\ UNCHANGED <<account, using, issued, served, stored>>

Write(n) ==
    /\ using[n] # None
    /\ stored = None \/ n \in readers
    /\ stored' = served[n]
    /\ readers' = {}
    /\ UNCHANGED <<account, using, issued, served>>

\* The write fails.
GiveUp(n) ==
    /\ readers' = readers \ {n}
    /\ UNCHANGED <<account, using, issued, served, stored>>

\* A node that starts again serves what is stored, if it can read it.
Restart(n) ==
    /\ using' = [using EXCEPT ![n] = None]
    /\ \E hosts \in {{}, IF stored = None THEN {} ELSE stored} :
          served' = [served EXCEPT ![n] = hosts]
    /\ readers' = readers \ {n}
    /\ UNCHANGED <<account, issued, stored>>

Next ==
    \E n \in Node :
        \/ Register(n) \/ Adopt(n)
        \/ \E h \in Host : Issue(n, h)
        \/ Receive(n) \/ Read(n) \/ Write(n) \/ GiveUp(n) \/ Restart(n)

Spec == Init /\ [][Next]_vars
=============================================================================
