------------------------------ MODULE Issuance ------------------------------
(***************************************************************************)
(* What ordering a certificate promises to who asks for it: the authority  *)
(* finds a domain proven only once every node that hears of the challenge  *)
(* in time answers for it, it issues a certificate for proven domains      *)
(* only, and generate_certificate returns once, with that certificate or   *)
(* an error. The certificate may exist all the same when it returns an     *)
(* error, or later. Module Acme implements this specification; Leadership  *)
(* takes what it promises as the steps Issue and IssueFails of a round.    *)
(***************************************************************************)

CONSTANT Domain

VARIABLES
    published,  \* the domains whose challenge is answered
    proven,     \* the domains the authority has found to be ours
    issued,     \* whether the certificate exists
    result      \* what generate_certificate has returned

vars == <<published, proven, issued, result>>

\* The authority remembers domains that were proven in an earlier order.
Init ==
    /\ published = {}
    /\ proven \in SUBSET Domain
    /\ issued = FALSE
    /\ result = "pending"

Publish(d) ==
    /\ published' = published \cup {d}
    /\ UNCHANGED <<proven, issued, result>>

Prove(d) ==
    /\ d \in published
    /\ proven' = proven \cup {d}
    /\ UNCHANGED <<published, issued, result>>

Issue ==
    /\ proven = Domain
    /\ issued' = TRUE
    /\ UNCHANGED <<published, proven, result>>

Return(r) ==
    /\ result = "pending"
    /\ r = "certificate" => issued
    /\ result' = r
    /\ UNCHANGED <<published, proven, issued>>

Next ==
    \/ \E d \in Domain : Publish(d) \/ Prove(d)
    \/ Issue
    \/ \E r \in {"certificate", "error"} : Return(r)

Spec == Init /\ [][Next]_vars
=============================================================================
