--------------------------- MODULE AcmeProperties ---------------------------
(* What the exchange of module Acme must guarantee.                        *)
EXTENDS Acme

\* Every variable has its type.
TypeOK ==
    /\ at \in Place
    /\ todo \subseteq Domain /\ current \in Domain /\ polls \in 0..MaxPolls
    /\ challenges \in [Node -> SUBSET Domain]
    /\ msgs \subseteq Message
    /\ asked \subseteq Domain
    /\ auth \in [Domain -> Status]
    /\ order \in OrderStatus

-----------------------------------------------------------------------------
\* The order of prepare_challenge and the answer, with the sleep between: the
\* authority rejects a domain only for a node that the challenge reached late,
\* whatever node it asks and however many challenges are under way.
RejectedOnlyIfLate ==
    [][\A d \in Domain :
          auth[d] # "invalid" /\ auth'[d] = "invalid"
              => \E n \in Late : d \notin challenges[n]]_vars

-----------------------------------------------------------------------------
\* A challenge counts as answered once all nodes that are not late serve it.
Answered == {d \in Domain : \A n \in Node \ Late : Served(n, d)}

Ordering == INSTANCE Issuance WITH
    published <- Answered,
    proven <- {d \in Domain : auth[d] = "valid"},
    issued <- order = "valid",
    result <- IF at \in Ended THEN at ELSE "pending"

\* Every step of the exchange is a step of the abstract order or none: requests
\* that fail after their effect, authorizations given up while pending and orders
\* that are decided after the exchange ended make no difference to what it promises.
OrderingSpec == Ordering!Spec

-----------------------------------------------------------------------------
(* Fairness. The task is polled and its requests are answered; messages    *)
(* reach the nodes that are not late; the authority decides on an order    *)
(* that was finalized. It need not ever validate a domain.                 *)

FairSpec ==
    /\ Spec
    /\ WF_vars(Exchange)
    /\ \A n \in Node \ Late, d \in Domain :
          WF_vars([to |-> n, domain |-> d] \in msgs
                  /\ ApplyChallenge([to |-> n, domain |-> d]))
    /\ WF_vars(Decide)

\* The polling of new_order is bounded, even against an authority that leaves a
\* domain pending. The polling of generate_certificate is not, although it has a
\* counter (account.rs:234): a refused order is polled for ever. Any other exchange
\* ends.
EndsUnlessRefused == <>[](at \in Ended \/ (at = "await" /\ order = "invalid"))

-----------------------------------------------------------------------------
(* The inductive invariant.                                                *)

\* A prepared challenge is served by this node; the others have it, or are to get
\* it, and get it before the authority is asked, if they are not late.
SpreadInv ==
    /\ \A d \in Domain \ todo, n \in Node \ Late :
          \/ d \in challenges[n]
          \/ at = "sleep" /\ d = current /\ [to |-> n, domain |-> d] \in msgs
    /\ at \in {"sleep", "answer", "poll"} => current \notin todo /\ polls < MaxPolls
    /\ asked \cap todo = {}
    /\ at = "sleep" => current \notin asked
    /\ at \in {"finalize", "await", "download", "certificate"} => todo = {}

\* An order is what its authorizations make of it until it is finalized; it is
\* finalized, and its certificate fetched, only with all of them valid.
OrderInv ==
    /\ order = "none" => at \in {"order", "error"} /\ todo = Domain
    /\ at = "order" => order = "none"
    /\ order \in {"pending", "ready"} => order = Summary(auth)
    /\ order \in {"processing", "valid"} => \A d \in Domain : auth[d] = "valid"
    /\ at \in {"download", "certificate"} => order = "valid"
    /\ at = "await" =>
          order \in {"processing", "valid", "invalid"} /\ \A d \in Domain : auth[d] = "valid"

AcmeInv == TypeOK /\ SpreadInv /\ OrderInv
=============================================================================
