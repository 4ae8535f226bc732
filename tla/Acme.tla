-------------------------------- MODULE Acme --------------------------------
(***************************************************************************)
(* One certificate from the authority: Account::generate_certificate of    *)
(* letsencrypt, with the challenges that LeadershipSystem spreads over the *)
(* nodes. A step of the exchange ends with the answer to a request, or     *)
(* where the exchange sleeps.                                              *)
(*                                                                         *)
(* The authority, which is external, knows an authorization for each       *)
(* domain and an order. Asked to, it validates a domain by fetching the    *)
(* challenge from whichever node the load balancer picks; that it reaches  *)
(* none is left out.                                                       *)
(***************************************************************************)
EXTENDS Naturals

CONSTANTS
    Node,       \* the nodes of the cluster
    Us,         \* the node that orders
    Domain,     \* the domains of the order
    Late,       \* the nodes that a challenge may reach late or never
    Faulty      \* whether requests may fail

ASSUME UsAssumption == Us \in Node
ASSUME LateAssumption == Late \subseteq Node \ {Us}
ASSUME FaultyAssumption == Faulty \in BOOLEAN

\* The loop over 1..6 of new_order makes so many requests.
MaxPolls == 5

Place == {"order", "prepare", "sleep", "answer", "poll", "finalize", "await",
          "download", "certificate", "error"}

\* The places where generate_certificate has returned.
Ended == {"certificate", "error"}

Status == {"pending", "valid", "invalid"}

OrderStatus == {"none", "pending", "ready", "processing", "valid", "invalid"}

Message == [to : Node, domain : Domain]

VARIABLES
    at,         \* where generate_certificate stands
    todo,       \* the domains whose challenge is not yet prepared
    current,    \* the domain whose challenge was prepared last
    polls,      \* how often its authorization was pending
    challenges, \* the domains whose challenge a node serves
    msgs,       \* the copies of ApplyChallenge under way
    asked,      \* external: the domains that the authority is asked to validate
    auth,       \* external: the status of the authorization of a domain
    order       \* external: the status of the order

client == <<todo, current, polls>>
authority == <<asked, auth, order>>
vars == <<at, client, challenges, msgs, authority>>

\* The authority reuses an authorization that is still valid.
Init ==
    /\ at = "order"
    /\ todo = Domain
    /\ current \in Domain
    /\ polls = 0
    /\ challenges = [n \in Node |-> {}]
    /\ msgs = {}
    /\ asked = {}
    /\ auth \in [Domain -> {"pending", "valid"}]
    /\ order = "none"

-----------------------------------------------------------------------------
(* new_order.                                                              *)

\* The status of an order that is not finalized.
Summary(s) ==
    IF \E d \in Domain : s[d] = "invalid" THEN "invalid"
    ELSE IF \A d \in Domain : s[d] = "valid" THEN "ready" ELSE "pending"

\* The order is made, and then read with all its challenges.
NewOrder ==
    /\ at = "order"
    /\ order' = Summary(auth)
    /\ at' = "prepare"
    /\ UNCHANGED <<client, challenges, msgs, asked, auth>>

\* Mutant: the challenge is served, but not sent to the others.
PrepareAlone(d) ==
    /\ at = "prepare" /\ d \in todo
    /\ challenges' = [challenges EXCEPT ![Us] = @ \cup {d}]
    /\ todo' = todo \ {d} /\ current' = d /\ polls' = 0
    /\ at' = "sleep"
    /\ UNCHANGED <<msgs, authority>>

\* prepare_challenge, whatever the status of the authorization is.
Prepare(d) ==
    /\ at = "prepare" /\ d \in todo
    /\ challenges' = [challenges EXCEPT ![Us] = @ \cup {d}]
    /\ msgs' = msgs \cup [to : Node \ {Us}, domain : {d}]
    /\ todo' = todo \ {d} /\ current' = d /\ polls' = 0
    /\ at' = "sleep"
    /\ UNCHANGED authority

\* Mutant: nobody waits for the other nodes.
WakeAtOnce ==
    /\ at = "sleep"
    /\ at' = "answer"
    /\ UNCHANGED <<client, challenges, msgs, authority>>

\* Six seconds are enough for all nodes that are not late.
Wake ==
    /\ at = "sleep"
    /\ \A m \in msgs : m.to \in Late
    /\ at' = "answer"
    /\ UNCHANGED <<client, challenges, msgs, authority>>

\* The authority is told that the challenge can be fetched.
Answer ==
    /\ at = "answer"
    /\ asked' = asked \cup {current}
    /\ at' = "poll"
    /\ UNCHANGED <<client, challenges, msgs, auth, order>>

\* On to the next challenge or, after the last one, to finalize.
NextChallenge == at' = IF todo = {} THEN "finalize" ELSE "prepare"

PollValid ==
    /\ at = "poll" /\ auth[current] = "valid"
    /\ NextChallenge
    /\ UNCHANGED <<client, challenges, msgs, authority>>

PollInvalid ==
    /\ at = "poll" /\ auth[current] = "invalid"
    /\ at' = "error"
    /\ UNCHANGED <<client, challenges, msgs, authority>>

\* Mutant: the attempts are not counted, as in the loop of generate_certificate.
PollUncounted ==
    /\ at = "poll" /\ auth[current] = "pending"
    /\ UNCHANGED vars

\* An authorization that stays pending is given up as if it were valid.
PollPending ==
    /\ at = "poll" /\ auth[current] = "pending"
    /\ polls' = polls + 1
    /\ IF polls' < MaxPolls THEN at' = at ELSE NextChallenge
    /\ UNCHANGED <<todo, current, challenges, msgs, authority>>

-----------------------------------------------------------------------------
(* generate_certificate.                                                   *)

Finalize ==
    /\ at = "finalize" /\ order = "ready"
    /\ order' = "processing"
    /\ at' = "await"
    /\ UNCHANGED <<client, challenges, msgs, asked, auth>>

FinalizeRefused ==
    /\ at = "finalize" /\ order # "ready"
    /\ at' = "error"
    /\ UNCHANGED <<client, challenges, msgs, authority>>

\* Mutant: any decided order ends the loop.
AwaitDecided ==
    /\ at = "await" /\ order # "processing"
    /\ at' = "download"
    /\ UNCHANGED <<client, challenges, msgs, authority>>

\* The loop: with its counter never raised nothing but a valid order ends it.
AwaitValid ==
    /\ at = "await" /\ order = "valid"
    /\ at' = "download"
    /\ UNCHANGED <<client, challenges, msgs, authority>>

Download ==
    /\ at = "download"
    /\ at' = "certificate"
    /\ UNCHANGED <<client, challenges, msgs, authority>>

\* A request fails or its answer cannot be read, perhaps after its effect.
RequestFails ==
    /\ Faulty
    /\ at \in {"order", "answer", "poll", "finalize", "await", "download"}
    /\ at' = "error"
    /\ \/ UNCHANGED authority
       \/ /\ at = "answer"
          /\ asked' = asked \cup {current}
          /\ UNCHANGED <<auth, order>>
       \/ /\ at = "finalize" /\ order = "ready"
          /\ order' = "processing"
          /\ UNCHANGED <<asked, auth>>
    /\ UNCHANGED <<client, challenges, msgs>>

-----------------------------------------------------------------------------
(* The other nodes, and the network between.                               *)

ApplyChallenge(m) ==
    /\ m \in msgs
    /\ challenges' = [challenges EXCEPT ![m.to] = @ \cup {m.domain}]
    /\ msgs' = msgs \ {m}
    /\ UNCHANGED <<at, client, authority>>

Lose(m) ==
    /\ m \in msgs /\ m.to \in Late
    /\ msgs' = msgs \ {m}
    /\ UNCHANGED <<at, client, challenges, authority>>

-----------------------------------------------------------------------------
(* The authority.                                                          *)

\* What the node answers to GET /.well-known/acme-challenge/<token>.
Served(n, d) == d \in challenges[n]

Validate(d, n) ==
    /\ d \in asked /\ auth[d] = "pending"
    /\ auth' = [auth EXCEPT ![d] = IF Served(n, d) THEN "valid" ELSE "invalid"]
    /\ order' = Summary(auth')
    /\ UNCHANGED <<at, client, challenges, msgs, asked>>

Decide ==
    /\ order = "processing"
    /\ order' \in {"valid", "invalid"}
    /\ UNCHANGED <<at, client, challenges, msgs, asked, auth>>

-----------------------------------------------------------------------------
Exchange ==
    \/ NewOrder
    \/ \E d \in Domain : Prepare(d)
    \/ Wake \/ Answer
    \/ PollValid \/ PollInvalid \/ PollPending
    \/ Finalize \/ FinalizeRefused
    \/ AwaitValid \/ Download

Next ==
    \/ Exchange
    \/ RequestFails
    \/ \E m \in msgs : ApplyChallenge(m) \/ Lose(m)
    \/ \E d \in Domain, n \in Node : Validate(d, n)
    \/ Decide

Spec == Init /\ [][Next]_vars
=============================================================================
