----------------------------- MODULE Leadership -----------------------------
(***************************************************************************)
(* Certificates follow the leader: struct LeadershipSystem with the        *)
(* CertificateState it fills and the CertGenerator it drives, on every     *)
(* node, over any election. Challenges are left out.                       *)
(*                                                                         *)
(* A round is one run of handle_change. Its awaits are its steps, because  *)
(* elections, other tasks of the node and other nodes go on meanwhile. The *)
(* locks it holds across them are read off from where it stands: the       *)
(* generator mutex during the whole round, a read guard of the role while  *)
(* Creating, and, while Checking, read access to the backends and write    *)
(* access to the certificates.                                             *)
(***************************************************************************)
EXTENDS FiniteSets

CONSTANTS
    Node,       \* the nodes of the cluster
    Host,       \* the hosts for which an ingress may be configured
    None,       \* no account, no host, no secret
    Given,      \* the account in the Kubernetes secret at the start, or None
    Failures,   \* whose calls may fail: "kube" (the API server), "acme" (the authority)
    Unstable,   \* the nodes that may restart
    Rivals      \* whether a node may win before an earlier leader steps down

ASSUME NoneAssumption == None \notin Node \cup Host
ASSUME GivenAssumption == Given \in Node \cup {None}
ASSUME FailuresAssumption == Failures \subseteq {"kube", "acme"}
ASSUME UnstableAssumption == Unstable \subseteq Node
ASSUME RivalsAssumption == Rivals \in BOOLEAN

Role == {"Leader", "Follower", "Candidate"}

\* CertGenerator::create
Creating == {"account", "register", "load", "install"}

\* check_for_new_certificates, from its two locks on
Checking == {"generate", "validate", "persist"}

\* A task has returned, or has ended with an error or a panic.
Resting == {"idle", "failed"}

Place == Resting \cup {"check", "share"} \cup Creating \cup Checking

(***************************************************************************)
(* A round stands at a place, has got an account and loaded certificates   *)
(* for a new generator, orders a certificate for host, and is about to     *)
(* write the secret: to create it, or to replace the resource version it   *)
(* read, which is stale once another node has written. Accounts are named  *)
(* after the node that registered them. Certificates are told apart by     *)
(* their host only.                                                        *)
(***************************************************************************)
Round == [at : Place, account : Node \cup {None}, loaded : SUBSET Host,
          host : Host \cup {None}, write : {"create", "replace", "stale"}]

Idle == [at |-> "idle", account |-> None, loaded |-> {}, host |-> None,
         write |-> "create"]

Message ==
    [type : {"RequestState"}, to : Node]
        \cup [type : {"ApplyCerts"}, to : Node, certs : SUBSET Host]

VARIABLES
    role,         \* of the node's Senator
    backends,     \* the hosts in the node's RoutingTable
    waiting,      \* handle_change tasks, alike, wait for the generator mutex
    round,        \* the handle_change task that has the mutex
    sharing,      \* a share_state that answers a RequestState waits for certs
    generator,    \* the account of the node's CertGenerator, or None
    certs,        \* the hosts whose certificates the node serves
    msgs,         \* user messages sent and not delivered
    account,      \* external: the Kubernetes secret of the account, or None
    secret,       \* external: the Kubernetes secret of the certificates, or None
    issued        \* external: the hosts the authority has issued certificates for

cluster == <<account, secret, issued>>
vars == <<role, backends, waiting, round, sharing, generator, certs, msgs,
          cluster>>

\* What get_certs makes of the secret.
Stored == IF secret = None THEN {} ELSE secret

Init ==
    /\ role = [n \in Node |-> "Follower"]
    /\ backends = [n \in Node |-> {}]
    /\ waiting = [n \in Node |-> FALSE]
    /\ round = [n \in Node |-> Idle]
    /\ sharing = [n \in Node |-> FALSE]
    /\ generator = [n \in Node |-> None]
    /\ account = Given
    /\ secret = None
    /\ certs = [n \in Node |-> Stored]
    /\ msgs = {}
    /\ issued = {}

-----------------------------------------------------------------------------
(* The locks that are held over awaits.                                    *)

\* Mutant: the guard of the role is given back before the generator is made.
RoleHeldToShare(n) == sharing[n]

RoleHeld(n) == sharing[n] \/ round[n].at \in Creating

\* Mutant: the routing table is copied at the start of the check.
BackendsFree(n) == FALSE

BackendsHeld(n) == round[n].at \in Checking

\* Mutant: the certificates are locked only to be read and to be inserted.
CertsFree(n) == FALSE

CertsHeld(n) == round[n].at \in Checking

-----------------------------------------------------------------------------
(* The election, as far as it shows: the roles and the announcement of     *)
(* each new one, to which LeadershipSystem answers with a round. Terms do  *)
(* not show: a node can always be elected in a term of its own, while      *)
(* leaders of earlier terms have not heard of it.                          *)

\* Mutant: LeadershipSystem does not listen to on_role.
BecomeUnannounced(n, r) ==
    /\ role' = [role EXCEPT ![n] = r]
    /\ UNCHANGED <<backends, waiting, round, sharing, generator, certs, msgs,
                   cluster>>

Become(n, r) ==
    /\ role' = [role EXCEPT ![n] = r]
    /\ waiting' = [waiting EXCEPT ![n] = TRUE]
    /\ UNCHANGED <<backends, round, sharing, generator, certs, msgs, cluster>>

Stand(n) ==
    /\ role[n] = "Follower"
    /\ Become(n, "Candidate")

Win(n) ==
    /\ role[n] = "Candidate"
    /\ ~Rivals => \A m \in Node : role[m] # "Leader"
    /\ Become(n, "Leader")

\* A leader whose role is read-locked stays: its select! drops the handler.
StepDown(n) ==
    /\ role[n] # "Follower" /\ ~RoleHeld(n)
    /\ Become(n, "Follower")

-----------------------------------------------------------------------------
(* Kubernetes.                                                             *)

\* The watch inserts a backend and calls the subscriber, for every path of
\* every ingress and again whenever the ingress is applied.
Change(n, h) ==
    /\ ~BackendsHeld(n)
    /\ backends' = [backends EXCEPT ![n] = @ \cup {h}]
    /\ waiting' = [waiting EXCEPT ![n] = TRUE]
    /\ UNCHANGED <<role, round, sharing, generator, certs, msgs, cluster>>

\* The process ends, at any point, and starts with the stored certificates.
Restart(n) ==
    /\ n \in Unstable
    /\ role' = [role EXCEPT ![n] = "Follower"]
    /\ backends' = [backends EXCEPT ![n] = {}]
    /\ waiting' = [waiting EXCEPT ![n] = FALSE]
    /\ round' = [round EXCEPT ![n] = Idle]
    /\ sharing' = [sharing EXCEPT ![n] = FALSE]
    /\ generator' = [generator EXCEPT ![n] = None]
    /\ \E loaded \in {Stored} \cup {{} : f \in Failures \cap {"kube"}} :
          certs' = [certs EXCEPT ![n] = loaded]
    /\ msgs' = {m \in msgs : m.to # n}
    /\ UNCHANGED cluster

-----------------------------------------------------------------------------
(* Messages. broadcast_message reaches each peer at most once, in any      *)
(* order, late or never. The messages carry no more of their sender than   *)
(* the listener reads.                                                     *)

Requests(n) == [type : {"RequestState"}, to : Node \ {n}]

\* share_state of a leader, the challenges left out.
State(n) == [type : {"ApplyCerts"}, to : Node \ {n}, certs : {certs[n]}]

\* The whole map is replaced, whoever sent it and whenever.
ApplyCerts(n, m) ==
    /\ m \in msgs /\ m.to = n /\ m.type = "ApplyCerts"
    /\ ~CertsHeld(n)
    /\ certs' = [certs EXCEPT ![n] = m.certs]
    /\ msgs' = msgs \ {m}
    /\ UNCHANGED <<role, backends, waiting, round, sharing, generator,
                   cluster>>

\* share_state reads the role and, still holding it, waits for the certificates.
RequestAnswered(n, m) ==
    /\ m \in msgs /\ m.to = n /\ m.type = "RequestState"
    /\ role[n] = "Leader"
    /\ sharing' = [sharing EXCEPT ![n] = TRUE]
    /\ msgs' = msgs \ {m}
    /\ UNCHANGED <<role, backends, waiting, round, generator, certs, cluster>>

\* The node does not lead, or is in a term before that of the request.
RequestIgnored(n, m) ==
    /\ m \in msgs /\ m.to = n /\ m.type = "RequestState"
    /\ msgs' = msgs \ {m}
    /\ UNCHANGED <<role, backends, waiting, round, sharing, generator, certs,
                   cluster>>

Share(n) ==
    /\ sharing[n] /\ ~CertsHeld(n)
    /\ msgs' = msgs \cup State(n)
    /\ sharing' = [sharing EXCEPT ![n] = FALSE]
    /\ UNCHANGED <<role, backends, waiting, round, generator, certs,
                   cluster>>

-----------------------------------------------------------------------------
(* handle_change: the role is read once, after the mutex.                  *)

Proceed(n, r) == round' = [round EXCEPT ![n] = r]

Goto(n, p) == Proceed(n, [round[n] EXCEPT !.at = p])

Finish(n) == Proceed(n, Idle)

Fail(n) == Proceed(n, [Idle EXCEPT !.at = "failed"])

Enter(n) ==
    /\ round[n].at \in Resting /\ waiting[n]
    /\ waiting' = [waiting EXCEPT ![n] = FALSE]

\* With a generator in place nothing tells the read of the role from the
\* locks that check_for_new_certificates takes next.
LeaderRound(n) ==
    /\ Enter(n) /\ role[n] = "Leader"
    /\ Goto(n, IF generator[n] = None THEN "account" ELSE "generate")
    /\ UNCHANGED <<role, backends, sharing, generator, certs, msgs,
                   cluster>>

FollowerRound(n) ==
    /\ Enter(n) /\ role[n] = "Follower"
    /\ msgs' = msgs \cup Requests(n)
    /\ Finish(n)
    /\ UNCHANGED <<role, backends, sharing, generator, certs,
                   cluster>>

CandidateRound(n) ==
    /\ Enter(n) /\ role[n] = "Candidate"
    /\ Finish(n)
    /\ UNCHANGED <<role, backends, sharing, generator, certs, msgs,
                   cluster>>

-----------------------------------------------------------------------------
(* CertGenerator::create. A failed get is taken for an absent secret.      *)

GotAccount(n, a) ==
    Proceed(n, [round[n] EXCEPT !.at = "load", !.account = a])

AccountFound(n) ==
    /\ round[n].at = "account" /\ account # None
    /\ GotAccount(n, account)
    /\ UNCHANGED <<role, backends, waiting, sharing, generator, certs,
                   msgs, cluster>>

AccountMissed(n) ==
    /\ round[n].at = "account"
    /\ account # None => "kube" \in Failures
    /\ Goto(n, "register")
    /\ UNCHANGED <<role, backends, waiting, sharing, generator, certs,
                   msgs, cluster>>

\* Mutant: the secret is written over.
RegisterOver(n) ==
    /\ round[n].at = "register"
    /\ account' = n
    /\ GotAccount(n, n)
    /\ UNCHANGED <<role, backends, waiting, sharing, generator, certs,
                   msgs, secret, issued>>

\* A new account is registered and its secret created, which succeeds only
\* if there is none.
Register(n) ==
    /\ round[n].at = "register" /\ account = None
    /\ account' = n
    /\ GotAccount(n, n)
    /\ UNCHANGED <<role, backends, waiting, sharing, generator, certs,
                   msgs, secret, issued>>

\* The task panics: the authority failed, the secret exists by now, or the API
\* server did, perhaps after it has created the secret.
CreatePanics(n) ==
    /\ \/ /\ round[n].at \in {"account", "register"} /\ "acme" \in Failures
          /\ UNCHANGED account
       \/ /\ round[n].at = "register" /\ account # None
          /\ UNCHANGED account
       \/ /\ round[n].at = "register" /\ account = None /\ "kube" \in Failures
          /\ account' \in {None, n}
    /\ Fail(n)
    /\ UNCHANGED <<role, backends, waiting, sharing, generator, certs,
                   msgs, secret, issued>>

Load(n) ==
    /\ round[n].at = "load"
    /\ \E loaded \in {Stored} \cup {{} : f \in Failures \cap {"kube"}} :
          Proceed(n, [round[n] EXCEPT !.at = "install", !.loaded = loaded])
    /\ UNCHANGED <<role, backends, waiting, sharing, generator, certs,
                   msgs, cluster>>

Install(n) ==
    /\ round[n].at = "install"
    /\ certs' = [certs EXCEPT ![n] = round[n].loaded]
    /\ generator' = [generator EXCEPT ![n] = round[n].account]
    /\ Proceed(n, [Idle EXCEPT !.at = "check"])
    /\ UNCHANGED <<role, backends, waiting, sharing, msgs,
                   cluster>>

-----------------------------------------------------------------------------
(* check_for_new_certificates.                                             *)

Begin(n) ==
    /\ round[n].at = "check"
    /\ Goto(n, "generate")
    /\ UNCHANGED <<role, backends, waiting, sharing, generator, certs,
                   msgs, cluster>>

\* generate_certificate up to prepare_challenge.
Order(n, h) ==
    /\ round[n].at = "generate"
    /\ h \in backends[n] \ certs[n]
    /\ Proceed(n, [round[n] EXCEPT !.at = "validate", !.host = h])
    /\ UNCHANGED <<role, backends, waiting, sharing, generator, certs, msgs,
                   cluster>>

\* The authority validates and issues.
Issue(n) ==
    /\ round[n].at = "validate"
    /\ issued' = issued \cup {round[n].host}
    /\ certs' = [certs EXCEPT ![n] = @ \cup {round[n].host}]
    /\ Proceed(n, [round[n] EXCEPT !.at = "generate", !.host = None])
    /\ UNCHANGED <<role, backends, waiting, sharing, generator,
                   msgs, account, secret>>

\* Mutant: a host that fails is left out and the round goes on.
IssueSkips(n) ==
    /\ "acme" \in Failures
    /\ round[n].at = "validate"
    /\ Proceed(n, [round[n] EXCEPT !.at = "persist", !.host = None])
    /\ UNCHANGED <<role, backends, waiting, sharing, generator, certs, msgs,
                   cluster>>

\* One failure ends the round, perhaps after the authority has issued; what
\* the round has generated stays in memory.
IssueFails(n) ==
    /\ "acme" \in Failures
    /\ \/ /\ round[n].at = "generate" /\ backends[n] \ certs[n] # {}
          /\ UNCHANGED issued
       \/ /\ round[n].at = "validate"
          /\ issued' \in {issued, issued \cup {round[n].host}}
    /\ Fail(n)
    /\ UNCHANGED <<role, backends, waiting, sharing, generator, certs, msgs,
                   account, secret>>

ReadVersion(n) ==
    /\ round[n].at = "generate" /\ backends[n] \subseteq certs[n]
    /\ \E w \in {IF secret = None THEN "create" ELSE "replace"}
                   \cup {"create" : f \in Failures \cap {"kube"}} :
          Proceed(n, [round[n] EXCEPT !.at = "persist", !.write = w])
    /\ UNCHANGED <<role, backends, waiting, sharing, generator, certs,
                   msgs, cluster>>

\* Mutant: the resource version is left out of what replaces the secret.
AcceptedUnversioned(n) ==
    round[n].write = "create" => secret = None

\* The API server's answer to create and replace.
Accepted(n) ==
    \/ round[n].write = "create" /\ secret = None
    \/ round[n].write = "replace"

\* The secret gets a new version; what other nodes have read of it is stale.
Write(n, r) ==
    /\ secret' = certs[n]
    /\ round' = [m \in Node |->
          IF m = n THEN r
          ELSE IF round[m].write = "replace"
                 THEN [round[m] EXCEPT !.write = "stale"] ELSE round[m]]

Persist(n) ==
    /\ round[n].at = "persist" /\ Accepted(n)
    /\ Write(n, [Idle EXCEPT !.at = "share"])
    /\ UNCHANGED <<role, backends, waiting, sharing, generator, certs,
                   msgs, account, issued>>

\* The task panics: the API server refused to write, or failed, perhaps after
\* it has written.
PersistPanics(n) ==
    /\ round[n].at = "persist"
    /\ Accepted(n) => "kube" \in Failures
    /\ \/ Fail(n) /\ UNCHANGED secret
       \/ Accepted(n) /\ Write(n, [Idle EXCEPT !.at = "failed"])
    /\ UNCHANGED <<role, backends, waiting, sharing, generator, certs,
                   msgs, account, issued>>

ShareRound(n) ==
    /\ round[n].at = "share"
    /\ msgs' = IF role[n] = "Leader" THEN msgs \cup State(n) ELSE msgs
    /\ Finish(n)
    /\ UNCHANGED <<role, backends, waiting, sharing, generator, certs,
                   cluster>>

-----------------------------------------------------------------------------
Elect(n) ==
    \/ Stand(n)
    \/ Win(n)
    \/ StepDown(n)

Deliver(n, m) ==
    \/ ApplyCerts(n, m)
    \/ RequestAnswered(n, m)
    \/ RequestIgnored(n, m)

HandleChange(n) ==
    \/ LeaderRound(n) \/ FollowerRound(n) \/ CandidateRound(n)
    \/ AccountFound(n) \/ AccountMissed(n) \/ Register(n) \/ CreatePanics(n)
    \/ Load(n) \/ Install(n) \/ Begin(n)
    \/ \E h \in Host : Order(n, h)
    \/ Issue(n) \/ IssueFails(n)
    \/ ReadVersion(n) \/ Persist(n) \/ PersistPanics(n)
    \/ ShareRound(n)

Next ==
    \E n \in Node :
        \/ Elect(n)
        \/ \E h \in Host : Change(n, h)
        \/ Restart(n)
        \/ \E m \in msgs : Deliver(n, m)
        \/ Share(n)
        \/ HandleChange(n)

Spec == Init /\ [][Next]_vars
=============================================================================
