------------------------ MODULE LeadershipProperties ------------------------
(* What the certificate rounds of module Leadership must guarantee.        *)
EXTENDS Leadership

\* Every variable has its type.
TypeOK ==
    /\ role \in [Node -> Role]
    /\ backends \in [Node -> SUBSET Host]
    /\ waiting \in [Node -> BOOLEAN]
    /\ round \in [Node -> Round]
    /\ sharing \in [Node -> BOOLEAN]
    /\ generator \in [Node -> Node \cup {None}]
    /\ certs \in [Node -> SUBSET Host]
    /\ msgs \subseteq Message
    /\ account \in Node \cup {None}
    /\ secret \in {None} \cup SUBSET Host
    /\ issued \subseteq Host

-----------------------------------------------------------------------------
\* The nodes that may talk to the authority do so with one account, the one in
\* the secret, although several may find no secret, or fail to read it, and
\* register an account of their own (get_account): creating the secret decides.
GeneratorsShareAccount ==
    \A n \in Node : generator[n] # None => generator[n] = account

\* The role guard of handle_change and of share_state is held by leaders only
\* and while they stay leaders: a node that registers the account of the
\* cluster, or waits to share its state, has not been deposed meanwhile.
HoldersLead ==
    \A n \in Node : /\ sharing[n] => role[n] = "Leader"
                    /\ round[n].at \in Creating => role[n] = "Leader"

\* leadership_system.rs:15: "kubernetes api changes will not be missed if nobody
\* is a leader, because we will automatically check for new certificates when we
\* become the leader". A leader with no round under way or due, whose last round
\* did not fail, has had a certificate issued for every host it routes.
NothingMissed ==
    \A n \in Node :
        role[n] = "Leader" /\ ~waiting[n] /\ round[n].at = "idle"
            => backends[n] \subseteq issued

\* What check_for_new_certificates writes to the secret, be it told of the write
\* or not, holds a certificate for every host the node routes at that moment,
\* whatever messages, changes and failures came between its first order and the
\* write.
PersistCoversBackends ==
    [][\A n \in Node :
          /\ round[n].at = "persist"
          /\ round'[n].at = "share" \/ (round'[n].at = "failed" /\ secret' # secret)
          => backends[n] \subseteq secret']_vars

\* leadership_system.rs:2: the election "is needed to ensure that only one ingress
\* controller is generating new certificates at any given time".
OneGenerator ==
    \A m, n \in Node :
        round[m].at = "validate" /\ round[n].at = "validate" => m = n

-----------------------------------------------------------------------------
\* The nodes that have read the present version of the secret to replace it.
Readers == {n \in Node : round[n].at = "persist" /\ round[n].write = "replace"}

Store == INSTANCE CertificateStore WITH
    using <- generator, served <- certs, stored <- secret, readers <- Readers

\* Whoever leads, or believes to lead, and whatever fails or restarts, the rounds
\* of all nodes share one account, have certificates issued with it only, and
\* never write over a version of the secret that they have not read.
StoreSpec == Store!Spec

-----------------------------------------------------------------------------
(* Fairness. Spawned tasks are polled, and the calls to the API server     *)
(* return, well or badly. The exchange with the authority need not end: an *)
(* order that the authority refuses is polled for ever (account.rs:234),   *)
(* with the locks of the round held.                                       *)

GoesOn(n) == round[n].at # "validate" /\ HandleChange(n)

FairSpec ==
    /\ Spec
    /\ \A n \in Node : WF_vars(Share(n)) /\ WF_vars(GoesOn(n))

\* A host routed by a node that stays leader, and stays up, gets a certificate
\* unless a round of the node fails, or never comes back from the authority.
HostsAreServed ==
    \A n \in Node, h \in Host :
        role[n] = "Leader" /\ h \in backends[n]
            ~> \/ h \in issued
               \/ round[n].at = "failed"
               \/ [](round[n].at = "validate")
               \/ role[n] # "Leader" \/ h \notin backends[n]

-----------------------------------------------------------------------------
(* The inductive invariant.                                                *)

\* An account got for a new generator is the one in the secret.
AccountInv ==
    /\ GeneratorsShareAccount
    /\ \A n \in Node :
          round[n].at \in {"load", "install"} =>
              round[n].account # None /\ round[n].account = account

\* Whatever is served, sent, loaded or stored has been issued.
IssuedInv ==
    /\ \A n \in Node : certs[n] \cup round[n].loaded \subseteq issued
    /\ \A m \in msgs : m.type = "ApplyCerts" => m.certs \subseteq issued
    /\ Stored \subseteq issued

\* A round about to write has a certificate for every host, and one that has
\* written had it for the hosts of all changes that are not due.
CheckedInv ==
    \A n \in Node :
        /\ round[n].at = "persist" => backends[n] \subseteq certs[n]
        /\ role[n] = "Leader" /\ ~waiting[n] /\ round[n].at \in {"idle", "share"}
               => backends[n] \subseteq issued

\* A round is at the unwrap of leadership_system.rs:188 or past it only with a
\* generator, makes one only without, and orders a certificate for a host.
PlaceInv ==
    \A n \in Node :
        /\ round[n].at \in Creating => generator[n] = None
        /\ round[n].at \in {"check", "share"} \cup Checking => generator[n] # None
        /\ round[n].at = "validate" => round[n].host \in Host

LeadershipInv ==
    TypeOK /\ AccountInv /\ HoldersLead /\ IssuedInv /\ CheckedInv /\ PlaceInv
=============================================================================
