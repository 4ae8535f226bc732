-------------------------- MODULE LeadershipProofs --------------------------
(* Theorems about the certificate rounds, for any nodes, hosts, failures   *)
(* and restarts.                                                           *)
EXTENDS LeadershipProperties, TLAPS

USE DEF Place, Resting, Creating, Checking

LEMMA RoundsInit == Init => LeadershipInv
<1> SUFFICES ASSUME Init PROVE LeadershipInv
  OBVIOUS
<1>1. TypeOK
  BY GivenAssumption DEF Init, TypeOK, Role, Round, Idle, Stored
<1>2. QED
  BY <1>1 DEF Init, LeadershipInv, AccountInv, GeneratorsShareAccount, HoldersLead,
              RoleHeld, IssuedInv, CheckedInv, PlaceInv, Idle, Stored

\* A step that leaves the rounds alone.
LEMMA OtherSteps ==
    ASSUME LeadershipInv, NEW n \in Node, UNCHANGED <<round, account, secret, issued, generator>>,
           \/ Stand(n) \/ Win(n) \/ StepDown(n)
           \/ \E h \in Host : Change(n, h)
           \/ \E m \in msgs : Deliver(n, m)
           \/ Share(n)
    PROVE  LeadershipInv'
<1>1. ASSUME Stand(n) PROVE LeadershipInv'
  <2>1. TypeOK'
    BY <1>1 DEF LeadershipInv, TypeOK, Stand, Become, BackendsHeld, CertsHeld, State, Role, Message
  <2>2. AccountInv'
    BY <1>1, <2>1 DEF LeadershipInv, TypeOK, AccountInv, GeneratorsShareAccount, RoleHeld, Stored, Stand, Become, BackendsHeld, CertsHeld, State, Message
  <2>3. HoldersLead'
    BY <1>1, <2>1 DEF LeadershipInv, TypeOK, HoldersLead, GeneratorsShareAccount, RoleHeld, Stored, Stand, Become, BackendsHeld, CertsHeld, State, Message
  <2>4. IssuedInv'
    BY <1>1, <2>1 DEF LeadershipInv, TypeOK, IssuedInv, GeneratorsShareAccount, RoleHeld, Stored, Stand, Become, BackendsHeld, CertsHeld, State, Message
  <2>5. CheckedInv'
    BY <1>1, <2>1 DEF LeadershipInv, TypeOK, CheckedInv, GeneratorsShareAccount, RoleHeld, Stored, Stand, Become, BackendsHeld, CertsHeld, State, Message
  <2>6. PlaceInv'
    BY <1>1, <2>1 DEF LeadershipInv, TypeOK, PlaceInv, GeneratorsShareAccount, RoleHeld, Stored, Stand, Become, BackendsHeld, CertsHeld, State, Message
  <2> QED
    BY <2>1, <2>2, <2>3, <2>4, <2>5, <2>6 DEF LeadershipInv
<1>2. ASSUME Win(n) PROVE LeadershipInv'
  <2>1. TypeOK'
    BY <1>2 DEF LeadershipInv, TypeOK, Win, Become, BackendsHeld, CertsHeld, State, Role, Message
  <2>2. AccountInv'
    BY <1>2, <2>1 DEF LeadershipInv, TypeOK, AccountInv, GeneratorsShareAccount, RoleHeld, Stored, Win, Become, BackendsHeld, CertsHeld, State, Message
  <2>3. HoldersLead'
    BY <1>2, <2>1 DEF LeadershipInv, TypeOK, HoldersLead, GeneratorsShareAccount, RoleHeld, Stored, Win, Become, BackendsHeld, CertsHeld, State, Message
  <2>4. IssuedInv'
    BY <1>2, <2>1 DEF LeadershipInv, TypeOK, IssuedInv, GeneratorsShareAccount, RoleHeld, Stored, Win, Become, BackendsHeld, CertsHeld, State, Message
  <2>5. CheckedInv'
    BY <1>2, <2>1 DEF LeadershipInv, TypeOK, CheckedInv, GeneratorsShareAccount, RoleHeld, Stored, Win, Become, BackendsHeld, CertsHeld, State, Message
  <2>6. PlaceInv'
    BY <1>2, <2>1 DEF LeadershipInv, TypeOK, PlaceInv, GeneratorsShareAccount, RoleHeld, Stored, Win, Become, BackendsHeld, CertsHeld, State, Message
  <2> QED
    BY <2>1, <2>2, <2>3, <2>4, <2>5, <2>6 DEF LeadershipInv
<1>3. ASSUME StepDown(n) PROVE LeadershipInv'
  <2>1. TypeOK'
    BY <1>3 DEF LeadershipInv, TypeOK, StepDown, Become, BackendsHeld, CertsHeld, State, Role, Message
  <2>2. AccountInv'
    BY <1>3, <2>1 DEF LeadershipInv, TypeOK, AccountInv, GeneratorsShareAccount, RoleHeld, Stored, StepDown, Become, BackendsHeld, CertsHeld, State, Message
  <2>3. HoldersLead'
    BY <1>3, <2>1 DEF LeadershipInv, TypeOK, HoldersLead, GeneratorsShareAccount, RoleHeld, Stored, StepDown, Become, BackendsHeld, CertsHeld, State, Message
  <2>4. IssuedInv'
    BY <1>3, <2>1 DEF LeadershipInv, TypeOK, IssuedInv, GeneratorsShareAccount, RoleHeld, Stored, StepDown, Become, BackendsHeld, CertsHeld, State, Message
  <2>5. CheckedInv'
    BY <1>3, <2>1 DEF LeadershipInv, TypeOK, CheckedInv, GeneratorsShareAccount, RoleHeld, Stored, StepDown, Become, BackendsHeld, CertsHeld, State, Message
  <2>6. PlaceInv'
    BY <1>3, <2>1 DEF LeadershipInv, TypeOK, PlaceInv, GeneratorsShareAccount, RoleHeld, Stored, StepDown, Become, BackendsHeld, CertsHeld, State, Message
  <2> QED
    BY <2>1, <2>2, <2>3, <2>4, <2>5, <2>6 DEF LeadershipInv
<1>4. ASSUME NEW h \in Host, Change(n, h) PROVE LeadershipInv'
  <2>1. TypeOK'
    BY <1>4 DEF LeadershipInv, TypeOK, Change, Become, BackendsHeld, CertsHeld, State, Role, Message
  <2>2. AccountInv'
    BY <1>4, <2>1 DEF LeadershipInv, TypeOK, AccountInv, GeneratorsShareAccount, RoleHeld, Stored, Change, Become, BackendsHeld, CertsHeld, State, Message
  <2>3. HoldersLead'
    BY <1>4, <2>1 DEF LeadershipInv, TypeOK, HoldersLead, GeneratorsShareAccount, RoleHeld, Stored, Change, Become, BackendsHeld, CertsHeld, State, Message
  <2>4. IssuedInv'
    BY <1>4, <2>1 DEF LeadershipInv, TypeOK, IssuedInv, GeneratorsShareAccount, RoleHeld, Stored, Change, Become, BackendsHeld, CertsHeld, State, Message
  <2>5. CheckedInv'
    BY <1>4, <2>1 DEF LeadershipInv, TypeOK, CheckedInv, GeneratorsShareAccount, RoleHeld, Stored, Change, Become, BackendsHeld, CertsHeld, State, Message
  <2>6. PlaceInv'
    BY <1>4, <2>1 DEF LeadershipInv, TypeOK, PlaceInv, GeneratorsShareAccount, RoleHeld, Stored, Change, Become, BackendsHeld, CertsHeld, State, Message
  <2> QED
    BY <2>1, <2>2, <2>3, <2>4, <2>5, <2>6 DEF LeadershipInv
<1>5. ASSUME NEW m \in msgs, ApplyCerts(n, m) PROVE LeadershipInv'
  <2>1. TypeOK'
    BY <1>5 DEF LeadershipInv, TypeOK, ApplyCerts, Become, BackendsHeld, CertsHeld, State, Role, Message
  <2>2. AccountInv'
    BY <1>5, <2>1 DEF LeadershipInv, TypeOK, AccountInv, GeneratorsShareAccount, RoleHeld, Stored, ApplyCerts, Become, BackendsHeld, CertsHeld, State, Message
  <2>3. HoldersLead'
    BY <1>5, <2>1 DEF LeadershipInv, TypeOK, HoldersLead, GeneratorsShareAccount, RoleHeld, Stored, ApplyCerts, Become, BackendsHeld, CertsHeld, State, Message
  <2>4. IssuedInv'
    BY <1>5, <2>1 DEF LeadershipInv, TypeOK, IssuedInv, GeneratorsShareAccount, RoleHeld, Stored, ApplyCerts, Become, BackendsHeld, CertsHeld, State, Message
  <2>5. CheckedInv'
    BY <1>5, <2>1 DEF LeadershipInv, TypeOK, CheckedInv, GeneratorsShareAccount, RoleHeld, Stored, ApplyCerts, Become, BackendsHeld, CertsHeld, State, Message
  <2>6. PlaceInv'
    BY <1>5, <2>1 DEF LeadershipInv, TypeOK, PlaceInv, GeneratorsShareAccount, RoleHeld, Stored, ApplyCerts, Become, BackendsHeld, CertsHeld, State, Message
  <2> QED
    BY <2>1, <2>2, <2>3, <2>4, <2>5, <2>6 DEF LeadershipInv
<1>6. ASSUME NEW m \in msgs, RequestAnswered(n, m) PROVE LeadershipInv'
  <2>1. TypeOK'
    BY <1>6 DEF LeadershipInv, TypeOK, RequestAnswered, Become, BackendsHeld, CertsHeld, State, Role, Message
  <2>2. AccountInv'
    BY <1>6, <2>1 DEF LeadershipInv, TypeOK, AccountInv, GeneratorsShareAccount, RoleHeld, Stored, RequestAnswered, Become, BackendsHeld, CertsHeld, State, Message
  <2>3. HoldersLead'
    BY <1>6, <2>1 DEF LeadershipInv, TypeOK, HoldersLead, GeneratorsShareAccount, RoleHeld, Stored, RequestAnswered, Become, BackendsHeld, CertsHeld, State, Message
  <2>4. IssuedInv'
    BY <1>6, <2>1 DEF LeadershipInv, TypeOK, IssuedInv, GeneratorsShareAccount, RoleHeld, Stored, RequestAnswered, Become, BackendsHeld, CertsHeld, State, Message
  <2>5. CheckedInv'
    BY <1>6, <2>1 DEF LeadershipInv, TypeOK, CheckedInv, GeneratorsShareAccount, RoleHeld, Stored, RequestAnswered, Become, BackendsHeld, CertsHeld, State, Message
  <2>6. PlaceInv'
    BY <1>6, <2>1 DEF LeadershipInv, TypeOK, PlaceInv, GeneratorsShareAccount, RoleHeld, Stored, RequestAnswered, Become, BackendsHeld, CertsHeld, State, Message
  <2> QED
    BY <2>1, <2>2, <2>3, <2>4, <2>5, <2>6 DEF LeadershipInv
<1>7. ASSUME NEW m \in msgs, RequestIgnored(n, m) PROVE LeadershipInv'
  <2>1. TypeOK'
    BY <1>7 DEF LeadershipInv, TypeOK, RequestIgnored, Become, BackendsHeld, CertsHeld, State, Role, Message
  <2>2. AccountInv'
    BY <1>7, <2>1 DEF LeadershipInv, TypeOK, AccountInv, GeneratorsShareAccount, RoleHeld, Stored, RequestIgnored, Become, BackendsHeld, CertsHeld, State, Message
  <2>3. HoldersLead'
    BY <1>7, <2>1 DEF LeadershipInv, TypeOK, HoldersLead, GeneratorsShareAccount, RoleHeld, Stored, RequestIgnored, Become, BackendsHeld, CertsHeld, State, Message
  <2>4. IssuedInv'
    BY <1>7, <2>1 DEF LeadershipInv, TypeOK, IssuedInv, GeneratorsShareAccount, RoleHeld, Stored, RequestIgnored, Become, BackendsHeld, CertsHeld, State, Message
  <2>5. CheckedInv'
    BY <1>7, <2>1 DEF LeadershipInv, TypeOK, CheckedInv, GeneratorsShareAccount, RoleHeld, Stored, RequestIgnored, Become, BackendsHeld, CertsHeld, State, Message
  <2>6. PlaceInv'
    BY <1>7, <2>1 DEF LeadershipInv, TypeOK, PlaceInv, GeneratorsShareAccount, RoleHeld, Stored, RequestIgnored, Become, BackendsHeld, CertsHeld, State, Message
  <2> QED
    BY <2>1, <2>2, <2>3, <2>4, <2>5, <2>6 DEF LeadershipInv
<1>8. ASSUME Share(n) PROVE LeadershipInv'
  <2>1. TypeOK'
    BY <1>8 DEF LeadershipInv, TypeOK, Share, Become, BackendsHeld, CertsHeld, State, Role, Message
  <2>2. AccountInv'
    BY <1>8, <2>1 DEF LeadershipInv, TypeOK, AccountInv, GeneratorsShareAccount, RoleHeld, Stored, Share, Become, BackendsHeld, CertsHeld, State, Message
  <2>3. HoldersLead'
    BY <1>8, <2>1 DEF LeadershipInv, TypeOK, HoldersLead, GeneratorsShareAccount, RoleHeld, Stored, Share, Become, BackendsHeld, CertsHeld, State, Message
  <2>4. IssuedInv'
    BY <1>8, <2>1 DEF LeadershipInv, TypeOK, IssuedInv, GeneratorsShareAccount, RoleHeld, Stored, Share, Become, BackendsHeld, CertsHeld, State, Message
  <2>5. CheckedInv'
    BY <1>8, <2>1 DEF LeadershipInv, TypeOK, CheckedInv, GeneratorsShareAccount, RoleHeld, Stored, Share, Become, BackendsHeld, CertsHeld, State, Message
  <2>6. PlaceInv'
    BY <1>8, <2>1 DEF LeadershipInv, TypeOK, PlaceInv, GeneratorsShareAccount, RoleHeld, Stored, Share, Become, BackendsHeld, CertsHeld, State, Message
  <2> QED
    BY <2>1, <2>2, <2>3, <2>4, <2>5, <2>6 DEF LeadershipInv
<1> QED
  BY <1>1, <1>2, <1>3, <1>4, <1>5, <1>6, <1>7, <1>8 DEF Deliver

-----------------------------------------------------------------------------
\* What a step does to the rounds that proceeds with one of them.
LEMMA Proceeds ==
    ASSUME TypeOK, NEW n \in Node, NEW r \in Round, Proceed(n, r)
    PROVE  /\ round' \in [Node -> Round]
           /\ round'[n] = r
           /\ \A m \in Node : m # n => round'[m] = round[m]
  BY DEF TypeOK, Proceed

\* The fresh rounds.
LEMMA FreshRound ==
    /\ Idle \in Round /\ Idle.at = "idle" /\ Idle.loaded = {}
    /\ \A p \in Place :
          /\ [Idle EXCEPT !.at = p] \in Round
          /\ [Idle EXCEPT !.at = p].at = p
          /\ [Idle EXCEPT !.at = p].loaded = {}
  BY DEF Idle, Round

\* The types of the variables that the steps of a round change, round left out.
StepTypes ==
    /\ waiting \in [Node -> BOOLEAN]
    /\ generator \in [Node -> Node \cup {None}]
    /\ certs \in [Node -> SUBSET Host]
    /\ msgs \subseteq Message
    /\ account \in Node \cup {None}
    /\ issued \subseteq Host

\* What the step of one node's round to r must see to, for the invariant.
LEMMA RoundKeepsInv ==
    ASSUME LeadershipInv, NEW n \in Node, NEW r \in Round, Proceed(n, r), StepTypes',
           UNCHANGED <<role, backends, sharing, secret>>,
           \A m \in Node : m # n => /\ waiting'[m] = waiting[m]
                                    /\ generator'[m] = generator[m]
                                    /\ certs'[m] = certs[m],
           account # None => account' = account,
           issued \subseteq issued',
           \A m \in msgs' : m.type = "ApplyCerts" => m.certs \subseteq issued',
           certs'[n] \cup r.loaded \subseteq issued',
           generator'[n] # None => generator'[n] = account',
           r.at \in {"load", "install"} => r.account # None /\ r.account = account',
           r.at \in Creating => role[n] = "Leader",
           r.at \in Creating => generator'[n] = None,
           r.at \in {"check", "share"} \cup Checking => generator'[n] # None,
           r.at = "validate" => r.host \in Host,
           r.at = "persist" => backends[n] \subseteq certs'[n],
           role[n] = "Leader" /\ ~waiting'[n] /\ r.at \in {"idle", "share"}
               => backends[n] \subseteq issued'
    PROVE  LeadershipInv'
<1> USE DEF LeadershipInv
<1>1. /\ round' \in [Node -> Round] /\ round'[n] = r
      /\ \A m \in Node : m # n => round'[m] = round[m]
  BY Proceeds
<1>2. TypeOK'
  BY <1>1 DEF TypeOK, StepTypes
<1>3. AccountInv'
  BY <1>1, <1>2 DEF AccountInv, GeneratorsShareAccount, TypeOK
<1>4. HoldersLead'
  BY <1>1 DEF HoldersLead, RoleHeld
<1>5. IssuedInv'
  BY <1>1 DEF IssuedInv, Stored
<1>6. CheckedInv'
  BY <1>1 DEF CheckedInv
<1>7. PlaceInv'
  BY <1>1 DEF PlaceInv
<1> QED
  BY <1>2, <1>3, <1>4, <1>5, <1>6, <1>7

\* A step of a round, other than a write of the secret.
LEMMA RoundSteps ==
    ASSUME LeadershipInv, NEW n \in Node,
           \/ LeaderRound(n) \/ FollowerRound(n) \/ CandidateRound(n)
           \/ AccountFound(n) \/ AccountMissed(n) \/ Register(n) \/ CreatePanics(n)
           \/ Load(n) \/ Install(n) \/ Begin(n)
           \/ \E h \in Host : Order(n, h)
           \/ Issue(n) \/ IssueFails(n)
           \/ ReadVersion(n) \/ (PersistPanics(n) /\ Fail(n) /\ UNCHANGED secret)
           \/ ShareRound(n)
    PROVE  LeadershipInv'
<1> USE DEF LeadershipInv
<1>0. /\ StepTypes
      /\ round[n] \in Round
      /\ certs[n] \subseteq issued /\ round[n].loaded \subseteq issued /\ Stored \subseteq issued
      /\ \A m \in msgs : m.type = "ApplyCerts" => m.certs \subseteq issued
      /\ generator[n] # None => generator[n] = account
      /\ round[n].at \in Creating => role[n] = "Leader"
      /\ round[n].at \in {"load", "install"} =>
            round[n].account # None /\ round[n].account = account
      /\ round[n].at \in Creating => generator[n] = None
      /\ round[n].at \in {"check", "share"} \cup Checking => generator[n] # None
      /\ round[n].at = "validate" => round[n].host \in Host
      /\ role[n] = "Leader" /\ ~waiting[n] /\ round[n].at \in {"idle", "share"}
            => backends[n] \subseteq issued
      /\ backends[n] \subseteq Host
  BY DEF TypeOK, StepTypes, IssuedInv, AccountInv, GeneratorsShareAccount, HoldersLead,
         RoleHeld, PlaceInv, CheckedInv
<1>1. ASSUME LeaderRound(n) PROVE LeadershipInv'
  <2> DEFINE r == [round[n] EXCEPT !.at = IF generator[n] = None THEN "account"
                                                ELSE "generate"]
  <2>1. /\ r \in Round
        /\ r.at = (IF generator[n] = None THEN "account" ELSE "generate")
        /\ r.loaded = round[n].loaded
    BY <1>0 DEF Round
  <2>2. Proceed(n, r)
    BY <1>1 DEF LeaderRound, Goto
  <2> HIDE DEF r
  <2> QED
    BY <1>0, <1>1, <2>1, <2>2, RoundKeepsInv
    DEF LeaderRound, Enter, StepTypes, cluster
<1>2. ASSUME FollowerRound(n) PROVE LeadershipInv'
  <2> DEFINE r == Idle
  <2>1. /\ r \in Round
        /\ r.at = "idle" /\ r.loaded = {}
    BY FreshRound
  <2>2. Proceed(n, r)
    BY <1>2 DEF FollowerRound, Finish
  <2> HIDE DEF r
  <2> QED
    BY <1>0, <1>2, <2>1, <2>2, RoundKeepsInv
    DEF FollowerRound, Enter, Requests, Message, StepTypes, cluster
<1>3. ASSUME CandidateRound(n) PROVE LeadershipInv'
  <2> DEFINE r == Idle
  <2>1. /\ r \in Round
        /\ r.at = "idle" /\ r.loaded = {}
    BY FreshRound
  <2>2. Proceed(n, r)
    BY <1>3 DEF CandidateRound, Finish
  <2> HIDE DEF r
  <2> QED
    BY <1>0, <1>3, <2>1, <2>2, RoundKeepsInv
    DEF CandidateRound, Enter, StepTypes, cluster
<1>4. ASSUME AccountFound(n) PROVE LeadershipInv'
  <2> DEFINE r == [round[n] EXCEPT !.at = "load", !.account = account]
  <2>1. /\ r \in Round
        /\ r.at = "load" /\ r.loaded = round[n].loaded /\ r.account = account
    BY <1>0 DEF StepTypes, Round
  <2>2. Proceed(n, r)
    BY <1>4 DEF AccountFound, GotAccount
  <2> HIDE DEF r
  <2> QED
    BY <1>0, <1>4, <2>1, <2>2, RoundKeepsInv
    DEF AccountFound, StepTypes, cluster
<1>5. ASSUME AccountMissed(n) PROVE LeadershipInv'
  <2> DEFINE r == [round[n] EXCEPT !.at = "register"]
  <2>1. /\ r \in Round
        /\ r.at = "register" /\ r.loaded = round[n].loaded
    BY <1>0 DEF Round
  <2>2. Proceed(n, r)
    BY <1>5 DEF AccountMissed, Goto
  <2> HIDE DEF r
  <2> QED
    BY <1>0, <1>5, <2>1, <2>2, RoundKeepsInv
    DEF AccountMissed, StepTypes, cluster
<1>6. ASSUME Register(n) PROVE LeadershipInv'
  <2> DEFINE r == [round[n] EXCEPT !.at = "load", !.account = n]
  <2>1. /\ r \in Round
        /\ r.at = "load" /\ r.loaded = round[n].loaded /\ r.account = n
    BY <1>0 DEF Round
  <2>2. Proceed(n, r)
    BY <1>6 DEF Register, GotAccount
  <2> HIDE DEF r
  <2> QED
    BY <1>0, <1>6, <2>1, <2>2, RoundKeepsInv, NoneAssumption
    DEF Register, StepTypes, cluster
<1>7. ASSUME CreatePanics(n) PROVE LeadershipInv'
  <2> DEFINE r == [Idle EXCEPT !.at = "failed"]
  <2>1. /\ r \in Round
        /\ r.at = "failed" /\ r.loaded = {}
    BY FreshRound
  <2>2. Proceed(n, r)
    BY <1>7 DEF CreatePanics, Fail
  <2> HIDE DEF r
  <2> QED
    BY <1>0, <1>7, <2>1, <2>2, RoundKeepsInv
    DEF CreatePanics, StepTypes, cluster
<1>8. ASSUME Load(n) PROVE LeadershipInv'
  <2>0. PICK x \in {Stored} \cup {{} : f \in Failures \cap {"kube"}} :
          Proceed(n, [round[n] EXCEPT !.at = "install", !.loaded = x])
    BY <1>8 DEF Load
  <2> DEFINE r == [round[n] EXCEPT !.at = "install", !.loaded = x]
  <2>1. /\ r \in Round
        /\ r.at = "install" /\ r.account = round[n].account /\ r.loaded = x
    BY <1>0, <2>0 DEF TypeOK, Stored, Round
  <2>2. Proceed(n, r)
    BY <2>0
  <2> HIDE DEF r
  <2> QED
    BY <2>0, <1>0, <1>8, <2>1, <2>2, RoundKeepsInv
    DEF Load, StepTypes, cluster
<1>9. ASSUME Install(n) PROVE LeadershipInv'
  <2> DEFINE r == [Idle EXCEPT !.at = "check"]
  <2>1. /\ r \in Round
        /\ r.at = "check" /\ r.loaded = {}
    BY FreshRound
  <2>2. Proceed(n, r)
    BY <1>9 DEF Install
  <2> HIDE DEF r
  <2> QED
    BY <1>0, <1>9, <2>1, <2>2, RoundKeepsInv, NoneAssumption
    DEF Install, StepTypes, cluster, Round
<1>10. ASSUME Begin(n) PROVE LeadershipInv'
  <2> DEFINE r == [round[n] EXCEPT !.at = "generate"]
  <2>1. /\ r \in Round
        /\ r.at = "generate" /\ r.loaded = round[n].loaded
    BY <1>0 DEF Round
  <2>2. Proceed(n, r)
    BY <1>10 DEF Begin, Goto
  <2> HIDE DEF r
  <2> QED
    BY <1>0, <1>10, <2>1, <2>2, RoundKeepsInv
    DEF Begin, StepTypes, cluster
<1>11. ASSUME NEW h \in Host, Order(n, h) PROVE LeadershipInv'
  <2> DEFINE r == [round[n] EXCEPT !.at = "validate", !.host = h]
  <2>1. /\ r \in Round
        /\ r.at = "validate" /\ r.loaded = round[n].loaded /\ r.host = h
    BY <1>0 DEF Round
  <2>2. Proceed(n, r)
    BY <1>11 DEF Order
  <2> HIDE DEF r
  <2> QED
    BY <1>0, <1>11, <2>1, <2>2, RoundKeepsInv
    DEF Order, StepTypes, cluster
<1>12. ASSUME Issue(n) PROVE LeadershipInv'
  <2> DEFINE r == [round[n] EXCEPT !.at = "generate", !.host = None]
  <2>1. /\ r \in Round
        /\ r.at = "generate" /\ r.loaded = round[n].loaded /\ r.host = None
    BY <1>0 DEF Round
  <2>2. Proceed(n, r)
    BY <1>12 DEF Issue
  <2> HIDE DEF r
  <2> QED
    BY <1>0, <1>12, <2>1, <2>2, RoundKeepsInv
    DEF Issue, StepTypes, cluster
<1>13. ASSUME IssueFails(n) PROVE LeadershipInv'
  <2> DEFINE r == [Idle EXCEPT !.at = "failed"]
  <2>1. /\ r \in Round
        /\ r.at = "failed" /\ r.loaded = {}
    BY FreshRound
  <2>2. Proceed(n, r)
    BY <1>13 DEF IssueFails, Fail
  <2> HIDE DEF r
  <2> QED
    BY <1>0, <1>13, <2>1, <2>2, RoundKeepsInv
    DEF IssueFails, StepTypes, cluster
<1>14. ASSUME ReadVersion(n) PROVE LeadershipInv'
  <2>0. PICK x \in {IF secret = None THEN "create" ELSE "replace"}
                        \cup {"create" : f \in Failures \cap {"kube"}} :
          Proceed(n, [round[n] EXCEPT !.at = "persist", !.write = x])
    BY <1>14 DEF ReadVersion
  <2> DEFINE r == [round[n] EXCEPT !.at = "persist", !.write = x]
  <2>1. /\ r \in Round
        /\ r.at = "persist" /\ r.loaded = round[n].loaded /\ r.write = x
    BY <1>0, <2>0 DEF Round
  <2>2. Proceed(n, r)
    BY <2>0
  <2> HIDE DEF r
  <2> QED
    BY <2>0, <1>0, <1>14, <2>1, <2>2, RoundKeepsInv
    DEF ReadVersion, StepTypes, cluster
<1>15. ASSUME PersistPanics(n), Fail(n), UNCHANGED secret PROVE LeadershipInv'
  <2> DEFINE r == [Idle EXCEPT !.at = "failed"]
  <2>1. /\ r \in Round
        /\ r.at = "failed" /\ r.loaded = {}
    BY FreshRound
  <2>2. Proceed(n, r)
    BY <1>15 DEF PersistPanics, Fail
  <2> HIDE DEF r
  <2> QED
    BY <1>0, <1>15, <2>1, <2>2, RoundKeepsInv
    DEF PersistPanics, StepTypes, cluster
<1>16. ASSUME ShareRound(n) PROVE LeadershipInv'
  <2> DEFINE r == Idle
  <2>1. /\ r \in Round
        /\ r.at = "idle" /\ r.loaded = {}
    BY FreshRound
  <2>2. Proceed(n, r)
    BY <1>16 DEF ShareRound, Finish
  <2> HIDE DEF r
  <2> QED
    BY <1>0, <1>16, <2>1, <2>2, RoundKeepsInv
    DEF ShareRound, State, Message, StepTypes, cluster
<1> QED
  BY <1>1, <1>2, <1>3, <1>4, <1>5, <1>6, <1>7, <1>8, <1>9, <1>10, <1>11, <1>12, <1>13, <1>14, <1>15, <1>16

\* The write of the secret makes the versions stale that others have read.
LEMMA WriteStep ==
    ASSUME LeadershipInv, NEW n \in Node, NEW p \in {"share", "failed"},
           round[n].at = "persist", Write(n, [Idle EXCEPT !.at = p]),
           UNCHANGED <<role, backends, waiting, sharing, generator, certs, msgs,
                       account, issued>>
    PROVE  LeadershipInv'
<1> USE DEF LeadershipInv
<1>1. /\ [Idle EXCEPT !.at = p] \in Round
      /\ [Idle EXCEPT !.at = p].at = p
      /\ [Idle EXCEPT !.at = p].loaded = {}
  BY FreshRound
<1>2. \A r \in Round :
        /\ [r EXCEPT !.write = "stale"] \in Round
        /\ [r EXCEPT !.write = "stale"].at = r.at
        /\ [r EXCEPT !.write = "stale"].account = r.account
        /\ [r EXCEPT !.write = "stale"].loaded = r.loaded
        /\ [r EXCEPT !.write = "stale"].host = r.host
  BY DEF Round
<1> DEFINE new(m) == IF m = n THEN [Idle EXCEPT !.at = p]
                     ELSE IF round[m].write = "replace"
                            THEN [round[m] EXCEPT !.write = "stale"] ELSE round[m]
<1>3. \A m \in Node : round[m] \in Round
  BY DEF TypeOK
<1>4. round' = [m \in Node |-> new(m)]
  BY DEF Write
<1>5. /\ new(n) \in Round /\ new(n).at = p /\ new(n).loaded = {}
      /\ \A m \in Node : m # n =>
            /\ new(m) \in Round
            /\ new(m).at = round[m].at /\ new(m).account = round[m].account
            /\ new(m).loaded = round[m].loaded /\ new(m).host = round[m].host
  BY <1>1, <1>2, <1>3
<1> HIDE DEF new
<1>6. /\ round' \in [Node -> Round]
      /\ round'[n].at = p /\ round'[n].loaded = {}
      /\ \A m \in Node : m # n =>
            /\ round'[m].at = round[m].at /\ round'[m].account = round[m].account
            /\ round'[m].loaded = round[m].loaded /\ round'[m].host = round[m].host
  BY <1>4, <1>5
<1>7. /\ round[n].at = "persist" /\ secret' = certs[n]
      /\ UNCHANGED <<role, backends, waiting, sharing, generator, certs, msgs,
                     account, issued>>
  BY DEF Write
<1>8. TypeOK'
  BY <1>6, <1>7 DEF TypeOK
<1>9. AccountInv'
  BY <1>6, <1>7 DEF AccountInv, GeneratorsShareAccount
<1>10. HoldersLead'
  BY <1>6, <1>7 DEF HoldersLead, RoleHeld
<1>11. IssuedInv'
  BY <1>6, <1>7, <1>8 DEF IssuedInv, Stored, TypeOK
<1>12. CheckedInv'
  BY <1>6, <1>7 DEF CheckedInv, IssuedInv
<1>13. PlaceInv'
  BY <1>6, <1>7 DEF PlaceInv
<1> QED
  BY <1>8, <1>9, <1>10, <1>11, <1>12, <1>13

\* A process that starts again has nothing to keep but what is stored.
LEMMA RestartStep ==
    ASSUME LeadershipInv, NEW n \in Node, Restart(n)
    PROVE  LeadershipInv'
<1> USE DEF LeadershipInv
<1>1. PICK x \in {Stored} \cup {{} : f \in Failures \cap {"kube"}} :
        certs' = [certs EXCEPT ![n] = x]
  BY DEF Restart
<1>2. /\ x \subseteq Stored /\ x \subseteq Host
      /\ Idle \in Round /\ Idle.at = "idle" /\ Idle.loaded = {}
  BY <1>1 DEF TypeOK, Stored, Idle, Round
<1>3. TypeOK'
  BY <1>1, <1>2 DEF Restart, TypeOK, Role, cluster
<1>4. /\ role'[n] = "Follower" /\ backends'[n] = {} /\ ~sharing'[n]
      /\ round'[n] = Idle /\ generator'[n] = None /\ certs'[n] = x
      /\ msgs' \subseteq msgs /\ UNCHANGED <<account, secret, issued>>
      /\ \A m \in Node : m # n =>
            /\ role'[m] = role[m] /\ backends'[m] = backends[m]
            /\ waiting'[m] = waiting[m] /\ sharing'[m] = sharing[m]
            /\ round'[m] = round[m] /\ generator'[m] = generator[m]
            /\ certs'[m] = certs[m]
  BY <1>1 DEF Restart, TypeOK, cluster
<1>5. AccountInv'
  BY <1>2, <1>4 DEF AccountInv, GeneratorsShareAccount
<1>6. HoldersLead'
  BY <1>2, <1>4 DEF HoldersLead, RoleHeld
<1>7. IssuedInv'
  BY <1>2, <1>4 DEF IssuedInv, Stored
<1>8. CheckedInv'
  BY <1>2, <1>4 DEF CheckedInv
<1>9. PlaceInv'
  BY <1>2, <1>4 DEF PlaceInv
<1> QED
  BY <1>3, <1>5, <1>6, <1>7, <1>8, <1>9

LEMMA RoundsStutter ==
    ASSUME LeadershipInv, UNCHANGED vars
    PROVE  LeadershipInv'
  BY DEF LeadershipInv, TypeOK, AccountInv, GeneratorsShareAccount, HoldersLead, RoleHeld,
         IssuedInv, CheckedInv, PlaceInv, Stored, vars, cluster

LEMMA RoundsNext == LeadershipInv /\ [Next]_vars => LeadershipInv'
<1> SUFFICES ASSUME LeadershipInv, [Next]_vars PROVE LeadershipInv'
  OBVIOUS
<1>1. CASE UNCHANGED vars
  BY <1>1, RoundsStutter
<1>2. CASE Next
  <2> PICK n \in Node :
        \/ Elect(n)
        \/ \E h \in Host : Change(n, h)
        \/ Restart(n)
        \/ \E m \in msgs : Deliver(n, m)
        \/ Share(n)
        \/ HandleChange(n)
    BY <1>2 DEF Next
  <2>1. CASE Elect(n)
    BY <2>1, OtherSteps DEF Elect, Stand, Win, StepDown, Become, cluster
  <2>2. CASE \E h \in Host : Change(n, h)
    BY <2>2, OtherSteps DEF Change, cluster
  <2>3. CASE Restart(n)
    BY <2>3, RestartStep
  <2>4. CASE \E m \in msgs : Deliver(n, m)
    BY <2>4, OtherSteps DEF Deliver, ApplyCerts, RequestAnswered, RequestIgnored, cluster
  <2>5. CASE Share(n)
    BY <2>5, OtherSteps DEF Share, cluster
  <2>6. CASE HandleChange(n)
    <3>1. CASE Persist(n)
      BY <3>1, WriteStep DEF Persist
    <3>2. CASE PersistPanics(n) /\ Write(n, [Idle EXCEPT !.at = "failed"])
      BY <3>2, WriteStep DEF PersistPanics
    <3>3. CASE PersistPanics(n) /\ Fail(n) /\ UNCHANGED secret
      BY <3>3, RoundSteps
    <3>4. CASE ~Persist(n) /\ ~PersistPanics(n)
      BY <2>6, <3>4, RoundSteps DEF HandleChange
    <3> QED
      BY <3>1, <3>2, <3>3, <3>4 DEF PersistPanics
  <2> QED
    BY <2>1, <2>2, <2>3, <2>4, <2>5, <2>6
<1> QED
  BY <1>1, <1>2

-----------------------------------------------------------------------------
\* The inductive invariant holds: in particular a node that creates its generator
\* or waits to share its state still leads, and what is served, sent or stored has
\* been issued, whatever order messages come in and wherever processes restart.
THEOREM RoundsCorrect == Spec => []LeadershipInv
<1> QED
  BY RoundsInit, RoundsNext, PTL DEF Spec

\* All generators use the account in the secret: of several nodes that found no
\* account and registered one of their own, only one gets past get_account.
THEOREM GeneratorsAgree == Spec => []GeneratorsShareAccount
<1>1. LeadershipInv => GeneratorsShareAccount
  BY DEF LeadershipInv, AccountInv
<1> QED
  BY <1>1, RoundsCorrect, PTL

\* What leadership_system.rs:15 promises: a leader that has nothing due, and whose
\* last round did not fail, has a certificate issued for every host it routes.
THEOREM ChangesAreNotMissed == Spec => []NothingMissed
<1>1. LeadershipInv => NothingMissed
  BY DEF LeadershipInv, CheckedInv, NothingMissed
<1> QED
  BY <1>1, RoundsCorrect, PTL

\* A write of the secret leaves the other rounds where they are.
LEMMA WriteKeepsOthers ==
    ASSUME TypeOK, NEW n \in Node, round[n].at = "persist", round'[n].at # "persist",
           NEW m \in Node, NEW r, Write(m, r)
    PROVE  m = n
<1> SUFFICES ASSUME m # n PROVE FALSE
  OBVIOUS
<1>1. \/ round'[n] = round[n]
      \/ round'[n] = [round[n] EXCEPT !.write = "stale"]
  BY DEF Write
<1>2. [round[n] EXCEPT !.write = "stale"].at = round[n].at
  BY DEF TypeOK, Round
<1> QED
  BY <1>1, <1>2

\* Only a write changes the secret.
LEMMA OnlyWritesStore ==
    ASSUME [Next]_vars, secret' # secret
    PROVE  \E m \in Node : \E r : Write(m, r) /\ round[m].at = "persist"
<1>1. PICK m \in Node : HandleChange(m)
  BY DEF Next, vars, cluster, Elect, Stand, Win, StepDown, Become, Change, Deliver,
         ApplyCerts, RequestAnswered, RequestIgnored, Share, Restart
<1>2. Persist(m) \/ PersistPanics(m)
  BY <1>1 DEF HandleChange, LeaderRound, FollowerRound, CandidateRound, AccountFound,
     AccountMissed, Register, CreatePanics, Load, Install, Begin, Order, Issue,
     IssueFails, ReadVersion, ShareRound, cluster
<1> QED
  BY <1>2 DEF Persist, PersistPanics

\* Only a successful write of the secret takes a round from persist to share.
LEMMA OnlyPersistShares ==
    ASSUME TypeOK, [Next]_vars, NEW n \in Node,
           round[n].at = "persist", round'[n].at = "share"
    PROVE  Persist(n)
<1>1. \A m \in Node : \A r : Proceed(m, r) /\ r.at # "share" => FALSE
  BY DEF Proceed, TypeOK
<1>2. /\ [Idle EXCEPT !.at = "failed"].at # "share"
      /\ [Idle EXCEPT !.at = "check"].at # "share"
      /\ Idle.at # "share"
  BY DEF Idle
<1>3. round' # round
  OBVIOUS
<1>4. PICK m \in Node : Restart(m) \/ HandleChange(m)
  BY <1>3 DEF Next, vars, cluster, Elect, Stand, Win, StepDown, Become, Change, Deliver,
         ApplyCerts, RequestAnswered, RequestIgnored, Share
<1>5. \A p \in Place : p # "share" => [round[m] EXCEPT !.at = p].at # "share"
  BY DEF TypeOK, Round
<1>6. ~Restart(m)
  BY <1>2 DEF Restart, TypeOK
<1>7. ASSUME LeaderRound(m) PROVE FALSE
  <2>1. LET p == IF generator[m] = None THEN "account" ELSE "generate"
        IN  Proceed(m, [round[m] EXCEPT !.at = p]) /\ p \in Place /\ p # "share"
    BY <1>7 DEF LeaderRound, Goto
  <2> QED
    BY <2>1, <1>1, <1>5
<1>8. ASSUME FollowerRound(m) \/ CandidateRound(m) \/ ShareRound(m) PROVE FALSE
  BY <1>8, <1>1, <1>2 DEF FollowerRound, CandidateRound, ShareRound, Finish
<1>9. ASSUME CreatePanics(m) \/ IssueFails(m) PROVE FALSE
  BY <1>9, <1>1, <1>2 DEF CreatePanics, IssueFails, Fail
<1>10. ASSUME AccountMissed(m) \/ Begin(m) PROVE FALSE
  BY <1>10, <1>1, <1>5 DEF AccountMissed, Begin, Goto
<1>11. ASSUME Install(m) PROVE FALSE
  BY <1>11, <1>1, <1>2 DEF Install
<1>12. \A a : /\ [round[m] EXCEPT !.at = "load", !.account = a].at = "load"
              /\ [round[m] EXCEPT !.at = "install", !.loaded = a].at = "install"
              /\ [round[m] EXCEPT !.at = "validate", !.host = a].at = "validate"
              /\ [round[m] EXCEPT !.at = "generate", !.host = a].at = "generate"
              /\ [round[m] EXCEPT !.at = "persist", !.write = a].at = "persist"
  BY DEF TypeOK, Round
<1>13. ASSUME AccountFound(m) \/ Register(m) PROVE FALSE
  BY <1>13, <1>1, <1>12 DEF AccountFound, Register, GotAccount
<1>14. ASSUME Load(m) PROVE FALSE
  <2>1. \E x : Proceed(m, [round[m] EXCEPT !.at = "install", !.loaded = x])
    BY <1>14 DEF Load
  <2> QED
    BY <2>1, <1>1, <1>12
<1>15. ASSUME NEW h \in Host, Order(m, h) PROVE FALSE
  BY <1>15, <1>1, <1>12 DEF Order
<1>16. ASSUME Issue(m) PROVE FALSE
  BY <1>16, <1>1, <1>12 DEF Issue
<1>17. ASSUME ReadVersion(m) PROVE FALSE
  <2>1. \E x : Proceed(m, [round[m] EXCEPT !.at = "persist", !.write = x])
    BY <1>17 DEF ReadVersion
  <2> QED
    BY <2>1, <1>1, <1>12
<1>18. \A p \in {"share", "failed"} : Write(m, [Idle EXCEPT !.at = p]) => m = n
  BY WriteKeepsOthers
<1>19. ASSUME PersistPanics(m) PROVE FALSE
  <2>1. CASE Fail(m)
    BY <2>1, <1>1, <1>2 DEF Fail
  <2>2. CASE Write(m, [Idle EXCEPT !.at = "failed"])
    BY <2>2, <1>2, <1>18 DEF Write
  <2> QED
    BY <1>19, <2>1, <2>2 DEF PersistPanics
<1>20. Persist(m)
  BY <1>4, <1>6, <1>7, <1>8, <1>9, <1>10, <1>11, <1>13, <1>14, <1>15, <1>16, <1>17, <1>19
     DEF HandleChange
<1> QED
  BY <1>18, <1>20 DEF Persist

\* A secret is written only with a certificate for every host its writer routes,
\* also when the writer never learns that it was.
THEOREM PersistsCover == Spec => PersistCoversBackends
<1> DEFINE Covers == \A n \in Node :
             /\ round[n].at = "persist"
             /\ round'[n].at = "share" \/ (round'[n].at = "failed" /\ secret' # secret)
             => backends[n] \subseteq secret'
<1>1. LeadershipInv /\ LeadershipInv' /\ [Next]_vars => [Covers]_vars
  <2> SUFFICES ASSUME LeadershipInv, [Next]_vars, NEW n \in Node,
                      round[n].at = "persist",
                      round'[n].at = "share" \/ (round'[n].at = "failed" /\ secret' # secret)
               PROVE  backends[n] \subseteq secret'
    OBVIOUS
  <2>1. CASE round'[n].at = "share"
    BY <2>1, OnlyPersistShares DEF LeadershipInv, Persist, Write, CheckedInv
  <2>2. CASE round'[n].at = "failed" /\ secret' # secret
    <3>1. PICK m \in Node : \E r : Write(m, r) /\ round[m].at = "persist"
      BY <2>2, OnlyWritesStore
    <3>2. m = n
      BY <2>2, <3>1, WriteKeepsOthers DEF LeadershipInv
    <3> QED
      BY <3>1, <3>2 DEF Write, LeadershipInv, CheckedInv
  <2> QED
    BY <2>1, <2>2
<1> QED
  BY <1>1, RoundsCorrect, PTL DEF Spec, PersistCoversBackends
=============================================================================
