------------------------ MODULE LeadershipRefinement ------------------------
(* The certificate rounds of module Leadership implement CertificateStore: *)
(* most of their steps change nothing there, the others are one of its.    *)
EXTENDS LeadershipProofs

USE DEF Place, Resting, Creating, Checking

\* The node of a round that proceeds to r reads the secret, or no longer has it
\* read; the others are what they were.
LEMMA ReadersOfRound ==
    ASSUME TypeOK, NEW n \in Node, NEW r \in Round, Proceed(n, r)
    PROVE  Readers' = IF r.at = "persist" /\ r.write = "replace"
                      THEN Readers \cup {n} ELSE Readers \ {n}
  BY Proceeds DEF Readers

\* A step of the round of n that neither starts at the write nor leads there.
Elsewhere(n) ==
    /\ round[n].at # "persist" /\ round'[n].at # "persist"
    /\ \A m \in Node \ {n} : round'[m] = round[m]

LEMMA GoesElsewhere ==
    ASSUME TypeOK, NEW n \in Node, round[n].at # "persist", NEW p, p # "persist", NEW a,
           \/ Goto(n, p)
           \/ Proceed(n, [Idle EXCEPT !.at = p])
           \/ Proceed(n, [round[n] EXCEPT !.at = p, !.account = a])
           \/ Proceed(n, [round[n] EXCEPT !.at = p, !.loaded = a])
           \/ Proceed(n, [round[n] EXCEPT !.at = p, !.host = a])
    PROVE  Elsewhere(n)
<1>1. round[n] \in Round
  BY DEF TypeOK
<1>2. /\ [round[n] EXCEPT !.at = p].at = p
      /\ [round[n] EXCEPT !.at = p, !.account = a].at = p
      /\ [round[n] EXCEPT !.at = p, !.loaded = a].at = p
      /\ [round[n] EXCEPT !.at = p, !.host = a].at = p
  BY <1>1 DEF Round
<1>3. [Idle EXCEPT !.at = p].at = p
  BY DEF Idle
<1>4. PICK r : Proceed(n, r) /\ r.at = p
  BY <1>2, <1>3 DEF Goto
<1>5. QED
  BY <1>4 DEF Elsewhere, Proceed, TypeOK

LEMMA GoesIdle ==
    ASSUME TypeOK, NEW n \in Node, round[n].at # "persist", Proceed(n, Idle)
    PROVE  Elsewhere(n)
  BY DEF Elsewhere, Proceed, TypeOK, Idle

LEMMA ReadersElsewhere ==
    ASSUME NEW n \in Node, Elsewhere(n)
    PROVE  Readers' = Readers
  BY DEF Readers, Elsewhere

\* Steps that CertificateStore does not see.
LEMMA StoreUnseen ==
    ASSUME Readers' = Readers, UNCHANGED <<account, generator, issued, certs, secret>>
    PROVE  [Store!Next]_(Store!vars)
  BY DEF Store!vars

\* The steps that leave the rounds alone.
LEMMA StoreOtherSteps ==
    ASSUME LeadershipInv, NEW n \in Node,
           \/ Elect(n)
           \/ \E h \in Host : Change(n, h)
           \/ \E m \in msgs : Deliver(n, m)
           \/ Share(n)
    PROVE  [Store!Next]_(Store!vars)
<1>1. CASE \/ Elect(n) \/ Share(n)
           \/ \E h \in Host : Change(n, h)
           \/ \E m \in msgs : RequestAnswered(n, m) \/ RequestIgnored(n, m)
  <2>1. UNCHANGED <<round, account, generator, issued, certs, secret>>
    BY <1>1 DEF Elect, Stand, Win, StepDown, Become, Share, Change, RequestAnswered,
       RequestIgnored, cluster
  <2>2. QED
    BY <2>1, StoreUnseen DEF Readers
<1>2. ASSUME NEW m \in msgs, ApplyCerts(n, m)
      PROVE  Store!Receive(n)
  <2>1. m.certs \in SUBSET issued
    BY <1>2 DEF ApplyCerts, LeadershipInv, IssuedInv
  <2>2. Readers' = Readers
    BY <1>2 DEF ApplyCerts, Readers
  <2>3. QED
    BY <1>2, <2>1, <2>2 DEF ApplyCerts, Store!Receive, cluster
<1>3. QED
  BY <1>1, <1>2 DEF Deliver, Store!Next

\* The steps of a round up to its generator.
LEMMA StoreCreates ==
    ASSUME LeadershipInv, NEW n \in Node,
           \/ AccountFound(n) \/ AccountMissed(n) \/ Register(n) \/ CreatePanics(n)
           \/ Load(n) \/ Install(n)
    PROVE  [Store!Next]_(Store!vars)
<1>1. TypeOK /\ round[n].at # "persist"
  BY DEF LeadershipInv, AccountFound, AccountMissed, Register, CreatePanics, Load, Install
<1>2. Elsewhere(n)
  <2>1. CASE AccountFound(n)
    BY <1>1, <2>1, GoesElsewhere DEF AccountFound, GotAccount
  <2>2. CASE Register(n)
    BY <1>1, <2>2, GoesElsewhere DEF Register, GotAccount
  <2>3. CASE AccountMissed(n)
    BY <1>1, <2>3, GoesElsewhere DEF AccountMissed
  <2>4. CASE CreatePanics(n)
    BY <1>1, <2>4, GoesElsewhere DEF CreatePanics, Fail
  <2>5. CASE Load(n)
    BY <1>1, <2>5, GoesElsewhere DEF Load
  <2>6. CASE Install(n)
    BY <1>1, <2>6, GoesElsewhere DEF Install
  <2>7. QED
    BY <2>1, <2>2, <2>3, <2>4, <2>5, <2>6
<1>3. Readers' = Readers
  BY <1>2, ReadersElsewhere
<1>4. CASE AccountFound(n) \/ AccountMissed(n) \/ Load(n)
  <2>1. UNCHANGED <<account, generator, issued, certs, secret>>
    BY <1>4 DEF AccountFound, AccountMissed, Load, cluster
  <2>2. QED
    BY <1>3, <2>1, StoreUnseen
<1>5. CASE Register(n)
  <2>1. Store!Register(n)
    BY <1>3, <1>5 DEF Register, Store!Register
  <2>2. QED
    BY <2>1 DEF Store!Next
<1>6. CASE Install(n)
  <2>1. /\ round[n].account = account /\ account # None /\ generator[n] = None
        /\ round[n].loaded \in SUBSET issued
    BY <1>6 DEF Install, LeadershipInv, AccountInv, IssuedInv, PlaceInv
  <2>2. Store!Adopt(n)
    BY <1>3, <1>6, <2>1 DEF Install, cluster, Store!Adopt
  <2>3. QED
    BY <2>2 DEF Store!Next
<1>7. CASE CreatePanics(n)
  <2>1. CASE account' = account
    <3>1. UNCHANGED <<account, generator, issued, certs, secret>>
      BY <1>7, <2>1 DEF CreatePanics
    <3>2. QED
      BY <1>3, <3>1, StoreUnseen
  <2>2. CASE account' # account
    <3>1. Store!Register(n)
      BY <1>3, <1>7, <2>2 DEF CreatePanics, Store!Register
    <3>2. QED
      BY <3>1 DEF Store!Next
  <2>3. QED
    BY <2>1, <2>2
<1>8. QED
  BY <1>4, <1>5, <1>6, <1>7

\* The steps of a round that order certificates.
LEMMA StoreOrders ==
    ASSUME LeadershipInv, NEW n \in Node,
           \/ LeaderRound(n) \/ FollowerRound(n) \/ CandidateRound(n) \/ ShareRound(n)
           \/ Begin(n) \/ (\E h \in Host : Order(n, h)) \/ Issue(n) \/ IssueFails(n)
    PROVE  [Store!Next]_(Store!vars)
<1>1. TypeOK /\ round[n].at # "persist"
  BY DEF LeadershipInv, LeaderRound, FollowerRound, CandidateRound, ShareRound, Enter,
     Begin, Order, Issue, IssueFails
<1>2. Elsewhere(n)
  <2>1. CASE LeaderRound(n)
    BY <1>1, <2>1, GoesElsewhere DEF LeaderRound
  <2>2. CASE FollowerRound(n) \/ CandidateRound(n) \/ ShareRound(n)
    BY <1>1, <2>2, GoesIdle DEF FollowerRound, CandidateRound, ShareRound, Finish
  <2>3. CASE Begin(n)
    BY <1>1, <2>3, GoesElsewhere DEF Begin
  <2>4. CASE \E h \in Host : Order(n, h)
    BY <1>1, <2>4, GoesElsewhere DEF Order
  <2>5. CASE Issue(n)
    BY <1>1, <2>5, GoesElsewhere DEF Issue
  <2>6. CASE IssueFails(n)
    BY <1>1, <2>6, GoesElsewhere DEF IssueFails, Fail
  <2>7. QED
    BY <2>1, <2>2, <2>3, <2>4, <2>5, <2>6
<1>3. Readers' = Readers
  BY <1>2, ReadersElsewhere
<1>4. CASE \/ LeaderRound(n) \/ FollowerRound(n) \/ CandidateRound(n) \/ ShareRound(n)
           \/ Begin(n) \/ \E h \in Host : Order(n, h)
  <2>1. UNCHANGED <<account, generator, issued, certs, secret>>
    BY <1>4 DEF LeaderRound, FollowerRound, CandidateRound, ShareRound, Begin, Order, cluster
  <2>2. QED
    BY <1>3, <2>1, StoreUnseen
<1>5. round[n].at = "validate" => round[n].host \in Host /\ generator[n] # None
  BY DEF LeadershipInv, PlaceInv
<1>6. CASE Issue(n)
  <2>1. Store!Issue(n, round[n].host)
    BY <1>3, <1>5, <1>6 DEF Issue, Store!Issue
  <2>2. QED
    BY <1>5, <1>6, <2>1 DEF Issue, Store!Next
<1>7. CASE IssueFails(n)
  <2>1. CASE issued' = issued
    <3>1. UNCHANGED <<account, generator, issued, certs, secret>>
      BY <1>7, <2>1 DEF IssueFails
    <3>2. QED
      BY <1>3, <3>1, StoreUnseen
  <2>2. CASE issued' # issued
    <3>1. round[n].at = "validate" /\ Store!Issue(n, round[n].host)
      BY <1>3, <1>5, <1>7, <2>2 DEF IssueFails, Store!Issue
    <3>2. QED
      BY <1>5, <3>1 DEF Store!Next
  <2>3. QED
    BY <2>1, <2>2
<1>8. QED
  BY <1>4, <1>6, <1>7

\* The steps of a round that read the secret and write it.
LEMMA StoreWrites ==
    ASSUME LeadershipInv, NEW n \in Node, ReadVersion(n) \/ Persist(n) \/ PersistPanics(n)
    PROVE  [Store!Next]_(Store!vars)
<1>1. TypeOK /\ round[n] \in Round
  BY DEF LeadershipInv, TypeOK
<1>2. round[n].at \in Checking => generator[n] # None
  BY DEF LeadershipInv, PlaceInv
<1>3. CASE ReadVersion(n)
  <2>1. PICK w \in {IF secret = None THEN "create" ELSE "replace"}
                      \cup {"create" : f \in Failures \cap {"kube"}} :
           Proceed(n, [round[n] EXCEPT !.at = "persist", !.write = w])
    BY <1>3 DEF ReadVersion
  <2>2. w \in {"create", "replace"} /\ (w = "replace" => secret # None)
    BY <2>1
  <2> DEFINE r == [round[n] EXCEPT !.at = "persist", !.write = w]
  <2>3. r \in Round /\ r.at = "persist" /\ r.write = w
    BY <1>1, <2>2 DEF Round
  <2> HIDE DEF r
  <2>4. Readers' = IF w = "replace" THEN Readers \cup {n} ELSE Readers \ {n}
    BY <1>1, <2>1, <2>3, ReadersOfRound DEF r
  <2>5. UNCHANGED <<account, generator, issued, certs, secret>>
    BY <1>3 DEF ReadVersion, cluster
  <2>6. CASE w = "replace"
    <3>1. Store!Read(n)
      BY <1>2, <1>3, <2>2, <2>4, <2>5, <2>6 DEF ReadVersion, Store!Read
    <3>2. QED
      BY <3>1 DEF Store!Next
  <2>7. CASE w # "replace"
    <3>1. Store!GiveUp(n)
      BY <2>4, <2>5, <2>7 DEF Store!GiveUp
    <3>2. QED
      BY <3>1 DEF Store!Next
  <2>8. QED
    BY <2>6, <2>7
<1>4. ASSUME NEW p \in {"share", "failed"}, round[n].at = "persist", Accepted(n),
             Write(n, [Idle EXCEPT !.at = p]),
             UNCHANGED <<generator, certs, account, issued>>
      PROVE  [Store!Next]_(Store!vars)
  <2>1. \A q \in Round : [q EXCEPT !.write = "stale"].write = "stale"
    BY DEF Round
  <2>2. [Idle EXCEPT !.at = p].at # "persist"
    BY DEF Idle
  <2>3. ASSUME NEW m \in Node
        PROVE  ~(round'[m].at = "persist" /\ round'[m].write = "replace")
    <3>1. round[m] \in Round
      BY <1>1 DEF TypeOK
    <3>2. round'[m] = IF m = n THEN [Idle EXCEPT !.at = p]
                      ELSE IF round[m].write = "replace"
                             THEN [round[m] EXCEPT !.write = "stale"] ELSE round[m]
      BY <1>4 DEF Write
    <3>3. QED
      BY <2>1, <2>2, <3>1, <3>2
  <2>4. Readers' = {}
    BY <2>3 DEF Readers
  <2>5. secret = None \/ n \in Readers
    BY <1>4 DEF Accepted, Readers
  <2>6. Store!Write(n)
    BY <1>2, <1>4, <2>4, <2>5 DEF Write, Store!Write
  <2>7. QED
    BY <2>6 DEF Store!Next
<1>5. CASE Persist(n)
  BY <1>4, <1>5 DEF Persist
<1>6. CASE PersistPanics(n)
  <2>1. CASE Fail(n) /\ UNCHANGED secret
    <3>1. Readers' = Readers \ {n}
      BY <1>1, <2>1, FreshRound, ReadersOfRound DEF Fail
    <3>2. Store!GiveUp(n)
      BY <1>6, <2>1, <3>1 DEF PersistPanics, Store!GiveUp
    <3>3. QED
      BY <3>2 DEF Store!Next
  <2>2. CASE Accepted(n) /\ Write(n, [Idle EXCEPT !.at = "failed"])
    BY <1>4, <1>6, <2>2 DEF PersistPanics
  <2>3. QED
    BY <1>6, <2>1, <2>2 DEF PersistPanics
<1>7. QED
  BY <1>3, <1>5, <1>6

\* A node that starts again.
LEMMA StoreRestarts ==
    ASSUME LeadershipInv, NEW n \in Node, Restart(n)
    PROVE  [Store!Next]_(Store!vars)
<1>1. PICK x \in {Stored} \cup {{} : f \in Failures \cap {"kube"}} :
         certs' = [certs EXCEPT ![n] = x]
  BY DEF Restart
<1>2. Proceed(n, Idle)
  BY DEF Restart, Proceed
<1>3. Readers' = Readers \ {n}
  BY <1>2, FreshRound, ReadersOfRound DEF LeadershipInv
<1>4. x \in {{}, IF secret = None THEN {} ELSE secret}
  BY <1>1 DEF Stored
<1>5. Store!Restart(n)
  BY <1>1, <1>3, <1>4 DEF Restart, cluster, Store!Restart
<1>6. QED
  BY <1>5 DEF Store!Next

\* Every step of the rounds is one of CertificateStore, or none.
LEMMA StoreStep == LeadershipInv /\ [Next]_vars => [Store!Next]_(Store!vars)
<1> SUFFICES ASSUME LeadershipInv, [Next]_vars PROVE [Store!Next]_(Store!vars)
  OBVIOUS
<1>1. CASE UNCHANGED vars
  BY <1>1, StoreUnseen DEF vars, cluster, Readers
<1>2. CASE Next
  <2>1. PICK n \in Node :
           \/ Elect(n)
           \/ \E h \in Host : Change(n, h)
           \/ Restart(n)
           \/ \E m \in msgs : Deliver(n, m)
           \/ Share(n)
           \/ HandleChange(n)
    BY <1>2 DEF Next
  <2>2. CASE HandleChange(n)
    BY <2>2, StoreCreates, StoreOrders, StoreWrites DEF HandleChange
  <2>3. QED
    BY <2>1, <2>2, StoreOtherSteps, StoreRestarts
<1>3. QED
  BY <1>1, <1>2

\* The rounds of all nodes together implement CertificateStore: one account, chosen
\* once and used by all that have certificates issued, nothing served that was not
\* issued, and a secret that nobody writes over unread, for any cluster.
THEOREM RoundsImplementStore == Spec => StoreSpec
<1>1. Init => Store!Init
  <2> SUFFICES ASSUME Init PROVE Store!Init
    OBVIOUS
  <2>1. Readers = {}
    BY DEF Init, Readers, Idle
  <2>2. QED
    BY <2>1, GivenAssumption DEF Init, Stored, Store!Init
<1>2. QED
  BY <1>1, StoreStep, RoundsCorrect, PTL DEF Spec, StoreSpec, Store!Spec
=============================================================================
