----------------------------- MODULE AcmeProofs -----------------------------
(* Theorems about the exchange with the authority, for any nodes, domains  *)
(* and failures.                                                           *)
EXTENDS AcmeProperties, TLAPS

USE DEF MaxPolls

LEMMA ExchangeInit == Init => AcmeInv
<1> SUFFICES ASSUME Init PROVE AcmeInv
  OBVIOUS
<1>1. TypeOK
  BY DEF Init, TypeOK, Place, Status, OrderStatus
<1>2. SpreadInv
  BY DEF Init, SpreadInv
<1>3. OrderInv
  BY DEF Init, OrderInv
<1> QED
  BY <1>1, <1>2, <1>3 DEF AcmeInv

LEMMA SummaryValue ==
    ASSUME NEW s
    PROVE  /\ Summary(s) \in {"invalid", "ready", "pending"}
           /\ Summary(s) = "ready" => \A d \in Domain : s[d] = "valid"
  BY DEF Summary

\* Every step keeps the invariant.
LEMMA ExchangeNext == AcmeInv /\ [Next]_vars => AcmeInv'
<1> SUFFICES ASSUME AcmeInv, [Next]_vars PROVE AcmeInv'
  OBVIOUS
<1> USE DEF AcmeInv
<1>1. ASSUME NewOrder PROVE AcmeInv'
  <2>1. TypeOK'
    BY <1>1, SummaryValue DEF TypeOK, NewOrder, Place, OrderStatus, client, authority
  <2>2. SpreadInv'
    BY <1>1 DEF SpreadInv, TypeOK, NewOrder, client, authority
  <2>3. OrderInv'
    BY <1>1, SummaryValue DEF OrderInv, TypeOK, NewOrder, client, authority
  <2> QED
    BY <2>1, <2>2, <2>3
<1>2. ASSUME NEW d \in Domain, Prepare(d) PROVE AcmeInv'
  <2>1. TypeOK'
    <3>1. [to : Node \ {Us}, domain : {d}] \subseteq Message
      BY DEF Message
    <3>2. msgs' \subseteq Message
      BY <1>2, <3>1 DEF TypeOK, Prepare
    <3>3. challenges' \in [Node -> SUBSET Domain]
      BY <1>2 DEF TypeOK, Prepare
    <3> QED
      BY <1>2, <3>2, <3>3 DEF TypeOK, Prepare, Place, authority
  <2>2. SpreadInv'
    BY <1>2 DEF SpreadInv, TypeOK, Prepare, Message, client, authority
  <2>3. OrderInv'
    BY <1>2, SummaryValue DEF OrderInv, TypeOK, Prepare, client, authority
  <2> QED
    BY <2>1, <2>2, <2>3
<1>3. ASSUME Wake PROVE AcmeInv'
  <2>1. TypeOK'
    BY <1>3 DEF TypeOK, Wake, Place, client, authority
  <2>2. SpreadInv'
    <3>1. ASSUME NEW n \in Node \ Late, NEW d \in Domain PROVE [to |-> n, domain |-> d] \notin msgs
      <4>1. [to |-> n, domain |-> d].to \notin Late
        OBVIOUS
      <4> QED
        BY <1>3, <4>1 DEF Wake
    <3> QED
      BY <1>3, <3>1 DEF SpreadInv, Wake, client, authority
  <2>3. OrderInv'
    BY <1>3, SummaryValue DEF OrderInv, TypeOK, Wake, client, authority
  <2> QED
    BY <2>1, <2>2, <2>3
<1>4. ASSUME Answer PROVE AcmeInv'
  <2>1. TypeOK'
    BY <1>4 DEF TypeOK, Answer, Place, client, authority
  <2>2. SpreadInv'
    BY <1>4 DEF SpreadInv, TypeOK, Answer, client, authority
  <2>3. OrderInv'
    BY <1>4, SummaryValue DEF OrderInv, TypeOK, Answer, client, authority
  <2> QED
    BY <2>1, <2>2, <2>3
<1>5. ASSUME PollValid PROVE AcmeInv'
  <2>1. TypeOK'
    BY <1>5 DEF TypeOK, PollValid, NextChallenge, Place, client, authority
  <2>2. SpreadInv'
    BY <1>5 DEF SpreadInv, TypeOK, PollValid, NextChallenge, client, authority
  <2>3. OrderInv'
    BY <1>5, SummaryValue DEF OrderInv, TypeOK, PollValid, NextChallenge, client, authority
  <2> QED
    BY <2>1, <2>2, <2>3
<1>6. ASSUME PollInvalid PROVE AcmeInv'
  <2>1. TypeOK'
    BY <1>6 DEF TypeOK, PollInvalid, Place, client, authority
  <2>2. SpreadInv'
    BY <1>6 DEF SpreadInv, TypeOK, PollInvalid, client, authority
  <2>3. OrderInv'
    BY <1>6, SummaryValue DEF OrderInv, TypeOK, PollInvalid, client, authority
  <2> QED
    BY <2>1, <2>2, <2>3
<1>7. ASSUME PollPending PROVE AcmeInv'
  <2>1. TypeOK'
    <3>1. polls' \in 0..MaxPolls
      BY <1>7 DEF TypeOK, PollPending, SpreadInv
    <3> QED
      BY <1>7, <3>1 DEF TypeOK, PollPending, NextChallenge, Place, authority
  <2>2. SpreadInv'
    BY <1>7 DEF SpreadInv, TypeOK, PollPending, NextChallenge, client, authority
  <2>3. OrderInv'
    BY <1>7, SummaryValue DEF OrderInv, TypeOK, PollPending, NextChallenge, client, authority
  <2> QED
    BY <2>1, <2>2, <2>3
<1>8. ASSUME Finalize PROVE AcmeInv'
  <2>1. TypeOK'
    BY <1>8 DEF TypeOK, Finalize, Place, OrderStatus, client, authority
  <2>2. SpreadInv'
    BY <1>8 DEF SpreadInv, TypeOK, Finalize, client, authority
  <2>3. OrderInv'
    BY <1>8, SummaryValue DEF OrderInv, TypeOK, Finalize, client, authority
  <2> QED
    BY <2>1, <2>2, <2>3
<1>9. ASSUME FinalizeRefused PROVE AcmeInv'
  <2>1. TypeOK'
    BY <1>9 DEF TypeOK, FinalizeRefused, Place, client, authority
  <2>2. SpreadInv'
    BY <1>9 DEF SpreadInv, TypeOK, FinalizeRefused, client, authority
  <2>3. OrderInv'
    BY <1>9, SummaryValue DEF OrderInv, TypeOK, FinalizeRefused, client, authority
  <2> QED
    BY <2>1, <2>2, <2>3
<1>10. ASSUME AwaitValid PROVE AcmeInv'
  <2>1. TypeOK'
    BY <1>10 DEF TypeOK, AwaitValid, Place, client, authority
  <2>2. SpreadInv'
    BY <1>10 DEF SpreadInv, TypeOK, AwaitValid, client, authority
  <2>3. OrderInv'
    BY <1>10, SummaryValue DEF OrderInv, TypeOK, AwaitValid, client, authority
  <2> QED
    BY <2>1, <2>2, <2>3
<1>11. ASSUME Download PROVE AcmeInv'
  <2>1. TypeOK'
    BY <1>11 DEF TypeOK, Download, Place, client, authority
  <2>2. SpreadInv'
    BY <1>11 DEF SpreadInv, TypeOK, Download, client, authority
  <2>3. OrderInv'
    BY <1>11, SummaryValue DEF OrderInv, TypeOK, Download, client, authority
  <2> QED
    BY <2>1, <2>2, <2>3
<1>12. ASSUME RequestFails PROVE AcmeInv'
  <2>1. TypeOK'
    BY <1>12 DEF TypeOK, RequestFails, Place, OrderStatus, client, authority
  <2>2. SpreadInv'
    BY <1>12 DEF SpreadInv, TypeOK, RequestFails, client, authority
  <2>3. OrderInv'
    BY <1>12, SummaryValue DEF OrderInv, TypeOK, RequestFails, client, authority
  <2> QED
    BY <2>1, <2>2, <2>3
<1>13. ASSUME NEW m \in msgs, ApplyChallenge(m) PROVE AcmeInv'
  <2>1. TypeOK'
    BY <1>13 DEF TypeOK, ApplyChallenge, Message, client, authority
  <2>2. SpreadInv'
    BY <1>13 DEF SpreadInv, TypeOK, ApplyChallenge, Message, client, authority
  <2>3. OrderInv'
    BY <1>13, SummaryValue DEF OrderInv, TypeOK, ApplyChallenge, client, authority
  <2> QED
    BY <2>1, <2>2, <2>3
<1>14. ASSUME NEW m \in msgs, Lose(m) PROVE AcmeInv'
  <2>1. TypeOK'
    BY <1>14 DEF TypeOK, Lose, Message, client, authority
  <2>2. SpreadInv'
    BY <1>14 DEF SpreadInv, TypeOK, Lose, Message, client, authority
  <2>3. OrderInv'
    BY <1>14, SummaryValue DEF OrderInv, TypeOK, Lose, client, authority
  <2> QED
    BY <2>1, <2>2, <2>3
<1>15. ASSUME NEW d \in Domain, NEW n \in Node, Validate(d, n) PROVE AcmeInv'
  <2>1. TypeOK'
    BY <1>15, SummaryValue DEF TypeOK, Validate, Status, OrderStatus, client, authority
  <2>2. SpreadInv'
    BY <1>15 DEF SpreadInv, TypeOK, Validate, client, authority
  <2>3. OrderInv'
    <3>1. auth[d] # "valid" /\ order \notin {"processing", "valid"}
      BY <1>15 DEF Validate, OrderInv
    <3>2. order' = Summary(auth)' /\ order' \in {"invalid", "ready", "pending"}
      BY <1>15, SummaryValue DEF Validate, Summary
    <3>3. UNCHANGED at /\ at \notin {"order", "await", "download", "certificate"}
      BY <1>15, <3>1 DEF Validate, OrderInv, SpreadInv
    <3> QED
      BY <3>2, <3>3 DEF OrderInv
  <2> QED
    BY <2>1, <2>2, <2>3
<1>16. ASSUME Decide PROVE AcmeInv'
  <2>1. TypeOK'
    BY <1>16 DEF TypeOK, Decide, OrderStatus, client, authority
  <2>2. SpreadInv'
    BY <1>16 DEF SpreadInv, TypeOK, Decide, client, authority
  <2>3. OrderInv'
    BY <1>16, SummaryValue DEF OrderInv, TypeOK, Decide, client, authority
  <2> QED
    BY <2>1, <2>2, <2>3
<1>17. ASSUME UNCHANGED vars PROVE AcmeInv'
  <2>1. TypeOK'
    BY <1>17 DEF TypeOK, vars, client, authority
  <2>2. SpreadInv'
    BY <1>17 DEF SpreadInv, TypeOK, vars, client, authority
  <2>3. OrderInv'
    BY <1>17, SummaryValue DEF OrderInv, TypeOK, vars, client, authority
  <2> QED
    BY <2>1, <2>2, <2>3
<1> QED
  BY <1>1, <1>2, <1>3, <1>4, <1>5, <1>6, <1>7, <1>8, <1>9, <1>10, <1>11, <1>12, <1>13, <1>14, <1>15, <1>16, <1>17 DEF Next, Exchange

-----------------------------------------------------------------------------
\* The inductive invariant holds; in particular an order is finalized only once
\* the authority has found all its domains valid, although new_order gives up on
\* one that stays pending as if it were.
THEOREM ExchangeCorrect == Spec => []AcmeInv
<1> QED
  BY ExchangeInit, ExchangeNext, PTL DEF Spec

\* The authority rejects a domain only for a node that the challenge reached late:
\* all others serve it from before the authority is asked.
THEOREM RejectionsAreLate == Spec => RejectedOnlyIfLate
<1> DEFINE Excused == \A d \in Domain :
             auth[d] # "invalid" /\ auth'[d] = "invalid"
                 => \E n \in Late : d \notin challenges[n]
<1>1. AcmeInv /\ [Next]_vars => [Excused]_vars
  <2> SUFFICES ASSUME AcmeInv, [Next]_vars, NEW d \in Domain,
                      auth[d] # "invalid", auth'[d] = "invalid"
               PROVE  \E n \in Late : d \notin challenges[n]
    OBVIOUS
  <2>1. PICK e \in Domain, n \in Node : Validate(e, n)
    BY DEF Next, Exchange, vars, client, authority, NewOrder, Prepare, Wake, Answer, PollValid,
           PollInvalid, PollPending, Finalize, FinalizeRefused, AwaitValid, Download,
           RequestFails, ApplyChallenge, Lose, Decide
  <2>2. e = d /\ d \in asked /\ d \notin challenges[n]
    BY <2>1 DEF Validate, Served, AcmeInv, TypeOK
  <2>3. n \in Late
    BY <2>2 DEF AcmeInv, SpreadInv
  <2> QED
    BY <2>2, <2>3
<1> QED
  BY <1>1, ExchangeCorrect, PTL DEF Spec, RejectedOnlyIfLate
-----------------------------------------------------------------------------
\* A step that moves neither the authority nor the challenges, nor from or to an
\* end of the exchange, is a stutter of the abstract order.
LEMMA InnerStep ==
    ASSUME at \notin Ended, at' \notin Ended,
           UNCHANGED <<challenges, auth>>, (order = "valid") <=> (order' = "valid")
    PROVE  UNCHANGED Ordering!vars
<1>1. UNCHANGED Answered
  BY DEF Answered, Served
<1> QED
  BY <1>1 DEF Ordering!vars

\* A challenge that one more node serves is answered by one domain more at most.
LEMMA PublishStep ==
    ASSUME NEW e \in Domain, NEW p \in Node,
           challenges \in [Node -> SUBSET Domain],
           challenges' = [challenges EXCEPT ![p] = @ \cup {e}],
           UNCHANGED <<auth, order>>,
           at = at' \/ (at \notin Ended /\ at' \notin Ended)
    PROVE  [Ordering!Next]_(Ordering!vars)
<1>1. Answered' = Answered \/ Answered' = Answered \cup {e}
  BY DEF Answered, Served
<1>2. CASE Answered' = Answered
  BY <1>2 DEF Ordering!vars
<1>3. CASE Answered' = Answered \cup {e}
  BY <1>3 DEF Ordering!Next, Ordering!Publish
<1> QED
  BY <1>1, <1>2, <1>3

\* Every step of the exchange is a step of the abstract order or a stutter.
LEMMA OrderingStep == AcmeInv /\ [Next]_vars => [Ordering!Next]_(Ordering!vars)
<1> SUFFICES ASSUME AcmeInv, [Next]_vars PROVE [Ordering!Next]_(Ordering!vars)
  OBVIOUS
<1> USE DEF AcmeInv, Ended
<1>1. CASE NewOrder
  <2>1. order = "none" /\ order' # "valid"
    BY <1>1, SummaryValue DEF NewOrder, OrderInv
  <2> QED
    BY <1>1, <2>1, InnerStep DEF NewOrder
<1>2. ASSUME NEW d \in Domain, Prepare(d) PROVE [Ordering!Next]_(Ordering!vars)
  BY <1>2, PublishStep, UsAssumption DEF Prepare, authority, TypeOK
<1>3. CASE Wake \/ Answer \/ PollValid \/ PollPending \/ Finalize \/ AwaitValid
  BY <1>3, InnerStep DEF Wake, Answer, PollValid, PollPending, NextChallenge, Finalize, AwaitValid,
                         authority
<1>4. CASE PollInvalid \/ FinalizeRefused \/ RequestFails
  <2>1. at \notin Ended /\ at' = "error" /\ UNCHANGED <<challenges, auth>>
    BY <1>4 DEF PollInvalid, FinalizeRefused, RequestFails, authority
  <2>2. (order = "valid") <=> (order' = "valid")
    BY <1>4 DEF PollInvalid, FinalizeRefused, RequestFails, authority
  <2>3. UNCHANGED Answered
    BY <2>1 DEF Answered, Served
  <2> QED
    BY <2>1, <2>2, <2>3 DEF Ordering!Next, Ordering!Return
<1>5. CASE Download
  <2>1. UNCHANGED Answered
    BY <1>5 DEF Download, Answered, Served
  <2> QED
    BY <1>5, <2>1 DEF Download, authority, OrderInv, Ordering!Next, Ordering!Return
<1>6. ASSUME NEW m \in msgs, ApplyChallenge(m) PROVE [Ordering!Next]_(Ordering!vars)
  BY <1>6, PublishStep DEF ApplyChallenge, authority, TypeOK, Message
<1>7. ASSUME NEW m \in msgs, Lose(m) PROVE [Ordering!Next]_(Ordering!vars)
  <2>1. UNCHANGED Answered
    BY <1>7 DEF Lose, Answered, Served
  <2> QED
    BY <1>7, <2>1 DEF Lose, authority, Ordering!vars
<1>8. ASSUME NEW d \in Domain, NEW n \in Node, Validate(d, n) PROVE [Ordering!Next]_(Ordering!vars)
  <2>1. UNCHANGED Answered /\ UNCHANGED at
    BY <1>8 DEF Validate, Answered, Served
  <2>2. order # "valid" /\ order' # "valid"
    BY <1>8, SummaryValue DEF Validate, OrderInv, Summary
  <2>3. CASE d \in challenges[n]
    <3>1. d \in Answered
      BY <1>8 DEF Validate, SpreadInv, Answered, Served
    <3>2. {c \in Domain : auth'[c] = "valid"} = {c \in Domain : auth[c] = "valid"} \cup {d}
      BY <1>8, <2>3 DEF Validate, Served, TypeOK
    <3> QED
      BY <2>1, <2>2, <3>1, <3>2 DEF Ordering!Next, Ordering!Prove
  <2>4. CASE d \notin challenges[n]
    <3>1. {c \in Domain : auth'[c] = "valid"} = {c \in Domain : auth[c] = "valid"}
      BY <1>8, <2>4 DEF Validate, Served, TypeOK
    <3> QED
      BY <2>1, <2>2, <3>1 DEF Ordering!vars
  <2> QED
    BY <2>3, <2>4
<1>9. CASE Decide
  <2>1. UNCHANGED Answered /\ UNCHANGED <<at, auth>>
    BY <1>9 DEF Decide, Answered, Served
  <2>2. order # "valid" /\ {d \in Domain : auth[d] = "valid"} = Domain
    BY <1>9 DEF Decide, OrderInv
  <2>3. CASE order' = "valid"
    BY <2>1, <2>2, <2>3 DEF Ordering!Next, Ordering!Issue
  <2>4. CASE order' # "valid"
    BY <2>1, <2>2, <2>4 DEF Ordering!vars
  <2> QED
    BY <2>3, <2>4
<1>10. CASE UNCHANGED vars
  <2>1. UNCHANGED Answered
    BY <1>10 DEF vars, Answered, Served
  <2> QED
    BY <1>10, <2>1 DEF vars, authority, Ordering!vars
<1> QED
  BY <1>1, <1>2, <1>3, <1>4, <1>5, <1>6, <1>7, <1>8, <1>9, <1>10 DEF Next, Exchange

\* The exchange implements the abstract order: whatever requests fail and whichever
\* messages are late, a certificate is issued for proven domains only, a domain
\* proven only with its challenge in place, and the exchange returns once.
THEOREM ImplementsOrdering == Spec => OrderingSpec
<1>1. Init => Ordering!Init
  <2> SUFFICES ASSUME Init PROVE Ordering!Init
    OBVIOUS
  <2>1. Answered = {}
    BY UsAssumption, LateAssumption DEF Init, Answered, Served
  <2> QED
    BY <2>1 DEF Init, Ordering!Init, Ended
<1> QED
  BY <1>1, OrderingStep, ExchangeCorrect, PTL DEF Spec, OrderingSpec, Ordering!Spec
=============================================================================
