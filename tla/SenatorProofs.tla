---------------------------- MODULE SenatorProofs ----------------------------
(* Theorems about module Senator, for every cluster, every set of views,    *)
(* every choice of interrupts and every bound.                              *)
EXTENDS SenatorInvariant, FiniteSetTheorems, TLAPS

-----------------------------------------------------------------------------
(* Messages.                                                                *)

\* The conditions of the handlers are expanded throughout.
USE DEF Heeds, MayVote, Counts

\* What the two sides of a broadcast put on the network.
LEMMA BroadcastType ==
    ASSUME NEW type \in MessageType, NEW n \in Node, NEW t \in Nat
    PROVE  /\ Broadcast(type, n, t) \subseteq Message
           /\ \A m \in Broadcast(type, n, t) :
                 m.type = type /\ m.from = n /\ m.to # n /\ m.term = t
<1>1. UNION PeerSets(n) \subseteq Node \ {n}
  BY ViewsAssumption DEF PeerSets
<1>2. QED
  BY <1>1 DEF Broadcast, Msg, Message

\* What a list of peers may be.
LEMMA PeersType ==
    ASSUME NEW n \in Node, NEW peers \in PeerSets(n)
    PROVE  /\ Cardinality(peers) \in Nat
           /\ Cardinality(peers) + 1 \in 1..Cardinality(Node)
<1>1. PICK V \in Views : n \in V /\ peers = V \ {n}
  BY DEF PeerSets
<1>2. V \subseteq Node /\ IsFiniteSet(V) /\ Cardinality(V) <= Cardinality(Node)
  BY NodeAssumption, ViewsAssumption, FS_Subset
<1>3. IsFiniteSet(peers) /\ Cardinality(peers) = Cardinality(V) - 1
  BY <1>1, <1>2, FS_RemoveElement
<1>4. /\ Cardinality(peers) \in Nat /\ Cardinality(V) \in Nat
      /\ Cardinality(Node) \in Nat
  BY <1>2, <1>3, NodeAssumption, FS_CardinalityType
<1>5. QED
  BY <1>2, <1>3, <1>4

-----------------------------------------------------------------------------
(* Type correctness.                                                        *)

LEMMA TypeInit == Init => TypeOK
BY DEF Init, TypeOK, Role, Place

LEMMA TypeStep == TypeOK /\ [Next]_vars => TypeOK'
<1> SUFFICES ASSUME TypeOK, [Next]_vars PROVE TypeOK'
  OBVIOUS
<1> USE DEF TypeOK, fields, history, Goto
<1>1. ASSUME NEW n \in Node, StartFollower(n) PROVE TypeOK'
  BY <1>1 DEF StartFollower, DropCandidate, Role, Place
<1>2. ASSUME NEW n \in Node, StartCandidate(n) PROVE TypeOK'
  <2>1. Broadcast("VoteRequest", n, term[n] + 1) \subseteq Message
    BY BroadcastType DEF MessageType
  <2>2. QED
    BY <1>2, <2>1 DEF StartCandidate, Role, Place
<1>3. ASSUME NEW n \in Node, StartLeader(n) PROVE TypeOK'
  BY <1>3 DEF StartLeader, DropCandidate, Role, Place
<1>4. ASSUME NEW n \in Node, FollowerTimeout(n) PROVE TypeOK'
  BY <1>4 DEF FollowerTimeout, Role, Place
<1>5. ASSUME NEW n \in Node, CandidateTimeout(n) PROVE TypeOK'
  BY <1>5 DEF CandidateTimeout, Place
<1>6. ASSUME NEW n \in Node, TallyElected(n) PROVE TypeOK'
  <2>1. PICK peers \in PeerSets(n) :
           elected' = elected \cup {<<n, term[n], Cardinality(peers) + 1>>}
    BY <1>6 DEF TallyElected
  <2>2. Cardinality(peers) + 1 \in Nat
    BY PeersType
  <2>3. elected' \subseteq Node \X Nat \X Nat
    BY <2>1, <2>2
  <2>4. QED
    BY <1>6, <2>3 DEF TallyElected, Role, Place
<1>7. ASSUME NEW n \in Node, TallyWait(n) PROVE TypeOK'
  BY <1>7 DEF TallyWait, Place
<1>8. ASSUME NEW n \in Node, LeaderTick(n) PROVE TypeOK'
  BY <1>8 DEF LeaderTick, Place
<1>9. ASSUME NEW n \in Node, LeaderBeat(n) PROVE TypeOK'
  <2>1. Broadcast("LeaderHeartbeat", n, term[n]) \subseteq Message
    BY BroadcastType DEF MessageType
  <2>2. QED
    BY <1>9, <2>1 DEF LeaderBeat, Place
<1>10. ASSUME NEW n \in Node, NEW m \in msgs, Deliver(n, m) PROVE TypeOK'
  <2> USE DEF Receive, Resume, Cancel, Place
  <2>0. m \in Message
    OBVIOUS
  <2>1. CASE HeartbeatIgnored(n, m)
    BY <2>1 DEF HeartbeatIgnored
  <2>2. CASE FollowerHeartbeat(n, m)
    BY <2>0, <2>2 DEF FollowerHeartbeat, Message
  <2>3. CASE CandidateHeartbeat(n, m)
    BY <2>0, <2>3 DEF CandidateHeartbeat, Message, Role
  <2>4. CASE LeaderHeartbeat(n, m)
    BY <2>0, <2>4 DEF LeaderHeartbeat, Message, Role
  <2>5. CASE VoteRefused(n, m)
    BY <2>5 DEF VoteRefused
  <2>6. CASE VoteCast(n, m)
    <3>1. Msg("VoteGranted", n, m.from, m.term) \in Message
      BY <2>0 DEF Msg, Message, MessageType
    <3>2. QED
      BY <2>0, <2>6, <3>1 DEF VoteCast, Message, Role
  <2>7. CASE VoteTorn(n, m)
    BY <2>0, <2>7 DEF VoteTorn, Message
  <2>8. CASE VoteCounted(n, m)
    BY <2>0, <2>8 DEF VoteCounted, Message
  <2>9. CASE VoteDiscarded(n, m)
    BY <2>9 DEF VoteDiscarded
  <2>10. QED
    BY <1>10, <2>1, <2>2, <2>3, <2>4, <2>5, <2>6, <2>7, <2>8, <2>9 DEF Deliver
<1>11. CASE UNCHANGED vars
  BY <1>11 DEF vars
<1>12. QED
  BY <1>1, <1>2, <1>3, <1>4, <1>5, <1>6, <1>7, <1>8, <1>9, <1>10, <1>11
  DEF Next, Run

\* Every reachable state is well typed: the fields of struct Senator, the
\* places of the three loops and the messages between them.
THEOREM TypeCorrect == Spec => []TypeOK
BY TypeInit, TypeStep, PTL DEF Spec
-----------------------------------------------------------------------------
(* Where the tasks stand.                                                   *)

LEMMA RoleAtPlaceStep ==
    ASSUME TypeOK, RoleAtPlace, [Next]_vars
    PROVE  RoleAtPlace'
<1> USE DEF TypeOK, RoleAtPlace, fields, Goto, Place, Role
<1>1. ASSUME NEW n \in Node, Run(n) PROVE RoleAtPlace'
  BY <1>1 DEF Run, StartFollower, StartCandidate, StartLeader, FollowerTimeout,
              CandidateTimeout, TallyElected, TallyWait, LeaderTick, LeaderBeat
<1>2. ASSUME NEW n \in Node, NEW m \in msgs, Deliver(n, m) PROVE RoleAtPlace'
  BY <1>2 DEF Deliver, HeartbeatIgnored, FollowerHeartbeat, CandidateHeartbeat,
              LeaderHeartbeat, VoteRefused, VoteCast, VoteTorn, VoteCounted,
              VoteDiscarded, Receive, Resume, Cancel
<1>3. CASE UNCHANGED vars
  BY <1>3 DEF vars
<1>4. QED
  BY <1>1, <1>2, <1>3 DEF Next

-----------------------------------------------------------------------------
(* One vote per term.                                                       *)

\* Which steps a history of the votes can tell apart: a vote is added for a
\* term later than the voter's, or the votes are as they were.
LEMMA GrantCases ==
    ASSUME TypeOK, [Next]_vars
    PROVE  /\ \A n \in Node : term'[n] >= term[n]
           /\ \/ granted' = granted
              \/ \E v, c \in Node :
                    /\ term'[v] > term[v]
                    /\ granted' = granted \cup {<<v, c, term'[v]>>}
<1> USE DEF TypeOK, fields, history
<1>1. ASSUME NEW n \in Node, StartCandidate(n)
      PROVE  /\ \A k \in Node : term'[k] >= term[k]
             /\ term'[n] > term[n]
             /\ granted' = granted \cup {<<n, n, term'[n]>>}
  BY <1>1 DEF StartCandidate
<1>2. ASSUME NEW n \in Node, Run(n), ~StartCandidate(n)
      PROVE  term' = term /\ granted' = granted
  BY <1>2 DEF Run, StartFollower, StartLeader, FollowerTimeout,
              CandidateTimeout, TallyElected, TallyWait, LeaderTick, LeaderBeat
<1>3. ASSUME NEW n \in Node, NEW m \in msgs, VoteCast(n, m)
      PROVE  /\ \A k \in Node : term'[k] >= term[k]
             /\ m.from \in Node /\ term'[n] > term[n]
             /\ granted' = granted \cup {<<n, m.from, term'[n]>>}
  BY <1>3 DEF VoteCast, Message
<1>4. ASSUME NEW n \in Node, NEW m \in msgs, Deliver(n, m), ~VoteCast(n, m)
      PROVE  (\A k \in Node : term'[k] >= term[k]) /\ granted' = granted
  BY <1>4 DEF Deliver, HeartbeatIgnored, FollowerHeartbeat, CandidateHeartbeat,
              LeaderHeartbeat, VoteRefused, VoteTorn, VoteCounted,
              VoteDiscarded, Message
<1>5. CASE UNCHANGED vars
  BY <1>5 DEF vars
<1>6. QED
  BY <1>1, <1>2, <1>3, <1>4, <1>5 DEF Next

LEMMA GrantsStep ==
    ASSUME TypeOK, TypeOK', GrantsPast, OneVotePerTerm, [Next]_vars
    PROVE  GrantsPast' /\ OneVotePerTerm'
<1>1. GrantsPast'
  BY GrantCases DEF GrantsPast, TypeOK
<1>2. OneVotePerTerm'
  <2>1. SUFFICES ASSUME NEW v \in Node, NEW c \in Node, NEW d \in Node, NEW t \in Nat,
                        <<v, c, t>> \in granted', <<v, d, t>> \in granted'
                 PROVE  c = d
    BY DEF OneVotePerTerm, TypeOK
  <2>2. CASE granted' = granted
    BY <2>1, <2>2 DEF OneVotePerTerm
  <2>3. ASSUME NEW w \in Node, NEW e \in Node, term'[w] > term[w],
               granted' = granted \cup {<<w, e, term'[w]>>}
        PROVE  c = d
    <3>1. \A g \in granted : g[3] <= term[g[1]]
      BY DEF GrantsPast
    <3>2. \A f \in Node : <<w, f, term'[w]>> \notin granted
      BY <2>3, <3>1 DEF TypeOK
    <3>3. CASE v = w /\ t = term'[w]
      BY <2>1, <2>3, <3>2, <3>3
    <3>4. CASE ~(v = w /\ t = term'[w])
      BY <2>1, <2>3, <3>4 DEF OneVotePerTerm
    <3>5. QED
      BY <3>3, <3>4
  <2>4. QED
    BY <2>2, <2>3, GrantCases
<1>3. QED
  BY <1>1, <1>2
-----------------------------------------------------------------------------
(* The messages under way.                                                  *)

\* Which messages a step can add, and what they say.
LEMMA MessageCases ==
    ASSUME TypeOK, MessagesSound, [Next]_vars, NEW m \in msgs', m \notin msgs
    PROVE  /\ m.from # m.to
           /\ m.type = "VoteRequest" =>
                 <<m.from, m.from, m.term>> \in granted' /\ m.term = term'[m.from]
           /\ m.type = "VoteGranted" =>
                 /\ <<m.from, m.to, m.term>> \in granted'
                 /\ m.term = term'[m.from]
                 /\ m.term > term[m.from]
                 /\ \E q \in msgs : q = Msg("VoteRequest", m.to, m.from, m.term)
           /\ m.type = "LeaderHeartbeat" =>
                 /\ role[m.from] = "Leader"
                 /\ m.term = term[m.from]
                 /\ UNCHANGED <<term, role, elected>>
<1> USE DEF TypeOK, fields, history
<1>1. ASSUME NEW n \in Node, StartCandidate(n)
      PROVE  /\ m.type = "VoteRequest" /\ m.from # m.to
             /\ <<m.from, m.from, m.term>> \in granted'
             /\ m.term = term'[m.from]
  <2>1. m \in Broadcast("VoteRequest", n, term[n] + 1)
    BY <1>1 DEF StartCandidate
  <2>2. m.type = "VoteRequest" /\ m.from = n /\ m.to # n /\ m.term = term[n] + 1
    BY <2>1, BroadcastType DEF MessageType
  <2>3. QED
    BY <1>1, <2>2 DEF StartCandidate
<1>2. ASSUME NEW n \in Node, LeaderBeat(n)
      PROVE  /\ m.type = "LeaderHeartbeat" /\ m.from # m.to
             /\ role[m.from] = "Leader" /\ m.term = term[m.from]
             /\ UNCHANGED <<term, role, elected>>
  <2>1. role[n] = "Leader" /\ m \in Broadcast("LeaderHeartbeat", n, term[n])
    BY <1>2 DEF LeaderBeat
  <2>2. m.type = "LeaderHeartbeat" /\ m.from = n /\ m.to # n /\ m.term = term[n]
    BY <2>1, BroadcastType DEF MessageType
  <2>3. QED
    BY <1>2, <2>1, <2>2 DEF LeaderBeat
<1>3. ASSUME NEW n \in Node, Run(n), ~StartCandidate(n), ~LeaderBeat(n)
      PROVE  FALSE
  BY <1>3 DEF Run, StartFollower, StartLeader, FollowerTimeout,
              CandidateTimeout, TallyElected, TallyWait, LeaderTick
<1>4. ASSUME NEW n \in Node, NEW q \in msgs, VoteCast(n, q), q.from # q.to
      PROVE  /\ m.type = "VoteGranted" /\ m.from # m.to
             /\ <<m.from, m.to, m.term>> \in granted'
             /\ m.term = term'[m.from] /\ m.term > term[m.from]
             /\ q = Msg("VoteRequest", m.to, m.from, m.term)
  <2>1. m = Msg("VoteGranted", n, q.from, q.term)
    BY <1>4 DEF VoteCast
  <2>2. q.type = "VoteRequest" /\ q.to = n /\ q.term > term[n]
    BY <1>4 DEF VoteCast, Receive
  <2>3. q = Msg("VoteRequest", q.from, n, q.term)
    BY <2>2 DEF Msg, Message
  <2>4. QED
    BY <1>4, <2>1, <2>2, <2>3 DEF VoteCast, Msg, Message
<1>5. ASSUME NEW n \in Node, NEW q \in msgs, Deliver(n, q), ~VoteCast(n, q)
      PROVE  FALSE
  BY <1>5 DEF Deliver, HeartbeatIgnored, FollowerHeartbeat, CandidateHeartbeat,
              LeaderHeartbeat, VoteRefused, VoteTorn, VoteCounted,
              VoteDiscarded, Message
<1>6. CASE UNCHANGED vars
  BY <1>6 DEF vars
<1>7. QED
  BY <1>1, <1>2, <1>3, <1>4, <1>5, <1>6 DEF Next, MessagesSound

LEMMA MessagesStep ==
    ASSUME TypeOK, TypeOK', MessagesSound, [Next]_vars
    PROVE  MessagesSound'
<1> SUFFICES ASSUME NEW m \in msgs'
             PROVE  /\ m.from # m.to
                    /\ m.type = "VoteRequest" =>
                          /\ <<m.from, m.from, m.term>> \in granted'
                          /\ m.term <= term'[m.from]
                    /\ m.type = "VoteGranted" =>
                          /\ <<m.from, m.to, m.term>> \in granted'
                          /\ m.term <= term'[m.to]
  BY DEF MessagesSound
<1>1. /\ m \in Message /\ m.from \in Node /\ m.to \in Node
      /\ \A k \in Node : term[k] \in Nat /\ term'[k] \in Nat /\ term'[k] >= term[k]
      /\ granted \subseteq granted'
  BY GrantCases DEF TypeOK, Message
<1>2. CASE m \in msgs
  BY <1>1, <1>2 DEF MessagesSound, Message
<1>3. CASE m \notin msgs
  <2>1. CASE m.type = "VoteGranted"
    <3>1. PICK q \in msgs : q = Msg("VoteRequest", m.to, m.from, m.term)
      BY <1>3, <2>1, MessageCases
    <3>2. m.term <= term[m.to]
      BY <3>1 DEF MessagesSound, Msg
    <3>3. m.from # m.to /\ <<m.from, m.to, m.term>> \in granted'
      BY <1>3, <2>1, MessageCases
    <3>4. m.term <= term'[m.to]
      BY <1>1, <3>2 DEF Message
    <3>5. QED
      BY <2>1, <3>3, <3>4
  <2>2. CASE m.type # "VoteGranted"
    BY <1>1, <1>3, <2>2, MessageCases DEF Message
  <2>3. QED
    BY <2>1, <2>2
<1>4. QED
  BY <1>2, <1>3

-----------------------------------------------------------------------------
(* The counted votes.                                                       *)

\* How a step leaves a candidacy: as it was, newly begun, or one vote richer.
LEMMA CandidacyCases ==
    ASSUME TypeOK, RoleAtPlace, [Next]_vars, NEW n \in Node,
           at'[n] \in {"tally", "candidate"}
    PROVE  \/ /\ at[n] \in {"tally", "candidate"}
              /\ UNCHANGED <<term[n], votes_granted[n], ballots[n], elected>>
           \/ /\ term'[n] = term[n] + 1
              /\ votes_granted'[n] = 1 /\ ballots'[n] = {n}
              /\ granted' = granted \cup {<<n, n, term'[n]>>}
              /\ UNCHANGED elected
           \/ /\ at[n] \in {"tally", "candidate"}
              /\ votes_granted'[n] = votes_granted[n] + 1
              /\ \E m \in InFlight("VoteGranted", n, term[n]) :
                    /\ ballots'[n] = ballots[n] \cup {m.from}
                    /\ msgs' = msgs \ {m}
              /\ UNCHANGED <<term, granted, elected>>
           \/ /\ at[n] \in {"tally", "candidate"}
              /\ UNCHANGED <<term[n], votes_granted[n], ballots[n]>>
              /\ \E k \in Node \ {n}, known \in Nat :
                    elected' = elected \cup {<<k, term[k], known>>}
<1> USE DEF TypeOK, fields, history, Goto
<1>1. ASSUME NEW k \in Node, Run(k), k # n PROVE at[n] = at'[n] /\
         UNCHANGED <<term[n], votes_granted[n], ballots[n]>> /\
         (\/ elected' = elected
          \/ \E known \in Nat : elected' = elected \cup {<<k, term[k], known>>})
  BY <1>1, PeersType DEF Run, StartFollower, StartCandidate, StartLeader, FollowerTimeout,
              CandidateTimeout, TallyElected, TallyWait, LeaderTick, LeaderBeat,
              DropCandidate
<1>2. CASE StartCandidate(n)
  BY <1>2 DEF StartCandidate
<1>3. ASSUME Run(n), ~StartCandidate(n)
      PROVE  at[n] \in {"tally", "candidate"} /\
             UNCHANGED <<term[n], votes_granted[n], ballots[n], elected>>
  BY <1>3 DEF Run, StartFollower, StartLeader, FollowerTimeout,
              CandidateTimeout, TallyElected, TallyWait, LeaderTick, LeaderBeat
<1>4. ASSUME NEW k \in Node, NEW m \in msgs, Deliver(k, m), k # n
      PROVE  at[n] = at'[n] /\
             UNCHANGED <<term[n], votes_granted[n], ballots[n], elected>>
  BY <1>4 DEF Deliver, HeartbeatIgnored, FollowerHeartbeat, CandidateHeartbeat,
              LeaderHeartbeat, VoteRefused, VoteCast, VoteTorn, VoteCounted,
              VoteDiscarded, Receive, Resume, Cancel
<1>5. ASSUME NEW m \in msgs, VoteCounted(n, m)
      PROVE  /\ at[n] \in {"tally", "candidate"}
             /\ votes_granted'[n] = votes_granted[n] + 1
             /\ m \in InFlight("VoteGranted", n, term[n])
             /\ ballots'[n] = ballots[n] \cup {m.from}
             /\ msgs' = msgs \ {m}
             /\ UNCHANGED <<term, granted, elected>>
  BY <1>5 DEF VoteCounted, Receive, InFlight, Delivered
<1>6. ASSUME NEW m \in msgs, Deliver(n, m), ~VoteCounted(n, m)
      PROVE  at[n] \in {"tally", "candidate"} /\
             UNCHANGED <<term[n], votes_granted[n], ballots[n], elected>>
  BY <1>6 DEF Deliver, HeartbeatIgnored, FollowerHeartbeat, CandidateHeartbeat,
              LeaderHeartbeat, VoteRefused, VoteCast, VoteTorn,
              VoteDiscarded, Receive, Resume, Cancel
<1>7. CASE UNCHANGED vars
  BY <1>7 DEF vars
<1>8. QED
  BY <1>1, <1>2, <1>3, <1>4, <1>5, <1>6, <1>7 DEF Next

LEMMA CountedStep ==
    ASSUME TypeOK, TypeOK', VoteInv, [Next]_vars
    PROVE  CountedVotesAreReal'
<1> SUFFICES ASSUME NEW n \in Node, at'[n] \in {"tally", "candidate"}
             PROVE  /\ votes_granted'[n] = Cardinality(ballots'[n])
                    /\ ballots'[n] \subseteq Voters(n, term[n])'
                    /\ \A m \in InFlight("VoteGranted", n, term[n])' :
                          m.from \notin ballots'[n]
  BY DEF CountedVotesAreReal
<1> DEFINE Votes == InFlight("VoteGranted", n, term[n])
<1>0. /\ granted \subseteq granted' /\ term[n] \in Nat /\ term'[n] \in Nat
      /\ GrantsPast /\ MessagesSound /\ RoleAtPlace
  BY GrantCases DEF VoteInv, TypeOK
\* A vote that is sent in this step was not counted before it.
<1>1. ASSUME NEW m \in Votes', m \notin msgs
      PROVE  \A c \in Node, t \in Nat : <<m.from, c, t>> \in granted => t < m.term
  <2>1. m \in msgs' /\ m.type = "VoteGranted"
    BY <1>1 DEF InFlight
  <2>2. m.term > term[m.from] /\ m.from \in Node /\ m.term \in Nat
    BY <1>0, <1>1, <2>1, MessageCases DEF TypeOK, Message
  <2>3. QED
    BY <1>0, <2>2 DEF GrantsPast, TypeOK
<1>2. CASE /\ at[n] \in {"tally", "candidate"}
           /\ UNCHANGED <<term[n], votes_granted[n], ballots[n]>>
  <2>1. /\ votes_granted[n] = Cardinality(ballots[n])
        /\ ballots[n] \subseteq Voters(n, term[n])
        /\ \A m \in Votes : m.from \notin ballots[n]
    BY <1>2 DEF VoteInv, CountedVotesAreReal
  <2>2. ASSUME NEW m \in Votes', m \notin msgs PROVE m.from \notin ballots[n]
    <3>1. m.term = term[n]
      BY <1>2, <2>2 DEF InFlight
    <3>2. <<m.from, n, term[n]>> \notin granted
      BY <1>0, <1>1, <2>2, <3>1
    <3>3. QED
      BY <2>1, <3>2 DEF Voters
  <2>3. ASSUME NEW m \in Votes', m \in msgs PROVE m.from \notin ballots[n]
    BY <1>2, <2>1, <2>3 DEF InFlight
  <2>4. QED
    BY <1>0, <1>2, <2>1, <2>2, <2>3 DEF Voters
<1>3. CASE /\ term'[n] = term[n] + 1
           /\ votes_granted'[n] = 1 /\ ballots'[n] = {n}
           /\ granted' = granted \cup {<<n, n, term'[n]>>}
  <2>1. \A m \in Votes' : m.from # n
    <3>1. MessagesSound'
      BY <1>0, MessagesStep
    <3>2. QED
      BY <3>1 DEF InFlight, MessagesSound
  <2>2. Cardinality({n}) = 1
    BY FS_Singleton
  <2>3. QED
    BY <1>3, <2>1, <2>2 DEF Voters
<1>4. ASSUME /\ at[n] \in {"tally", "candidate"}
             /\ votes_granted'[n] = votes_granted[n] + 1
             /\ UNCHANGED <<term, granted>>,
             NEW m \in Votes,
             ballots'[n] = ballots[n] \cup {m.from},
             msgs' = msgs \ {m}
      PROVE  /\ votes_granted'[n] = Cardinality(ballots'[n])
             /\ ballots'[n] \subseteq Voters(n, term[n])'
             /\ \A q \in Votes' : q.from \notin ballots'[n]
  <2>1. /\ votes_granted[n] = Cardinality(ballots[n])
        /\ ballots[n] \subseteq Voters(n, term[n])
        /\ \A q \in Votes : q.from \notin ballots[n]
    BY <1>4 DEF VoteInv, CountedVotesAreReal
  <2>2. m \in Message /\ m.type = "VoteGranted" /\ m.to = n /\ m.term = term[n]
    BY DEF InFlight, TypeOK
  <2>3. Cardinality(ballots[n] \cup {m.from}) = Cardinality(ballots[n]) + 1
    <3>1. IsFiniteSet(ballots[n])
      BY NodeAssumption, FS_Subset DEF TypeOK
    <3>2. QED
      BY <2>1, <3>1, FS_AddElement
  <2>4. <<m.from, n, term[n]>> \in granted
    BY <1>0, <2>2 DEF MessagesSound, InFlight
  <2>5. \A q \in Votes' : q \in Votes /\ q # m
    BY <1>4 DEF InFlight
  <2>6. \A q \in Votes' : q.from # m.from
    <3>1. ASSUME NEW q \in Votes, q.from = m.from PROVE q = m
      <4>1. q \in Message /\ q.type = m.type /\ q.to = m.to /\ q.term = m.term
        BY <2>2 DEF InFlight, TypeOK
      <4>2. QED
        BY <2>2, <3>1, <4>1 DEF Message
    <3>2. QED
      BY <2>5, <3>1
  <2>7. m.from \in Node
    BY <2>2 DEF Message
  <2>8. QED
    BY <1>4, <2>1, <2>3, <2>4, <2>5, <2>6, <2>7 DEF Voters
<1>5. QED
  BY <1>0, <1>2, <1>3, <1>4, CandidacyCases

LEMMA StandStep ==
    ASSUME TypeOK, RoleAtPlace, CandidatesStand, [Next]_vars
    PROVE  CandidatesStand'
BY CandidacyCases DEF CandidatesStand

LEMMA VoteInit == Init => VoteInv
BY DEF Init, VoteInv, RoleAtPlace, GrantsPast, OneVotePerTerm, MessagesSound,
       CountedVotesAreReal, CandidatesStand

LEMMA VoteStep == TypeOK /\ VoteInv /\ [Next]_vars => VoteInv'
<1> SUFFICES ASSUME TypeOK, VoteInv, [Next]_vars PROVE VoteInv'
  OBVIOUS
<1>1. TypeOK'
  BY TypeStep
<1>2. QED
  BY <1>1, RoleAtPlaceStep, GrantsStep, MessagesStep, CountedStep, StandStep DEF VoteInv

LEMMA VotesHold == Spec => [](TypeOK /\ VoteInv)
<1>1. Init => TypeOK /\ VoteInv
  BY TypeInit, VoteInit
<1>2. TypeOK /\ VoteInv /\ [Next]_vars => TypeOK' /\ VoteInv'
  BY TypeStep, VoteStep
<1>3. QED
  BY <1>1, <1>2, PTL DEF Spec

\* Nobody votes for two candidates in one term, whatever handler is dropped
\* and however the messages arrive.
THEOREM VotesAreUnique == Spec => []OneVotePerTerm
<1>1. VoteInv => OneVotePerTerm
  BY DEF VoteInv
<1>2. QED
  BY <1>1, VotesHold, PTL

\* The counter of a candidate stands for distinct voters of its own term.
THEOREM CountIsReal == Spec => []CountedVotesAreReal
<1>1. VoteInv => CountedVotesAreReal
  BY DEF VoteInv
<1>2. QED
  BY <1>1, VotesHold, PTL

\* No vote is under way for a term its candidate has not reached.
THEOREM VotesInTime == Spec => []VotesNeverAhead
<1>1. VoteInv => VotesNeverAhead
  BY DEF VoteInv, MessagesSound, VotesNeverAhead
<1>2. QED
  BY <1>1, VotesHold, PTL

-----------------------------------------------------------------------------
(* Elections.                                                               *)

\* A step wins at most one election, by a candidate that has the votes.
LEMMA ElectionCases ==
    ASSUME TypeOK, [Next]_vars
    PROVE  \/ elected' = elected
           \/ \E n \in Node :
                 /\ at[n] = "tally" /\ at' = [at EXCEPT ![n] = "loop"]
                 /\ \E peers \in PeerSets(n) :
                       /\ votes_granted[n] >= VotesNeeded(peers)
                       /\ elected' = elected \cup {<<n, term[n], Cardinality(peers) + 1>>}
                 /\ UNCHANGED <<term, granted, msgs>>
<1> USE DEF TypeOK, fields, history, Goto
<1>1. ASSUME NEW n \in Node, Run(n), ~TallyElected(n) PROVE elected' = elected
  BY <1>1 DEF Run, StartFollower, StartCandidate, StartLeader, FollowerTimeout,
              CandidateTimeout, TallyWait, LeaderTick, LeaderBeat
<1>2. ASSUME NEW n \in Node, NEW m \in msgs, Deliver(n, m) PROVE elected' = elected
  BY <1>2 DEF Deliver, HeartbeatIgnored, FollowerHeartbeat, CandidateHeartbeat,
              LeaderHeartbeat, VoteRefused, VoteCast, VoteTorn, VoteCounted,
              VoteDiscarded
<1>3. CASE UNCHANGED vars
  BY <1>3 DEF vars
<1>4. QED
  BY <1>1, <1>2, <1>3 DEF Next, TallyElected

\* Elections and votes are never forgotten.
LEMMA HistoryGrows ==
    ASSUME TypeOK, [Next]_vars
    PROVE  /\ elected \subseteq elected' /\ granted \subseteq granted'
           /\ \A n \in Node : term[n] \in Nat /\ term'[n] \in Nat /\ term'[n] >= term[n]
<1>1. TypeOK'
  BY TypeStep
<1>2. QED
  BY <1>1, ElectionCases, GrantCases DEF TypeOK

\* What a candidate that has the votes has won by: the votes of VotesNeeded nodes.
LEMMA TallyWins ==
    ASSUME TypeOK, VoteInv, NEW n \in Node, at[n] = "tally",
           NEW peers \in PeerSets(n), votes_granted[n] >= VotesNeeded(peers)
    PROVE  /\ n \in Voters(n, term[n])
           /\ Cardinality(Voters(n, term[n])) >= 1 + (Cardinality(peers) + 1) \div 2
<1>1. /\ votes_granted[n] = Cardinality(ballots[n])
      /\ ballots[n] \subseteq Voters(n, term[n])
      /\ n \in ballots[n]
  BY DEF VoteInv, CountedVotesAreReal, CandidatesStand
<1>2. IsFiniteSet(Voters(n, term[n])) /\ IsFiniteSet(ballots[n])
  BY <1>1, NodeAssumption, FS_Subset DEF Voters, TypeOK
<1>3. Cardinality(ballots[n]) <= Cardinality(Voters(n, term[n]))
  BY <1>1, <1>2, FS_Subset
<1>4. /\ Cardinality(Voters(n, term[n])) \in Nat /\ Cardinality(ballots[n]) \in Nat
      /\ Cardinality(peers) \in Nat
  BY <1>2, FS_CardinalityType, PeersType
<1>5. QED
  BY <1>1, <1>3, <1>4 DEF VotesNeeded

LEMMA ElectionsStep ==
    ASSUME TypeOK, TypeOK', VoteInv, ElectionsWon, [Next]_vars
    PROVE  ElectionsWon'
<1>0. /\ \A k \in Node : term[k] \in Nat /\ term'[k] \in Nat /\ term'[k] >= term[k]
      /\ granted \subseteq granted'
  BY HistoryGrows
\* The voters of a candidate are never fewer.
<1>1. ASSUME NEW c \in Node, NEW t \in Nat, NEW votes \in Nat,
             c \in Voters(c, t), Cardinality(Voters(c, t)) >= votes
      PROVE  c \in Voters(c, t)' /\ Cardinality(Voters(c, t)') >= votes
  <2>1. Voters(c, t) \subseteq Voters(c, t)' /\ Voters(c, t)' \subseteq Node
    BY <1>0 DEF Voters
  <2>2. IsFiniteSet(Voters(c, t)') /\ IsFiniteSet(Voters(c, t))
    BY <2>1, NodeAssumption, FS_Subset
  <2>3. Cardinality(Voters(c, t)) <= Cardinality(Voters(c, t)')
    BY <2>1, <2>2, FS_Subset
  <2>4. Cardinality(Voters(c, t)) \in Nat /\ Cardinality(Voters(c, t)') \in Nat
    BY <2>2, FS_CardinalityType
  <2>5. QED
    BY <1>1, <2>1, <2>3, <2>4
<1>2. ASSUME NEW e \in elected'
      PROVE  /\ e[2] <= term'[e[1]]
             /\ e[1] \in Voters(e[1], e[2])'
             /\ Cardinality(Voters(e[1], e[2])') >= 1 + e[3] \div 2
  <2>0. e[1] \in Node /\ e[2] \in Nat /\ e[3] \in Nat /\ 1 + e[3] \div 2 \in Nat
    BY <1>2 DEF TypeOK
  <2>1. CASE e \in elected
    <3>1. /\ e[2] <= term[e[1]]
          /\ e[1] \in Voters(e[1], e[2])
          /\ Cardinality(Voters(e[1], e[2])) >= 1 + e[3] \div 2
      BY <2>1 DEF ElectionsWon
    <3>2. e[2] <= term'[e[1]]
      BY <1>0, <2>0, <3>1
    <3>3. QED
      BY <1>1, <2>0, <3>1, <3>2
  <2>2. CASE e \notin elected
    <3>1. PICK n \in Node :
             /\ at[n] = "tally" /\ UNCHANGED <<term, granted>>
             /\ \E peers \in PeerSets(n) :
                   /\ votes_granted[n] >= VotesNeeded(peers)
                   /\ e = <<n, term[n], Cardinality(peers) + 1>>
      BY <2>2, ElectionCases
    <3>2. PICK peers \in PeerSets(n) :
             /\ votes_granted[n] >= VotesNeeded(peers)
             /\ e = <<n, term[n], Cardinality(peers) + 1>>
      BY <3>1
    <3>3. /\ n \in Voters(n, term[n])
          /\ Cardinality(Voters(n, term[n])) >= 1 + (Cardinality(peers) + 1) \div 2
      BY <3>1, <3>2, TallyWins
    <3>4. e[1] = n /\ e[2] = term[n] /\ e[3] = Cardinality(peers) + 1
      BY <3>2
    <3>5. QED
      BY <1>0, <1>1, <2>0, <3>1, <3>3, <3>4
  <2>3. QED
    BY <2>1, <2>2
<1>3. ASSUME NEW n \in Node, at'[n] \in {"tally", "candidate"}
      PROVE  ~Won(n, term[n])'
  <2>1. \A e \in elected : e[2] <= term[e[1]]
    BY DEF ElectionsWon
  <2>2. at[n] \in {"tally", "candidate"} => ~Won(n, term[n])
    BY DEF ElectionsWon
  <2>3. ~Won(n, term[n] + 1)
    BY <1>0, <2>1 DEF Won
  <2>4. CASE elected' = elected
    BY <1>3, <2>2, <2>3, <2>4, CandidacyCases DEF VoteInv, Won
  <2>5. CASE elected' # elected
    <3>1. PICK k \in Node \ {n}, known \in Nat :
             elected' = elected \cup {<<k, term[k], known>>}
      BY <1>3, <2>5, CandidacyCases DEF VoteInv
    <3>2. at[n] \in {"tally", "candidate"} /\ term'[n] = term[n]
      BY <1>3, <2>5, CandidacyCases DEF VoteInv
    <3>3. QED
      BY <2>2, <3>1, <3>2 DEF Won
  <2>6. QED
    BY <2>4, <2>5
<1>4. QED
  BY <1>2, <1>3 DEF ElectionsWon

LEMMA ElectionsHold == Spec => [](TypeOK /\ VoteInv /\ ElectionsWon)
<1>1. Init => ElectionsWon
  BY DEF Init, ElectionsWon, Won
<1>2. TypeOK /\ VoteInv /\ ElectionsWon /\ [Next]_vars => ElectionsWon'
  BY TypeStep, ElectionsStep
<1>3. QED
  BY <1>1, <1>2, VotesHold, PTL DEF Spec

\* Two candidates of one term share no voter, so what they needed fits beside
\* each other in the cluster.
LEMMA SplitsAreDisjoint ==
    ASSUME TypeOK, VoteInv, ElectionsWon
    PROVE  SplitNeedsShortLists
<1> SUFFICES ASSUME NEW e \in elected, NEW f \in elected, e[2] = f[2], e[1] # f[1]
             PROVE  (1 + e[3] \div 2) + (1 + f[3] \div 2) <= Cardinality(Node)
  BY DEF SplitNeedsShortLists
<1> DEFINE V == Voters(e[1], e[2])
           W == Voters(f[1], e[2])
<1>1. /\ e[1] \in Node /\ f[1] \in Node /\ e[3] \in Nat /\ f[3] \in Nat
      /\ V \subseteq Node /\ W \subseteq Node
  BY DEF TypeOK, Voters
<1>2. V \cap W = {}
  BY <1>1 DEF VoteInv, OneVotePerTerm, Voters
<1>3. /\ Cardinality(V) >= 1 + e[3] \div 2
      /\ Cardinality(W) >= 1 + f[3] \div 2
  BY DEF ElectionsWon
<1>4. /\ IsFiniteSet(V) /\ IsFiniteSet(W) /\ IsFiniteSet(V \cup W)
      /\ V \cup W \subseteq Node /\ IsFiniteSet(Node)
  BY <1>1, NodeAssumption, FS_Subset, FS_Union
<1>5. /\ Cardinality(V) \in Nat /\ Cardinality(W) \in Nat
      /\ Cardinality(V \cup W) \in Nat /\ Cardinality(Node) \in Nat
  BY <1>4, FS_CardinalityType
<1>6. Cardinality(V \cup W) = Cardinality(V) + Cardinality(W) - Cardinality(V \cap W)
  BY <1>4, FS_Union
<1>7. Cardinality(V \cap W) = 0
  BY <1>2, FS_EmptySet
<1>8. Cardinality(V \cup W) <= Cardinality(Node)
  BY <1>4, FS_Subset
<1> HIDE DEF V, W
<1>9. QED
  BY <1>1, <1>3, <1>5, <1>6, <1>7, <1>8

\* A term with two winners needs short lists of peers: candidates whose
\* majorities do not fit beside each other in the cluster never both win,
\* whatever the lists do in between and whichever handler is dropped.
THEOREM SplitsNeedShortLists == Spec => []SplitNeedsShortLists
<1>1. TypeOK /\ VoteInv /\ ElectionsWon => SplitNeedsShortLists
  BY SplitsAreDisjoint
<1>2. QED
  BY <1>1, ElectionsHold, PTL
-----------------------------------------------------------------------------
(* Leaders.                                                                 *)

\* A node in the role Leader after a step won its election in this step, or
\* was a leader before it: in the same term, or dropped at the role lock in
\* a later one that a message brought.
LEMMA LeaderCases ==
    ASSUME TypeOK, RoleAtPlace, [Next]_vars, NEW n \in Node, role'[n] = "Leader"
    PROVE  \/ /\ at[n] = "tally" /\ UNCHANGED <<term, granted>>
              /\ \E known \in Nat : <<n, term[n], known>> \in elected'
           \/ role[n] = "Leader" /\ term'[n] = term[n]
           \/ /\ role[n] = "Leader" /\ UNCHANGED granted
              /\ \E m \in msgs : /\ m.type \in {"LeaderHeartbeat", "VoteRequest"}
                                 /\ m.to = n /\ m.term > term[n]
                                 /\ term'[n] = m.term
<1> USE DEF TypeOK, fields, history, RoleAtPlace
<1>1. ASSUME NEW k \in Node, Run(k), ~TallyElected(k)
      PROVE  role[n] = "Leader" /\ term'[n] = term[n]
  BY <1>1 DEF Run, StartFollower, StartCandidate, StartLeader, FollowerTimeout,
              CandidateTimeout, TallyWait, LeaderTick, LeaderBeat
<1>2. ASSUME NEW k \in Node, NEW m \in msgs, Deliver(k, m)
      PROVE  /\ role[n] = "Leader"
             /\ \/ term'[n] = term[n]
                \/ /\ UNCHANGED granted
                   /\ m.type \in {"LeaderHeartbeat", "VoteRequest"}
                   /\ m.to = n /\ m.term > term[n]
                   /\ term'[n] = m.term
  BY <1>2 DEF Deliver, HeartbeatIgnored, FollowerHeartbeat, CandidateHeartbeat,
              LeaderHeartbeat, VoteRefused, VoteCast, VoteTorn, VoteCounted,
              VoteDiscarded, Receive
<1>3. ASSUME NEW k \in Node, TallyElected(k), k # n
      PROVE  role[n] = "Leader" /\ term'[n] = term[n]
  BY <1>3 DEF TallyElected
<1>4. ASSUME TallyElected(n)
      PROVE  /\ at[n] = "tally" /\ UNCHANGED <<term, granted>>
             /\ \E known \in Nat : <<n, term[n], known>> \in elected'
  BY <1>4, PeersType DEF TallyElected
<1>5. CASE UNCHANGED vars
  BY <1>5 DEF vars
<1>6. QED
  BY <1>1, <1>2, <1>3, <1>4, <1>5 DEF Next

\* A message that moves a leader to a later term is of a term in which
\* another node stands.
LEMMA LaterTermIsContested ==
    ASSUME TypeOK, VoteInv, ElectionsWon, HeartbeatsAreContested,
           NEW n \in Node, NEW m \in msgs, m.to = n, m.term > term[n],
           m.type \in {"LeaderHeartbeat", "VoteRequest"}
    PROVE  \E c \in Node \ {n} : <<c, c, m.term>> \in granted
<1>1. m \in Message /\ m.from \in Node \ {n} /\ m.term \in Nat /\ term[n] \in Nat
  BY DEF TypeOK, Message, VoteInv, MessagesSound
<1>2. <<n, n, m.term>> \notin granted
  BY <1>1 DEF VoteInv, GrantsPast
<1>3. CASE m.type = "VoteRequest"
  BY <1>1, <1>3 DEF VoteInv, MessagesSound
<1>4. CASE m.type = "LeaderHeartbeat" /\ Won(m.from, m.term)
  BY <1>1, <1>4 DEF Won, ElectionsWon, Voters
<1>5. CASE m.type = "LeaderHeartbeat" /\ ~Won(m.from, m.term)
  BY <1>2, <1>5 DEF HeartbeatsAreContested
<1>6. QED
  BY <1>3, <1>4, <1>5

\* Who is in office stays entitled to its term.
LEMMA OfficeGrows ==
    ASSUME TypeOK, [Next]_vars, NEW n \in Node, NEW t \in Nat, InOffice(n, t)
    PROVE  InOffice(n, t)'
BY HistoryGrows DEF InOffice, Won

LEMMA LeadersInOfficeStep ==
    ASSUME TypeOK, VoteInv, ElectionsWon, OfficeInv, [Next]_vars
    PROVE  LeadersInOffice'
<1> SUFFICES ASSUME NEW n \in Node, role'[n] = "Leader" PROVE InOffice(n, term[n])'
  BY DEF LeadersInOffice
<1>0. RoleAtPlace /\ LeadersInOffice /\ HeartbeatsAreContested /\ term[n] \in Nat
  BY DEF VoteInv, OfficeInv, TypeOK
<1>1. CASE UNCHANGED term /\ \E known \in Nat : <<n, term[n], known>> \in elected'
  BY <1>1 DEF InOffice, Won
<1>2. CASE role[n] = "Leader" /\ term'[n] = term[n]
  <2>1. InOffice(n, term[n])
    BY <1>0, <1>2 DEF LeadersInOffice
  <2>2. QED
    BY <1>0, <1>2, <2>1, HistoryGrows DEF InOffice, Won
<1>3. ASSUME role[n] = "Leader", NEW m \in msgs, UNCHANGED granted,
             m.type \in {"LeaderHeartbeat", "VoteRequest"},
             m.to = n, m.term > term[n], term'[n] = m.term
      PROVE  InOffice(n, term[n])'
  <2>1. \E c \in Node \ {n} : <<c, c, term'[n]>> \in granted'
    BY <1>0, <1>3, LaterTermIsContested
  <2>2. PICK e \in elected : e[1] = n /\ e[2] <= term[n]
    <3>1. InOffice(n, term[n])
      BY <1>0, <1>3 DEF LeadersInOffice
    <3>2. QED
      BY <1>0, <3>1 DEF InOffice, Won, TypeOK
  <2>3. e \in elected' /\ e[2] < term'[n]
    <3>1. e[2] \in Nat /\ term'[n] \in Nat
      BY <2>2, HistoryGrows DEF TypeOK
    <3>2. QED
      BY <1>0, <1>3, <2>2, <3>1, HistoryGrows
  <2>4. QED
    BY <2>1, <2>2, <2>3 DEF InOffice
<1>4. QED
  BY <1>0, <1>1, <1>2, <1>3, LeaderCases

LEMMA VotesKeptStep ==
    ASSUME TypeOK, VoteInv, LeadersKeepTheirVote, [Next]_vars
    PROVE  LeadersKeepTheirVote'
<1> SUFFICES ASSUME NEW n \in Node, NEW c \in Node, role'[n] = "Leader",
                    <<n, c, term'[n]>> \in granted'
             PROVE  c = n
  BY DEF LeadersKeepTheirVote
<1>0. RoleAtPlace /\ GrantsPast /\ OneVotePerTerm /\ term[n] \in Nat
  BY DEF VoteInv, TypeOK
<1>1. CASE at[n] = "tally" /\ UNCHANGED <<term, granted>>
  <2>1. <<n, n, term[n]>> \in granted
    BY <1>1 DEF VoteInv, CandidatesStand, CountedVotesAreReal, Voters
  <2>2. term[n] \in {g[3] : g \in granted}
    BY <2>1
  <2>3. QED
    BY <1>0, <1>1, <2>1, <2>2 DEF OneVotePerTerm
<1>2. CASE role[n] = "Leader" /\ term'[n] = term[n]
  <2>1. <<n, c, term[n]>> \in granted
    BY <1>0, <1>2, GrantCases
  <2>2. QED
    BY <1>2, <2>1 DEF LeadersKeepTheirVote
<1>3. CASE UNCHANGED granted /\ term'[n] \in Nat /\ term'[n] > term[n]
  BY <1>0, <1>3 DEF GrantsPast
<1>4. \A m \in msgs : m.term \in Nat
  BY DEF TypeOK, Message
<1>5. QED
  BY <1>0, <1>1, <1>2, <1>3, <1>4, LeaderCases

LEMMA HeartbeatsStep ==
    ASSUME TypeOK, VoteInv, OfficeInv, [Next]_vars
    PROVE  HeartbeatsAreContested'
<1>1. SUFFICES ASSUME NEW m \in msgs', m.type = "LeaderHeartbeat"
               PROVE  InOffice(m.from, m.term)'
  BY DEF HeartbeatsAreContested, InOffice
<1>2. TypeOK'
  BY TypeStep
<1>3. m.from \in Node /\ m.term \in Nat
  BY <1>2 DEF TypeOK, Message
<1>4. InOffice(m.from, m.term)
  <2>1. CASE m \in msgs
    BY <1>1, <2>1 DEF OfficeInv, HeartbeatsAreContested, InOffice
  <2>2. CASE m \notin msgs
    <3>1. role[m.from] = "Leader" /\ m.term = term[m.from]
      BY <1>1, <2>2, MessageCases DEF VoteInv
    <3>2. QED
      BY <1>3, <3>1 DEF OfficeInv, LeadersInOffice
  <2>3. QED
    BY <2>1, <2>2
<1>5. QED
  BY <1>3, <1>4, OfficeGrows

-----------------------------------------------------------------------------
(* Whom a node believes to lead.                                            *)

\* A step lets a node name a new leader only if the node has just won or has
\* taken a heartbeat of that leader, in a term it does not leave behind.
LEMMA BeliefCases ==
    ASSUME TypeOK, [Next]_vars, NEW n \in Node
    PROVE  \/ current_leader'[n] \in {current_leader[n], None}
           \/ /\ current_leader'[n] = n
              /\ \E known \in Nat : <<n, term[n], known>> \in elected'
           \/ \E m \in msgs : /\ m.type = "LeaderHeartbeat"
                              /\ current_leader'[n] = m.from
                              /\ term'[n] = m.term
<1> USE DEF TypeOK, fields, history
<1>1. ASSUME NEW k \in Node, Run(k), ~StartCandidate(k), ~TallyElected(k)
      PROVE  current_leader' = current_leader
  BY <1>1 DEF Run, StartFollower, StartLeader, FollowerTimeout,
              CandidateTimeout, TallyWait, LeaderTick, LeaderBeat
<1>2. ASSUME NEW k \in Node, StartCandidate(k)
      PROVE  current_leader'[n] \in {current_leader[n], None}
  BY <1>2 DEF StartCandidate
<1>3. ASSUME NEW k \in Node, TallyElected(k)
      PROVE  \/ current_leader'[n] = current_leader[n]
             \/ /\ current_leader'[n] = n
                /\ \E known \in Nat : <<n, term[n], known>> \in elected'
  BY <1>3, PeersType DEF TallyElected
<1>4. ASSUME NEW k \in Node, NEW m \in msgs, Deliver(k, m)
      PROVE  \/ current_leader'[n] = current_leader[n]
             \/ /\ m.type = "LeaderHeartbeat"
                /\ current_leader'[n] = m.from
                /\ term'[n] = m.term
  BY <1>4 DEF Deliver, HeartbeatIgnored, FollowerHeartbeat, CandidateHeartbeat,
              LeaderHeartbeat, VoteRefused, VoteCast, VoteTorn, VoteCounted,
              VoteDiscarded
<1>5. CASE UNCHANGED vars
  BY <1>5 DEF vars
<1>6. QED
  BY <1>1, <1>2, <1>3, <1>4, <1>5 DEF Next

LEMMA BeliefStep ==
    ASSUME TypeOK, OfficeInv, [Next]_vars
    PROVE  BelievedLeaderWon'
<1> SUFFICES ASSUME NEW n \in Node, current_leader'[n] # None
             PROVE  \E e \in elected' : e[1] = current_leader'[n] /\ e[2] <= term'[n]
  BY DEF BelievedLeaderWon
<1>0. /\ elected \subseteq elected'
      /\ \A e \in elected : e[2] \in Nat
      /\ term[n] \in Nat /\ term'[n] \in Nat /\ term'[n] >= term[n]
  BY HistoryGrows DEF TypeOK
<1>1. CASE current_leader'[n] = current_leader[n]
  BY <1>0, <1>1 DEF OfficeInv, BelievedLeaderWon
<1>2. CASE /\ current_leader'[n] = n
           /\ \E known \in Nat : <<n, term[n], known>> \in elected'
  BY <1>0, <1>2
<1>3. ASSUME NEW m \in msgs, m.type = "LeaderHeartbeat",
             current_leader'[n] = m.from, term'[n] = m.term
      PROVE  \E e \in elected' : e[1] = current_leader'[n] /\ e[2] <= term'[n]
  <2>1. \E e \in elected : e[1] = m.from /\ e[2] <= m.term
    BY <1>0, <1>3 DEF OfficeInv, HeartbeatsAreContested, Won
  <2>2. QED
    BY <1>0, <1>3, <2>1
<1>4. QED
  BY <1>1, <1>2, <1>3, BeliefCases

-----------------------------------------------------------------------------
(* The invariant as a whole.                                                *)

LEMMA OfficeStep ==
    TypeOK /\ VoteInv /\ ElectionsWon /\ OfficeInv /\ [Next]_vars => OfficeInv'
<1> SUFFICES ASSUME TypeOK, VoteInv, ElectionsWon, OfficeInv, [Next]_vars
             PROVE  OfficeInv'
  OBVIOUS
<1>1. LeadersKeepTheirVote
  BY DEF OfficeInv
<1>2. QED
  BY <1>1, LeadersInOfficeStep, VotesKeptStep, HeartbeatsStep, BeliefStep DEF OfficeInv

\* The inductive invariant, in every cluster, whoever knows whom and whichever
\* handler is dropped at whichever await.
THEOREM ElectionInvariant == Spec => []IInv
<1>1. Init => OfficeInv
  BY DEF Init, OfficeInv, LeadersInOffice, HeartbeatsAreContested,
         LeadersKeepTheirVote, BelievedLeaderWon
<1>2. /\ TypeOK /\ VoteInv /\ ElectionsWon /\ OfficeInv /\ [Next]_vars => OfficeInv'
  BY OfficeStep
<1>3. TypeOK /\ VoteInv /\ ElectionsWon /\ OfficeInv => IInv
  BY DEF IInv
<1>4. QED
  BY <1>1, <1>2, <1>3, ElectionsHold, PTL DEF Spec

\* A heartbeat of a term its sender has not won is of a term in which another
\* node stands, and its sender has won an earlier one.
THEOREM HeartbeatsContested == Spec => []HeartbeatsAreContested
<1>1. IInv => HeartbeatsAreContested
  BY DEF IInv, OfficeInv
<1>2. QED
  BY <1>1, ElectionInvariant, PTL

\* No node is in office in a term in which it has voted for another.
THEOREM LeadersKeptTheirVote == Spec => []LeadersKeepTheirVote
<1>1. IInv => LeadersKeepTheirVote
  BY DEF IInv, OfficeInv
<1>2. QED
  BY <1>1, ElectionInvariant, PTL

\* The leader a node names has won a term that is not ahead of the node's.
THEOREM BelievedLeadersWon == Spec => []BelievedLeaderWon
<1>1. IInv => BelievedLeaderWon
  BY DEF IInv, OfficeInv
<1>2. QED
  BY <1>1, ElectionInvariant, PTL
-----------------------------------------------------------------------------
(* The abstract election.                                                   *)

\* A heartbeat is of a term in which somebody stands, from a node that has
\* won that term or an earlier one.
LEMMA HeartbeatsAnnounce ==
    ASSUME IInv, NEW m \in msgs, m.type = "LeaderHeartbeat"
    PROVE  /\ Election!Stood(m.term)
           /\ \E e \in elected : e[1] = m.from /\ e[2] <= m.term
<1>1. m.from \in Node /\ m.term \in Nat /\ \A e \in elected : e[2] \in Nat
  BY DEF IInv, TypeOK, Message
<1>2. CASE Won(m.from, m.term)
  <2>1. PICK e \in elected : e[1] = m.from /\ e[2] = m.term
    BY <1>2 DEF Won
  <2>2. m.from \in Voters(m.from, m.term)
    BY <2>1 DEF IInv, ElectionsWon
  <2>3. QED
    BY <1>1, <2>1, <2>2 DEF Voters, Election!Stood
<1>3. CASE ~Won(m.from, m.term)
  BY <1>1, <1>3 DEF IInv, OfficeInv, HeartbeatsAreContested, Election!Stood
<1>4. QED
  BY <1>2, <1>3

\* Module LeaderElection counts as this one does.
LEMMA SameCardinality == \A S : Election!Cardinality(S) = Cardinality(S)
BY DEF Cardinality, Election!Cardinality

LEMMA ElectStep ==
    ASSUME IInv, NEW n \in Node, TallyElected(n)
    PROVE  Election!Elect(n)
<1> USE DEF IInv, fields, history
<1>1. PICK peers \in PeerSets(n) :
         /\ votes_granted[n] >= VotesNeeded(peers)
         /\ elected' = elected \cup {<<n, term[n], Cardinality(peers) + 1>>}
  BY DEF TallyElected
<1>2. at[n] = "tally" /\ UNCHANGED <<term, granted>>
  BY DEF TallyElected
<1>3. \A e \in elected : ~(e[1] = n /\ e[2] = term[n])
  BY <1>2 DEF ElectionsWon, Won
<1>4. /\ n \in Election!Voters(n, term[n])
      /\ Cardinality(Election!Voters(n, term[n])) >= 1 + (Cardinality(peers) + 1) \div 2
  BY <1>1, <1>2, TallyWins DEF Voters, Election!Voters
<1>5. Cardinality(peers) + 1 \in 1..Cardinality(Node)
  BY PeersType
<1>6. \E l \in {current_leader[n], n} :
         current_leader' = [current_leader EXCEPT ![n] = l]
  BY DEF TallyElected, TypeOK
<1>7. \E known \in 1..Election!Cardinality(Node) :
         /\ Election!Cardinality(Election!Voters(n, term[n])) >= 1 + known \div 2
         /\ elected' = elected \cup {<<n, term[n], known>>}
  BY <1>1, <1>4, <1>5, SameCardinality
<1>8. QED
  BY <1>2, <1>3, <1>4, <1>6, <1>7 DEF Election!Elect

\* A message moves its receiver as the abstract election allows.
LEMMA DeliverStep ==
    ASSUME IInv, NEW n \in Node, NEW m \in msgs, Deliver(n, m)
    PROVE  \/ \E c \in Node : Election!Vote(n, c)
           \/ Election!Advance(n)
           \/ Election!Follow(n)
           \/ UNCHANGED Election!vars
<1> USE DEF fields, history, Election!vars
<1>0. /\ TypeOK /\ m \in Message /\ m.term \in Nat /\ m.from \in Node
      /\ term[n] \in Nat /\ term = [term EXCEPT ![n] = term[n]]
  BY DEF IInv, TypeOK, Message
<1>1. CASE VoteCast(n, m)
  <2>1. <<m.from, m.from, m.term>> \in granted
    BY <1>1 DEF IInv, VoteInv, MessagesSound, VoteCast, Receive
  <2>2. Election!Vote(n, m.from)
    BY <1>0, <1>1, <2>1 DEF VoteCast, Election!Vote, TypeOK
  <2>3. QED
    BY <1>0, <2>2
<1>2. CASE VoteTorn(n, m)
  <2>1. Election!Stood(m.term)
    BY <1>0, <1>2 DEF IInv, VoteInv, MessagesSound, VoteTorn, Receive, Election!Stood
  <2>2. QED
    BY <1>0, <1>2, <2>1 DEF VoteTorn, Election!Advance, TypeOK
<1>3. CASE FollowerHeartbeat(n, m)
  <2>1. Election!Stood(m.term) /\ \E e \in elected : e[1] = m.from /\ e[2] <= m.term
    BY <1>3, HeartbeatsAnnounce DEF FollowerHeartbeat
  <2>2. QED
    BY <1>0, <1>3, <2>1 DEF FollowerHeartbeat, Election!Follow, TypeOK
<1>4. CASE CandidateHeartbeat(n, m)
  <2>1. Election!Stood(m.term) /\ \E e \in elected : e[1] = m.from /\ e[2] <= m.term
    BY <1>4, HeartbeatsAnnounce DEF CandidateHeartbeat
  <2>2. CASE current_leader' = [current_leader EXCEPT ![n] = m.from]
    BY <1>0, <1>4, <2>1, <2>2 DEF CandidateHeartbeat, Election!Follow, TypeOK
  <2>3. CASE current_leader' = current_leader /\ m.term > term[n]
    BY <1>0, <1>4, <2>1, <2>3 DEF CandidateHeartbeat, Election!Advance, TypeOK
  <2>4. CASE current_leader' = current_leader /\ m.term = term[n]
    BY <1>0, <1>4, <2>4 DEF CandidateHeartbeat, TypeOK
  <2>5. QED
    BY <1>0, <1>4, <2>2, <2>3, <2>4 DEF CandidateHeartbeat
<1>5. CASE LeaderHeartbeat(n, m)
  <2>1. Election!Stood(m.term)
    BY <1>5, HeartbeatsAnnounce DEF LeaderHeartbeat
  <2>2. QED
    BY <1>0, <1>5, <2>1 DEF LeaderHeartbeat, Election!Advance, TypeOK
<1>6. CASE HeartbeatIgnored(n, m) \/ VoteRefused(n, m) \/ VoteCounted(n, m)
           \/ VoteDiscarded(n, m)
  BY <1>6 DEF HeartbeatIgnored, VoteRefused, VoteCounted, VoteDiscarded
<1>7. QED
  BY <1>1, <1>2, <1>3, <1>4, <1>5, <1>6 DEF Deliver

LEMMA AbstractStep ==
    ASSUME IInv, [Next]_vars
    PROVE  [Election!Next]_(Election!vars)
<1> USE DEF fields, history, Election!vars
<1>1. ASSUME NEW n \in Node, StartCandidate(n) PROVE Election!Stand(n)
  BY <1>1 DEF StartCandidate, Election!Stand
<1>2. ASSUME NEW n \in Node, Run(n), ~StartCandidate(n), ~TallyElected(n)
      PROVE  UNCHANGED Election!vars
  BY <1>2 DEF Run, StartFollower, StartLeader, FollowerTimeout,
              CandidateTimeout, TallyWait, LeaderTick, LeaderBeat
<1>3. CASE UNCHANGED vars
  BY <1>3 DEF vars
<1>4. QED
  BY <1>1, <1>2, <1>3, ElectStep, DeliverStep DEF Next, Election!Next

\* Every behaviour of the election is one of the abstract election, whoever
\* knows whom and whichever handler is dropped.
THEOREM ImplementsElection == Spec => ElectionSpec
<1>1. Init => Election!Init
  BY DEF Init, Election!Init
<1>2. IInv /\ [Next]_vars => [Election!Next]_(Election!vars)
  BY AbstractStep
<1>3. QED
  BY <1>1, <1>2, ElectionInvariant, PTL DEF Spec, ElectionSpec, Election!Spec
=============================================================================
