------------------------- MODULE SenatorProperties -------------------------
(* What the election of module Senator must guarantee, and the abstract    *)
(* election it implements.                                                 *)
EXTENDS Senator

\* Every field has its type, and the task of a node stands where its role
\* and the history of its run allow.
TypeOK ==
    /\ role \in [Node -> Role]
    /\ term \in [Node -> Nat]
    /\ voted_for \in [Node -> Node \cup {None}]
    /\ current_leader \in [Node -> Node \cup {None}]
    /\ at \in [Node -> Place]
    /\ votes_granted \in [Node -> Nat]
    /\ msgs \subseteq Message
    /\ ballots \in [Node -> SUBSET Node]
    /\ granted \subseteq Node \X Node \X Nat
    /\ elected \subseteq Node \X Nat \X Nat

Voters(c, t) == {v \in Node : <<v, c, t>> \in granted}

Won(n, t) == \E e \in elected : e[1] = n /\ e[2] = t

InFlight(type, n, t) == {m \in msgs : m.type = type /\ m.to = n /\ m.term = t}

-----------------------------------------------------------------------------
\* handle_vote_request and the set-up of a candidacy never let a node vote
\* for two candidates in one term, although voted_for is never read: raising
\* the term is what spends the vote, torn handlers included.
OneVotePerTerm ==
    \A v, c, d \in Node, t \in {g[3] : g \in granted} :
        <<v, c, t>> \in granted /\ <<v, d, t>> \in granted => c = d

\* The bare counter votes_granted of a running candidacy stands for that many
\* distinct nodes that voted for it in its term, however the VoteGranted
\* messages of earlier candidacies were delayed or reordered.
CountedVotesAreReal ==
    \A n \in Node :
        at[n] \in {"tally", "candidate"} =>
            /\ votes_granted[n] = Cardinality(ballots[n])
            /\ ballots[n] \subseteq Voters(n, term[n])
            /\ \A m \in InFlight("VoteGranted", n, term[n]) :
                  m.from \notin ballots[n]

\* Each candidate takes the votes it needs from its own momentary list of peers.
\* A term has two winners only if their lists were so short that the votes both
\* needed are no more than there are nodes: no vote counts twice, and late votes,
\* dropped handlers and changing lists make no other split possible.
SplitNeedsShortLists ==
    \A e, f \in elected :
        e[2] = f[2] /\ e[1] # f[1] =>
            (1 + e[3] \div 2) + (1 + f[3] \div 2) <= Cardinality(Node)

\* handle_vote_request writes the role before it gives the vote: with any
\* handler dropped anywhere, no node is in office in a term in which it has
\* voted for another.
LeadersKeepTheirVote ==
    \A n, c \in Node :
        role[n] = "Leader" /\ <<n, c, term[n]>> \in granted => c = n

\* A heartbeat of a term its sender has not won is of a term in which another
\* node stands, and its sender has won an earlier one: a handler dropped at the
\* role lock keeps a leader in office, and makes none.
HeartbeatsAreContested ==
    \A m \in msgs :
        m.type = "LeaderHeartbeat" =>
            \/ Won(m.from, m.term)
            \/ /\ \E c \in Node \ {m.from} : <<c, c, m.term>> \in granted
               /\ \E e \in elected : e[1] = m.from /\ e[2] < m.term

\* A heartbeat on the network was sent in a term its sender has won, so that
\* a node that obeys it obeys a winner.
HeartbeatsAreEarned ==
    \A m \in msgs : m.type = "LeaderHeartbeat" => Won(m.from, m.term)

\* Two nodes that act as leader at the same time do so in different terms, so
\* the strict comparison in Leader::run is enough to depose one of them.
OneLeaderPerTerm ==
    \A m, n \in Node :
        role[m] = "Leader" /\ role[n] = "Leader" /\ term[m] = term[n] => m = n

\* The leader a node names has won a term that is not ahead of the node's.
BelievedLeaderWon ==
    \A n \in Node :
        current_leader[n] # None =>
            \E e \in elected : e[1] = current_leader[n] /\ e[2] <= term[n]

\* candidate.rs ignores a vote of a higher term instead of reverting to
\* follower: no vote of a term ahead of the candidate's is ever under way.
VotesNeverAhead ==
    \A m \in msgs : m.type = "VoteGranted" => m.term <= term[m.to]

\* leader.rs: "if the term is greater than ours, we will become a follower":
\* no step leaves a leader in office in a term later than it had.
LeaderStepsDown ==
    [][\A n \in Node :
          role[n] = "Leader" /\ term'[n] > term[n] => role'[n] # "Leader"]_vars

-----------------------------------------------------------------------------
(* Fairness.  The task of a node is polled whenever it can run, and the    *)
(* timers of candidates and leaders fire, since nothing resets them; the   *)
(* timer of a follower may be reset for ever and is not fair.  A leader    *)
(* repeats its heartbeats over connections that stay up, so a node that    *)
(* can obey one again and again gets one.                                  *)

Progress(n) ==
    \/ StartFollower(n) \/ StartCandidate(n) \/ StartLeader(n)
    \/ CandidateTimeout(n) \/ TallyElected(n) \/ TallyWait(n)
    \/ LeaderTick(n) \/ LeaderBeat(n)

\* n takes a heartbeat that leader, in office, is still repeating.
Obey(n, leader) ==
    LET m == Msg("LeaderHeartbeat", leader, n, term[leader]) IN
    /\ role[leader] = "Leader"
    /\ FollowerHeartbeat(n, m) \/ CandidateHeartbeat(n, m) \/ LeaderHeartbeat(n, m)

FairSpec ==
    /\ Spec
    /\ \A n \in Node : WF_vars(Progress(n))
    /\ \A m \in Node : \A n \in Node \ {m} : SF_vars(Obey(m, n))

Follows(m, n) ==
    \/ term[m] = term[n] /\ current_leader[m] = n
    \/ term[m] > term[n]

\* Whoever stays leader is in the end followed by every node that has not
\* moved on to a later term.
LeaderIsHeard ==
    \A n \in Node :
        role[n] = "Leader" ~>
            role[n] # "Leader" \/ \A m \in Node \ {n} : Follows(m, n)

Leaders == {n \in Node : role[n] = "Leader"}

\* A leader that was out of reach while another was elected does not stay in
\* office beside it: two leaders are a passing state.
RivalsAreDeposed == Cardinality(Leaders) > 1 ~> Cardinality(Leaders) <= 1

-----------------------------------------------------------------------------
Election == INSTANCE LeaderElection WITH
    Node <- Node, None <- None,
    term <- term, current_leader <- current_leader,
    granted <- granted, elected <- elected

\* Every step of the message-passing election, dropped handlers and lists of
\* peers that change included, is a step of the abstract one.
ElectionSpec == Election!Spec
=============================================================================
