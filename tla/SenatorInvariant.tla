------------------------- MODULE SenatorInvariant --------------------------
(* The inductive invariant behind the safety properties of the election:   *)
(* where the task of a node may stand, what votes and messages may exist,  *)
(* and what every won election rests on.                                   *)
EXTENDS SenatorProperties

\* A candidate's loop runs only in the role Candidate and a follower's only
\* in the role Follower; a leader's loop may still have to notice that it is
\* no longer a leader.
RoleAtPlace ==
    \A n \in Node :
        /\ at[n] = "follower" => role[n] = "Follower"
        /\ at[n] \in {"tally", "candidate"} => role[n] = "Candidate"
        /\ at[n] = "leader" => role[n] = "Leader"
        /\ at[n] = "beat" => role[n] # "Candidate"

\* A vote is given in a term the voter has reached: what it gives next is
\* in a later term, and so to nobody else in this one.
GrantsPast == \A g \in granted : g[3] <= term[g[1]]

\* A VoteRequest is for a term its sender stands in and has reached, a
\* VoteGranted message carries a vote that was given, and nobody writes to itself.
MessagesSound ==
    \A m \in msgs :
        /\ m.from # m.to
        /\ m.type = "VoteRequest" =>
              <<m.from, m.from, m.term>> \in granted /\ m.term <= term[m.from]
        /\ m.type = "VoteGranted" =>
              <<m.from, m.to, m.term>> \in granted /\ m.term <= term[m.to]

\* A candidate has voted for itself, and counts that vote.
CandidatesStand ==
    \A n \in Node : at[n] \in {"tally", "candidate"} => n \in ballots[n]

\* A won election is of a term the winner stood in, by the votes of more than
\* half of the nodes it knew, and ends the candidacy.
ElectionsWon ==
    /\ \A e \in elected :
          /\ e[2] <= term[e[1]]
          /\ e[1] \in Voters(e[1], e[2])
          /\ Cardinality(Voters(e[1], e[2])) >= 1 + e[3] \div 2
    /\ \A n \in Node :
          at[n] \in {"tally", "candidate"} => ~Won(n, term[n])

\* n is in office in term t: it has won t, or has won an earlier term and was
\* torn into t, in which another node stands.
InOffice(n, t) ==
    \/ Won(n, t)
    \/ /\ \E c \in Node \ {n} : <<c, c, t>> \in granted
       /\ \E e \in elected : e[1] = n /\ e[2] < t

LeadersInOffice == \A n \in Node : role[n] = "Leader" => InOffice(n, term[n])

VoteInv ==
    /\ RoleAtPlace
    /\ GrantsPast
    /\ OneVotePerTerm
    /\ MessagesSound
    /\ CountedVotesAreReal
    /\ CandidatesStand

OfficeInv ==
    /\ LeadersInOffice
    /\ HeartbeatsAreContested
    /\ LeadersKeepTheirVote
    /\ BelievedLeaderWon

\* The whole of it, which every step preserves, whatever the views are and
\* whichever handlers are dropped.
IInv ==
    /\ TypeOK
    /\ VoteInv
    /\ ElectionsWon
    /\ OfficeInv
=============================================================================
