------------------------------ MODULE Senator ------------------------------
(***************************************************************************)
(* The leader election of package congress: one task per node that runs    *)
(* the Follower, Candidate and Leader loops over the shared fields of      *)
(* struct Senator, and the messages these loops exchange.                  *)
(*                                                                         *)
(* Only the node's own task writes its fields, so a handler is one action, *)
(* except where a select! timer cancels it half-way: the handlers of       *)
(* Candidate and Leader run inside a select! branch and are dropped at the *)
(* await they have reached.  Interrupts names the awaits at which a run of *)
(* the model lets that happen.  Timers are nondeterministic choices.       *)
(***************************************************************************)
EXTENDS Naturals, FiniteSets

CONSTANTS
    Node,        \* the nodes of the cluster
    None,        \* Option::None
    Views,       \* the sets of nodes a node may know, itself included
    Interrupts,  \* awaits at which select! may drop a handler
    MaxTerm,     \* bound: no node starts a candidacy past this term
    Impatient    \* bound: the nodes whose follower timer may run out

\* The awaits that stand between two writes of a handler.
AwaitPoints == {"leader", "role", "vote", "send"}

ASSUME NodeAssumption == IsFiniteSet(Node) /\ None \notin Node
ASSUME ViewsAssumption == Views \subseteq SUBSET Node
ASSUME InterruptsAssumption == Interrupts \subseteq AwaitPoints
ASSUME BoundsAssumption == MaxTerm \in Nat /\ Impatient \subseteq Node

Role == {"Leader", "Follower", "Candidate"}
MessageType == {"LeaderHeartbeat", "VoteRequest", "VoteGranted"}

VARIABLES
    role, term, voted_for, current_leader,  \* the fields of struct Senator
    at,             \* where the node's task stands
    votes_granted,  \* the vote counter of the running candidacy
    msgs,           \* messages sent and not delivered
    ballots,        \* history: whose votes the running candidacy counted
    granted,        \* history: every vote ever given, <<voter, candidate, term>>
    elected         \* history: every election won, <<node, term, known>>, with the
                    \* length of the list its votes_needed was taken from

fields == <<role, term, voted_for, current_leader>>
history == <<ballots, granted, elected>>
vars == <<fields, at, votes_granted, msgs, history>>

(***************************************************************************)
(* at[n] is "loop" at the top of Senator::start, "follower", "candidate"   *)
(* and "leader" when the loop of that role waits in its select!, "tally"   *)
(* when a candidate is about to compare its votes with votes_needed, and   *)
(* "beat" when a leader is about to broadcast a heartbeat.                 *)
(***************************************************************************)
Place == {"loop", "follower", "tally", "candidate", "beat", "leader"}

Message == [type : MessageType, from : Node, to : Node, term : Nat]

Init ==
    /\ role = [n \in Node |-> "Follower"]
    /\ term = [n \in Node |-> 0]
    /\ voted_for = [n \in Node |-> None]
    /\ current_leader = [n \in Node |-> None]
    /\ at = [n \in Node |-> "loop"]
    /\ votes_granted = [n \in Node |-> 0]
    /\ msgs = {}
    /\ ballots = [n \in Node |-> {}]
    /\ granted = {}
    /\ elected = {}

-----------------------------------------------------------------------------
(* The RPC.  Connections come and go, so each call of members() answers    *)
(* with some permitted view, the node itself left out.  broadcast_message  *)
(* spawns one task per member, so copies are delivered in any order, late  *)
(* or never; a message to a node that is no peer at the time of the send   *)
(* is one that is never delivered.                                         *)

PeerSets(n) == {V \ {n} : V \in {W \in Views : n \in W}}

Msg(type, from, to, t) == [type |-> type, from |-> from, to |-> to, term |-> t]

\* Mutants: a message a term ahead; a heartbeat of the term before the election.
BroadcastAhead(type, n, t) == {Msg(type, n, m, t + 1) : m \in UNION PeerSets(n)}
BroadcastBehind(type, n, t) ==
    {Msg(type, n, m, IF type = "LeaderHeartbeat" THEN t - 1 ELSE t) :
        m \in UNION PeerSets(n)}

Broadcast(type, n, t) == {Msg(type, n, m, t) : m \in UNION PeerSets(n)}

\* A leader repeats its heartbeat every 50 ms: a delivered copy leaves others.
Delivered(m) == IF m.type = "LeaderHeartbeat" THEN {} ELSE {m}

-----------------------------------------------------------------------------
(* Control.                                                                *)

Goto(n, p) == at' = [at EXCEPT ![n] = p]

\* The loop of the node's role goes round: a candidate recounts its votes.
Resume(n) == Goto(n, IF at[n] = "candidate" THEN "tally" ELSE at[n])

\* select! drops a handler: Candidate::run returns, Leader::run continues
\* with its next heartbeat.  A follower's handlers are never dropped.
Cancel(n) ==
    /\ at[n] \in {"candidate", "leader"}
    /\ Goto(n, IF at[n] = "candidate" THEN "loop" ELSE "beat")

Receive(n, m) ==
    /\ at[n] \in {"follower", "candidate", "leader"}
    /\ m \in msgs
    /\ m.to = n

-----------------------------------------------------------------------------
(* Senator::start and the set-up of the three loops.                       *)

\* The struct Candidate of the run that ended is gone.
DropCandidate(n) ==
    /\ votes_granted' = [votes_granted EXCEPT ![n] = 0]
    /\ ballots' = [ballots EXCEPT ![n] = {}]

StartFollower(n) ==
    /\ at[n] = "loop" /\ role[n] = "Follower"
    /\ Goto(n, "follower")
    /\ DropCandidate(n)
    /\ UNCHANGED <<fields, msgs, granted, elected>>

StartCandidate(n) ==
    /\ at[n] = "loop" /\ role[n] = "Candidate"
    /\ term[n] < MaxTerm
    /\ votes_granted' = [votes_granted EXCEPT ![n] = 1]
    /\ ballots' = [ballots EXCEPT ![n] = {n}]
    /\ granted' = granted \cup {<<n, n, term[n] + 1>>}
    /\ term' = [term EXCEPT ![n] = @ + 1]
    /\ voted_for' = [voted_for EXCEPT ![n] = n]
    /\ current_leader' = [current_leader EXCEPT ![n] = None]
    /\ msgs' = msgs \cup Broadcast("VoteRequest", n, term[n] + 1)
    /\ Goto(n, "tally")
    /\ UNCHANGED <<role, elected>>

StartLeader(n) ==
    /\ at[n] = "loop" /\ role[n] = "Leader"
    /\ Goto(n, "beat")
    /\ DropCandidate(n)
    /\ UNCHANGED <<fields, msgs, granted, elected>>

-----------------------------------------------------------------------------
(* The timers and the steps a loop takes by itself.                        *)

FollowerTimeout(n) ==
    /\ at[n] = "follower"
    /\ n \in Impatient /\ term[n] < MaxTerm
    /\ role' = [role EXCEPT ![n] = "Candidate"]
    /\ Goto(n, "loop")
    /\ UNCHANGED <<term, voted_for, current_leader, votes_granted,
                   msgs, history>>

CandidateTimeout(n) ==
    /\ at[n] \in {"tally", "candidate"}
    /\ term[n] < MaxTerm
    /\ Goto(n, "loop")
    /\ UNCHANGED <<fields, votes_granted, msgs, history>>

\* Mutant: half of the cluster is enough.
VotesNeededHalf(peers) == (Cardinality(peers) + 1) \div 2

VotesNeeded(peers) == 1 + (Cardinality(peers) + 1) \div 2

\* The members are asked for anew each time round the loop.  The role is
\* written before current_leader, whose lock may be the await at which the
\* timer ends the run.
TallyElected(n) ==
    /\ at[n] = "tally"
    /\ \E peers \in PeerSets(n) :
          /\ votes_granted[n] >= VotesNeeded(peers)
          /\ elected' = elected \cup {<<n, term[n], Cardinality(peers) + 1>>}
    /\ role' = [role EXCEPT ![n] = "Leader"]
    /\ \/ current_leader' = [current_leader EXCEPT ![n] = n]
       \/ "leader" \in Interrupts /\ UNCHANGED current_leader
    /\ Goto(n, "loop")
    /\ UNCHANGED <<term, voted_for, votes_granted, msgs, ballots, granted>>

TallyWait(n) ==
    /\ at[n] = "tally"
    /\ \E peers \in PeerSets(n) : votes_granted[n] < VotesNeeded(peers)
    /\ Goto(n, "candidate")
    /\ UNCHANGED <<fields, votes_granted, msgs, history>>

LeaderTick(n) ==
    /\ at[n] = "leader"
    /\ Goto(n, "beat")
    /\ UNCHANGED <<fields, votes_granted, msgs, history>>

\* Mutant: the role is not looked at before each heartbeat.
LeaderBeatUnchecked(n) ==
    /\ at[n] = "beat"
    /\ msgs' = msgs \cup Broadcast("LeaderHeartbeat", n, term[n])
    /\ Goto(n, "leader")
    /\ UNCHANGED <<fields, votes_granted, history>>

LeaderBeat(n) ==
    /\ at[n] = "beat"
    /\ IF role[n] = "Leader"
         THEN /\ msgs' = msgs \cup Broadcast("LeaderHeartbeat", n, term[n])
              /\ Goto(n, "leader")
         ELSE /\ Goto(n, "loop")
              /\ UNCHANGED msgs
    /\ UNCHANGED <<fields, votes_granted, history>>

-----------------------------------------------------------------------------
(* LeaderHeartbeat.                                                        *)

\* Mutants: terms are not compared; a heartbeat must be of a later term; a
\* leader ignores heartbeats.
HeedsAnyTerm(n, m) == at[n] # "leader" \/ m.term > term[n]
HeedsLaterTerm(n, m) == m.term > term[n]
HeedsUnlessLeader(n, m) == at[n] # "leader" /\ m.term >= term[n]

\* A leader stays in office beside another of the same term.
Heeds(n, m) == IF at[n] = "leader" THEN m.term > term[n] ELSE m.term >= term[n]

HeartbeatIgnored(n, m) ==
    /\ Receive(n, m) /\ m.type = "LeaderHeartbeat"
    /\ ~Heeds(n, m)
    /\ Resume(n)
    /\ UNCHANGED <<fields, votes_granted, msgs, history>>

FollowerHeartbeat(n, m) ==
    /\ Receive(n, m) /\ m.type = "LeaderHeartbeat"
    /\ at[n] = "follower" /\ Heeds(n, m)
    /\ term' = [term EXCEPT ![n] = m.term]
    /\ current_leader' = [current_leader EXCEPT ![n] = m.from]
    /\ Resume(n)
    /\ UNCHANGED <<role, voted_for, votes_granted, msgs, history>>

\* Writes, in this order, term, current_leader, role and voted_for.
CandidateHeartbeat(n, m) ==
    /\ Receive(n, m) /\ m.type = "LeaderHeartbeat"
    /\ at[n] = "candidate" /\ Heeds(n, m)
    /\ term' = [term EXCEPT ![n] = m.term]
    /\ \/ /\ current_leader' = [current_leader EXCEPT ![n] = m.from]
          /\ role' = [role EXCEPT ![n] = "Follower"]
          /\ \/ voted_for' = [voted_for EXCEPT ![n] = None]
             \/ "vote" \in Interrupts /\ UNCHANGED voted_for
       \/ /\ "role" \in Interrupts
          /\ current_leader' = [current_leader EXCEPT ![n] = m.from]
          /\ UNCHANGED <<role, voted_for>>
       \/ /\ "leader" \in Interrupts
          /\ UNCHANGED <<current_leader, role, voted_for>>
    /\ Goto(n, "loop")
    /\ UNCHANGED <<votes_granted, msgs, history>>

\* Mutant: the term is taken and the office kept.
LeaderHeartbeatStays(n, m) ==
    /\ Receive(n, m) /\ m.type = "LeaderHeartbeat"
    /\ at[n] = "leader" /\ Heeds(n, m)
    /\ term' = [term EXCEPT ![n] = m.term]
    /\ Cancel(n)
    /\ UNCHANGED <<role, voted_for, current_leader, votes_granted,
                   msgs, history>>

\* Writes term and then role; the leader it had, itself, stays recorded.
LeaderHeartbeat(n, m) ==
    /\ Receive(n, m) /\ m.type = "LeaderHeartbeat"
    /\ at[n] = "leader" /\ Heeds(n, m)
    /\ term' = [term EXCEPT ![n] = m.term]
    /\ \/ role' = [role EXCEPT ![n] = "Follower"] /\ Goto(n, "loop")
       \/ "role" \in Interrupts /\ UNCHANGED role /\ Cancel(n)
    /\ UNCHANGED <<voted_for, current_leader, votes_granted, msgs, history>>

-----------------------------------------------------------------------------
(* VoteRequest: Senator::handle_vote_request, in every role.               *)

\* Mutant: a request of the node's own term gets its vote too.
MayVoteAgain(n, m) == m.term >= term[n]

MayVote(n, m) == m.term > term[n]

VoteRefused(n, m) ==
    /\ Receive(n, m) /\ m.type = "VoteRequest"
    /\ ~MayVote(n, m)
    /\ msgs' = msgs \ Delivered(m)
    /\ Resume(n)
    /\ UNCHANGED <<fields, votes_granted, history>>

\* A follower stays in its loop; a candidate or leader has become a follower
\* and leaves its own.
VoteCast(n, m) ==
    /\ Receive(n, m) /\ m.type = "VoteRequest"
    /\ MayVote(n, m)
    /\ term' = [term EXCEPT ![n] = m.term]
    /\ role' = [role EXCEPT ![n] = "Follower"]
    /\ voted_for' = [voted_for EXCEPT ![n] = m.from]
    /\ granted' = granted \cup {<<n, m.from, m.term>>}
    /\ \/ /\ msgs' = (msgs \ Delivered(m)) \cup {Msg("VoteGranted", n, m.from, m.term)}
          /\ Goto(n, IF at[n] = "follower" THEN "follower" ELSE "loop")
       \/ /\ "send" \in Interrupts
          /\ msgs' = msgs \ Delivered(m)
          /\ Cancel(n)
    /\ UNCHANGED <<current_leader, votes_granted, ballots, elected>>

\* Mutant: the vote is noted before the role is written.
VoteTornLate(n, m) ==
    /\ Receive(n, m) /\ m.type = "VoteRequest"
    /\ MayVote(n, m)
    /\ "role" \in Interrupts
    /\ term' = [term EXCEPT ![n] = m.term]
    /\ voted_for' = [voted_for EXCEPT ![n] = m.from]
    /\ granted' = granted \cup {<<n, m.from, m.term>>}
    /\ msgs' = msgs \ Delivered(m)
    /\ Cancel(n)
    /\ UNCHANGED <<role, current_leader, votes_granted, ballots, elected>>

\* Dropped while it waits to write the role: only the term was taken.
VoteTorn(n, m) ==
    /\ Receive(n, m) /\ m.type = "VoteRequest"
    /\ MayVote(n, m)
    /\ "role" \in Interrupts
    /\ term' = [term EXCEPT ![n] = m.term]
    /\ msgs' = msgs \ Delivered(m)
    /\ Cancel(n)
    /\ UNCHANGED <<role, voted_for, current_leader, votes_granted, history>>

-----------------------------------------------------------------------------
(* VoteGranted: only a candidate counts it, and only in its own term.      *)

\* Mutant: a vote of an earlier candidacy counts.
CountsAnyTerm(n, m) == at[n] = "candidate"

Counts(n, m) == at[n] = "candidate" /\ m.term = term[n]

VoteCounted(n, m) ==
    /\ Receive(n, m) /\ m.type = "VoteGranted"
    /\ Counts(n, m)
    /\ votes_granted' = [votes_granted EXCEPT ![n] = @ + 1]
    /\ ballots' = [ballots EXCEPT ![n] = @ \cup {m.from}]
    /\ msgs' = msgs \ Delivered(m)
    /\ Resume(n)
    /\ UNCHANGED <<fields, granted, elected>>

VoteDiscarded(n, m) ==
    /\ Receive(n, m) /\ m.type = "VoteGranted"
    /\ ~Counts(n, m)
    /\ msgs' = msgs \ Delivered(m)
    /\ Resume(n)
    /\ UNCHANGED <<fields, votes_granted, history>>

-----------------------------------------------------------------------------
Deliver(n, m) ==
    \/ HeartbeatIgnored(n, m)
    \/ FollowerHeartbeat(n, m)
    \/ CandidateHeartbeat(n, m)
    \/ LeaderHeartbeat(n, m)
    \/ VoteRefused(n, m)
    \/ VoteCast(n, m)
    \/ VoteTorn(n, m)
    \/ VoteCounted(n, m)
    \/ VoteDiscarded(n, m)

Run(n) ==
    \/ StartFollower(n)
    \/ StartCandidate(n)
    \/ StartLeader(n)
    \/ FollowerTimeout(n)
    \/ CandidateTimeout(n)
    \/ TallyElected(n)
    \/ TallyWait(n)
    \/ LeaderTick(n)
    \/ LeaderBeat(n)

Next ==
    \E n \in Node :
        \/ Run(n)
        \/ \E m \in msgs : Deliver(n, m)

Spec == Init /\ [][Next]_vars
=============================================================================
