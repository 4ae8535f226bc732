------------------------- MODULE PodLocksProperties -------------------------
(* How long the tasks of a pod may wait for each other.                    *)
EXTENDS PodLocks

Waiting(t, l) == t \in queued /\ Now(t).lock = l
Holds(t, l) == mode[t][l] # "none" /\ ~Waiting(t, l)

\* Every variable has its type, and every task stands in its program.
TypeOK ==
    /\ prog \in [Task -> DOMAIN Code \cup {"idle"}]
    /\ pc \in [Task -> Nat]
    /\ \A t \in Task :
          IF Running(t) THEN pc[t] \in 1..Len(Code[prog[t]]) ELSE pc[t] = 1
    /\ mode \in [Task -> [Lock -> {"none", "read", "write"}]]
    /\ queued \subseteq Task
    /\ before \in [Task -> SUBSET Task]
    /\ role \in Role

\* A set of tasks each of which waits for another one of it.
Circle(S) == S # {} /\ S \subseteq queued /\ \A t \in S : before[t] \cap S # {}

\* The vote is the only handler that takes locks against the order of all other
\* tasks: every circle of waiting tasks goes through the write of role in
\* handle_vote_request under its guard of term, and one that no timer breaks
\* goes through a follower's request for the state in handle_change.
CirclesAreVotes ==
    \A S \in SUBSET queued :
        Circle(S) =>
            /\ senator \in S /\ Holds(senator, "term") /\ Waiting(senator, "role")
            /\ prog[senator] \notin Timed => \E t \in S : prog[t] = "FollowerRound"

\* The locks that requests, handshakes and the watch wait for.
Served == {"backends", "certs", "challenges", "subscribers"}

\* Nobody in a circle that no timer breaks has such a lock, or is in the line
\* for one: a vote that waits for a slow peer, or for ever, takes no request, no
\* handshake and no event of the watch with it.
CirclesSpareClients ==
    \A S \in SUBSET queued :
        Circle(S) /\ prog[senator] \notin Timed =>
            \A t \in S, l \in Served : mode[t][l] = "none"

-----------------------------------------------------------------------------
(* The inductive invariant of it.                                          *)

SenatorCode ==
    {"FollowerVote", "Vote", "VoteRefused", "Obey", "StepDown", "Stand", "Campaign",
     "Win", "Beat"}

VoteKeeps ==
    <<{}, {"term"}, {"term"}, {"term", "role"}, {"term", "role", "peers"},
      {"term", "role", "peers"}, {"term", "role"}, {"term", "role", "peers"}>>

SendKeeps ==
    <<{}, {"role"}, {"role", "peers"}, {"role", "peers"}, {"role"}, {"role", "peers"}>>

LeaderKeeps ==
    <<{}, {"generator"}, {"generator", "role"}, {"generator", "role"},
      {"generator", "role"}, {"generator"}, {"generator", "backends"},
      {"generator", "backends", "certs"}, {"generator", "backends", "certs"},
      {"generator", "backends", "certs"}, {"generator", "backends", "certs"},
      {"generator", "backends", "certs"}, {"generator", "backends", "certs"},
      {"generator", "backends"}, {"generator"}, {"generator", "role"},
      {"generator", "role", "certs"}, {"generator", "role", "certs"},
      {"generator", "role", "certs"}, {"generator", "role"},
      {"generator", "role", "challenges"}, {"generator", "role", "challenges"}>>

RequestKeeps ==
    <<{}, {}, {"role"}, {"role", "certs"}, {"role", "certs"}, {"role", "certs"}, {"role"},
      {"role", "challenges"}, {"role", "challenges"}>>

FollowerKeeps == <<{}, {"generator"}, {"generator", "role"}, {"generator", "role"}>>

\* The locks that program p holds before its operation i.
Kept(p, i) ==
    IF p \in {"Vote", "FollowerVote"} THEN VoteKeeps[i]
    ELSE IF p = "SendMsg" THEN SendKeeps[i]
    ELSE IF p = "LeaderRound" THEN LeaderKeeps[i]
    ELSE IF p = "RequestState" THEN RequestKeeps[i]
    ELSE IF p = "FollowerRound" THEN FollowerKeeps[i]
    ELSE IF p = "AddPeer" /\ i = 2 THEN {"peers"}
    ELSE IF p = "IngressApplied" /\ i = 2 THEN {"backends"}
    ELSE {}

\* A task holds what its program keeps there, an idle one nothing.
HeldInv ==
    \A t \in Task, l \in Lock :
        Holds(t, l) <=> Running(t) /\ l \in Kept(prog[t], pc[t])

\* A queued task waits at the lock it asks for, behind tasks that hold it or
\* asked before and that it cannot share it with.
QueueInv ==
    \A t \in Task :
        IF t \in queued
        THEN /\ Running(t) /\ Takes(Now(t))
             /\ mode[t][Now(t).lock] = Mode(Now(t))
             /\ \A u \in before[t] :
                   u # t /\ Conflict(Mode(Now(t)), mode[u][Now(t).lock])
        ELSE before[t] = {}

\* Of two tasks that cannot share a lock one waits for the other.
LineInv ==
    \A t, u \in Task, l \in Lock :
        t # u /\ Conflict(mode[t][l], mode[u][l]) =>
            \/ Waiting(t, l) /\ u \in before[t]
            \/ Waiting(u, l) /\ t \in before[u]

\* Those who wait for the same lock do not wait for each other in a circle.
NoCircleAtLock ==
    \A l \in Lock : \A S \in SUBSET {t \in queued : Now(t).lock = l} :
        S # {} => \E t \in S : before[t] \cap S = {}

\* The senator alone runs handlers of the election, and only they write role.
KindInv ==
    /\ \A t \in Task : prog[t] \in SenatorCode <=> t = senator /\ Running(t)
    /\ \A t \in Worker : mode[t]["role"] # "write"

\* The generator is taken for writing only, so there is one round at a time.
RoundInv == \A t \in Task : mode[t]["generator"] # "read"

\* The role cannot change under a task that acts on it.
RoleInv ==
    /\ prog[senator] = "FollowerVote" => role = "Follower"
    /\ \A t \in Worker :
          prog[t] \in {"LeaderRound", "RequestState"} /\ Holds(t, "role") =>
              role = "Leader"

LocksInv ==
    /\ TypeOK
    /\ HeldInv
    /\ QueueInv
    /\ LineInv
    /\ NoCircleAtLock
    /\ KindInv
    /\ RoundInv
    /\ RoleInv

-----------------------------------------------------------------------------
(* Fairness.  Tasks are polled, the locks are first come, first served,    *)
(* calls to peers return, at the latest when the connection fails, and the *)
(* timer of a candidate or leader fires.  Nothing is assumed of the        *)
(* exchange with the authority, which its polling loop may make endless.   *)

FairSpec ==
    /\ Spec
    /\ \A t \in Task : WF_vars(Wait(t) \/ Step(t))
    /\ WF_vars(Cancel)

Exchanging == \E t \in Changes : Running(t) /\ Now(t).do = "exchange"

\* c has not yet looked for its challenge.
Unanswered(c) ==
    Running(c) /\ \E i \in pc[c]..Len(Code[prog[c]]) : Code[prog[c]][i].lock = "challenges"

\* A request for a challenge is answered while the round that waits for the
\* authority holds the routing table and the certificates, and while the watch
\* waits for the table: otherwise the authority would wait for the node and the
\* node for the authority.
ChallengesAreAnswered == \A c \in Clients : Unanswered(c) ~> ~Unanswered(c)

AtServedLock(t) == t \in queued /\ Now(t).lock \in Served

\* The watch, the proxy and the handshakes wait for nothing that lasts but an
\* exchange with the authority: no vote, slow peer or circle of the election
\* reaches them.
WaitsForExchangeOnly ==
    \A t \in Watches \cup Clients :
        AtServedLock(t) ~> ~AtServedLock(t) \/ Exchanging

Voting == Holds(senator, "term") /\ prog[senator] = "FollowerVote"

\* "else we will become a follower, and vote for them": a vote that has been
\* begun by a follower, whom no timer interrupts, ends.
VotesAreCast == Voting ~> ~Voting
=============================================================================
