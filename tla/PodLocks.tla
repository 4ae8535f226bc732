------------------------------ MODULE PodLocks ------------------------------
(***************************************************************************)
(* One pod from inside: its tasks, the locks they share, and the order in  *)
(* which they wait for them.                                               *)
(*                                                                         *)
(* A task runs a program, a sequence of operations on locks and of calls   *)
(* to the outside.  What the guards protect is the subject of the modules  *)
(* Senator, RPCNetwork, Leadership and Acme; here it is left out, but for  *)
(* the role, on which programs branch.  So are calls made while no guard   *)
(* is held, which delay nobody else.                                       *)
(***************************************************************************)
EXTENDS Naturals, Sequences

CONSTANTS
    senator,    \* the task of Senator::start
    Changes,    \* tasks that may run handle_change
    Messages,   \* tasks that may run the message listener
    Watches,    \* tasks that may handle an event of the Kubernetes watches
    Clients,    \* tasks that may serve a request or a TLS handshake
    Sends       \* tasks that may send a message or add a peer

Worker == Changes \cup Messages \cup Watches \cup Clients \cup Sends
Task == {senator} \cup Worker

ASSUME SenatorAssumption == senator \notin Worker

Role == {"Leader", "Follower", "Candidate"}

\* The fields that are locks and that a task may have to wait for.  A Mutex is
\* a lock taken for writing.
Lock == {"generator", "role", "backends", "subscribers", "certs", "challenges",
         "term", "peers"}

VARIABLES
    prog,      \* the program of each task, "idle" if there is none
    pc,        \* the position in it
    mode,      \* how a task holds each lock, or waits for it
    queued,    \* the tasks that wait for a lock
    before,    \* those in front of a queued task that it must wait for
    role       \* Senator::role

locks == <<mode, queued, before>>
vars == <<prog, pc, locks, role>>

-----------------------------------------------------------------------------
(* Operations.  Read, Write and Match keep a guard; Glance and Assign give *)
(* it back at the end of the statement.  Match is the scrutinee of a match *)
(* on the role, whose guard lives as long as the arms.                     *)

Op(do, lock) == [do |-> do, lock |-> lock]

Read(l) == Op("read", l)
Write(l) == Op("write", l)
Glance(l) == Op("glance", l)
Assign(l) == Op("assign", l)
Free(l) == Op("free", l)
Match == Op("match", "role")
Call == Op("call", "network")
Exchange == Op("exchange", "network")

Takes(op) == op.do \in {"read", "write", "match", "glance", "assign"}
Keeps(op) == op.do \in {"read", "write", "match"}
Mode(op) == IF op.do \in {"write", "assign"} THEN "write" ELSE "read"

-----------------------------------------------------------------------------
(* Programs of package congress.  voted_for, current_leader, on_role and   *)
(* on_message are locks as well, but of the senator's task alone; nor are  *)
(* its own reads of term and role ever in its way.                         *)

Broadcast == <<Glance("term"), Glance("peers")>>

\* Mutant: remove_peer is called in the match that holds the read guard.
SendMsgInMatch ==
    <<Read("role"), Read("peers"), Call, Write("peers"), Call>>

\* The argument of send_msg reads the role, and its guard lives as long.  What
\* follows the first call is remove_peer, after a failed write; its call waits
\* for the reader.
SendMsg ==
    <<Read("role"), Read("peers"), Call, Free("peers"), Write("peers"), Call>>

AddPeer == <<Write("peers"), Call>>

\* handle_vote_request keeps the term over all of it.
Vote == <<Write("term"), Assign("role")>> \o SendMsg

\* A heartbeat deposes a candidate or leader.
StepDown == <<Assign("term"), Assign("role")>>

Campaign == <<Assign("term")>> \o Broadcast

\* The peers are counted for the quorum, and for the message.
Win == <<Glance("peers"), Assign("role"), Glance("peers")>>

-----------------------------------------------------------------------------
(* Programs of package drawbridge_ingress.                                 *)

ApplyChallenge == <<Assign("challenges")>>
PrepareChallenge == ApplyChallenge \o Broadcast

\* CertGenerator::create, from the secrets.
Create == <<Call, Assign("certs")>>

\* The challenge of a host is served, sent to the others and fetched by the
\* authority; the secret is written at the end.
CheckForNewCertificates ==
    <<Read("backends"), Write("certs")>> \o PrepareChallenge
    \o <<Exchange, Call, Free("certs"), Free("backends")>>

\* A single challenge stands for those served.
ShareState ==
    <<Match, Read("certs")>> \o Broadcast
    \o <<Free("certs"), Read("challenges")>> \o Broadcast

\* handle_change as a leader and as a follower, which are one until the match.
LeaderRound ==
    <<Write("generator"), Match>> \o Create \o <<Free("role")>>
    \o CheckForNewCertificates \o ShareState

\* Where a leader may go on elsewhere: behind create, if it has a generator,
\* and behind the exchange or back to the challenge, if no host or one more
\* has no certificate.
Jumps == {<<3, 5>>, <<8, 12>>, <<12, 8>>}

\* Mutant: the follower asks for the state with its certificates in hand.
FollowerRoundHolding ==
    <<Write("generator"), Match, Read("certs")>> \o Broadcast \o <<Free("certs")>>

FollowerRound == <<Write("generator"), Match>> \o Broadcast

\* Mutant: a subscriber looks into the table itself.
NotifySubscribersReading == <<Assign("subscribers"), Glance("backends")>>

NotifySubscribers == <<Assign("subscribers")>>

\* The subscribers are told under the guard of the table.
IngressApplied == <<Write("backends")>> \o NotifySubscribers

HandleIfChallenge == <<Glance("challenges")>>
GetBackend == <<Glance("backends")>>

\* Mutant: the backend is looked up first.
CallProxyByBackend == GetBackend \o HandleIfChallenge

\* The request is forwarded when no guard is held any more.
CallProxy == HandleIfChallenge \o GetBackend

ResolveServerConfig == <<Glance("certs")>>

-----------------------------------------------------------------------------
Code == [
    FollowerVote |-> Vote, Vote |-> Vote, VoteRefused |-> <<Assign("term")>>,
    Obey |-> <<Assign("term")>>, StepDown |-> StepDown,
    Stand |-> <<Assign("role")>>, Campaign |-> Campaign, Win |-> Win,
    Beat |-> Broadcast,
    SendMsg |-> SendMsg, AddPeer |-> AddPeer,
    LeaderRound |-> LeaderRound, FollowerRound |-> FollowerRound,
    RequestState |-> <<Glance("term")>> \o ShareState,
    ApplyCerts |-> <<Assign("certs")>>, ApplyChallenge |-> ApplyChallenge,
    IngressApplied |-> IngressApplied, PodChanged |-> NotifySubscribers,
    Handshake |-> ResolveServerConfig, CallProxy |-> CallProxy]

\* The handlers that run in the select! branch of a candidate or leader, where
\* a timer may drop them.
Timed == {"Vote", "VoteRefused", "StepDown", "Win"}

\* Obey is a follower's for a heartbeat, and for a vote that it refuses.
Handlers(r) ==
    CASE r = "Follower" -> {"FollowerVote", "Obey", "Stand"}
      [] r = "Candidate" -> {"Campaign"} \cup Timed
      [] r = "Leader" -> {"Beat"} \cup (Timed \ {"Win"})

\* The role that Assign("role") writes.
Becomes(p) ==
    CASE p = "Stand" -> "Candidate"
      [] p = "Win" -> "Leader"
      [] OTHER -> "Follower"

-----------------------------------------------------------------------------
(* Locks.  tokio's are fair: whoever asks waits for all that came before   *)
(* and conflict with it, so a reader waits behind a writer that waits.     *)

Running(t) == prog[t] # "idle"
Now(t) == Code[prog[t]][pc[t]]

Conflict(m1, m2) == "none" \notin {m1, m2} /\ "write" \in {m1, m2}

\* Mutant: a reader overtakes the writers that wait.
AheadUnfair(t) ==
    {u \in Task :
        /\ Conflict(Mode(Now(t)), mode[u][Now(t).lock])
        /\ Mode(Now(t)) = "read" => u \notin queued}

Ahead(t) == {u \in Task : Conflict(Mode(Now(t)), mode[u][Now(t).lock])}

Wait(t) ==
    /\ Running(t) /\ Takes(Now(t)) /\ t \notin queued
    /\ Ahead(t) # {}
    /\ queued' = queued \cup {t}
    /\ before' = [before EXCEPT ![t] = Ahead(t)]
    /\ mode' = [mode EXCEPT ![t][Now(t).lock] = Mode(Now(t))]
    /\ UNCHANGED <<prog, pc, role>>

\* t gives back the locks in gone; who stood behind it moves up.
Leave(t, gone) ==
    /\ queued' = queued \ {t}
    /\ before' = [u \in Task |->
                     IF u = t THEN {}
                     ELSE IF u \in queued /\ Now(u).lock \in gone THEN before[u] \ {t}
                     ELSE before[u]]

\* The task ends, and with it every guard it holds or waits for.
End(t) ==
    /\ prog' = [prog EXCEPT ![t] = "idle"]
    /\ pc' = [pc EXCEPT ![t] = 1]
    /\ mode' = [mode EXCEPT ![t] = [l \in Lock |-> "none"]]
    /\ Leave(t, Lock)

\* t goes on after its operation in program p, unless that was the last.
GoOn(t, p) ==
    IF pc[t] = Len(Code[p]) THEN End(t)
    ELSE LET op == Now(t) IN
         /\ prog' = [prog EXCEPT ![t] = p]
         /\ pc' = [pc EXCEPT ![t] = @ + 1]
         /\ mode' = IF op.lock \notin Lock THEN mode
                    ELSE [mode EXCEPT ![t][op.lock] =
                             IF Keeps(op) THEN Mode(op) ELSE "none"]
         /\ Leave(t, IF Keeps(op) THEN {} ELSE {op.lock})

\* The program in which t goes on behind its match on the role, if in any.
Arm(t) ==
    CASE role = "Leader" -> {prog[t]}
      [] role = "Follower" /\ prog[t] = "LeaderRound" /\ pc[t] = 2 -> {"FollowerRound"}
      [] OTHER -> {}

-----------------------------------------------------------------------------
Init ==
    /\ prog = [t \in Task |-> "idle"]
    /\ pc = [t \in Task |-> 1]
    /\ mode = [t \in Task |-> [l \in Lock |-> "none"]]
    /\ queued = {}
    /\ before = [t \in Task |-> {}]
    /\ role = "Follower"

Spawn(t, p) ==
    /\ ~Running(t)
    /\ prog' = [prog EXCEPT ![t] = p]
    /\ UNCHANGED <<pc, locks, role>>

SpawnHandler == \E p \in Handlers(role) : Spawn(senator, p)

SpawnWorker ==
    \/ \E t \in Changes : Spawn(t, "LeaderRound")
    \/ \E t \in Messages, p \in {"RequestState", "ApplyCerts", "ApplyChallenge"} :
          Spawn(t, p)
    \/ \E t \in Watches, p \in {"IngressApplied", "PodChanged"} : Spawn(t, p)
    \/ \E t \in Clients, p \in {"Handshake", "CallProxy"} : Spawn(t, p)
    \/ \E t \in Sends, p \in {"SendMsg", "AddPeer"} : Spawn(t, p)

\* A lock that is free, or to which the turn of t has come, is taken.
Take(t) ==
    LET op == Now(t) IN
    /\ Running(t) /\ Takes(op)
    /\ IF t \in queued THEN before[t] = {} ELSE Ahead(t) = {}
    /\ \/ op # Match /\ GoOn(t, prog[t])
       \/ op = Match /\ \E p \in Arm(t) : GoOn(t, p)
       \/ op = Match /\ Arm(t) = {} /\ End(t)
    /\ role' = IF op = Assign("role") THEN Becomes(prog[t]) ELSE role

\* A guard is given back, or a call returns.
Pass(t, do) ==
    /\ Running(t) /\ Now(t).do = do
    /\ GoOn(t, prog[t])
    /\ UNCHANGED role

Jump(t) ==
    /\ prog[t] = "LeaderRound" /\ t \notin queued
    /\ \E j \in Jumps : pc[t] = j[1] /\ pc' = [pc EXCEPT ![t] = j[2]]
    /\ UNCHANGED <<prog, locks, role>>

\* A message is sent; a request for the state is of a later term; a request
\* was for a challenge or a health check; a round ends with an error or panics.
Return(t) ==
    /\ \/ prog[t] \in {"Vote", "FollowerVote", "SendMsg", "LeaderRound"}
          /\ Now(t).do \in {"call", "exchange"}
       \/ prog[t] \in {"CallProxy", "RequestState"} /\ pc[t] = 2 /\ t \notin queued
    /\ End(t)
    /\ UNCHANGED role

\* The timer of a candidate or leader drops its handler.
Cancel ==
    /\ prog[senator] \in Timed
    /\ End(senator)
    /\ UNCHANGED role

Step(t) == Take(t) \/ Pass(t, "free") \/ Pass(t, "call")

Next ==
    \/ SpawnHandler \/ SpawnWorker \/ Cancel
    \/ \E t \in Task : Wait(t) \/ Step(t) \/ Pass(t, "exchange") \/ Jump(t) \/ Return(t)

Spec == Init /\ [][Next]_vars
=============================================================================
