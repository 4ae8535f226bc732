-------------------------- MODULE PodLocksPrograms --------------------------
(* What the proofs need to know of the programs of module PodLocks: which  *)
(* locks each holds where (Kept), and in which order it asks for them.     *)
(* Behind the last lemmas of this module Code is opaque.                   *)
EXTENDS PodLocksProperties, TLAPS

Do == {"read", "write", "match", "glance", "assign", "free", "call", "exchange"}

\* The order in which all programs but the vote take their locks.
Rank ==
    [generator |-> 1, role |-> 2, backends |-> 3, subscribers |-> 4, certs |-> 5,
     challenges |-> 6, term |-> 7, peers |-> 8]

\* The programs that keep the role.
RoleKeepers ==
    {"Vote", "FollowerVote", "SendMsg", "LeaderRound", "FollowerRound", "RequestState"}

\* The locks held after op by whom held kept before it.
After(op, kept) == IF Keeps(op) THEN kept \cup {op.lock} ELSE kept \ {op.lock}

\* The vote takes role while it holds term.
AgainstOrder(p, op, l) ==
    p \in {"Vote", "FollowerVote"} /\ l = "term" /\ op.lock = "role"

\* What holds of an operation op of program p, that starts with the locks kept.
Sound(p, op, kept) ==
    /\ op.do \in Do
    /\ op.do \in {"call", "exchange"} => op.lock = "network"
    /\ op.do \notin {"call", "exchange"} => op.lock \in Lock
    /\ op.do = "match" => op = Match
    /\ Takes(op) => \A l \in kept : Rank[l] < Rank[op.lock] \/ AgainstOrder(p, op, l)
    /\ Takes(op) => op.lock \notin kept
    /\ op.lock = "role" /\ Mode(op) = "write" /\ Takes(op) => p \in SenatorCode
    /\ op.lock = "role" /\ Keeps(op) /\ p \in {"LeaderRound", "RequestState"} => op = Match
    /\ op.lock = "generator" /\ Takes(op) => Mode(op) = "write"
    /\ "role" \in kept => p \in RoleKeepers
    /\ "role" \in kept /\ p = "SendMsg" /\ Takes(op) => op.lock = "peers"

SoundCode(p) ==
    /\ Len(Code[p]) \in Nat \ {0}
    /\ Kept(p, 1) = {}
    /\ \A i \in 1..Len(Code[p]) : Sound(p, Code[p][i], Kept(p, i))
    /\ \A i \in 1..Len(Code[p]) :
          i < Len(Code[p]) => Kept(p, i + 1) = After(Code[p][i], Kept(p, i))

\* The vote.
LEMMA VoteSound ==
    ASSUME NEW p \in {"Vote", "FollowerVote"}
    PROVE  SoundCode(p)
<1> DEFINE P == Code[p]
           K(i) == Kept(p, i)
<1>1. Len(P) = 8
  BY DEF Code, Vote, SendMsg
<1>2. /\ P[1] = Write("term") /\ P[2] = Assign("role") /\ P[3] = Read("role")
      /\ P[4] = Read("peers") /\ P[5] = Call /\ P[6] = Free("peers")
      /\ P[7] = Write("peers") /\ P[8] = Call
  BY DEF Code, Vote, SendMsg
<1>3. /\ K(1) = {} /\ K(2) = {"term"} /\ K(3) = {"term"} /\ K(4) = {"term", "role"}
      /\ K(5) = {"term", "role", "peers"} /\ K(6) = {"term", "role", "peers"}
      /\ K(7) = {"term", "role"} /\ K(8) = {"term", "role", "peers"}
  BY DEF Kept, VoteKeeps
<1>4. p \in SenatorCode /\ p \in RoleKeepers /\ p \notin {"LeaderRound", "RequestState", "SendMsg"}
  BY DEF SenatorCode, RoleKeepers
<1> HIDE DEF P, K
<1> USE DEF Write, Assign, Read, Call, Free, Op
<1>5. /\ Sound(p, P[1], K(1)) /\ Sound(p, P[2], K(2)) /\ Sound(p, P[3], K(3))
      /\ Sound(p, P[4], K(4)) /\ Sound(p, P[5], K(5)) /\ Sound(p, P[6], K(6))
      /\ Sound(p, P[7], K(7)) /\ Sound(p, P[8], K(8))
  BY <1>2, <1>3, <1>4
     DEF Sound, Do, Rank, AgainstOrder, Takes, Keeps, Mode, Lock, Match
<1>6. /\ K(2) = After(P[1], K(1)) /\ K(3) = After(P[2], K(2))
      /\ K(4) = After(P[3], K(3)) /\ K(5) = After(P[4], K(4))
      /\ K(6) = After(P[5], K(5)) /\ K(7) = After(P[6], K(6))
      /\ K(8) = After(P[7], K(7))
  BY <1>2, <1>3 DEF After, Keeps
<1>7. ASSUME NEW i \in 1..8 PROVE Sound(p, P[i], K(i))
  BY <1>5
<1>8. ASSUME NEW i \in 1..8, i < 8 PROVE K(i + 1) = After(P[i], K(i))
  BY <1>6, <1>8
<1>9. QED
  BY <1>1, <1>3, <1>7, <1>8 DEF SoundCode, P, K

\* A message.
LEMMA SendSound ==
    SoundCode("SendMsg")
<1> DEFINE P == Code["SendMsg"]
           K(i) == Kept("SendMsg", i)
<1>1. Len(P) = 6
  BY DEF Code, SendMsg
<1>2. /\ P[1] = Read("role") /\ P[2] = Read("peers") /\ P[3] = Call
      /\ P[4] = Free("peers") /\ P[5] = Write("peers") /\ P[6] = Call
  BY DEF Code, SendMsg
<1>3. /\ K(1) = {} /\ K(2) = {"role"} /\ K(3) = {"role", "peers"}
      /\ K(4) = {"role", "peers"} /\ K(5) = {"role"} /\ K(6) = {"role", "peers"}
  BY DEF Kept, SendKeeps
<1>4. "SendMsg" \in RoleKeepers
  BY DEF SenatorCode, RoleKeepers
<1> HIDE DEF P, K
<1> USE DEF Write, Read, Call, Free, Op
<1>5. /\ Sound("SendMsg", P[1], K(1)) /\ Sound("SendMsg", P[2], K(2))
      /\ Sound("SendMsg", P[3], K(3)) /\ Sound("SendMsg", P[4], K(4))
      /\ Sound("SendMsg", P[5], K(5)) /\ Sound("SendMsg", P[6], K(6))
  BY <1>2, <1>3, <1>4
     DEF Sound, Do, Rank, AgainstOrder, Takes, Keeps, Mode, Lock, Match
<1>6. /\ K(2) = After(P[1], K(1)) /\ K(3) = After(P[2], K(2))
      /\ K(4) = After(P[3], K(3)) /\ K(5) = After(P[4], K(4))
      /\ K(6) = After(P[5], K(5))
  BY <1>2, <1>3 DEF After, Keeps
<1>7. ASSUME NEW i \in 1..6 PROVE Sound("SendMsg", P[i], K(i))
  BY <1>5
<1>8. ASSUME NEW i \in 1..6, i < 6 PROVE K(i + 1) = After(P[i], K(i))
  BY <1>6, <1>8
<1>9. QED
  BY <1>1, <1>3, <1>7, <1>8 DEF SoundCode, P, K

\* A round of a leader.
LEMMA LeaderRoundSound ==
    SoundCode("LeaderRound")
<1> DEFINE P == Code["LeaderRound"]
           K(i) == Kept("LeaderRound", i)
<1>1. Len(P) = 22
  BY DEF Code, LeaderRound, ShareState,
         CheckForNewCertificates, Create, PrepareChallenge, ApplyChallenge, Broadcast
<1>2. /\ P[1] = Write("generator") /\ P[2] = Match /\ P[3] = Call
      /\ P[4] = Assign("certs") /\ P[5] = Free("role") /\ P[6] = Read("backends")
      /\ P[7] = Write("certs") /\ P[8] = Assign("challenges") /\ P[9] = Glance("term")
      /\ P[10] = Glance("peers") /\ P[11] = Exchange /\ P[12] = Call
      /\ P[13] = Free("certs") /\ P[14] = Free("backends") /\ P[15] = Match
      /\ P[16] = Read("certs") /\ P[17] = Glance("term") /\ P[18] = Glance("peers")
      /\ P[19] = Free("certs") /\ P[20] = Read("challenges") /\ P[21] = Glance("term")
      /\ P[22] = Glance("peers")
  BY DEF Code, LeaderRound, ShareState,
         CheckForNewCertificates, Create, PrepareChallenge, ApplyChallenge, Broadcast
<1>3. /\ K(1) = {} /\ K(2) = {"generator"} /\ K(3) = {"generator", "role"}
      /\ K(4) = {"generator", "role"} /\ K(5) = {"generator", "role"}
      /\ K(6) = {"generator"} /\ K(7) = {"generator", "backends"}
      /\ K(8) = {"generator", "backends", "certs"}
      /\ K(9) = {"generator", "backends", "certs"}
      /\ K(10) = {"generator", "backends", "certs"}
      /\ K(11) = {"generator", "backends", "certs"}
      /\ K(12) = {"generator", "backends", "certs"}
      /\ K(13) = {"generator", "backends", "certs"} /\ K(14) = {"generator", "backends"}
      /\ K(15) = {"generator"} /\ K(16) = {"generator", "role"}
      /\ K(17) = {"generator", "role", "certs"}
      /\ K(18) = {"generator", "role", "certs"}
      /\ K(19) = {"generator", "role", "certs"} /\ K(20) = {"generator", "role"}
      /\ K(21) = {"generator", "role", "challenges"}
      /\ K(22) = {"generator", "role", "challenges"}
  BY DEF Kept, LeaderKeeps
<1>4. "LeaderRound" \in RoleKeepers
  BY DEF SenatorCode, RoleKeepers
<1> HIDE DEF P, K
<1> USE DEF Write, Assign, Read, Glance, Match, Call, Exchange, Free, Op
<1>5. /\ Sound("LeaderRound", P[1], K(1)) /\ Sound("LeaderRound", P[2], K(2))
      /\ Sound("LeaderRound", P[3], K(3)) /\ Sound("LeaderRound", P[4], K(4))
      /\ Sound("LeaderRound", P[5], K(5)) /\ Sound("LeaderRound", P[6], K(6))
      /\ Sound("LeaderRound", P[7], K(7)) /\ Sound("LeaderRound", P[8], K(8))
      /\ Sound("LeaderRound", P[9], K(9)) /\ Sound("LeaderRound", P[10], K(10))
      /\ Sound("LeaderRound", P[11], K(11)) /\ Sound("LeaderRound", P[12], K(12))
      /\ Sound("LeaderRound", P[13], K(13)) /\ Sound("LeaderRound", P[14], K(14))
      /\ Sound("LeaderRound", P[15], K(15)) /\ Sound("LeaderRound", P[16], K(16))
      /\ Sound("LeaderRound", P[17], K(17)) /\ Sound("LeaderRound", P[18], K(18))
      /\ Sound("LeaderRound", P[19], K(19)) /\ Sound("LeaderRound", P[20], K(20))
      /\ Sound("LeaderRound", P[21], K(21)) /\ Sound("LeaderRound", P[22], K(22))
  BY <1>2, <1>3, <1>4
     DEF Sound, Do, Rank, AgainstOrder, Takes, Keeps, Mode, Lock
<1>6. /\ K(2) = After(P[1], K(1)) /\ K(3) = After(P[2], K(2))
      /\ K(4) = After(P[3], K(3)) /\ K(5) = After(P[4], K(4))
      /\ K(6) = After(P[5], K(5)) /\ K(7) = After(P[6], K(6))
      /\ K(8) = After(P[7], K(7)) /\ K(9) = After(P[8], K(8))
      /\ K(10) = After(P[9], K(9)) /\ K(11) = After(P[10], K(10))
      /\ K(12) = After(P[11], K(11)) /\ K(13) = After(P[12], K(12))
      /\ K(14) = After(P[13], K(13)) /\ K(15) = After(P[14], K(14))
      /\ K(16) = After(P[15], K(15)) /\ K(17) = After(P[16], K(16))
      /\ K(18) = After(P[17], K(17)) /\ K(19) = After(P[18], K(18))
      /\ K(20) = After(P[19], K(19)) /\ K(21) = After(P[20], K(20))
      /\ K(22) = After(P[21], K(21))
  BY <1>2, <1>3 DEF After, Keeps
<1>7. ASSUME NEW i \in 1..22 PROVE Sound("LeaderRound", P[i], K(i))
  BY <1>5
<1>8. ASSUME NEW i \in 1..22, i < 22 PROVE K(i + 1) = After(P[i], K(i))
  BY <1>6, <1>8
<1>9. QED
  BY <1>1, <1>3, <1>7, <1>8 DEF SoundCode, P, K

\* The answer to a request for the state.
LEMMA RequestSound ==
    SoundCode("RequestState")
<1> DEFINE P == Code["RequestState"]
           K(i) == Kept("RequestState", i)
<1>1. Len(P) = 9
  BY DEF Code, ShareState, Broadcast
<1>2. /\ P[1] = Glance("term") /\ P[2] = Match /\ P[3] = Read("certs")
      /\ P[4] = Glance("term") /\ P[5] = Glance("peers") /\ P[6] = Free("certs")
      /\ P[7] = Read("challenges") /\ P[8] = Glance("term") /\ P[9] = Glance("peers")
  BY DEF Code, ShareState, Broadcast
<1>3. /\ K(1) = {} /\ K(2) = {} /\ K(3) = {"role"} /\ K(4) = {"role", "certs"}
      /\ K(5) = {"role", "certs"} /\ K(6) = {"role", "certs"} /\ K(7) = {"role"}
      /\ K(8) = {"role", "challenges"} /\ K(9) = {"role", "challenges"}
  BY DEF Kept, RequestKeeps
<1>4. "RequestState" \in RoleKeepers
  BY DEF SenatorCode, RoleKeepers
<1> HIDE DEF P, K
<1> USE DEF Read, Glance, Match, Free, Op
<1>5. /\ Sound("RequestState", P[1], K(1)) /\ Sound("RequestState", P[2], K(2))
      /\ Sound("RequestState", P[3], K(3)) /\ Sound("RequestState", P[4], K(4))
      /\ Sound("RequestState", P[5], K(5)) /\ Sound("RequestState", P[6], K(6))
      /\ Sound("RequestState", P[7], K(7)) /\ Sound("RequestState", P[8], K(8))
      /\ Sound("RequestState", P[9], K(9))
  BY <1>2, <1>3, <1>4
     DEF Sound, Do, Rank, AgainstOrder, Takes, Keeps, Mode, Lock
<1>6. /\ K(2) = After(P[1], K(1)) /\ K(3) = After(P[2], K(2))
      /\ K(4) = After(P[3], K(3)) /\ K(5) = After(P[4], K(4))
      /\ K(6) = After(P[5], K(5)) /\ K(7) = After(P[6], K(6))
      /\ K(8) = After(P[7], K(7)) /\ K(9) = After(P[8], K(8))
  BY <1>2, <1>3 DEF After, Keeps
<1>7. ASSUME NEW i \in 1..9 PROVE Sound("RequestState", P[i], K(i))
  BY <1>5
<1>8. ASSUME NEW i \in 1..9, i < 9 PROVE K(i + 1) = After(P[i], K(i))
  BY <1>6, <1>8
<1>9. QED
  BY <1>1, <1>3, <1>7, <1>8 DEF SoundCode, P, K

\* The request of a follower.
LEMMA FollowerRoundSound ==
    SoundCode("FollowerRound")
<1> DEFINE P == Code["FollowerRound"]
           K(i) == Kept("FollowerRound", i)
<1>1. Len(P) = 4
  BY DEF Code, FollowerRound, Broadcast
<1>2. /\ P[1] = Write("generator") /\ P[2] = Match /\ P[3] = Glance("term")
      /\ P[4] = Glance("peers")
  BY DEF Code, FollowerRound, Broadcast
<1>3. /\ K(1) = {} /\ K(2) = {"generator"} /\ K(3) = {"generator", "role"}
      /\ K(4) = {"generator", "role"}
  BY DEF Kept, FollowerKeeps
<1>4. "FollowerRound" \in RoleKeepers
  BY DEF SenatorCode, RoleKeepers
<1> HIDE DEF P, K
<1> USE DEF Write, Glance, Match, Op
<1>5. /\ Sound("FollowerRound", P[1], K(1)) /\ Sound("FollowerRound", P[2], K(2))
      /\ Sound("FollowerRound", P[3], K(3)) /\ Sound("FollowerRound", P[4], K(4))
  BY <1>2, <1>3, <1>4
     DEF Sound, Do, Rank, AgainstOrder, Takes, Keeps, Mode, Lock
<1>6. /\ K(2) = After(P[1], K(1)) /\ K(3) = After(P[2], K(2))
      /\ K(4) = After(P[3], K(3))
  BY <1>2, <1>3 DEF After, Keeps
<1>7. ASSUME NEW i \in 1..4 PROVE Sound("FollowerRound", P[i], K(i))
  BY <1>5
<1>8. ASSUME NEW i \in 1..4, i < 4 PROVE K(i + 1) = After(P[i], K(i))
  BY <1>6, <1>8
<1>9. QED
  BY <1>1, <1>3, <1>7, <1>8 DEF SoundCode, P, K

\* A new peer.
LEMMA AddPeerSound ==
    SoundCode("AddPeer")
<1> DEFINE P == Code["AddPeer"]
           K(i) == Kept("AddPeer", i)
<1>1. Len(P) = 2
  BY DEF Code, AddPeer
<1>2. /\ P[1] = Write("peers") /\ P[2] = Call
  BY DEF Code, AddPeer
<1>3. /\ K(1) = {} /\ K(2) = {"peers"}
  BY DEF Kept
<1>4. "AddPeer" \notin {"LeaderRound", "RequestState", "SendMsg"}
  BY DEF SenatorCode, RoleKeepers
<1> HIDE DEF P, K
<1> USE DEF Write, Call, Op
<1>5. /\ Sound("AddPeer", P[1], K(1)) /\ Sound("AddPeer", P[2], K(2))
  BY <1>2, <1>3, <1>4
     DEF Sound, Do, Rank, AgainstOrder, Takes, Keeps, Mode, Lock, Match
<1>6. /\ K(2) = After(P[1], K(1))
  BY <1>2, <1>3 DEF After, Keeps
<1>7. ASSUME NEW i \in 1..2 PROVE Sound("AddPeer", P[i], K(i))
  BY <1>5
<1>8. ASSUME NEW i \in 1..2, i < 2 PROVE K(i + 1) = After(P[i], K(i))
  BY <1>6, <1>8
<1>9. QED
  BY <1>1, <1>3, <1>7, <1>8 DEF SoundCode, P, K

\* A new backend.
LEMMA IngressSound ==
    SoundCode("IngressApplied")
<1> DEFINE P == Code["IngressApplied"]
           K(i) == Kept("IngressApplied", i)
<1>1. Len(P) = 2
  BY DEF Code, IngressApplied, NotifySubscribers
<1>2. /\ P[1] = Write("backends") /\ P[2] = Assign("subscribers")
  BY DEF Code, IngressApplied, NotifySubscribers
<1>3. /\ K(1) = {} /\ K(2) = {"backends"}
  BY DEF Kept
<1>4. "IngressApplied" \notin {"LeaderRound", "RequestState", "SendMsg"}
  BY DEF SenatorCode, RoleKeepers
<1> HIDE DEF P, K
<1> USE DEF Write, Assign, Op
<1>5. /\ Sound("IngressApplied", P[1], K(1)) /\ Sound("IngressApplied", P[2], K(2))
  BY <1>2, <1>3, <1>4
     DEF Sound, Do, Rank, AgainstOrder, Takes, Keeps, Mode, Lock, Match
<1>6. /\ K(2) = After(P[1], K(1))
  BY <1>2, <1>3 DEF After, Keeps
<1>7. ASSUME NEW i \in 1..2 PROVE Sound("IngressApplied", P[i], K(i))
  BY <1>5
<1>8. ASSUME NEW i \in 1..2, i < 2 PROVE K(i + 1) = After(P[i], K(i))
  BY <1>6, <1>8
<1>9. QED
  BY <1>1, <1>3, <1>7, <1>8 DEF SoundCode, P, K

Momentary ==
    {"VoteRefused", "Obey", "StepDown", "Stand", "Campaign", "Win", "Beat", "ApplyCerts",
     "ApplyChallenge", "PodChanged", "Handshake", "CallProxy"}

\* The programs that keep no lock.
LEMMA MomentarySound ==
    ASSUME NEW p \in Momentary
    PROVE  SoundCode(p)
<1> DEFINE P == Code[p]
           Brief(op) ==
              /\ op.do \in {"glance", "assign"} /\ op.lock \in Lock \ {"generator"}
              /\ op.do = "assign" /\ op.lock = "role" => p \in SenatorCode
<1>1. Len(P) \in 1..3
  BY DEF Momentary, Code, StepDown, Campaign, Win, Broadcast, ApplyChallenge,
         NotifySubscribers, ResolveServerConfig, CallProxy, HandleIfChallenge, GetBackend
<1>2. \A i \in 1..Len(P) : Brief(P[i])
  <2> USE DEF Lock, Glance, Assign, Op, Code
  <2>1. CASE p \in {"VoteRefused", "Obey", "Stand", "ApplyCerts"}
    BY <2>1 DEF SenatorCode
  <2>2. CASE p \in {"ApplyChallenge", "PodChanged", "Handshake"}
    BY <2>2 DEF ApplyChallenge, NotifySubscribers, ResolveServerConfig
  <2>3. CASE p = "StepDown"
    BY <2>3 DEF StepDown, SenatorCode
  <2>4. CASE p = "Win"
    BY <2>4 DEF Win, SenatorCode
  <2>5. CASE p = "Beat"
    BY <2>5 DEF Broadcast
  <2>6. CASE p = "Campaign"
    <3>1. /\ Len(P) = 3 /\ P[1] = Assign("term") /\ P[2] = Glance("term")
          /\ P[3] = Glance("peers")
      BY <2>6 DEF Campaign, Broadcast
    <3> HIDE DEF P, Code
    <3>2. QED
      BY <3>1
  <2>7. CASE p = "CallProxy"
    <3>1. /\ Len(P) = 2 /\ P[1] = Glance("challenges") /\ P[2] = Glance("backends")
      BY <2>7 DEF CallProxy, HandleIfChallenge, GetBackend
    <3> HIDE DEF P, Code
    <3>2. QED
      BY <3>1
  <2>8. QED
    BY <2>1, <2>2, <2>3, <2>4, <2>5, <2>6, <2>7 DEF Momentary
<1>3. \A i : Kept(p, i) = {}
  BY DEF Kept, Momentary
<1> HIDE DEF P
<1>4. ASSUME NEW i \in 1..Len(P) PROVE Sound(p, P[i], {})
  BY <1>2 DEF Sound, Do, Takes, Keeps, Mode
<1>5. ASSUME NEW i \in 1..Len(P) PROVE {} = After(P[i], {})
  BY <1>2 DEF After, Keeps
<1>6. ASSUME NEW i \in 1..Len(P), i < Len(P)
      PROVE  Kept(p, i + 1) = After(P[i], Kept(p, i))
  BY <1>1, <1>3, <1>5, <1>6
<1>7. Len(P) \in Nat \ {0} /\ Kept(p, 1) = {}
  BY <1>1, <1>3
<1>8. ASSUME NEW i \in 1..Len(P) PROVE Sound(p, P[i], Kept(p, i))
  BY <1>3, <1>4
<1>9. QED
  BY <1>6, <1>7, <1>8 DEF SoundCode, P

\* Every program is sound.
LEMMA AllSound == \A p \in DOMAIN Code : SoundCode(p)
<1>1. DOMAIN Code =
         {"Vote", "FollowerVote", "SendMsg", "LeaderRound", "RequestState", "FollowerRound",
          "AddPeer", "IngressApplied"} \cup Momentary
  BY DEF Code, Momentary
<1>2. QED
  BY <1>1, VoteSound, SendSound, LeaderRoundSound, RequestSound, FollowerRoundSound,
     AddPeerSound, IngressSound, MomentarySound

\* What the operations of a program, and a task that stands there, may do.
LEMMA OpSound ==
    ASSUME NEW p \in DOMAIN Code, NEW i \in 1..Len(Code[p])
    PROVE  /\ Sound(p, Code[p][i], Kept(p, i))
           /\ i # Len(Code[p]) =>
                 /\ i + 1 \in 1..Len(Code[p])
                 /\ Kept(p, i + 1) = After(Code[p][i], Kept(p, i))
<1>1. SoundCode(p)
  BY AllSound
<1>2. i # Len(Code[p]) => i < Len(Code[p]) /\ i + 1 \in 1..Len(Code[p])
  BY <1>1 DEF SoundCode
<1>3. QED
  BY <1>1, <1>2 DEF SoundCode

\* Every program can start.
LEMMA StartSound ==
    ASSUME NEW p \in DOMAIN Code
    PROVE  1 \in 1..Len(Code[p]) /\ Kept(p, 1) = {}
  BY AllSound DEF SoundCode

\* A round that turns out to be a follower's goes on as such.
LEMMA ArmSound ==
    /\ Len(Code["FollowerRound"]) = 4
    /\ Kept("FollowerRound", 3) = After(Match, Kept("LeaderRound", 2))
<1>1. Len(Code["FollowerRound"]) = 4
  BY DEF Code, FollowerRound, Broadcast
<1>2. QED
  BY <1>1 DEF Kept, FollowerKeeps, LeaderKeeps, After, Keeps, Match, Op

\* A jump changes nothing in the locks held.
LEMMA JumpSound ==
    ASSUME NEW j \in Jumps
    PROVE  /\ j[2] \in 1..Len(Code["LeaderRound"])
           /\ Kept("LeaderRound", j[2]) = Kept("LeaderRound", j[1])
<1>1. Len(Code["LeaderRound"]) = 22
  BY DEF Code, LeaderRound, ShareState,
         CheckForNewCertificates, Create, PrepareChallenge, ApplyChallenge, Broadcast
<1>2. QED
  BY <1>1 DEF Jumps, Kept, LeaderKeeps

\* What else a task has that holds a lock requests, handshakes or the watch ask
\* for, or what it asks for.
LEMMA ServedKeepers ==
    ASSUME NEW p \in DOMAIN Code, NEW i \in 1..Len(Code[p]),
           NEW l \in Served, l \in Kept(p, i)
    PROVE  /\ l # "subscribers"
           /\ \/ p = "LeaderRound" /\ "generator" \in Kept(p, i)
              \/ p = "RequestState" /\ "role" \in Kept(p, i)
              \/ Code[p][i] = Assign("subscribers")
<1>1. CASE p \in {"Vote", "FollowerVote"}
  <2>1. Len(Code[p]) = 8
    BY <1>1 DEF Code, Vote, SendMsg
  <2>2. \A k \in 1..8 : VoteKeeps[k] \subseteq {"term", "role", "peers"}
    BY DEF VoteKeeps
  <2>3. QED
    BY <1>1, <2>1, <2>2 DEF Kept, Served
<1>2. CASE p = "SendMsg"
  <2>1. Len(Code[p]) = 6
    BY <1>2 DEF Code, SendMsg
  <2>2. \A k \in 1..6 : SendKeeps[k] \subseteq {"role", "peers"}
    BY DEF SendKeeps
  <2>3. QED
    BY <1>2, <2>1, <2>2 DEF Kept, Served
<1>3. CASE p = "LeaderRound"
  <2>1. Len(Code[p]) = 22
    BY <1>3 DEF Code, LeaderRound, ShareState, CheckForNewCertificates, Create,
       PrepareChallenge, ApplyChallenge, Broadcast
  <2>2. \A k \in 1..22 :
           /\ k = 1 \/ "generator" \in LeaderKeeps[k]
           /\ LeaderKeeps[1] = {} /\ "subscribers" \notin LeaderKeeps[k]
    BY DEF LeaderKeeps
  <2>3. QED
    BY <1>3, <2>1, <2>2 DEF Kept
<1>4. CASE p = "RequestState"
  <2>1. Len(Code[p]) = 9
    BY <1>4 DEF Code, ShareState, Broadcast
  <2>2. \A k \in 1..9 :
           /\ RequestKeeps[k] = {} \/ "role" \in RequestKeeps[k]
           /\ "subscribers" \notin RequestKeeps[k]
    BY DEF RequestKeeps
  <2>3. QED
    BY <1>4, <2>1, <2>2 DEF Kept
<1>5. CASE p = "FollowerRound"
  <2>1. Len(Code[p]) = 4
    BY <1>5 DEF Code, FollowerRound, Broadcast
  <2>2. \A k \in 1..4 : FollowerKeeps[k] \subseteq {"generator", "role"}
    BY DEF FollowerKeeps
  <2>3. QED
    BY <1>5, <2>1, <2>2 DEF Kept, Served
<1>6. CASE p = "IngressApplied"
  <2>1. Code[p][2] = Assign("subscribers")
    BY <1>6 DEF Code, IngressApplied, NotifySubscribers
  <2>2. QED
    BY <1>6, <2>1 DEF Kept, Served
<1>7. CASE p \notin {"Vote", "FollowerVote", "SendMsg", "LeaderRound", "RequestState",
                    "FollowerRound", "IngressApplied"}
  BY <1>7 DEF Kept, Served
<1>8. QED
  BY <1>1, <1>2, <1>3, <1>4, <1>5, <1>6, <1>7

\* A follower that keeps the role keeps its generator.
LEMMA RequestKeepsGenerator ==
    ASSUME NEW i \in 1..Len(Code["FollowerRound"]), "role" \in Kept("FollowerRound", i)
    PROVE  "generator" \in Kept("FollowerRound", i)
<1>1. Len(Code["FollowerRound"]) = 4
  BY DEF Code, FollowerRound, Broadcast
<1>2. \A k \in 1..4 : "role" \in FollowerKeeps[k] => "generator" \in FollowerKeeps[k]
  BY DEF FollowerKeeps
<1>3. QED
  BY <1>1, <1>2 DEF Kept

\* The senator and the other tasks run different programs.
LEMMA Programs ==
    /\ "idle" \notin DOMAIN Code
    /\ {"LeaderRound", "FollowerRound", "RequestState", "ApplyCerts", "ApplyChallenge",
        "IngressApplied", "PodChanged", "Handshake", "CallProxy", "SendMsg", "AddPeer"}
          \subseteq DOMAIN Code \ SenatorCode
    /\ \A r \in Role : Handlers(r) \subseteq DOMAIN Code \cap SenatorCode
    /\ \A r \in Role : "FollowerVote" \in Handlers(r) => r = "Follower"
<1>1. /\ "idle" \notin DOMAIN Code
      /\ {"LeaderRound", "FollowerRound", "RequestState", "ApplyCerts", "ApplyChallenge",
          "IngressApplied", "PodChanged", "Handshake", "CallProxy", "SendMsg", "AddPeer"}
            \subseteq DOMAIN Code \ SenatorCode
      /\ SenatorCode \subseteq DOMAIN Code
  BY DEF Code, SenatorCode
<1>2. ASSUME NEW r \in Role
      PROVE  /\ Handlers(r) \subseteq SenatorCode
             /\ "FollowerVote" \in Handlers(r) => r = "Follower"
  BY DEF Role, Handlers, Timed, SenatorCode
<1>3. QED
  BY <1>1, <1>2
=============================================================================
