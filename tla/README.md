# Verification of drawbridge-ingress

TLA+ models of the drawbridge ingress controller, checked with TLC and, for
the properties that matter most, proved with TLAPS for every size of cluster.
Source paths are relative to the repository.

## The system

Several pods of the ingress controller run in a Kubernetes cluster. They find
each other through the Kubernetes API, keep one TCP connection per pair, and
elect a leader; the leader obtains certificates from Let's Encrypt and shares
them, and the challenges of the authority, with the others.

| component | state | operations | talks to |
|---|---|---|---|
| `Senator` (`congress/src/senator.rs`, `states/*.rs`) | `role`, `term`, `voted_for`, `current_leader`, `next_timeout`, each behind a lock of its own; `votes_granted` of a candidacy | the three role loops, `handle_vote_request`, `broadcast_message`, listeners `on_role` and `on_message` | `RPC` (messages), `LeadershipSystem` (callbacks) |
| `RPCNetwork`, `Peer` (`congress/src/senator.rs`, `peer.rs`) | `peers`: node to connection and close channel; one reader task per connection; a queue of received messages | `add_peer`, `remove_peer`, `send_msg`, `recv_msg`, `members` | TCP, `Senator` |
| `LeadershipSystem` (`leadership_system.rs`) | the certificate generator, created by the first round as leader | `handle_change`, `share_state`, `prepare_challenge`, `add_peer`, `handle_connection`, the message listener | `Senator`, `CertGenerator`, `CertificateState` |
| `CertificateState` (`certificate_state.rs`) | `certs`, `challenges` | `apply_challenge`, `handle_if_challenge`, `resolve_server_config` | proxy, TLS |
| `CertGenerator` (`lets_encrypt.rs`) | account; the Kubernetes secrets of account and certificates | `check_for_new_certificates`, `get_certs`, `get_account` | ACME client, Kubernetes |
| ACME client (`letsencrypt/src`) | none beyond the order at the authority | `new_order`, `generate_certificate`, polling | the authority |
| `RoutingTable` (`kube_config_tracker.rs`) | backends per host, subscribers | two watches, `notify_subscribers`, `get_backend` | Kubernetes, `LeadershipSystem`, proxy |
| proxy (`proxy.rs`), `TlsAcceptor` (`tls_acceptor/src`) | none; a queue of handshakes | `call_proxy`, `poll_accept` | clients, `RoutingTable`, `CertificateState` |
| `main` (`main.rs`) | none | subscribes `handle_change` and `add_peer` to changes, spawns the servers | all of the above |

What makes the system hard, and the properties that make each part correct:

- **Election.** Messages are sent by one task per copy, so they are reordered
  and lost; the quorum is computed from the list of peers connected at the
  moment; the handlers of a candidate and of a leader run inside a `select!`
  and are dropped at whatever await they have reached when a timer fires.
  Correct means: one vote per node and term, a term split by short lists of
  peers only, nobody in office who never won or voted for another; and, where
  lists are full and locks are free, heartbeats only from winners, one leader
  per term, a deposed leader leaves office, a leader is heard.
- **Peer table.** Both nodes of a pair may dial; connections die on one side
  first; readers, senders and `add_peer` share one lock, which `add_peer` holds
  while it waits for another task. Correct means: no reader out of control, no
  wait that cannot end, no dead connection for ever, both nodes settle on one.
- **Certificates.** The role is read once and acted upon for minutes; state is
  replaced wholesale by messages; persisting comes last. Correct means: one
  generator at a time, nothing issued is lost, every node serves what was shared.
- **ACME.** Several request loops, with bounds that hold or do not. Correct
  means: an order is finalized only when its authorizations are valid, and a
  failure ends in an error.
- **Locks.** Some ten read-write locks per pod, fair, taken by the election,
  the rounds, the watch, the proxy and the handshakes, and held over messages to
  peers and over exchanges with the authority. Correct means: no circle of
  waiting tasks, and nobody who serves a client waits for the election.
- **Routing.** Events of two watches, told to subscribers under the lock of
  the table. Correct means: a change reaches the round that is to act on it.

`PROJECT.json` lists under `hazards` where in the code each of these bites.

## Modules

| module | what it is |
|---|---|
| `LeaderElection` | what the election promises, whoever knows whom: terms rise, votes are spent once, winners have more than half of the nodes they know, followed leaders have won |
| `Senator` | the election as `congress` implements it |
| `SenatorProperties` | its properties, fairness, and the refinement of `LeaderElection` |
| `SenatorInvariant` | the inductive invariant `IInv` |
| `SenatorProofs` | the theorems |
| `MCSenator` | three nodes for TLC |
| `PeerLinks` | what the peer table promises of connections: when one is used, refused, given up |
| `RPCNetwork` | the peer table, its readers, senders and lock |
| `RPCNetworkProperties` | its properties, inductive invariant `TableInv`, fairness, and the refinement of `PeerLinks` |
| `RPCNetworkProofs` | the theorems about its invariants |
| `RPCNetworkRefinement` | the theorem that it implements `PeerLinks` |
| `MCRPCNetwork` | two nodes and up to three connections for TLC |
| `CertificateStore` | what the certificate rounds of all nodes promise together |
| `Leadership` | certificates follow the leader: `LeadershipSystem`, `CertificateState`, `CertGenerator` on every node |
| `LeadershipProperties` | its properties, fairness, inductive invariant `LeadershipInv`, and the refinement of `CertificateStore` |
| `LeadershipProofs` | the theorems about its invariants |
| `LeadershipRefinement` | the theorem that it implements `CertificateStore` |
| `MCLeadership` | one or two nodes for TLC |
| `Issuance` | what ordering a certificate promises |
| `Acme` | one order at the authority: `generate_certificate` of `letsencrypt`, and how its challenges spread |
| `AcmeProperties` | its properties, fairness, inductive invariant `AcmeInv`, and the refinement of `Issuance` |
| `AcmeProofs` | the theorems |
| `MCAcme` | three nodes and two domains for TLC |
| `PodLocks` | the tasks of one pod and the locks they wait for |
| `PodLocksProperties` | its properties, fairness and inductive invariant `LocksInv` |
| `PodLocksPrograms` | lemmas about the programs, one operation at a time |
| `PodLocksProofs` | the theorems |
| `MCPodLocks` | a pod with a task of each kind for TLC |

How they fit together: `Senator` takes the peers that `members()` finds as any
set of `Views`, which is what `RPCNetwork` leaves of the table while connections
come and go. `Leadership` takes the election as roles that change and are
announced, with `Rivals` for what `Senator` allows, and an exchange with the
authority as one step, `Issue` or `IssueFails`, as `Issuance` promises and `Acme`
implements. `PodLocks` looks at one pod across all of them: there the operations
of the other modules are programs, and the awaits that the others take as
always granted are waits for each other. Four modules say what a part promises
without how: `LeaderElection`, `PeerLinks`, `CertificateStore` and `Issuance`; the
detailed module of each is shown to implement it, by TLC on the instance of a
run and by proof for all.

Definitions that begin with "Mutant" in their comment belong to no
specification: each is a plausible mistake in the definition below it, which
`PROJECT.json` pairs with the property that notices it.

### Senator

A node runs one task (`Senator::start`), and only this task writes the node's
fields, so a handler is one action although it awaits many locks. The variable
`at[n]` says where the task stands: at the top of `start` ("loop"), in the
`select!` of a role, before the vote count of a candidate ("tally") or before
the broadcast of a leader ("beat"). `start` is the only place where the role
decides what runs, and `Start...` are its three branches with the set-up of the
loop they enter.

The exception is `select!`. `Candidate::run` and `Leader::run` put the whole
receive loop in one branch and a timer in the other: when the timer fires, the
handler is dropped at the await it has reached, with the writes before it done
and those after it not. `Follower::run` handles messages in the body of its
branch, which nothing drops. The constant `Interrupts` names the awaits where a
run lets this happen:

- "leader": the lock of `current_leader`, in `TallyElected` and `CandidateHeartbeat`
- "role": the lock of `role`, in `CandidateHeartbeat`, `LeaderHeartbeat`, `VoteTorn`
- "vote": the lock of `voted_for`, in `CandidateHeartbeat`
- "send": `send_msg`, in `VoteCast`

An await suspends only if the lock is taken or the task has used up its turn
with the scheduler. `role` is the lock for which the first really happens:
`share_state` and `handle_change` keep a read guard of it, as the temporary of
a `match`, over their broadcasts and over the certificate requests. The safety
properties of run `views` and all theorems allow all four. What holds only while
the role lock is free is checked without it, in `liveness`, and `torn` shows
what becomes of it.

Messages are a set. A `VoteRequest` and a `VoteGranted` are delivered at most
once, in any order, or never; a heartbeat, which its sender repeats every 50 ms,
stays deliverable. `members()` answers, each time it is asked, with any of the
peer sets that `Views` permits: in `views` any part of the cluster, down to the
node alone, which is what a node knows when it starts (`candidate.rs:52`). Timers
are choices. `ballots`, `granted` and `elected` are history variables: no guard
reads them. `elected` records with each election the length of the list whose
majority was enough.

So the code does not promise one winner per term, and neither does
`LeaderElection`: a node that knows nobody elects itself. What it promises is that
nothing but short lists splits a term (`SplitNeedsShortLists`): the votes the two
winners needed fit beside each other in the cluster. That is the arithmetic of
`votes_needed` together with votes that are never counted twice. For winners that
know the whole cluster it comes to one per term, and `OneLeaderPerTerm` is
checked for that case. Two leaders of one term ignore each other's
heartbeats (`leader.rs:46`), so such a split lasts until some third node stands
in a later term; `RivalsAreDeposed` is about leaders of different terms.

Not in this model: user messages (`Custom`), which touch no field; the restart
of a node; waits between the locks themselves, which are the subject of
`PodLocks`. Liveness here is therefore that of an election whose locks are
eventually given.

### RPCNetwork

A connection `c` was dialled by `Dialler[c]` to `Acceptor[c]`; both ends call
`add_peer` on it. `peers[n]` is the hash map of node `n`, `adding[n][c]` how far
`add_peer(c)` has got there, `reader[n][c]` the task it spawns, `close[n][c]` the
one-shot channel kept in the map beside the connection ("armed"), used ("sent")
or dropped with the entry it stood in, and `sender[n]` one `send_msg`.

The lock of the map is not a variable: it is held across steps in two cases
only, which the state shows. A writer holds it while it waits for a reader to
acknowledge (`closing[n]`), and `send_msg` holds it for reading while it writes
("sending"). `Unlocked` and `NoWriter` are the conditions for writing and
reading. `send_msg` gives the lock back before `remove_peer` asks for it.

A connection is open at a node as long as some task or the table holds its
`Peer`; what the other end then sees is `Dead`. `Insert` is also what the branch
for a lower dialler does, since `Ok(())?` at `senator.rs:240` does not return.
`Cut` and `Restart` are the environment: a connection breaks, a container
restarts.

`PeerLinks` is what is left of this when lock, channels and tasks are hidden.
Each end of a connection is new, offered to the table, in use ("heard" or
"deaf", as a task reads it or not), leaving (out of the table, and read until
the task notices), or gone. `Life` in `RPCNetworkProperties` is the mapping. The
refinement says why a connection goes: for one by a higher dialler (`GiveWay`),
when one by another dialler is accepted, or because a message to that peer
found its connection dead (`FailToSend`). The last may hit a later connection
than the one that failed, since `remove_peer` is given the peer (`Drop`,
`senator.rs:161`), or none, if a timer drops the sender in between. It does not
say that a connection that is in use is read: the reader of a live connection may fail
(`GoDeaf`), and its entry then stays, deaf, until a write to it fails. That `Accept`
asks for another dialler, and not for a lower one, is the branch of
`senator.rs:240`.

`ReaderFails` also covers a message that cannot be decoded (`senator.rs:259`), on
the connections in `Unstable`: such bytes reach a reader when `SendDropped`, the
timer that drops the vote of a candidate or leader, falls between the two writes
of a message (`peer.rs:53`).

Bounded or left out: one sender per node (the second waits for the same lock
and does the same); a send that fails on a connection is one that finds it
dead; the bytes of messages; the check of `established_by`, true of both
callers.

### Leadership

`handle_change` is started by every new role and by every backend the watch
inserts. It queues for the generator mutex (`waiting[n]`, a Boolean, since
queued tasks are alike and another can always arrive), reads the role once, and
is from there on a *round*, whose awaits are its steps: `round[n].at` says
where it stands. A leader's round passes through `CertGenerator::create`
("account", "register", "load", "install") if there is no generator yet, then
through `check_for_new_certificates` ("generate" and "validate" for each host,
"persist"), then shares its state. Whatever ends a round early, an `Err` or a
panic, leads to "failed", which differs from "idle" only in telling that it
happened: the generator mutex and all guards come free in both.

Three guards are held over awaits, and it is on them that the properties rest.
They are read off from `round` and `sharing`: `RoleHeld` is the temporary of the
`match` in `handle_change` and `share_state`, which keeps the role of a leader
from changing; `BackendsHeld` and `CertsHeld` are the two locks at the top of
`check_for_new_certificates`, which keep the watch and `ApplyCerts` out of a
round. After `create` the role guard is given back, and nothing looks at the
role again before the round shares.

The election appears as roles that change and are announced. Any node may
stand, win and step down; `Rivals` says whether a node may win while an earlier
leader has not heard of it, as the election allows (`RivalsAreDeposed` is about
what becomes of them). Terms are left out: `RequestState` compares its term with
the receiver's, and `RequestIgnored` is always possible. That the role is
written a moment before it is announced is left out as well; the two are one
action. Messages are a set, delivered at most once, in any order or never.

The two Kubernetes secrets are `account` and `secret`. Creating one succeeds
only if there is none. A replace carries the resource version that was read:
`Write` marks the versions others have read as stale, which the API server
refuses (`Accepted`). `Failures` says whose calls may fail. With "kube" a failed
get looks like an absent secret (`.ok()`), and a create or replace that fails
panics, before or after it took effect (`CreatePanics`, `PersistPanics`). With
"acme" any order may end with an error, before or after the certificate was
issued. `issued` is what the authority has done.

`CertificateStore` is what the rounds of all nodes come to, without roles,
messages and rounds: an account is registered once and used by whoever orders,
certificates are issued to users of it only, what is served was issued, and the
secret is written over nothing or over the version the writer has read last.
`generator`, `certs` and `secret` are its `using`, `served` and `stored`, and
`Readers` are the rounds about to replace the version that is there. It does not
say that there is one writer, which `generators` refutes; it says what holds with
several.

Not in this model: challenges (module `Acme`; an exchange is one step here,
`Issue` or `IssueFails`), keys and expiry of certificates, the wait of other
tasks for the locks named above.

### Acme

`generate_certificate` is sequential, and `at` says at which request or sleep it
stands: the order is made and read ("order"); for each domain the challenge is
prepared ("prepare"), the node sleeps ("sleep"), tells the authority ("answer")
and asks for the authorization up to `MaxPolls` times ("poll"); the order is
finalized, polled ("await"), and the certificate fetched ("download"). The
domains are prepared in any order, which stands for the order of the
authority's list. `polls` is the loop variable of `new_order`; the loop of
`generate_certificate` has one that is never raised, hence no variable.

`PollPending` falls through after the last attempt, as the code does, and only
`FinalizeRefused` then ends the exchange: the authority refuses to finalize an
order that is not ready. `Prepare` happens whatever the status of the
authorization is, since the code does not look at it before.

`Us` serves a challenge at once; the other nodes get it in a message
(`ApplyChallenge`). `Wake` states what the sleep of six seconds is for: by its
end every node has the challenge but those in `Late`. It is the only place
where time enters the model, as a set of nodes about which the code is wrong;
a node that starts during an exchange is one of them. The authority is
external. It validates by asking any node (`Validate`), for the Service of the
cluster picks one, may be slow for ever, and may refuse a finalized order
(`Decide`). `RequestFails` covers failed requests, statuses other than success,
and answers that cannot be read, before or after they had their effect.

`Issuance` is what remains of this for whoever orders: challenges are published,
domains proven, a certificate issued, a result returned. `Ordering` in
`AcmeProperties` is the refinement mapping. A challenge is published when every
node that is not late serves it, the certificate exists when the order is valid,
and the result is the place where the exchange ended. `Issue` is not tied to the
result: a request to finalize that fails after its effect leaves an order that
becomes valid when `generate_certificate` has long returned an error, which is
why `IssueFails` of `Leadership` may or may not add to what was issued.

Not in this model: a `Validate` that fails for other reasons than the answer
(the authority tries again and then marks the domain as invalid), nonces and
signatures, two exchanges at once (each has tokens of its own, so they meet
only at the authority, which is `Leadership`), and the growth of `challenges`,
from which the code removes nothing.

### PodLocks

A task runs a *program*, the sequence of operations on locks and of calls that
the code makes from the moment it holds or asks for the first lock. `Read`,
`Write` and `Match` keep a guard until `Free` or the end of the program; `Glance`
and `Assign` give it back within the statement, as a temporary does. Where a
guard lives longer than it looks is what the programs are about:

- a `match` on `role.read().await` keeps the guard over its arms (`Match`), in
  `handle_change` and in `share_state`;
- the argument of `send_msg` in `handle_vote_request` keeps `role`, and the guard
  of `term` taken at its top lives to its end (`Vote`);
- `add_peer` and `remove_peer` keep the table of peers while they wait for a
  reader that was told to close (`AddPeer`, the end of `SendMsg`);
- `check_for_new_certificates` keeps `backends` and `certs` over everything;
- the watch tells subscribers with `backends` and `subscribers` held.

`prog[t]` and `pc[t]` say where a task stands, `mode[t][l]` how it holds or wants
a lock, `queued` who waits, and `before[t]` for whom: a task that finds a lock
taken, or a conflicting task in the queue, notes all of them, and each that
leaves is struck off (`Wait`, `Leave`). That is the fair queue of tokio's
`RwLock`, in which a reader does not overtake a writer that waits; a `Mutex` is a
lock that is only written. The only value kept is `role`, since programs branch
on it (`Arm`).

A program may end before its end (`Return`: no more to do, an error, a panic),
skip or repeat the part for one host (`Jumps`), and be dropped by a timer if it
is a handler of a candidate or a leader (`Cancel`). `FollowerVote` is the same
code as `Vote`, but nothing drops it, because `Follower::run` handles messages
in the body of its branch. Calls return; the exchange with the authority
(`Exchange`) returns or does not.

Left out: calls made while no guard is held, such as the forwarding of a
request, since nobody waits for them; the locks that only the task of the
election takes (`voted_for`, `current_leader`, the listeners); what guards
protect. The number of tasks of each kind is a parameter.

## Runs

| run | instance | states | shows |
|---|---|---|---|
| `views` | 3 nodes, each may know any part of the cluster at any moment, handlers dropped at every await, two that may stand for election, terms up to 2 | 1,019,789 | `IInv`, `OneVotePerTerm`, `SplitNeedsShortLists`, `BelievedLeaderWon`, `CountedVotesAreReal`, `VotesNeverAhead`, `LeadersKeepTheirVote`, `HeartbeatsAreContested`, and that the election implements `LeaderElection` (`ElectionSpec`) |
| `liveness` | 3 nodes that know each other, two of which may stand for election, handlers dropped at the send of a vote | 52,862 | `HeartbeatsAreEarned`, `OneLeaderPerTerm`, `LeaderStepsDown`, `LeaderIsHeard`, `RivalsAreDeposed` |
| `torn` | handlers dropped at `role` | - | violated: `LeaderStepsDown` |
| `table` | 2 nodes, 3 connections, a restart, one connection that may break or carry what cannot be decoded, senders that a timer drops | 664,466 | `TableInv`, `NoOrphanReader`, `WaitsForToldReader`, `NoCloseUnderSend`, that the table implements `PeerLinks` (`LinksSpec`), no deadlock |
| `live` | 2 nodes, 2 connections, a restart, dropped senders | 16,358 | `AddsReturn`, `DeadEntriesGo` |
| `duplicates` | as `live`, and one connection may break | - | violated: `DuplicatesResolve` |
| `rounds` | 2 nodes, 1 host, rivals, orders that fail | 2,653,464 | `LeadershipInv`, `GeneratorsShareAccount`, `NothingMissed`, `PersistCoversBackends`, that the rounds implement `CertificateStore` (`StoreSpec`), no deadlock |
| `hosts` | 1 node, 3 hosts, restarts, orders and API calls that fail | 25,048 | `LeadershipInv`, `PersistCoversBackends`, `HostsAreServed` |
| `generators` | 2 nodes, one leader at a time, nothing fails | - | violated: `OneGenerator` |
| `exchange` | 3 nodes, one of them late, 2 domains, requests that fail | 4,086 | `AcmeInv`, `RejectedOnlyIfLate`, `EndsUnlessRefused`, and that the exchange implements `Issuance` (`OrderingSpec`) |
| `waits` | a pod with the task of the election and three others, which between them run every program | 311,409 | `LocksInv`, `CirclesAreVotes`, `CirclesSpareClients`, `ChallengesAreAnswered`, `WaitsForExchangeOnly` |
| `circle` | as `waits` | - | violated: `VotesAreCast` |

Bounds. Two terms are enough for an election, a rival election and late
messages of the first: a property that a third term could break would have to
tell terms apart by more than their order, which no guard does. Three nodes are
the least that can elect a leader against one node, split a vote, and have a
deposed leader beside a new one; they also split a term, with a node that knows
nobody. For the table, two nodes are all that a connection has, and the tables
of a third touch no entry of theirs; that a third node is written to in their
place is not lost by the bound, since no run assumes that a node writes to a
peer. Three connections give each end one it dialled and one it
accepted, and a second dial by a restarted node while the first is still in
the other's table. `CHECK_DEADLOCK FALSE` stands in the election's runs because
a candidate that reaches `MaxTerm` stops; the table's runs check for deadlock.
`SYMMETRY` is used in runs without liveness. In `Leadership` nodes meet in the two
secrets and in messages, so two nodes show every race for them, and one host
suffices, since a round compares its hosts with its own certificates only; how
a round goes through several hosts, and fails between two of them, is what
`hosts` adds, with one node and everything that can fail. Messages need no
bound: they are a set over finite contents. In `Acme` two domains give one that
may still be pending, or turn invalid, while the next is prepared (the ingress
controller orders one domain at a time; the crate's test orders two,
`letsencrypt/tests/certificate.rs:23`), and three nodes are the one that orders,
one in time and one late. `MaxPolls` is the number in the code, not a bound.
`CHECK_DEADLOCK FALSE` stands in this run because an exchange ends. In
`PodLocks` a circle of more than two tasks needs three of different kinds, which
the run has: the election, one task that runs rounds, one that is the watch, the
message listener (`share_state`, `apply_challenge`) or a sender, one client. So a
round and an answer of the same pod overlap, on the role, `certs` and `challenges`. A second task of a kind adds one that
waits behind the first at the same lock; that this closes no new circle is not
left to the bound but proved, for any number of tasks.

Fairness. `FairSpec` of the election: the task of a node is polled
(`WF_vars(Progress(n))`); timers of candidates and leaders fire, since nothing
resets them, and the timer of a follower need not, since heartbeats reset it; a
leader in office repeats its heartbeats over TCP, so a node that can obey one
again and again takes one (`SF_vars(Obey(m, n))`). `FairSpec` of the table:
tokio's `RwLock` is first come, first served, so whoever asks for it again and
again gets it (strong fairness of `Add` and `SendGoesOn`); reader tasks are
polled; of the writes to a dead stream one fails in the end, when TCP gives up,
and heartbeats are sent by tasks that no timer drops. That a node begins to send
is not assumed: only candidates and leaders broadcast, and a follower writes
nothing to the other followers. `DeadEntriesGo` is therefore about a peer that a
node keeps writing to. A dead entry between two followers stays as long as both
hear a leader, and counts in `votes_needed`; nothing in the code removes it, and
no property says otherwise. `FairSpec` of the certificate rounds: spawned tasks
are polled and the calls to the API server return. The exchange with the
authority need not: `letsencrypt/src/account.rs:234` polls without a bound, and a
refused order holds the round, and its locks, for ever. `HostsAreServed` excepts
a round that stays there. `FairSpec` of the exchange: some step of it is taken as long as one can be,
messages arrive at nodes that are not late, and the authority decides on a
finalized order; that it validates a domain is not assumed, nor that requests
fail. Under it `EndsUnlessRefused` holds and is all that holds: TLC finds an
exchange that stays at "await" with a refused order as soon as the exception is
left out, although the loop means to end after six attempts
(`letsencrypt/src/account.rs:236`).

`FairSpec` of the locks: every task is polled, so it asks for the lock it needs
and takes it when its turn has come, which with fair queues needs no more than
weak fairness; calls to peers return, at the latest when the connection fails;
the timer of a candidate or leader fires (`WF_vars(Cancel)`). Nothing is assumed
of the exchange, which the loop at `letsencrypt/src/account.rs:234` may make
endless: `WaitsForExchangeOnly` therefore says that the proxy, the handshakes
and the watch wait for nothing else, and `ChallengesAreAnswered` that the one
answer the authority itself waits for is given all the same, because
`call_proxy` looks for a challenge before it looks for a backend.

The violated properties are worth reading with their traces. In `torn`
a node elected in term 1 takes term 2 from the heartbeat of a rival, is dropped
before it writes its role, and goes on in term 2 as its second leader. In
`duplicates` each end overwrites the higher connection by the lower when that
arrives last, and the ends need not agree on the order of arrival. In
`generators` a leader steps down while its order is being validated, its
successor finds the account in the secret, and both have an order at the
authority, although at no time were there two leaders. In `circle` a follower
votes, holding `term` and waiting to write `role`, while `handle_change` of the
same node, a follower as well, holds `role` for its `match` and waits to read
`term` in `broadcast_message`; no timer drops either, and the node takes no part
in elections any more. What `HostsAreServed`
does not say is worth noting too: after a failed round nothing tries again until
a role or an ingress changes, and `NothingMissed` is silent from then on; and a
round that polls a refused order serves no host until its pod restarts.

## Proofs

26 theorems in seven modules; an eighth, `PodLocksPrograms`, has lemmas only. The
assumptions are the named `ASSUME`s of the modules on the types of their
constants, which every run evaluates. No theorem needs more.

`SenatorProofs` holds for any finite set of nodes, any `Views`, any `Interrupts`
and bounds: whoever knows whom, and whichever handler is dropped at whichever
await. `IInv` is proved step by step in parts:

1. `TypeOK`.
2. `VoteInv`: a vote recorded in `granted` is of a term its voter has reached
   (`GrantsPast`). That alone makes votes unique, since the next vote of a node
   raises its term first; `OneVotePerTerm` is not inductive without it. Every
   `VoteGranted` under way carries a recorded vote (`MessagesSound`), so the
   counter of a candidacy counts distinct voters of its term
   (`CountedVotesAreReal`, with `RoleAtPlace` for when a candidacy is running).
3. `ElectionsWon`: who is in `elected` has the votes of more than half of the list
   recorded with it, its own among them, and stands no more in that term. Two
   sets of votes of one term share nobody, so together they are no more than the
   nodes there are: `SplitNeedsShortLists`.
4. `OfficeInv`. A leader has won its term, or has won an earlier one and was torn
   into a term in which another stands (`LeadersInOffice`). Its heartbeats are of
   such a term (`HeartbeatsAreContested`), a node that names it names a winner
   (`BelievedLeaderWon`), and it has not voted for another in it
   (`LeadersKeepTheirVote`): the role is written before the vote is recorded, and
   a term reached without a vote is one in which the leader has none to give.
   The four are proved together, as each needs the others.
5. `ElectionInvariant`: the parts together are `IInv`, the formula that run
   `views` checks.
6. `ImplementsElection`: the initial state maps to the initial state of
   `LeaderElection`, and each action to a step of it or a stutter. Fields of the
   same name are the refinement mapping.

`RPCNetworkProofs` proves `TableInv` for any nodes and connections. Its parts
beside the three properties say that a connection not yet added has a fresh
channel (`AddingInv`), that an entry is an added connection of its own two nodes
with an unused channel (`EntryInv`), which is what keeps the channel of an
overwritten entry from being the one of a later entry, that whoever waits
for a reader holds the lock (`HolderInv`), that the place such an `add_peer` has
made free stays free (`FreePlaceInv`), and that both ends of a connection have
it from the moment it is dialled (`DialInv`). `InsertStep` and `RemoveStep` are
proved once for the branches that share them.

`RPCNetworkRefinement` shows that each step of the table is one of `PeerLinks` or
none (`TableImplementsLinks`). `LinksInTable` reduces the links in use to the
entry of the table, which is `EntryInv`. The other parts of `TableInv` have their
place too: a reader that closes is of a connection out of the table, since the
channel of an entry is armed; a failed write is one to the present entry
(`NoCloseUnderSend`), and its other end is gone and not yet to come (`DialInv`);
the end of a replacement drops nothing (`FreePlaceInv`).

`LeadershipProofs` proves `LeadershipInv` for any nodes, hosts, failures and
restarts, with or without rivals. Each part carries one of the theorems:

1. `AccountInv`: who is past `get_account` has the account in the secret.
   `GeneratorsAgree` needs it for the rounds that have an account and no
   generator yet, and it holds because the secret is only ever created.
2. `HoldersLead`: who holds the role guard leads.
3. `IssuedInv`: what is served, under way in a message, loaded or stored was
   issued. A round that finds a certificate in the map, wherever it came from,
   may therefore skip its host.
4. `CheckedInv`: a round about to write has a certificate for each backend
   (`PersistsCover`), and one that has written stays complete until a change is
   due (`ChangesAreNotMissed`). It rests on `BackendsHeld` and `CertsHeld`.
5. `PlaceInv`: no round reaches the `unwrap` at `leadership_system.rs:188`
   without a generator, and none creates a second one.

`OtherSteps` has the steps that leave the rounds alone; `RoundKeepsInv` says once
what a step of one round must see to, and `RoundSteps` goes through them;
`WriteStep` is apart because a write touches the rounds of other nodes, be it
answered (`Persist`) or not (`PersistPanics`); `PersistsCover` is about both.

`LeadershipRefinement` proves `RoundsImplementStore` from the same invariant. Most
steps change nothing of `CertificateStore` (`Elsewhere`, `StoreUnseen`); the
others are taken in three groups, as they create the generator, order
certificates or write the secret. `AccountInv` is what makes the account that is
installed the one of the cluster, `IssuedInv` what makes everything served
issued, and `PlaceInv` that a generator stays until its node restarts. That a
refused write is refused to exactly the rounds that read an older version rests
on no invariant: it is `Accepted`, the check of the API server, and the run finds
the refinement violated without it.

`AcmeProofs` proves `AcmeInv` for any nodes and domains. `SpreadInv` says that a
prepared challenge is served by every node that is not late, or, during the
sleep, about to reach it; since the authority is asked after the sleep only,
`RejectionsAreLate` follows. `OrderInv` ties the order to its authorizations:
until it is finalized it is what they make of it (`Summary`), afterwards all of
them are valid, which a fall-through of the polling loop does not change.

`ImplementsOrdering` shows that each step maps to a step of `Issuance` or to a
stutter. It needs both parts: `Prove` asks that the challenge of a domain the
authority was told about is published, which is `SpreadInv`; `Issue` and `Return`
ask for proven domains and an issued certificate, which is `OrderInv`.

`PodLocksProofs` proves `LocksInv`, `CirclesAreVotes` and `CirclesSpareClients` for
any number of tasks.

1. What a program keeps is written down once (`Kept`), and `PodLocksPrograms`
   checks it against the code of every program, operation by operation
   (`OpSound`, `StartSound`, `ArmSound`, `JumpSound`). The same lemmas say that
   every operation asks for a lock that ranks above all locks kept (`Rank`), but
   for the write of `role` in a vote (`AgainstOrder`). This is where a change of
   the code would show.
2. `HeldInv`: a task holds what `Kept` says. `QueueInv` and `LineInv`: whoever is
   waited for holds the lock or stands in front, and of two tasks that cannot
   share a lock one waits for the other. `NoCircleAtLock`: at one lock the queue
   has no circle. Every step reduces to the effect of one task on its own locks
   and on those behind it (`Moves`), and `MoveKeepsCore` is proved once for all.
3. A circle is finite in ranks: at the highest lock its members wait for, the
   first of them waits for a task that holds that lock and itself waits for a
   lock of no higher rank, so against the order. Only a vote does. `RoleInv` then
   leaves, for a vote of a follower, only the request for the state as the task
   on the other side of `role`: a leader's round and `share_state` cannot be past
   their `match` while the role is Follower.
4. `CirclesLeaveClients`: a circle that no timer breaks has none of the locks in
   `Served`, for which requests, handshakes and the watch wait, nor is it in the
   line for one. Only three tasks of a circle could have one (`ServedKeepers`). A
   leader's round has the generator as well, but that has the request for the
   state in the circle (`RequestKeepsGenerator`), and only one round does
   (`RoundInv`). An answer to a request for the state has the role, as Leader,
   and the vote is a follower's (`RoleInv`). And the watch that tells its
   subscribers waits for their list, which nobody in the circle keeps.

Only model-checked: everything under fairness, since liveness is out of the
prover's reach; the violated properties; and `HeartbeatsAreEarned`,
`OneLeaderPerTerm` and `LeaderStepsDown`, which the code keeps only while no
handler is dropped at the role lock and, the second, lists are full. What is left
of them without these conditions is what `OfficeInv` says.

## Not modelled

- Restarts of a node in the election. Term and vote live in memory
  (`congress/src/senator.rs:119`), so a node that comes back votes again in a term
  it has voted in, and the code promises nothing then.
- The bytes of messages (`congress/src/peer.rs:53`). That a message may be cut
  off, and that its reader then fails on a live connection, is modelled
  (`SendDropped`, `ReaderFails`); which message the reader makes of a stream out of frame is
  not: it is taken as one that cannot be decoded.
- The parsing of an ingress, the match of a path and the retries for the address
  of a pod (`kube_config_tracker.rs`). Routes are only ever added, so a table of
  them has no transition but the insert that `Change` of `Leadership` makes.
- Forwarding of requests and websockets (`proxy.rs`) and the queue of finished
  handshakes (`tls_acceptor.rs`): one independent task each, without state that
  outlives it. The locks they wait for are in `PodLocks`.
- Renewal. A host that has a certificate is skipped whatever its age
  (`lets_encrypt.rs:165`), so expiry has no transition to model.
- The layout of messages, keys, signing requests and signatures
  (`letsencrypt/src/cert.rs`, `jwt.rs`, `key.rs`), which is encoding without state,
  and `tls_wrapper.rs`, which is not part of its crate.
