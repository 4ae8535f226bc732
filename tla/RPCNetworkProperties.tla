------------------------ MODULE RPCNetworkProperties ------------------------
(* What the peer table must guarantee, and what its comments say of it.    *)
EXTENDS RPCNetwork

\* Every table, channel and task is in one of its states.
TypeOK ==
    /\ peers \in [Node -> [Node -> Conn \cup {None}]]
    /\ adding \in [Node -> [Conn -> Adding]]
    /\ reader \in [Node -> [Conn -> Reader]]
    /\ close \in [Node -> [Conn -> Close]]
    /\ closing \in [Node -> Conn \cup {None}]
    /\ sender \in [Node -> Sender]
    /\ cut \subseteq Conn

InTable(n, c) == peers[n][Other(n, c)] = c

\* A task that reads a connection can always be told to stop: the table holds
\* its close channel, or the channel has been used or dropped.  No sequence of
\* replacements, overwrites and removals leaves a reader nobody can reach.
NoOrphanReader ==
    \A n \in Node, c \in Conn :
        reader[n][c] = "reading" =>
            \/ InTable(n, c) /\ close[n][c] = "armed"
            \/ close[n][c] \in {"sent", "dropped"}

\* The write lock is held across an await by one task only, and only for a
\* reader that has been told to close: the wait for its acknowledgement under
\* the lock cannot be a wait for somebody who needs the lock.
WaitsForToldReader ==
    \A n \in Node :
        closing[n] # None =>
            /\ close[n][closing[n]] = "sent" /\ ~InTable(n, closing[n])
            /\ \A c, d \in Conn :
                  adding[n][c] = "closing" /\ adding[n][d] = "closing" => c = d
            /\ sender[n].state # "sending"
            /\ sender[n].state = "closing" =>
                  \A c \in Conn : adding[n][c] # "closing"

\* A send in progress has its connection in the table until it ends: nobody
\* closes a stream under a write.
NoCloseUnderSend ==
    \A n \in Node :
        sender[n].state = "sending" => sender[n].conn = peers[n][sender[n].to]

(* The inductive invariant of these.                                       *)

\* A connection that is not added has no reader and a fresh close channel.
AddingInv ==
    \A n \in Node, c \in Conn :
        /\ adding[n][c] # "idle" => n \in Ends(c)
        /\ adding[n][c] # "added" => reader[n][c] = "none" /\ close[n][c] = "armed"

\* An entry is an added connection of its own two nodes, whose close channel
\* has not been used.
EntryInv ==
    \A n, p \in Node :
        peers[n][p] # None =>
            /\ p = Other(n, peers[n][p])
            /\ adding[n][peers[n][p]] = "added"
            /\ close[n][peers[n][p]] = "armed"

\* Who waits for a reader holds the lock.
HolderInv ==
    \A n \in Node :
        /\ sender[n].state = "closing" => closing[n] # None
        /\ \A c \in Conn : adding[n][c] = "closing" => closing[n] # None

\* Both ends of a connection have it from the moment it is dialled.
DialInv ==
    \A c \in Conn :
        adding[Dialler[c]][c] = "idle" <=> adding[Acceptor[c]][c] = "idle"

\* The place of a connection that waits for the one before it stays free.
FreePlaceInv ==
    \A n \in Node, c \in Conn :
        adding[n][c] = "closing" => peers[n][Other(n, c)] = None

TableInv ==
    /\ TypeOK
    /\ AddingInv
    /\ EntryInv
    /\ HolderInv
    /\ DialInv
    /\ FreePlaceInv
    /\ NoOrphanReader
    /\ WaitsForToldReader
    /\ NoCloseUnderSend

-----------------------------------------------------------------------------
(* What PeerLinks sees of the table.                                       *)

Life(n, c) ==
    IF InTable(n, c) THEN IF reader[n][c] = "reading" THEN "heard" ELSE "deaf"
    ELSE IF reader[n][c] = "reading" THEN "leaving"
    ELSE IF adding[n][c] = "idle" THEN "new"
    ELSE IF adding[n][c] \in {"ready", "closing"} THEN "offered"
    ELSE "gone"

life == [n \in Node |-> [c \in Conn |-> Life(n, c)]]
failing == [n \in Node |->
               IF sender[n].state = "failed" THEN {sender[n].to} ELSE {}]

Abstract == INSTANCE PeerLinks

\* A connection that a node uses is only ever given up for one by a higher
\* dialler, before one by another dialler that is accepted, or when a message
\* to the same peer found its connection dead; it is refused for one by the
\* same dialler only; and none comes back.  The lock, the channels and the
\* order in which the tasks run make no other step possible.
LinksSpec == Abstract!Spec

-----------------------------------------------------------------------------
(* Fairness.  Tasks are polled, and tokio's RwLock is first come, first    *)
(* served, so a task that asks for the table again and again gets it.  A   *)
(* send that has begun goes on; that one begins is not assumed: only       *)
(* candidates and leaders broadcast, and a follower writes nothing to the  *)
(* other followers.  Of the writes to a dead stream one in the end fails,  *)
(* and heartbeats are sent by tasks of their own that no timer drops.  A   *)
(* reader notices a dead stream or its close channel, and no more.         *)

SendGoesOn(n) ==
    SendSucceeds(n) \/ SendFails(n) \/ SendRemoves(n) \/ SendFindsNone(n) \/ SendRemoved(n)

ReaderNotices(n, c) == ReaderCloses(n, c) \/ (Dead(n, c) /\ ReaderFails(n, c))

FairSpec ==
    /\ Spec
    /\ \A n \in Node :
          /\ SF_vars(\E c \in Conn : Add(n, c))
          /\ WF_vars(\E c \in Conn : ReaderNotices(n, c))
          /\ SF_vars(SendGoesOn(n))
          /\ \A p \in Node \ {n} :
                /\ SF_vars(sender[n].to = p /\ SendFails(n))
                /\ SF_vars(sender[n].to = p /\ SendRemoves(n))

Pending(n) == {c \in Conn : adding[n][c] \in {"ready", "closing"}}

\* Every add_peer returns, although it waits for the lock of the table and,
\* holding it, for another task.
AddsReturn == \A n \in Node : Pending(n) # {} ~> Pending(n) = {}

WritesTo(n, p) == sender[n].state = "sending" /\ sender[n].to = p
DeadEntry(n, p) == peers[n][p] # None /\ Dead(n, peers[n][p])

\* A connection that has died does not stay in the table of a node that keeps
\* writing to that peer, although the reader that notices first only prints the
\* error.  Nothing is promised of a peer that is not written to.
DeadEntriesGo ==
    \A n \in Node : \A p \in Node \ {n} :
        []<>WritesTo(n, p) => (DeadEntry(n, p) ~> ~DeadEntry(n, p))

-----------------------------------------------------------------------------
Undisturbed ==
    /\ cut = {}
    /\ \A n \in Node :
          /\ sender[n].state \in {"idle", "sending"}
          /\ \A c \in Conn : adding[n][c] \in {"added", "refused"}

\* "if a duplicate peer is added, use the one with the higher established_by":
\* two nodes that have dialled each other end up with the same connection.
DuplicatesResolve ==
    Undisturbed => \A m, n \in Node : m # n => peers[m][n] = peers[n][m]
=============================================================================
