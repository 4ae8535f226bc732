----------------------------- MODULE RPCNetwork -----------------------------
(***************************************************************************)
(* The peer table of package congress (RPCNetwork): which connection each  *)
(* node keeps for a peer, the tasks that read them, the tasks that send,   *)
(* and the RwLock around the table that all of them share.                 *)
(*                                                                         *)
(* A connection is a stream that one node dialled to another; both ends    *)
(* call add_peer with established_by the dialler.  An end of a stream is   *)
(* open as long as the table or a task of that node holds its Peer.        *)
(***************************************************************************)
EXTENDS Naturals

CONSTANTS
    Node,      \* NodeIDs
    None,      \* no connection
    Conn,      \* the connections that may be dialled
    Dialler,   \* Peer::established_by
    Acceptor,  \* the node at the other end
    Unstable   \* bound: the nodes that may restart and the connections that may
               \* break or carry bytes that are no message

ASSUME NodeIDs == Node \subseteq Nat /\ None \notin Conn
ASSUME ConnEnds ==
    /\ Dialler \in [Conn -> Node] /\ Acceptor \in [Conn -> Node]
    /\ \A c \in Conn : Dialler[c] # Acceptor[c]

VARIABLES
    peers,    \* peers[n][p]: the connection in n's table for p, or None
    adding,   \* adding[n][c]: how far add_peer(c) has got at n
    reader,   \* reader[n][c]: the task that reads c at n
    close,    \* close[n][c]: the channel that tells this task to close
    closing,  \* closing[n]: the connection whose reader the holder of the
              \* table's write lock is waiting for, or None
    sender,   \* sender[n]: a send_msg of n
    cut       \* the connections the network has broken

vars == <<peers, adding, reader, close, closing, sender, cut>>

Ends(c) == {Dialler[c], Acceptor[c]}
Other(n, c) == IF n = Dialler[c] THEN Acceptor[c] ELSE Dialler[c]

Adding == {"idle", "ready", "closing", "added", "refused", "lost"}
Reader == {"none", "reading", "closed", "failed"}
Close == {"armed", "sent", "dropped"}
Sender == [state : {"idle", "sending", "failed", "closing"},
           to : Node, conn : Conn \cup {None}]

Idle(n) == [state |-> "idle", to |-> n, conn |-> None]

Init ==
    /\ peers = [n \in Node |-> [p \in Node |-> None]]
    /\ adding = [n \in Node |-> [c \in Conn |-> "idle"]]
    /\ reader = [n \in Node |-> [c \in Conn |-> "none"]]
    /\ close = [n \in Node |-> [c \in Conn |-> "armed"]]
    /\ closing = [n \in Node |-> None]
    /\ sender = [n \in Node |-> Idle(n)]
    /\ cut = {}

-----------------------------------------------------------------------------
(* Streams.                                                                *)

Open(n, c) ==
    \/ adding[n][c] \in {"ready", "closing"}
    \/ reader[n][c] = "reading"
    \/ peers[n][Other(n, c)] = c

\* What n notices of c by reading or writing: the other end is gone.
Dead(n, c) == c \in cut \/ ~Open(Other(n, c), c)

\* LeadershipSystem::add_peer connects and writes its ID, handle_connection
\* of the other node reads it: both are then about to call add_peer.  A node
\* hears of a pod once, so it dials again only after its own restart.
Dial(c) ==
    /\ \A n \in Ends(c) : adding[n][c] = "idle"
    /\ \A d \in Conn :
          Dialler[d] = Dialler[c] /\ Acceptor[d] = Acceptor[c] =>
              adding[Dialler[c]][d] \in {"idle", "lost"}
    /\ adding' = [n \in Node |->
                     IF n \in Ends(c) THEN [adding[n] EXCEPT ![c] = "ready"]
                                      ELSE adding[n]]
    /\ UNCHANGED <<peers, reader, close, closing, sender, cut>>

Cut(c) ==
    /\ c \in Unstable /\ adding[Dialler[c]][c] # "idle"
    /\ cut' = cut \cup {c}
    /\ UNCHANGED <<peers, adding, reader, close, closing, sender>>

-----------------------------------------------------------------------------
(* The lock of the table.  It is held for writing across steps only while  *)
(* a reader is waited for, and for reading while a message is sent.        *)

NoWriter(n) == closing[n] = None

\* Mutant: a writer does not wait for the readers of the lock.
UnlockedByWriters(n) == NoWriter(n)

Unlocked(n) == NoWriter(n) /\ sender[n].state # "sending"

\* Mutant: the reader is waited for and not told.
RemoveUntold(n, p) ==
    /\ peers' = [peers EXCEPT ![n][p] = None]
    /\ closing' = [closing EXCEPT ![n] = peers[n][p]]
    /\ UNCHANGED close

\* HashMap::remove, the close signal to the reader, and the wait for it.
Remove(n, p) ==
    /\ peers' = [peers EXCEPT ![n][p] = None]
    /\ close' = [close EXCEPT ![n][peers[n][p]] = "sent"]
    /\ closing' = [closing EXCEPT ![n] = peers[n][p]]

\* Mutant: only an acknowledgement ends the wait.
ClosedByAnswer(n) ==
    /\ closing[n] # None
    /\ reader[n][closing[n]] = "closed"
    /\ closing' = [closing EXCEPT ![n] = None]

\* The reader acknowledged, or it was gone and dropped the channel.
Closed(n) ==
    /\ closing[n] # None
    /\ reader[n][closing[n]] # "reading"
    /\ closing' = [closing EXCEPT ![n] = None]

\* Mutant: the close channel of the overwritten entry is kept somewhere.
InsertKeepsChannel(n, c) ==
    /\ peers' = [peers EXCEPT ![n][Other(n, c)] = c]
    /\ reader' = [reader EXCEPT ![n][c] = "reading"]
    /\ adding' = [adding EXCEPT ![n][c] = "added"]
    /\ UNCHANGED close

\* HashMap::insert drops the close channel of the entry it overwrites; a
\* reader is spawned for the new one.
Insert(n, c) ==
    LET old == peers[n][Other(n, c)] IN
    /\ peers' = [peers EXCEPT ![n][Other(n, c)] = c]
    /\ close' = [close EXCEPT ![n] =
                    [d \in Conn |-> IF d = old THEN "dropped" ELSE @[d]]]
    /\ reader' = [reader EXCEPT ![n][c] = "reading"]
    /\ adding' = [adding EXCEPT ![n][c] = "added"]

-----------------------------------------------------------------------------
(* RPCNetwork::add_peer.                                                   *)

\* A connection for this peer by the same dialler is kept, alive or not.
AddRefused(n, c) ==
    LET old == peers[n][Other(n, c)] IN
    /\ adding[n][c] = "ready" /\ Unlocked(n)
    /\ old # None /\ Dialler[c] = Dialler[old]
    /\ adding' = [adding EXCEPT ![n][c] = "refused"]
    /\ UNCHANGED <<peers, reader, close, closing, sender, cut>>

\* A connection by a lower dialler is closed first.
AddReplaces(n, c) ==
    LET old == peers[n][Other(n, c)] IN
    /\ adding[n][c] = "ready" /\ Unlocked(n)
    /\ old # None /\ Dialler[c] > Dialler[old]
    /\ Remove(n, Other(n, c))
    /\ adding' = [adding EXCEPT ![n][c] = "closing"]
    /\ UNCHANGED <<reader, sender, cut>>

AddReplaced(n, c) ==
    /\ adding[n][c] = "closing"
    /\ Closed(n)
    /\ Insert(n, c)
    /\ UNCHANGED <<sender, cut>>

\* Mutant: one by the same dialler takes the place, too.
AddInsertsSame(n, c) ==
    LET old == peers[n][Other(n, c)] IN
    /\ adding[n][c] = "ready" /\ Unlocked(n)
    /\ old # None => Dialler[c] <= Dialler[old]
    /\ Insert(n, c)
    /\ UNCHANGED <<closing, sender, cut>>

\* The branch for a lower dialler evaluates Ok(())? and goes on: it inserts.
AddInserts(n, c) ==
    LET old == peers[n][Other(n, c)] IN
    /\ adding[n][c] = "ready" /\ Unlocked(n)
    /\ old # None => Dialler[c] < Dialler[old]
    /\ Insert(n, c)
    /\ UNCHANGED <<closing, sender, cut>>

-----------------------------------------------------------------------------
(* The task that reads a connection.  Its end leaves the table alone.      *)

\* Only the signal is acknowledged; a dropped channel is an error like others.
ReaderCloses(n, c) ==
    /\ reader[n][c] = "reading"
    /\ close[n][c] \in {"sent", "dropped"}
    /\ reader' = [reader EXCEPT ![n][c] =
                     IF close[n][c] = "sent" THEN "closed" ELSE "failed"]
    /\ UNCHANGED <<peers, adding, close, closing, sender, cut>>

\* It fails on a connection that is dead, and on a live one when a message
\* cannot be decoded: the entry stays, and nobody reads it any more.
ReaderFails(n, c) ==
    /\ reader[n][c] = "reading"
    /\ Dead(n, c) \/ c \in Unstable
    /\ reader' = [reader EXCEPT ![n][c] = "failed"]
    /\ UNCHANGED <<peers, adding, close, closing, sender, cut>>

-----------------------------------------------------------------------------
(* RPCNetwork::send_msg.                                                   *)

SendStarts(n, p) ==
    /\ sender[n].state = "idle" /\ p # n /\ NoWriter(n)
    /\ sender' = [sender EXCEPT ![n] =
                     [state |-> "sending", to |-> p, conn |-> peers[n][p]]]
    /\ UNCHANGED <<peers, adding, reader, close, closing, cut>>

\* The bytes are written, whether or not anybody will read them.
SendSucceeds(n) ==
    /\ sender[n].state = "sending" /\ sender[n].conn # None
    /\ sender' = [sender EXCEPT ![n] = Idle(n)]
    /\ UNCHANGED <<peers, adding, reader, close, closing, cut>>

\* Mutant: a failed write leaves the peer where it is.
SendFailsQuietly(n) ==
    /\ sender[n].state = "sending"
    /\ sender[n].conn # None => Dead(n, sender[n].conn)
    /\ sender' = [sender EXCEPT ![n] = Idle(n)]
    /\ UNCHANGED <<peers, adding, reader, close, closing, cut>>

\* The read lock is given back before remove_peer asks for the write lock.
SendFails(n) ==
    /\ sender[n].state = "sending"
    /\ sender[n].conn # None => Dead(n, sender[n].conn)
    /\ sender' = [sender EXCEPT ![n] =
                     [state |-> "failed", to |-> sender[n].to, conn |-> None]]
    /\ UNCHANGED <<peers, adding, reader, close, closing, cut>>

\* remove_peer is given the peer, not the connection that failed.
SendRemoves(n) ==
    /\ sender[n].state = "failed" /\ Unlocked(n)
    /\ peers[n][sender[n].to] # None
    /\ Remove(n, sender[n].to)
    /\ sender' = [sender EXCEPT ![n].state = "closing"]
    /\ UNCHANGED <<adding, reader, cut>>

SendFindsNone(n) ==
    /\ sender[n].state = "failed" /\ Unlocked(n)
    /\ peers[n][sender[n].to] = None
    /\ sender' = [sender EXCEPT ![n] = Idle(n)]
    /\ UNCHANGED <<peers, adding, reader, close, closing, cut>>

SendRemoved(n) ==
    /\ sender[n].state = "closing"
    /\ Closed(n)
    /\ sender' = [sender EXCEPT ![n] = Idle(n)]
    /\ UNCHANGED <<peers, adding, reader, close, cut>>

\* The timer of a candidate or leader drops the handler that sends a vote,
\* wherever it waits: with it go its lock and the channel of its answer.
SendDropped(n) ==
    /\ sender[n].state # "idle"
    /\ sender' = [sender EXCEPT ![n] = Idle(n)]
    /\ closing' = IF sender[n].state = "closing"
                    THEN [closing EXCEPT ![n] = None] ELSE closing
    /\ UNCHANGED <<peers, adding, reader, close, cut>>

-----------------------------------------------------------------------------
\* The container of n restarts: its tasks and its table are gone.
Restart(n) ==
    /\ n \in Unstable
    /\ peers' = [peers EXCEPT ![n] = [p \in Node |-> None]]
    /\ adding' = [adding EXCEPT ![n] =
                     [c \in Conn |-> IF @[c] = "idle" THEN "idle" ELSE "lost"]]
    /\ reader' = [reader EXCEPT ![n] = [c \in Conn |-> "none"]]
    /\ close' = [close EXCEPT ![n] = [c \in Conn |-> "armed"]]
    /\ closing' = [closing EXCEPT ![n] = None]
    /\ sender' = [sender EXCEPT ![n] = Idle(n)]
    /\ UNCHANGED cut

Add(n, c) ==
    \/ AddRefused(n, c)
    \/ AddReplaces(n, c)
    \/ AddReplaced(n, c)
    \/ AddInserts(n, c)

Send(n) ==
    \/ \E p \in Node : SendStarts(n, p)
    \/ SendSucceeds(n)
    \/ SendFails(n)
    \/ SendRemoves(n)
    \/ SendFindsNone(n)
    \/ SendRemoved(n)
    \/ SendDropped(n)

Next ==
    \/ \E c \in Conn : Dial(c) \/ Cut(c)
    \/ \E n \in Node :
          \/ \E c \in Conn : Add(n, c) \/ ReaderCloses(n, c) \/ ReaderFails(n, c)
          \/ Send(n)
          \/ Restart(n)

Spec == Init /\ [][Next]_vars
=============================================================================
