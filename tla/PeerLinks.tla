------------------------------ MODULE PeerLinks ------------------------------
(***************************************************************************)
(* What the peer table promises of connections, without its lock, its      *)
(* channels and its tasks: each end of a connection is offered to the      *)
(* table of its node once, is used if it is not refused, and goes for      *)
(* good; and it goes for a reason.  Module RPCNetwork implements this      *)
(* specification.                                                          *)
(***************************************************************************)

EXTENDS Naturals

CONSTANTS Node, Conn, Dialler, Acceptor

VARIABLES
    life,     \* life[n][c]: where connection c stands at n
    failing,  \* failing[n]: the peers a message to whom could not be written
    cut       \* the connections the network has broken

vars == <<life, failing, cut>>

Ends(c) == {Dialler[c], Acceptor[c]}
Other(n, c) == IF n = Dialler[c] THEN Acceptor[c] ELSE Dialler[c]

\* In the table, with a task that reads it or without; out of it, and still read.
Used == {"heard", "deaf"}
Life == {"new", "offered", "leaving", "gone"} \cup Used

\* The connections that n uses for peer p.
Links(n, p) == {c \in Conn : life[n][c] \in Used /\ Other(n, c) = p}

Dead(n, c) == c \in cut \/ life[Other(n, c)][c] = "gone"

\* What becomes of connections that are taken out of the table.
Dropped(n, links) ==
    [c \in Conn |->
        IF c \notin links THEN life[n][c]
        ELSE IF life[n][c] = "heard" THEN "leaving" ELSE "gone"]

Move(n, c, from, to) ==
    /\ life[n][c] = from
    /\ life' = [life EXCEPT ![n][c] = to]
    /\ UNCHANGED <<failing, cut>>

Init ==
    /\ life = [n \in Node |-> [c \in Conn |-> "new"]]
    /\ failing = [n \in Node |-> {}]
    /\ cut = {}

Dial(c) ==
    /\ \A n \in Ends(c) : life[n][c] = "new"
    /\ life' = [n \in Node |->
                   IF n \in Ends(c) THEN [life[n] EXCEPT ![c] = "offered"] ELSE life[n]]
    /\ UNCHANGED <<failing, cut>>

\* A connection is refused for another one by the same dialler only.
Refuse(n, c) ==
    /\ Move(n, c, "offered", "gone")
    /\ \E d \in Links(n, Other(n, c)) : Dialler[d] = Dialler[c]

\* It takes the place of none by the same dialler.
Accept(n, c) ==
    /\ life[n][c] = "offered"
    /\ \A d \in Links(n, Other(n, c)) : Dialler[d] # Dialler[c]
    /\ life' = [life EXCEPT
          ![n] = [Dropped(n, Links(n, Other(n, c))) EXCEPT ![c] = "heard"]]
    /\ UNCHANGED <<failing, cut>>

\* Connections go before one by a higher dialler is accepted,
GiveWay(n, c) ==
    /\ life[n][c] = "offered"
    /\ \E d \in Links(n, Other(n, c)) : Dialler[c] > Dialler[d]
    /\ life' = [life EXCEPT ![n] = Dropped(n, Links(n, Other(n, c)))]
    /\ UNCHANGED <<failing, cut>>

\* or because a message could not be written, not necessarily to them; a
\* sender that is dropped in between forgets the failure.
Drop(n, p) ==
    /\ p \in failing[n]
    /\ failing' = [failing EXCEPT ![n] = @ \ {p}]
    /\ \/ life' = [life EXCEPT ![n] = Dropped(n, Links(n, p))]
       \/ UNCHANGED life
    /\ UNCHANGED cut

\* A write fails if the peer has no connection, or a dead one.
FailToSend(n, p) ==
    /\ failing' = [failing EXCEPT ![n] = @ \cup {p}]
    /\ \A c \in Links(n, p) : Dead(n, c)
    /\ UNCHANGED <<life, cut>>

\* The task that reads c fails: c is dead, or carried what is no message;
GoDeaf(n, c) == Move(n, c, "heard", "deaf")

\* or stops once c is out of the table.
Leave(n, c) == Move(n, c, "leaving", "gone")

Cut(c) ==
    /\ cut' = cut \cup {c}
    /\ UNCHANGED <<life, failing>>

Restart(n) ==
    /\ failing' = [failing EXCEPT ![n] = {}]
    /\ life' = [life EXCEPT
          ![n] = [c \in Conn |-> IF @[c] = "new" THEN "new" ELSE "gone"]]
    /\ UNCHANGED cut

Next ==
    \/ \E c \in Conn : Dial(c) \/ Cut(c)
    \/ \E n \in Node, c \in Conn :
          Refuse(n, c) \/ Accept(n, c) \/ GiveWay(n, c) \/ GoDeaf(n, c) \/ Leave(n, c)
    \/ \E n, p \in Node : Drop(n, p) \/ FailToSend(n, p)
    \/ \E n \in Node : Restart(n)

Spec == Init /\ [][Next]_vars
=============================================================================
