------------------------ MODULE RPCNetworkRefinement ------------------------
(* The peer table implements PeerLinks: what the lock, the close channels  *)
(* and the tasks of module RPCNetwork do together is one of its steps.     *)
EXTENDS RPCNetworkProofs

LEMMA LifeAt ==
    /\ \A n \in Node, c \in Conn : life[n][c] = Life(n, c) /\ life'[n][c] = Life(n, c)'
    /\ life \in [Node -> [Conn -> Abstract!Life]]
  BY DEF life, Life, Abstract!Life, Abstract!Used

\* A description of every connection at every node is one of life.
LEMMA LifeIs ==
    ASSUME NEW f \in [Node -> [Conn -> Abstract!Life]],
           \A n \in Node, c \in Conn : Life(n, c)' = f[n][c]
    PROVE  life' = f
<1>1. \A n \in Node : f[n] = [c \in Conn |-> Life(n, c)']
  OBVIOUS
<1>2. QED
  BY <1>1 DEF life

LEMMA FailingAt ==
    \A n \in Node :
        failing[n] = IF sender[n].state = "failed" THEN {sender[n].to} ELSE {}
  BY DEF failing

\* A step of the sender of n changes what fails at n, at most.
LEMMA FailingIs ==
    ASSUME NEW n \in Node, \A m \in Node : m # n => sender'[m] = sender[m], NEW S,
           sender'[n].state = "failed" => S = {sender'[n].to},
           sender'[n].state # "failed" => S = {}
    PROVE  failing' = [failing EXCEPT ![n] = S]
<1>1. \A m \in Node : failing'[m] = IF m = n THEN S ELSE failing[m]
  BY DEF failing
<1>2. failing' = [m \in Node |-> failing'[m]] /\ failing = [m \in Node |-> failing[m]]
  BY DEF failing
<1>3. QED
  BY <1>1, <1>2

\* The one connection that is used for a peer is the one in the table.
LEMMA LinksInTable ==
    ASSUME TableInv, NEW n \in Node, NEW p \in Node
    PROVE  Abstract!Links(n, p) = IF peers[n][p] = None THEN {} ELSE {peers[n][p]}
<1>1. \A c \in Conn : life[n][c] \in Abstract!Used <=> InTable(n, c)
  BY LifeAt DEF Life, Abstract!Used
<1>2. \A c \in Conn : Abstract!Other(n, c) = Other(n, c)
  BY DEF Abstract!Other, Other
<1>3. peers[n][p] # None => peers[n][p] \in Conn /\ Other(n, peers[n][p]) = p
  BY DEF TableInv, TypeOK, EntryInv
<1>4. QED
  BY <1>1, <1>2, <1>3, NodeIDs DEF Abstract!Links, InTable

\* A connection whose other end is closed is gone there.
LEMMA DeadIsGone ==
    ASSUME TableInv, NEW n \in Node, NEW c \in Conn, adding[n][c] # "idle", Dead(n, c)
    PROVE  Abstract!Dead(n, c)
<1> DEFINE m == Other(n, c)
<1>1. n \in Ends(c) /\ m \in Node
  BY OtherEnd DEF TableInv, AddingInv
<1>2. adding[m][c] # "idle"
  BY <1>1 DEF TableInv, DialInv, Ends, Other
<1>3. ~Open(m, c) => life[m][c] = "gone"
  BY <1>1, <1>2, LifeAt DEF Open, Life, InTable
<1>4. QED
  BY <1>3 DEF Dead, Abstract!Dead, Abstract!Other, Other

\* What is taken out of the table, and what is not.
LEMMA DroppedAt ==
    ASSUME NEW n \in Node, NEW links
    PROVE  /\ Abstract!Dropped(n, links) \in [Conn -> Abstract!Life]
           /\ \A c \in Conn :
                 Abstract!Dropped(n, links)[c] =
                     IF c \notin links THEN life[n][c]
                     ELSE IF life[n][c] = "heard" THEN "leaving" ELSE "gone"
  BY LifeAt DEF Abstract!Dropped, Abstract!Life

\* Remove drops the connection in use for p.
LEMMA RemoveDrops ==
    ASSUME TableInv, NEW n \in Node, NEW p \in Node, peers[n][p] # None,
           Remove(n, p), reader' = reader,
           adding' \in [Node -> [Conn -> Adding]],
           \A m \in Node, c \in Conn :
               \/ adding'[m][c] = adding[m][c]
               \/ adding[m][c] = "ready" /\ adding'[m][c] = "closing"
    PROVE  life' = [life EXCEPT ![n] = Abstract!Dropped(n, Abstract!Links(n, p))]
<1> DEFINE old == peers[n][p]
           f == [life EXCEPT ![n] = Abstract!Dropped(n, Abstract!Links(n, p))]
<1>1. /\ TypeOK /\ old \in Conn /\ p = Other(n, old) /\ adding[n][old] = "added"
  BY DEF TableInv, TypeOK, EntryInv
<1>2. Abstract!Links(n, p) = {old}
  BY LinksInTable
<1>3. /\ f \in [Node -> [Conn -> Abstract!Life]]
      /\ \A m \in Node, c \in Conn :
            f[m][c] = IF m = n /\ c = old
                      THEN IF life[n][c] = "heard" THEN "leaving" ELSE "gone"
                      ELSE life[m][c]
  BY <1>2, LifeAt, DroppedAt
<1>4. \A m, q \in Node : peers'[m][q] = IF m = n /\ q = p THEN None ELSE peers[m][q]
  BY <1>1 DEF TypeOK, Remove
<1>5. ASSUME NEW m \in Node, NEW c \in Conn
      PROVE  Life(m, c)' = f[m][c]
  <2>1. CASE m = n /\ c = old
    <3>1. life[n][old] = IF reader[n][old] = "reading" THEN "heard" ELSE "deaf"
      BY <1>1, LifeAt DEF Life, InTable
    <3>2. peers'[n][Other(n, old)] # old /\ adding'[n][old] = "added"
      BY <1>1, <1>4, NodeIDs
    <3>3. QED
      BY <2>1, <3>1, <3>2, <1>3 DEF Life, InTable
  <2>2. CASE ~(m = n /\ c = old)
    <3>1. InTable(m, c)' <=> InTable(m, c)
      <4>1. Other(m, c) \in Node
        BY ConnEnds DEF Other
      <4>2. QED
        <5>1. c # None
          BY NodeIDs
        <5>2. CASE m = n /\ Other(m, c) = p
          BY <5>1, <5>2, <4>1, <2>2, <1>4 DEF InTable
        <5>3. CASE ~(m = n /\ Other(m, c) = p)
          BY <5>3, <4>1, <1>4 DEF InTable
        <5>4. QED
          BY <5>2, <5>3
    <3>2. Life(m, c)' = Life(m, c)
      BY <3>1 DEF Life
    <3>3. QED
      BY <2>2, <3>2, <1>3, LifeAt
  <2>3. QED
    BY <2>1, <2>2
<1> HIDE DEF f
<1>6. life' = f
  BY <1>3, <1>5, LifeIs
<1>7. QED
  BY <1>6 DEF f

\* Insert accepts a connection, and drops the one that it overwrites.
LEMMA InsertAccepts ==
    ASSUME TableInv, NEW n \in Node, NEW c \in Conn, n \in Ends(c), Insert(n, c),
           adding[n][c] \in {"ready", "closing"}
    PROVE  life' = [life EXCEPT
               ![n] = [Abstract!Dropped(n, Abstract!Links(n, Other(n, c)))
                          EXCEPT ![c] = "heard"]]
<1> DEFINE p == Other(n, c)
           old == peers[n][p]
           dropped == Abstract!Dropped(n, Abstract!Links(n, p))
           f == [life EXCEPT ![n] = [dropped EXCEPT ![c] = "heard"]]
<1>1. /\ TypeOK /\ p \in Node
      /\ old # None => old \in Conn /\ p = Other(n, old) /\ adding[n][old] = "added"
  BY OtherEnd DEF TableInv, TypeOK, EntryInv
<1>2. \A d \in Conn : d \in Abstract!Links(n, p) <=> d = old
  <2>1. Abstract!Links(n, p) = IF old = None THEN {} ELSE {old}
    BY <1>1, LinksInTable
  <2>2. QED
    BY <2>1, NodeIDs
<1>3. /\ f \in [Node -> [Conn -> Abstract!Life]]
      /\ \A m \in Node, d \in Conn :
            f[m][d] = IF m = n /\ d = c THEN "heard"
                      ELSE IF m = n /\ d = old
                      THEN IF life[n][d] = "heard" THEN "leaving" ELSE "gone"
                      ELSE life[m][d]
  <2>1. /\ dropped \in [Conn -> Abstract!Life]
        /\ \A d \in Conn :
              dropped[d] = IF d # old THEN life[n][d]
                           ELSE IF life[n][d] = "heard" THEN "leaving" ELSE "gone"
    BY <1>2, DroppedAt
  <2>2. "heard" \in Abstract!Life
    BY DEF Abstract!Life, Abstract!Used
  <2> HIDE DEF dropped
  <2>3. QED
    BY <2>1, <2>2, LifeAt
<1>4. /\ \A m, q \in Node : peers'[m][q] = IF m = n /\ q = p THEN c ELSE peers[m][q]
      /\ \A m \in Node, d \in Conn :
            /\ adding'[m][d] = IF m = n /\ d = c THEN "added" ELSE adding[m][d]
            /\ reader'[m][d] = IF m = n /\ d = c THEN "reading" ELSE reader[m][d]
  BY <1>1 DEF TypeOK, Insert
<1>5. ASSUME NEW m \in Node, NEW d \in Conn
      PROVE  Life(m, d)' = f[m][d]
  <2>1. CASE m = n /\ d = c
    BY <2>1, <1>1, <1>3, <1>4 DEF Life, InTable
  <2>2. CASE m = n /\ d = old /\ d # c
    <3>1. life[n][old] = IF reader[n][old] = "reading" THEN "heard" ELSE "deaf"
      BY <1>1, <2>2, LifeAt, NodeIDs DEF Life, InTable
    <3>2. peers'[n][Other(n, old)] # old /\ adding'[n][old] = "added" /\ reader'[n][old] = reader[n][old]
      BY <1>1, <1>4, <2>2, NodeIDs
    <3>3. QED
      BY <2>2, <3>1, <3>2, <1>3 DEF Life, InTable
  <2>3. CASE ~(m = n /\ d \in {c, old})
    <3>1. InTable(m, d)' <=> InTable(m, d)
      <4>1. Other(m, d) \in Node
        BY ConnEnds DEF Other
      <4>2. QED
        BY <4>1, <2>3, <1>4 DEF InTable
    <3>2. adding'[m][d] = adding[m][d] /\ reader'[m][d] = reader[m][d]
      BY <1>4, <2>3
    <3>3. Life(m, d)' = Life(m, d)
      BY <3>1, <3>2 DEF Life
    <3>4. QED
      BY <2>3, <3>3, <1>3, LifeAt
  <2>4. QED
    BY <2>1, <2>2, <2>3
<1> HIDE DEF f
<1>6. life' = f
  BY <1>3, <1>5, LifeIs
<1>7. QED
  BY <1>6 DEF f, dropped
\* The steps of add_peer.
LEMMA AddLinks ==
    ASSUME TableInv, NEW n \in Node, NEW c \in Conn, Add(n, c)
    PROVE  Abstract!Next
<1> DEFINE p == Other(n, c)
           old == peers[n][p]
<1>1. /\ TypeOK /\ n \in Ends(c) /\ p \in Node /\ reader[n][c] = "none"
      /\ adding[n][c] \in {"ready", "closing"}
  <2>1. adding[n][c] \in {"ready", "closing"}
    BY DEF Add, AddRefused, AddReplaces, AddReplaced, AddInserts
  <2>2. QED
    BY <2>1, OtherEnd DEF TableInv, AddingInv
<1>2. old # c
  <2>1. old # None => adding[n][old] = "added"
    BY <1>1 DEF TableInv, EntryInv
  <2>2. QED
    BY <2>1, <1>1, NodeIDs
<1>3. life[n][c] = "offered"
  BY <1>1, <1>2, LifeAt DEF Life, InTable
<1>4. Abstract!Other(n, c) = p /\ Abstract!Links(n, p) = IF old = None THEN {} ELSE {old}
  BY <1>1, LinksInTable DEF Abstract!Other, Other
<1>5. CASE AddRefused(n, c)
  <2> DEFINE f == [life EXCEPT ![n][c] = "gone"]
  <2>1. /\ f \in [Node -> [Conn -> Abstract!Life]]
        /\ \A m \in Node, d \in Conn :
              f[m][d] = IF m = n /\ d = c THEN "gone" ELSE life[m][d]
    BY LifeAt DEF Abstract!Life
  <2>2. \A m \in Node, d \in Conn :
           adding'[m][d] = IF m = n /\ d = c THEN "refused" ELSE adding[m][d]
    BY <1>1, <1>5 DEF TypeOK, AddRefused
  <2>3. ASSUME NEW m \in Node, NEW d \in Conn
        PROVE  Life(m, d)' = f[m][d]
    <3>1. CASE m = n /\ d = c
      BY <3>1, <1>1, <1>2, <1>5, <2>1, <2>2 DEF Life, InTable, AddRefused
    <3>2. CASE ~(m = n /\ d = c)
      <4>1. Life(m, d)' = Life(m, d)
        BY <3>2, <1>5, <2>2 DEF Life, InTable, AddRefused
      <4>2. QED
        BY <3>2, <4>1, <2>1, LifeAt
    <3>3. QED
      BY <3>1, <3>2
  <2> HIDE DEF f
  <2>4. life' = f
    BY <2>1, <2>3, LifeIs
  <2>5. UNCHANGED <<failing, cut>>
    BY <1>5 DEF AddRefused, failing
  <2>6. \E d \in Abstract!Links(n, Abstract!Other(n, c)) : Dialler[d] = Dialler[c]
    BY <1>4, <1>5 DEF AddRefused
  <2>7. Abstract!Refuse(n, c)
    BY <1>3, <2>4, <2>5, <2>6 DEF f, Abstract!Refuse, Abstract!Move
  <2>8. QED
    BY <2>7 DEF Abstract!Next
<1>6. CASE AddReplaces(n, c)
  <2>1. /\ adding' \in [Node -> [Conn -> Adding]]
        /\ \A m \in Node, d \in Conn :
              \/ adding'[m][d] = adding[m][d]
              \/ adding[m][d] = "ready" /\ adding'[m][d] = "closing"
    BY <1>1, <1>6 DEF TypeOK, AddReplaces, Adding
  <2>2. life' = [life EXCEPT ![n] = Abstract!Dropped(n, Abstract!Links(n, p))]
    BY <1>1, <1>6, <2>1, RemoveDrops DEF AddReplaces
  <2>3. UNCHANGED <<failing, cut>>
    BY <1>6 DEF AddReplaces, failing
  <2>4. \E d \in Abstract!Links(n, Abstract!Other(n, c)) : Dialler[c] > Dialler[d]
    BY <1>4, <1>6 DEF AddReplaces
  <2>5. Abstract!GiveWay(n, c)
    BY <1>3, <1>4, <2>2, <2>3, <2>4 DEF Abstract!GiveWay
  <2>6. QED
    BY <2>5 DEF Abstract!Next
<1>7. CASE AddReplaced(n, c) \/ AddInserts(n, c)
  <2>1. old # None => Dialler[c] < Dialler[old]
    BY <1>7 DEF AddReplaced, AddInserts, TableInv, FreePlaceInv
  <2>2. Insert(n, c) /\ UNCHANGED <<sender, cut>>
    BY <1>7 DEF AddReplaced, AddInserts
  <2>3. life' = [life EXCEPT
            ![n] = [Abstract!Dropped(n, Abstract!Links(n, p)) EXCEPT ![c] = "heard"]]
    BY <1>1, <2>2, InsertAccepts
  <2>4. UNCHANGED <<failing, cut>>
    BY <2>2 DEF failing
  <2>5. ASSUME NEW d \in Abstract!Links(n, p) PROVE Dialler[d] # Dialler[c]
    <3>1. d = old /\ old # None
      BY <1>4
    <3>2. d \in Conn
      BY DEF Abstract!Links
    <3>3. Dialler[c] \in Nat /\ Dialler[d] \in Nat
      BY <3>2, NodeIDs, ConnEnds
    <3>4. QED
      BY <2>1, <3>1, <3>3
  <2>6. Abstract!Accept(n, c)
    BY <1>3, <1>4, <2>3, <2>4, <2>5 DEF Abstract!Accept
  <2>7. QED
    BY <2>6 DEF Abstract!Next
<1>8. QED
  BY <1>5, <1>6, <1>7 DEF Add

\* The end of a reader.
LEMMA ReaderLinks ==
    ASSUME TableInv, NEW n \in Node, NEW c \in Conn, ReaderCloses(n, c) \/ ReaderFails(n, c)
    PROVE  Abstract!Next
<1> DEFINE new == IF InTable(n, c) THEN "deaf" ELSE "gone"
           f == [life EXCEPT ![n][c] = new]
<1>1. /\ TypeOK /\ n \in Ends(c) /\ Other(n, c) \in Node
      /\ adding[n][c] = "added" /\ reader[n][c] = "reading"
  <2>1. reader[n][c] = "reading"
    BY DEF ReaderCloses, ReaderFails
  <2>2. adding[n][c] = "added" /\ n \in Ends(c)
    BY <2>1 DEF TableInv, AddingInv
  <2>3. QED
    BY <2>1, <2>2, OtherEnd DEF TableInv
<1>2. /\ f \in [Node -> [Conn -> Abstract!Life]]
      /\ \A m \in Node, d \in Conn :
            f[m][d] = IF m = n /\ d = c THEN new ELSE life[m][d]
  BY LifeAt DEF Abstract!Life, Abstract!Used
<1>3. \A m \in Node, d \in Conn :
         /\ m = n /\ d = c => reader'[m][d] # "reading"
         /\ ~(m = n /\ d = c) => reader'[m][d] = reader[m][d]
  BY <1>1 DEF ReaderCloses, ReaderFails, TypeOK
<1>4. UNCHANGED <<peers, adding, close, closing, sender, cut>>
  BY DEF ReaderCloses, ReaderFails
<1>5. ASSUME NEW m \in Node, NEW d \in Conn
      PROVE  Life(m, d)' = f[m][d]
  <2>1. CASE m = n /\ d = c
    BY <2>1, <1>1, <1>2, <1>3, <1>4 DEF Life, InTable
  <2>2. CASE ~(m = n /\ d = c)
    <3>1. Life(m, d)' = Life(m, d)
      BY <2>2, <1>3, <1>4 DEF Life, InTable
    <3>2. QED
      BY <2>2, <3>1, <1>2, LifeAt
  <2>3. QED
    BY <2>1, <2>2
<1> HIDE DEF f
<1>6. life' = f
  BY <1>2, <1>5, LifeIs
<1>7. UNCHANGED <<failing, cut>>
  BY <1>4 DEF failing
<1>8. CASE InTable(n, c)
  <2>1. close[n][c] = "armed"
    <3>1. peers[n][Other(n, c)] = c /\ c # None
      BY <1>8, NodeIDs DEF InTable
    <3>2. close[n][peers[n][Other(n, c)]] = "armed"
      BY <3>1, <1>1 DEF TableInv, EntryInv
    <3>3. QED
      BY <3>1, <3>2
  <2>2. life[n][c] = "heard"
    BY <1>1, <1>8, LifeAt DEF Life
  <2>3. Abstract!GoDeaf(n, c)
    BY <1>6, <1>7, <1>8, <2>2 DEF f, Abstract!GoDeaf, Abstract!Move
  <2>4. QED
    BY <2>3 DEF Abstract!Next
<1>9. CASE ~InTable(n, c)
  <2>1. life[n][c] = "leaving"
    BY <1>1, <1>9, LifeAt DEF Life
  <2>2. Abstract!Leave(n, c)
    BY <1>6, <1>7, <1>9, <2>1 DEF f, Abstract!Leave, Abstract!Move
  <2>3. QED
    BY <2>2 DEF Abstract!Next
<1>10. QED
  BY <1>8, <1>9

\* Life is what the table, the adds and the readers make of it.
LEMMA LifeKept ==
    ASSUME UNCHANGED <<peers, adding, reader>>
    PROVE  life' = life
<1>1. ASSUME NEW n \in Node, NEW c \in Conn
      PROVE  Life(n, c)' = life[n][c]
  BY LifeAt DEF Life, InTable
<1>2. QED
  BY <1>1, LifeAt, LifeIs

\* A change of the sender that ends or begins no failure is not seen.
LEMMA FailingKept ==
    ASSUME TypeOK, NEW n \in Node, NEW s \in Sender, sender' = [sender EXCEPT ![n] = s],
           sender[n].state # "failed", s.state # "failed"
    PROVE  failing' = failing
<1>1. \A m \in Node : sender'[m] = IF m = n THEN s ELSE sender[m]
  BY DEF TypeOK
<1>2. QED
  BY <1>1 DEF failing

\* A sender that gives up a failed message, with its connection or without one.
LEMMA FailureEnds ==
    ASSUME TypeOK, NEW n \in Node, NEW s \in Sender, sender' = [sender EXCEPT ![n] = s],
           sender[n].state = "failed", s.state # "failed"
    PROVE  /\ sender[n].to \in Node /\ sender[n].to \in failing[n]
           /\ failing' = [failing EXCEPT ![n] = @ \ {sender[n].to}]
<1>1. \A m \in Node : sender'[m] = IF m = n THEN s ELSE sender[m]
  BY DEF TypeOK
<1>2. failing[n] = {sender[n].to} /\ sender[n].to \in Node
  BY FailingAt DEF TypeOK, Sender
<1>3. failing' = [failing EXCEPT ![n] = failing[n] \ {sender[n].to}]
  <2>1. failing[n] \ {sender[n].to} = {}
    BY <1>2
  <2>2. sender'[n].state # "failed" /\ \A m \in Node : m # n => sender'[m] = sender[m]
    BY <1>1
  <2>3. QED
    BY <2>1, <2>2, FailingIs
<1>4. QED
  BY <1>2, <1>3

\* The steps of send_msg.
LEMMA SendLinks ==
    ASSUME TableInv, NEW n \in Node, Send(n)
    PROVE  [Abstract!Next]_(Abstract!vars)
<1> DEFINE p == sender[n].to
<1>1. /\ TypeOK /\ sender[n] \in Sender /\ p \in Node
      /\ Idle(n) \in Sender /\ Idle(n).state = "idle"
  BY DEF TableInv, TypeOK, Sender, Idle
<1>2. /\ [sender[n] EXCEPT !.state = "closing"] \in Sender
      /\ [sender[n] EXCEPT !.state = "closing"].state = "closing"
  BY <1>1 DEF Sender
<1>3. CASE \/ \E q \in Node : SendStarts(n, q)
           \/ SendSucceeds(n)
           \/ SendRemoved(n)
  <2>1. UNCHANGED <<peers, adding, reader, cut>>
    BY <1>3 DEF SendStarts, SendSucceeds, SendRemoved
  <2>2. PICK s \in Sender : /\ sender' = [sender EXCEPT ![n] = s]
                            /\ s.state # "failed" /\ sender[n].state # "failed"
    <3>1. CASE SendSucceeds(n) \/ SendRemoved(n)
      BY <3>1, <1>1 DEF SendSucceeds, SendRemoved
    <3>2. ASSUME NEW q \in Node, SendStarts(n, q)
          PROVE  \E s \in Sender : /\ sender' = [sender EXCEPT ![n] = s]
                                   /\ s.state # "failed" /\ sender[n].state # "failed"
      <4> DEFINE s == [state |-> "sending", to |-> q, conn |-> peers[n][q]]
      <4>1. s \in Sender /\ s.state # "failed"
        BY <1>1 DEF TypeOK, Sender
      <4>2. sender' = [sender EXCEPT ![n] = s] /\ sender[n].state # "failed"
        BY <3>2 DEF SendStarts
      <4> HIDE DEF s
      <4>3. QED
        BY <4>1, <4>2
    <3>3. QED
      BY <1>3, <3>1, <3>2
  <2>3. life' = life /\ failing' = failing
    BY <1>1, <2>1, <2>2, LifeKept, FailingKept
  <2>4. QED
    BY <2>1, <2>3 DEF Abstract!vars
<1>4. CASE SendFails(n)
  <2>1. \A c \in Abstract!Links(n, p) : Abstract!Dead(n, c)
    <3>1. /\ sender[n].state = "sending" /\ sender[n].conn = peers[n][p]
          /\ sender[n].conn # None => Dead(n, sender[n].conn)
      BY <1>4 DEF SendFails, TableInv, NoCloseUnderSend
    <3>2. peers[n][p] # None => /\ peers[n][p] \in Conn
                                /\ adding[n][peers[n][p]] # "idle"
      BY <1>1 DEF TableInv, EntryInv, TypeOK
    <3>3. peers[n][p] # None => Abstract!Dead(n, peers[n][p])
      BY <3>1, <3>2, DeadIsGone
    <3>4. QED
      BY <3>3, <1>1, LinksInTable
  <2>2. failing' = [failing EXCEPT ![n] = @ \cup {p}]
    <3>1. /\ sender[n].state = "sending"
          /\ sender' = [sender EXCEPT ![n] =
                           [state |-> "failed", to |-> p, conn |-> None]]
      BY <1>4 DEF SendFails
    <3>2. /\ sender'[n].state = "failed" /\ sender'[n].to = p
          /\ \A m \in Node : m # n => sender'[m] = sender[m]
      BY <1>1, <3>1 DEF TypeOK, Sender
    <3>3. failing[n] = {}
      BY <3>1, FailingAt
    <3>4. failing' = [failing EXCEPT ![n] = failing[n] \cup {p}]
      BY <3>2, <3>3, FailingIs
    <3>5. QED
      BY <3>4
  <2>3. UNCHANGED <<peers, adding, reader, cut>>
    BY <1>4 DEF SendFails
  <2>4. Abstract!FailToSend(n, p)
    BY <2>1, <2>2, <2>3, LifeKept DEF Abstract!FailToSend
  <2>5. QED
    BY <1>1, <2>4 DEF Abstract!Next
<1>5. CASE SendRemoves(n)
  <2>1. life' = [life EXCEPT ![n] = Abstract!Dropped(n, Abstract!Links(n, p))]
    BY <1>1, <1>5, RemoveDrops DEF SendRemoves, TypeOK
  <2>2. p \in failing[n] /\ failing' = [failing EXCEPT ![n] = @ \ {p}]
    BY <1>1, <1>2, <1>5, FailureEnds DEF SendRemoves
  <2>3. Abstract!Drop(n, p)
    BY <1>5, <2>1, <2>2 DEF SendRemoves, Abstract!Drop
  <2>4. QED
    BY <1>1, <2>3 DEF Abstract!Next
<1>6. CASE SendFindsNone(n)
  <2>1. life' = life /\ UNCHANGED cut
    BY <1>6, LifeKept DEF SendFindsNone
  <2>2. Abstract!Links(n, p) = {}
    BY <1>1, <1>6, LinksInTable DEF SendFindsNone
  <2>3. life = [life EXCEPT ![n] = Abstract!Dropped(n, Abstract!Links(n, p))]
    BY <2>2, LifeAt, DroppedAt
  <2>4. p \in failing[n] /\ failing' = [failing EXCEPT ![n] = @ \ {p}]
    BY <1>1, <1>6, FailureEnds DEF SendFindsNone
  <2>5. Abstract!Drop(n, p)
    BY <2>1, <2>3, <2>4 DEF Abstract!Drop
  <2>6. QED
    BY <1>1, <2>5 DEF Abstract!Next
<1>7. CASE SendDropped(n)
  <2>1. /\ UNCHANGED <<peers, adding, reader, cut>>
        /\ sender' = [sender EXCEPT ![n] = Idle(n)]
    BY <1>7 DEF SendDropped
  <2>2. life' = life
    BY <2>1, LifeKept
  <2>3. CASE sender[n].state = "failed"
    <3>1. p \in failing[n] /\ failing' = [failing EXCEPT ![n] = @ \ {p}]
      BY <1>1, <2>1, <2>3, FailureEnds
    <3>2. Abstract!Drop(n, p)
      BY <2>1, <2>2, <3>1 DEF Abstract!Drop
    <3>3. QED
      BY <1>1, <3>2 DEF Abstract!Next
  <2>4. CASE sender[n].state # "failed"
    <3>1. failing' = failing
      BY <1>1, <2>1, <2>4, FailingKept
    <3>2. QED
      BY <2>1, <2>2, <3>1 DEF Abstract!vars
  <2>5. QED
    BY <2>3, <2>4
<1>8. QED
  BY <1>3, <1>4, <1>5, <1>6, <1>7 DEF Send

LEMMA DialLinks ==
    ASSUME TableInv, NEW c \in Conn, Dial(c)
    PROVE  Abstract!Dial(c)
<1> DEFINE f == [n \in Node |->
                    IF n \in Abstract!Ends(c) THEN [life[n] EXCEPT ![c] = "offered"]
                                              ELSE life[n]]
<1>1. /\ f \in [Node -> [Conn -> Abstract!Life]]
      /\ \A n \in Node, d \in Conn :
            f[n][d] = IF d = c /\ n \in Ends(c) THEN "offered" ELSE life[n][d]
  BY LifeAt DEF Abstract!Life, Abstract!Ends, Ends
<1>2. \A n \in Ends(c) :
         /\ n \in Node /\ adding[n][c] = "idle" /\ reader[n][c] = "none" /\ ~InTable(n, c)
  <2> TAKE n \in Ends(c)
  <2>1. n \in Node /\ Other(n, c) \in Node /\ adding[n][c] = "idle"
    BY OtherEnd DEF Dial
  <2>2. peers[n][Other(n, c)] # None => adding[n][peers[n][Other(n, c)]] = "added"
    BY <2>1 DEF TableInv, EntryInv
  <2>3. QED
    BY <2>1, <2>2, NodeIDs DEF InTable, TableInv, AddingInv
<1>3. \A n \in Abstract!Ends(c) : life[n][c] = "new"
  BY <1>2, LifeAt DEF Life, Abstract!Ends, Ends
<1>4. \A n \in Node, d \in Conn :
         adding'[n][d] = IF d = c /\ n \in Ends(c) THEN "ready" ELSE adding[n][d]
  BY DEF Dial, TableInv, TypeOK
<1>5. ASSUME NEW n \in Node, NEW d \in Conn
      PROVE  Life(n, d)' = f[n][d]
  <2>1. UNCHANGED <<peers, reader>>
    BY DEF Dial
  <2>2. CASE d = c /\ n \in Ends(c)
    BY <2>1, <2>2, <1>1, <1>2, <1>4 DEF Life, InTable
  <2>3. CASE ~(d = c /\ n \in Ends(c))
    <3>1. Life(n, d)' = Life(n, d)
      BY <2>1, <2>3, <1>4 DEF Life, InTable
    <3>2. QED
      BY <2>3, <3>1, <1>1, LifeAt
  <2>4. QED
    BY <2>2, <2>3
<1> HIDE DEF f
<1>6. life' = f
  BY <1>1, <1>5, LifeIs
<1>7. UNCHANGED <<failing, cut>>
  BY DEF Dial, failing
<1>8. QED
  BY <1>3, <1>6, <1>7 DEF f, Abstract!Dial

LEMMA RestartLinks ==
    ASSUME TableInv, NEW n \in Node, Restart(n)
    PROVE  Abstract!Restart(n)
<1> DEFINE f == [life EXCEPT
                    ![n] = [c \in Conn |-> IF life[n][c] = "new" THEN "new" ELSE "gone"]]
<1>1. TypeOK
  BY DEF TableInv
<1>2. /\ f \in [Node -> [Conn -> Abstract!Life]]
      /\ \A m \in Node, d \in Conn :
            f[m][d] = IF m # n THEN life[m][d]
                      ELSE IF life[n][d] = "new" THEN "new" ELSE "gone"
  BY LifeAt DEF Abstract!Life
<1>3. \A d \in Conn : life[n][d] = "new" <=> adding[n][d] = "idle"
  <2> TAKE d \in Conn
  <2>1. adding[n][d] = "idle" => reader[n][d] # "reading" /\ ~InTable(n, d)
    <3> SUFFICES ASSUME adding[n][d] = "idle"
                 PROVE  reader[n][d] # "reading" /\ ~InTable(n, d)
      OBVIOUS
    <3>1. Other(n, d) \in Node
      BY ConnEnds DEF Other
    <3>2. peers[n][Other(n, d)] # None => adding[n][peers[n][Other(n, d)]] = "added"
      BY <3>1 DEF TableInv, EntryInv
    <3>3. QED
      BY <3>2, NodeIDs DEF InTable, TableInv, AddingInv
  <2>2. QED
    BY <2>1, LifeAt DEF Life
<1>4. /\ \A q \in Node : peers'[n][q] = None
      /\ \A d \in Conn : /\ reader'[n][d] = "none"
                         /\ adding'[n][d] = IF adding[n][d] = "idle" THEN "idle" ELSE "lost"
      /\ \A m \in Node : m # n => /\ peers'[m] = peers[m] /\ reader'[m] = reader[m]
                                  /\ adding'[m] = adding[m] /\ sender'[m] = sender[m]
      /\ sender'[n].state = "idle"
  BY <1>1 DEF Restart, TypeOK, Idle
<1>5. ASSUME NEW m \in Node, NEW d \in Conn
      PROVE  Life(m, d)' = f[m][d]
  <2>1. CASE m = n
    <3>1. Other(n, d) \in Node /\ d # None
      BY ConnEnds, NodeIDs DEF Other
    <3>2. QED
      BY <2>1, <3>1, <1>2, <1>3, <1>4 DEF Life, InTable
  <2>2. CASE m # n
    <3>1. Life(m, d)' = Life(m, d)
      BY <2>2, <1>4 DEF Life, InTable
    <3>2. QED
      BY <2>2, <3>1, <1>2, LifeAt
  <2>3. QED
    BY <2>1, <2>2
<1> HIDE DEF f
<1>6. life' = f
  BY <1>2, <1>5, LifeIs
<1>7. failing' = [failing EXCEPT ![n] = {}]
  BY <1>4, FailingIs
<1>8. QED
  BY <1>6, <1>7 DEF f, Restart, Abstract!Restart

\* Every step of the table is one of PeerLinks, or none.
LEMMA LinksStep == TableInv /\ [Next]_vars => [Abstract!Next]_(Abstract!vars)
<1> SUFFICES ASSUME TableInv, [Next]_vars PROVE [Abstract!Next]_(Abstract!vars)
  OBVIOUS
<1>1. CASE UNCHANGED vars
  <2>1. life' = life /\ failing' = failing /\ cut' = cut
    BY <1>1, LifeKept DEF vars, failing
  <2>2. QED
    BY <2>1 DEF Abstract!vars
<1>2. ASSUME NEW c \in Conn, Cut(c) PROVE Abstract!Next
  <2>1. Abstract!Cut(c)
    BY <1>2, LifeKept DEF Cut, Abstract!Cut, failing
  <2>2. QED
    BY <2>1 DEF Abstract!Next
<1>3. QED
  BY <1>1, <1>2, DialLinks, AddLinks, ReaderLinks, SendLinks, RestartLinks
     DEF Next, Abstract!Next

\* The tables of all nodes implement PeerLinks: a connection that a node uses is
\* given up only for one by a higher dialler, before one by another dialler that is
\* accepted, or after a message to that peer found its connection dead; one is
\* refused for one by the same dialler only, and none that is gone is used again.
THEOREM TableImplementsLinks == Spec => LinksSpec
<1>1. Init => Abstract!Init
  <2> SUFFICES ASSUME Init PROVE Abstract!Init
    OBVIOUS
  <2>1. \A n \in Node, c \in Conn : Life(n, c) = "new"
    <3> SUFFICES ASSUME NEW n \in Node, NEW c \in Conn PROVE Life(n, c) = "new"
      OBVIOUS
    <3>1. Other(n, c) \in Node /\ c # None
      BY ConnEnds, NodeIDs DEF Other
    <3>2. QED
      BY <3>1 DEF Init, Life, InTable
  <2>2. QED
    BY <2>1 DEF Init, Idle, life, failing, Abstract!Init
<1>2. QED
  BY <1>1, LinksStep, TableCorrect, PTL DEF Spec, LinksSpec, Abstract!Spec
=============================================================================
