-------------------------- MODULE RPCNetworkProofs --------------------------
(* Theorems about the peer table, for any nodes and connections.           *)
EXTENDS RPCNetworkProperties, TLAPS

LEMMA OtherEnd ==
    ASSUME NEW c \in Conn, NEW n \in Ends(c)
    PROVE  n \in Node /\ Other(n, c) \in Node /\ Other(n, c) # n
BY ConnEnds DEF Ends, Other

LEMMA TableInit == Init => TableInv
<1> SUFFICES ASSUME Init PROVE TableInv
  OBVIOUS
<1>1. TypeOK
  BY DEF Init, TypeOK, Adding, Reader, Close, Sender, Idle
<1>2. QED
  BY <1>1, ConnEnds DEF Init, TableInv, AddingInv, EntryInv, HolderInv, DialInv,
              FreePlaceInv, NoOrphanReader, WaitsForToldReader, NoCloseUnderSend, Idle

\* A step that neither dials nor forgets a connection.
LEMMA DialKept ==
    ASSUME DialInv,
           \A n \in Node, c \in Conn : adding'[n][c] = "idle" <=> adding[n][c] = "idle"
    PROVE  DialInv'
<1>1. \A c \in Conn : Dialler[c] \in Node /\ Acceptor[c] \in Node
  BY ConnEnds
<1> QED
  BY <1>1 DEF DialInv

\* What Insert, the common end of add_peer's branches, preserves.
LEMMA InsertStep ==
    ASSUME TableInv, NEW n \in Node, NEW c \in Conn, Insert(n, c),
           adding[n][c] \in {"ready", "closing"},
           UNCHANGED <<sender, cut>>,
           sender[n].state # "sending",
           \/ closing[n] = None /\ closing' = closing
           \/ /\ adding[n][c] = "closing" /\ closing[n] # None
              /\ closing' = [closing EXCEPT ![n] = None]
    PROVE  TableInv'
<1> DEFINE p == Other(n, c)
           old == peers[n][p]
<1>1. /\ TypeOK /\ n \in Ends(c) /\ reader[n][c] = "none" /\ close[n][c] = "armed"
  BY DEF TableInv, AddingInv
<1>2. p \in Node /\ p # n
  BY <1>1, OtherEnd
<1>3. old # c
  <2> SUFFICES ASSUME peers[n][p] = c PROVE FALSE
    OBVIOUS
  <2>1. peers[n][p] # None
    BY NodeIDs
  <2>2. adding[n][peers[n][p]] = "added"
    BY <1>2, <2>1 DEF TableInv, EntryInv
  <2> QED
    BY <2>2
<1>4. /\ \A m, q \in Node :
            peers'[m][q] = IF m = n /\ q = p THEN c ELSE peers[m][q]
      /\ peers' \in [Node -> [Node -> Conn \cup {None}]]
  BY <1>1, <1>2 DEF TypeOK, Insert
<1>5. /\ \A m \in Node, d \in Conn :
            adding'[m][d] = IF m = n /\ d = c THEN "added" ELSE adding[m][d]
      /\ adding' \in [Node -> [Conn -> Adding]]
  BY <1>1 DEF TypeOK, Insert, Adding
<1>6. /\ \A m \in Node, d \in Conn :
            reader'[m][d] = IF m = n /\ d = c THEN "reading" ELSE reader[m][d]
      /\ reader' \in [Node -> [Conn -> Reader]]
  BY <1>1 DEF TypeOK, Insert, Reader
<1>7. /\ \A m \in Node, d \in Conn :
            close'[m][d] = IF m = n /\ d = old THEN "dropped" ELSE close[m][d]
      /\ close' \in [Node -> [Conn -> Close]]
  BY <1>1 DEF TypeOK, Insert, Close
<1>8. /\ \A m \in Node :
            closing'[m] = IF m = n THEN None ELSE closing[m]
      /\ closing' \in [Node -> Conn \cup {None}]
      /\ sender' = sender /\ cut' = cut
  BY <1>1 DEF TypeOK
<1>9. TypeOK'
  BY <1>1, <1>4, <1>5, <1>6, <1>7, <1>8 DEF TypeOK
<1>10. AddingInv'
  <2>1. old # None => old \in Conn /\ adding[n][old] = "added"
    BY <1>1, <1>2 DEF TableInv, EntryInv, TypeOK
  <2> QED
    BY <1>1, <1>3, <1>5, <1>6, <1>7, <2>1, NodeIDs DEF TableInv, AddingInv
<1>11. EntryInv'
  <2> SUFFICES ASSUME NEW m \in Node, NEW q \in Node, peers'[m][q] # None
               PROVE  /\ q = Other(m, peers'[m][q])
                      /\ adding'[m][peers'[m][q]] = "added"
                      /\ close'[m][peers'[m][q]] = "armed"
    BY DEF EntryInv
  <2>1. CASE m = n /\ q = p
    BY <1>1, <1>3, <1>4, <1>5, <1>7, <2>1
  <2>2. CASE ~(m = n /\ q = p)
    <3> DEFINE d == peers[m][q]
    <3>1. /\ peers'[m][q] = d /\ d \in Conn
          /\ q = Other(m, d) /\ adding[m][d] = "added" /\ close[m][d] = "armed"
      BY <1>1, <1>4, <2>2 DEF TableInv, EntryInv, TypeOK
    <3>2. m = n => d # old
      <4> SUFFICES ASSUME m = n, d = old PROVE FALSE
        OBVIOUS
      <4>1. old # None
        BY <3>1, <1>4, NodeIDs
      <4>2. p = Other(n, old)
        BY <4>1, <1>2, <1>1 DEF TableInv, EntryInv, TypeOK
      <4> QED
        BY <4>2, <3>1, <2>2
    <3> QED
      BY <3>1, <3>2, <1>5, <1>7
  <2> QED
    BY <2>1, <2>2
<1>12. HolderInv'
  <2>1. sender[n].state # "closing" /\ \A d \in Conn : d # c => adding[n][d] # "closing"
    BY DEF TableInv, HolderInv, WaitsForToldReader
  <2>2. \A m \in Node : m # n => closing'[m] = closing[m]
    BY <1>8
  <2> QED
    BY <2>1, <2>2, <1>5, <1>8 DEF TableInv, HolderInv
<1>13. NoOrphanReader'
  <2> SUFFICES ASSUME NEW m \in Node, NEW d \in Conn, reader'[m][d] = "reading"
               PROVE  \/ peers'[m][Other(m, d)] = d /\ close'[m][d] = "armed"
                      \/ close'[m][d] \in {"sent", "dropped"}
    BY DEF NoOrphanReader, InTable
  <2>1. CASE m = n /\ d = c
    BY <1>1, <1>2, <1>3, <1>4, <1>7, <2>1
  <2>2. CASE ~(m = n /\ d = c)
    <3>1. reader[m][d] = "reading" /\ m \in Ends(d)
      BY <1>6, <2>2 DEF TableInv, AddingInv
    <3>2. Other(m, d) \in Node
      BY <3>1, OtherEnd
    <3>3. \/ peers[m][Other(m, d)] = d /\ close[m][d] = "armed"
          \/ close[m][d] \in {"sent", "dropped"}
      BY <3>1 DEF TableInv, NoOrphanReader, InTable
    <3>4. CASE m = n /\ d = old
      BY <3>4, <1>7
    <3>5. CASE ~(m = n /\ d = old)
      BY <3>2, <3>3, <3>5, <1>4, <1>7
    <3> QED
      BY <3>4, <3>5
  <2> QED
    BY <2>1, <2>2
<1>14. WaitsForToldReader'
  <2>1. closing'[n] = None
    BY <1>8, <1>1 DEF TypeOK
  <2> SUFFICES ASSUME NEW m \in Node, closing'[m] # None
               PROVE  /\ close'[m][closing'[m]] = "sent"
                      /\ peers'[m][Other(m, closing'[m])] # closing'[m]
                      /\ \A b, d \in Conn :
                            adding'[m][b] = "closing" /\ adding'[m][d] = "closing" => b = d
                      /\ sender'[m].state # "sending"
                      /\ sender'[m].state = "closing" =>
                            \A b \in Conn : adding'[m][b] # "closing"
    BY DEF WaitsForToldReader, InTable
  <2>2. m # n /\ closing'[m] = closing[m] /\ closing[m] \in Conn
    BY <2>1, <1>1, <1>8 DEF TypeOK
  <2>3. /\ \A b \in Conn : adding'[m][b] = adding[m][b] /\ close'[m][b] = close[m][b]
        /\ peers'[m] = peers[m] /\ sender'[m] = sender[m]
    BY <2>2, <1>4, <1>5, <1>7, <1>8, <1>1 DEF Insert
  <2> QED
    BY <2>2, <2>3 DEF TableInv, WaitsForToldReader, InTable
<1>15. NoCloseUnderSend'
  <2> SUFFICES ASSUME NEW m \in Node, sender'[m].state = "sending"
               PROVE  sender'[m].conn = peers'[m][sender'[m].to]
    BY DEF NoCloseUnderSend
  <2>1. m # n /\ sender[m].to \in Node
    BY <1>1, <1>8 DEF TypeOK, Sender
  <2> QED
    BY <2>1, <1>4, <1>8 DEF TableInv, NoCloseUnderSend
<1>16. DialInv'
  BY <1>5, DialKept DEF TableInv
<1>17. FreePlaceInv'
  <2> SUFFICES ASSUME NEW m \in Node, NEW d \in Conn, adding'[m][d] = "closing"
               PROVE  peers'[m][Other(m, d)] = None
    BY DEF FreePlaceInv
  <2>1. m # n
    BY <1>5 DEF TableInv, HolderInv, WaitsForToldReader
  <2>2. peers'[m] = peers[m] /\ adding[m][d] = "closing"
    BY <2>1, <1>1, <1>5 DEF TypeOK, Insert
  <2> QED
    BY <2>2 DEF TableInv, FreePlaceInv
<1> QED
  BY <1>9, <1>10, <1>11, <1>12, <1>13, <1>14, <1>15, <1>16, <1>17 DEF TableInv

\* What Remove, in add_peer and in remove_peer, preserves.
LEMMA RemoveStep ==
    ASSUME TableInv, NEW n \in Node, NEW p \in Node, peers[n][p] # None,
           Remove(n, p), Unlocked(n), reader' = reader, cut' = cut,
           \/ /\ sender' = sender /\ sender[n].state # "closing"
              /\ \E c \in Conn : /\ adding[n][c] = "ready" /\ p = Other(n, c)
                                 /\ adding' = [adding EXCEPT ![n][c] = "closing"]
           \/ /\ adding' = adding /\ sender[n].state = "failed"
              /\ sender' = [sender EXCEPT ![n].state = "closing"]
    PROVE  TableInv'
<1> DEFINE old == peers[n][p]
<1>1. /\ TypeOK /\ old \in Conn /\ p = Other(n, old)
      /\ adding[n][old] = "added" /\ close[n][old] = "armed"
      /\ closing[n] = None /\ sender[n].state # "sending"
  BY DEF TableInv, TypeOK, EntryInv, Unlocked, NoWriter
<1>2. \A d \in Conn : adding[n][d] # "closing"
  BY <1>1 DEF TableInv, HolderInv
<1>3. /\ \A m, q \in Node :
            peers'[m][q] = IF m = n /\ q = p THEN None ELSE peers[m][q]
      /\ peers' \in [Node -> [Node -> Conn \cup {None}]]
  BY <1>1 DEF TypeOK, Remove
<1>4. /\ \A m \in Node, d \in Conn :
            close'[m][d] = IF m = n /\ d = old THEN "sent" ELSE close[m][d]
      /\ close' \in [Node -> [Conn -> Close]]
  BY <1>1 DEF TypeOK, Remove, Close
<1>5. /\ \A m \in Node : closing'[m] = IF m = n THEN old ELSE closing[m]
      /\ closing' \in [Node -> Conn \cup {None}]
  BY <1>1 DEF TypeOK, Remove
<1>6. /\ \A m \in Node, d \in Conn :
            \/ adding'[m][d] = adding[m][d]
            \/ m = n /\ adding[m][d] = "ready" /\ adding'[m][d] = "closing"
      /\ \A m \in Node : m # n => adding'[m] = adding[m] /\ sender'[m] = sender[m]
      /\ adding' \in [Node -> [Conn -> Adding]]
  <2>1. CASE adding' = adding /\ sender' = [sender EXCEPT ![n].state = "closing"]
    BY <1>1, <2>1 DEF TypeOK, Adding
  <2>2. CASE /\ sender' = sender
             /\ \E c \in Conn : /\ adding[n][c] = "ready" /\ p = Other(n, c)
                                /\ adding' = [adding EXCEPT ![n][c] = "closing"]
    BY <1>1, <2>2 DEF TypeOK, Adding
  <2> QED
    BY <2>1, <2>2
<1>7. /\ sender' \in [Node -> Sender] /\ sender'[n].state # "sending"
      /\ \A c, d \in Conn :
            adding'[n][c] = "closing" /\ adding'[n][d] = "closing" => c = d
      /\ sender'[n].state = "closing" => \A c \in Conn : adding'[n][c] # "closing"
  <2>1. CASE /\ adding' = adding /\ sender[n].state = "failed"
             /\ sender' = [sender EXCEPT ![n].state = "closing"]
    BY <1>1, <1>2, <2>1 DEF TypeOK, Sender
  <2>2. CASE /\ sender' = sender /\ sender[n].state # "closing"
             /\ \E c \in Conn : /\ adding[n][c] = "ready"
                                /\ adding' = [adding EXCEPT ![n][c] = "closing"]
    BY <1>1, <1>2, <2>2 DEF TypeOK
  <2> QED
    BY <2>1, <2>2
<1>7a. \A d \in Conn : adding'[n][d] = "closing" => p = Other(n, d)
  BY <1>1, <1>2 DEF TypeOK
<1>8. TypeOK'
  BY <1>1, <1>3, <1>4, <1>5, <1>6, <1>7 DEF TypeOK
<1>9. AddingInv'
  BY <1>1, <1>4, <1>6 DEF TableInv, AddingInv
<1>10. EntryInv'
  <2> SUFFICES ASSUME NEW m \in Node, NEW q \in Node, peers'[m][q] # None
               PROVE  /\ q = Other(m, peers'[m][q])
                      /\ adding'[m][peers'[m][q]] = "added"
                      /\ close'[m][peers'[m][q]] = "armed"
    BY DEF EntryInv
  <2> DEFINE d == peers[m][q]
  <2>1. ~(m = n /\ q = p) /\ peers'[m][q] = d
    BY <1>3
  <2>2. /\ d \in Conn /\ q = Other(m, d)
        /\ adding[m][d] = "added" /\ close[m][d] = "armed"
    BY <2>1, <1>1 DEF TableInv, EntryInv, TypeOK
  <2>3. m = n => d # old
    BY <1>1, <2>1, <2>2
  <2> QED
    BY <2>1, <2>2, <2>3, <1>4, <1>6
<1>11. HolderInv'
  <2>1. old # None
    OBVIOUS
  <2> QED
    BY <2>1, <1>5, <1>6 DEF TableInv, HolderInv
<1>12. NoOrphanReader'
  <2> SUFFICES ASSUME NEW m \in Node, NEW d \in Conn, reader[m][d] = "reading"
               PROVE  \/ peers'[m][Other(m, d)] = d /\ close'[m][d] = "armed"
                      \/ close'[m][d] \in {"sent", "dropped"}
    BY DEF NoOrphanReader, InTable
  <2>1. Other(m, d) \in Node
    BY OtherEnd DEF TableInv, AddingInv
  <2>2. \/ peers[m][Other(m, d)] = d /\ close[m][d] = "armed"
        \/ close[m][d] \in {"sent", "dropped"}
    BY DEF TableInv, NoOrphanReader, InTable
  <2>3. CASE m = n /\ d = old
    BY <2>3, <1>4, <1>1
  <2>4. CASE ~(m = n /\ d = old)
    BY <2>1, <2>2, <2>4, <1>3, <1>4
  <2> QED
    BY <2>3, <2>4
<1>13. WaitsForToldReader'
  <2> SUFFICES ASSUME NEW m \in Node, closing'[m] # None
               PROVE  /\ close'[m][closing'[m]] = "sent"
                      /\ peers'[m][Other(m, closing'[m])] # closing'[m]
                      /\ \A b, d \in Conn :
                            adding'[m][b] = "closing" /\ adding'[m][d] = "closing" => b = d
                      /\ sender'[m].state # "sending"
                      /\ sender'[m].state = "closing" =>
                            \A b \in Conn : adding'[m][b] # "closing"
    BY DEF WaitsForToldReader, InTable
  <2>1. CASE m = n
    BY <2>1, <1>1, <1>3, <1>4, <1>5, <1>7
  <2>2. CASE m # n
    <3>1. /\ \A b \in Conn : close'[m][b] = close[m][b]
          /\ peers'[m] = peers[m] /\ sender'[m] = sender[m] /\ adding'[m] = adding[m]
          /\ closing'[m] = closing[m] /\ closing[m] \in Conn
      BY <2>2, <1>1, <1>4, <1>5, <1>6 DEF TypeOK, Remove
    <3> QED
      BY <3>1 DEF TableInv, WaitsForToldReader, InTable
  <2> QED
    BY <2>1, <2>2
<1>14. NoCloseUnderSend'
  <2> SUFFICES ASSUME NEW m \in Node, sender'[m].state = "sending"
               PROVE  sender'[m].conn = peers'[m][sender'[m].to]
    BY DEF NoCloseUnderSend
  <2>1. m # n /\ sender'[m] = sender[m] /\ sender[m].to \in Node
    BY <1>1, <1>6, <1>7 DEF TypeOK, Sender
  <2> QED
    BY <2>1, <1>3 DEF TableInv, NoCloseUnderSend
<1>15. DialInv'
  BY <1>6, DialKept DEF TableInv
<1>16. FreePlaceInv'
  <2> SUFFICES ASSUME NEW m \in Node, NEW d \in Conn, adding'[m][d] = "closing"
               PROVE  peers'[m][Other(m, d)] = None
    BY DEF FreePlaceInv
  <2>1. CASE adding[m][d] = "closing"
    <3>1. m # n /\ d \in Conn /\ m \in Ends(d)
      BY <1>2, <2>1 DEF TableInv, AddingInv
    <3> QED
      BY <3>1, <2>1, <1>3, OtherEnd DEF TableInv, FreePlaceInv
  <2>2. CASE adding[m][d] # "closing"
    <3>1. m = n /\ p = Other(n, d)
      BY <2>2, <1>6, <1>7a
    <3> QED
      BY <3>1, <1>3
  <2> QED
    BY <2>1, <2>2
<1> QED
  BY <1>8, <1>9, <1>10, <1>11, <1>12, <1>13, <1>14, <1>15, <1>16 DEF TableInv

\* What a step of n's sender that leaves the table alone preserves.
LEMMA SenderStep ==
    ASSUME TableInv, NEW n \in Node, NEW s \in Sender,
           sender' = [sender EXCEPT ![n] = s],
           s.state # "closing",
           s.state = "sending" => NoWriter(n) /\ s.conn = peers[n][s.to],
           closing[n] # None => closing'[n] = None \/ sender[n].state # "closing",
           \/ closing' = closing
           \/ /\ sender[n].state = "closing" /\ closing[n] # None
              /\ closing' = [closing EXCEPT ![n] = None],
           UNCHANGED <<peers, adding, reader, close, cut>>
    PROVE  TableInv'
<1>1. /\ \A m \in Node : sender'[m] = IF m = n THEN s ELSE sender[m]
      /\ sender' \in [Node -> Sender]
  BY DEF TableInv, TypeOK
<1>2. /\ \A m \in Node : m # n => closing'[m] = closing[m]
      /\ closing'[n] = closing[n] \/ (closing'[n] = None /\ sender[n].state = "closing")
      /\ closing' \in [Node -> Conn \cup {None}]
  BY DEF TableInv, TypeOK
<1>3. TypeOK'
  BY <1>1, <1>2 DEF TableInv, TypeOK
<1>4. AddingInv' /\ EntryInv' /\ DialInv' /\ FreePlaceInv' /\ NoOrphanReader'
  BY DEF TableInv, AddingInv, EntryInv, DialInv, FreePlaceInv, NoOrphanReader, InTable
<1>5. HolderInv'
  <2>1. sender[n].state = "closing" => \A c \in Conn : adding[n][c] # "closing"
    BY DEF TableInv, HolderInv, WaitsForToldReader
  <2> QED
    BY <1>1, <1>2, <2>1 DEF TableInv, HolderInv
<1>6. WaitsForToldReader'
  BY <1>1, <1>2 DEF TableInv, WaitsForToldReader, InTable, NoWriter
<1>7. NoCloseUnderSend'
  BY <1>1 DEF TableInv, NoCloseUnderSend
<1> QED
  BY <1>3, <1>4, <1>5, <1>6, <1>7 DEF TableInv

\* What the end of a reader preserves.
LEMMA ReaderStep ==
    ASSUME TableInv, NEW n \in Node, NEW c \in Conn, reader[n][c] = "reading",
           NEW r \in {"closed", "failed"}, reader' = [reader EXCEPT ![n][c] = r],
           UNCHANGED <<peers, adding, close, closing, sender, cut>>
    PROVE  TableInv'
<1>1. /\ \A m \in Node, d \in Conn :
            reader'[m][d] = IF m = n /\ d = c THEN r ELSE reader[m][d]
      /\ reader' \in [Node -> [Conn -> Reader]]
  BY DEF TableInv, TypeOK, Reader
<1>2. /\ TypeOK' /\ EntryInv' /\ HolderInv' /\ DialInv' /\ FreePlaceInv'
      /\ NoCloseUnderSend'
  BY <1>1 DEF TableInv, TypeOK, EntryInv, HolderInv, DialInv, FreePlaceInv,
              NoCloseUnderSend
<1>3. WaitsForToldReader'
  BY DEF TableInv, WaitsForToldReader, InTable
<1>4. AddingInv'
  BY <1>1 DEF TableInv, AddingInv
<1>5. NoOrphanReader'
  BY <1>1 DEF TableInv, NoOrphanReader, InTable
<1> QED
  BY <1>2, <1>3, <1>4, <1>5 DEF TableInv

\* What a change of adding preserves that ends at none of the states the
\* rest of the table depends on.
LEMMA AddingStep ==
    ASSUME TableInv, adding' \in [Node -> [Conn -> Adding]],
           \A n \in Node, c \in Conn :
               \/ adding'[n][c] = adding[n][c]
               \/ /\ n \in Ends(c) /\ adding[n][c] \in {"idle", "ready"}
                  /\ adding'[n][c] \in {"ready", "refused"},
           DialInv',
           UNCHANGED <<peers, reader, close, closing, sender, cut>>
    PROVE  TableInv'
<1>1. TypeOK' /\ NoOrphanReader' /\ NoCloseUnderSend'
  BY DEF TableInv, TypeOK, NoOrphanReader, InTable, NoCloseUnderSend
<1>2. AddingInv'
  BY DEF TableInv, AddingInv
<1>3. EntryInv'
  <2> SUFFICES ASSUME NEW m \in Node, NEW q \in Node, peers[m][q] # None
               PROVE  /\ q = Other(m, peers[m][q])
                      /\ adding'[m][peers[m][q]] = "added"
                      /\ close[m][peers[m][q]] = "armed"
    BY DEF EntryInv
  <2>1. /\ peers[m][q] \in Conn /\ q = Other(m, peers[m][q])
        /\ adding[m][peers[m][q]] = "added" /\ close[m][peers[m][q]] = "armed"
    BY DEF TableInv, EntryInv, TypeOK
  <2> QED
    BY <2>1
<1>4. HolderInv'
  BY DEF TableInv, HolderInv
<1>5. WaitsForToldReader'
  BY DEF TableInv, WaitsForToldReader, InTable
<1>6. FreePlaceInv'
  BY DEF TableInv, FreePlaceInv
<1> QED
  BY <1>1, <1>2, <1>3, <1>4, <1>5, <1>6 DEF TableInv

LEMMA RestartStep ==
    ASSUME TableInv, NEW n \in Node, Restart(n)
    PROVE  TableInv'
<1>1. /\ \A m, q \in Node : peers'[m][q] = IF m = n THEN None ELSE peers[m][q]
      /\ peers' \in [Node -> [Node -> Conn \cup {None}]]
  BY DEF TableInv, TypeOK, Restart
<1>2. /\ \A m \in Node : m # n => adding'[m] = adding[m]
      /\ \A d \in Conn :
            /\ adding'[n][d] # "idle" <=> adding[n][d] # "idle"
            /\ adding'[n][d] \notin {"closing", "added"}
      /\ adding' \in [Node -> [Conn -> Adding]]
  BY DEF TableInv, TypeOK, Restart, Adding
<1>3. /\ \A m \in Node, d \in Conn :
            reader'[m][d] = IF m = n THEN "none" ELSE reader[m][d]
      /\ reader' \in [Node -> [Conn -> Reader]]
  BY DEF TableInv, TypeOK, Restart, Reader
<1>4. /\ \A m \in Node, d \in Conn :
            close'[m][d] = IF m = n THEN "armed" ELSE close[m][d]
      /\ close' \in [Node -> [Conn -> Close]]
  BY DEF TableInv, TypeOK, Restart, Close
<1>5. /\ \A m \in Node : closing'[m] = IF m = n THEN None ELSE closing[m]
      /\ closing' \in [Node -> Conn \cup {None}]
  BY DEF TableInv, TypeOK, Restart
<1>6. /\ \A m \in Node : sender'[m] = IF m = n THEN Idle(n) ELSE sender[m]
      /\ sender' \in [Node -> Sender] /\ cut' = cut
  BY DEF TableInv, TypeOK, Restart, Sender, Idle
<1>7. TypeOK'
  BY <1>1, <1>2, <1>3, <1>4, <1>5, <1>6 DEF TableInv, TypeOK
<1>8. AddingInv'
  <2> SUFFICES ASSUME NEW m \in Node, NEW d \in Conn
               PROVE  /\ adding'[m][d] # "idle" => m \in Ends(d)
                      /\ adding'[m][d] # "added" =>
                            reader'[m][d] = "none" /\ close'[m][d] = "armed"
    BY DEF AddingInv
  <2>1. CASE m = n
    BY <2>1, <1>2, <1>3, <1>4 DEF TableInv, AddingInv
  <2>2. CASE m # n
    <3>1. /\ adding'[m][d] = adding[m][d] /\ reader'[m][d] = reader[m][d]
          /\ close'[m][d] = close[m][d]
      BY <2>2, <1>2, <1>3, <1>4
    <3> QED
      BY <3>1 DEF TableInv, AddingInv
  <2> QED
    BY <2>1, <2>2
<1>9. EntryInv'
  <2> SUFFICES ASSUME NEW m \in Node, NEW q \in Node, peers'[m][q] # None
               PROVE  /\ q = Other(m, peers'[m][q])
                      /\ adding'[m][peers'[m][q]] = "added"
                      /\ close'[m][peers'[m][q]] = "armed"
    BY DEF EntryInv
  <2>1. m # n /\ peers'[m][q] = peers[m][q] /\ adding'[m] = adding[m]
    BY <1>1, <1>2
  <2>2. peers[m][q] \in Conn
    BY <2>1 DEF TableInv, TypeOK
  <2> QED
    BY <2>1, <2>2, <1>4 DEF TableInv, EntryInv
<1>10. HolderInv'
  <2> SUFFICES ASSUME NEW m \in Node
               PROVE  /\ sender'[m].state = "closing" => closing'[m] # None
                      /\ \A d \in Conn : adding'[m][d] = "closing" => closing'[m] # None
    BY DEF HolderInv
  <2>1. CASE m = n
    BY <2>1, <1>2, <1>6 DEF Idle
  <2>2. CASE m # n
    BY <2>2, <1>2, <1>5, <1>6 DEF TableInv, HolderInv
  <2> QED
    BY <2>1, <2>2
<1>11. NoOrphanReader'
  <2>1. \A m \in Node, d \in Conn : reader[m][d] = "reading" => Other(m, d) \in Node
    BY OtherEnd DEF TableInv, AddingInv
  <2> SUFFICES ASSUME NEW m \in Node, NEW d \in Conn, reader'[m][d] = "reading"
               PROVE  \/ peers'[m][Other(m, d)] = d /\ close'[m][d] = "armed"
                      \/ close'[m][d] \in {"sent", "dropped"}
    BY DEF NoOrphanReader, InTable
  <2>2. m # n /\ reader[m][d] = "reading"
    BY <1>3
  <2>3. /\ peers'[m][Other(m, d)] = peers[m][Other(m, d)]
        /\ close'[m][d] = close[m][d]
    BY <1>1, <1>4, <2>1, <2>2
  <2> QED
    BY <2>2, <2>3 DEF TableInv, NoOrphanReader, InTable
<1>12. WaitsForToldReader'
  <2> SUFFICES ASSUME NEW m \in Node, closing'[m] # None
               PROVE  /\ close'[m][closing'[m]] = "sent"
                      /\ peers'[m][Other(m, closing'[m])] # closing'[m]
                      /\ \A b, d \in Conn :
                            adding'[m][b] = "closing" /\ adding'[m][d] = "closing" => b = d
                      /\ sender'[m].state # "sending"
                      /\ sender'[m].state = "closing" =>
                            \A b \in Conn : adding'[m][b] # "closing"
    BY DEF WaitsForToldReader, InTable
  <2>1. /\ m # n /\ closing'[m] = closing[m] /\ peers'[m] = peers[m]
        /\ close'[m] = close[m] /\ adding'[m] = adding[m] /\ sender'[m] = sender[m]
    BY <1>5, <1>6 DEF TableInv, TypeOK, Restart
  <2> QED
    BY <2>1 DEF TableInv, WaitsForToldReader, InTable
<1>13. NoCloseUnderSend'
  <2> SUFFICES ASSUME NEW m \in Node, sender'[m].state = "sending"
               PROVE  sender'[m].conn = peers'[m][sender'[m].to]
    BY DEF NoCloseUnderSend
  <2>1. m # n /\ sender'[m] = sender[m]
    BY <1>6 DEF Idle
  <2>2. sender[m].to \in Node
    BY DEF TableInv, TypeOK, Sender
  <2> QED
    BY <1>1, <2>1, <2>2 DEF TableInv, NoCloseUnderSend
<1>14. DialInv'
  <2>1. \A m \in Node, d \in Conn : adding'[m][d] = "idle" <=> adding[m][d] = "idle"
    BY <1>2
  <2> QED
    BY <2>1, DialKept DEF TableInv
<1>15. FreePlaceInv'
  <2> SUFFICES ASSUME NEW m \in Node, NEW d \in Conn, adding'[m][d] = "closing"
               PROVE  peers'[m][Other(m, d)] = None
    BY DEF FreePlaceInv
  <2>1. m # n /\ adding[m][d] = "closing"
    BY <1>2
  <2>2. peers'[m] = peers[m]
    BY <2>1 DEF TableInv, TypeOK, Restart
  <2> QED
    BY <2>1, <2>2 DEF TableInv, FreePlaceInv
<1> QED
  BY <1>7, <1>8, <1>9, <1>10, <1>11, <1>12, <1>13, <1>14, <1>15 DEF TableInv

LEMMA TableStep == TableInv /\ [Next]_vars => TableInv'
<1> SUFFICES ASSUME TableInv, [Next]_vars PROVE TableInv'
  OBVIOUS
<1>0. TypeOK
  BY DEF TableInv
<1>1. ASSUME NEW c \in Conn, Dial(c) PROVE TableInv'
  <2>1. /\ adding' \in [Node -> [Conn -> Adding]]
        /\ \A n \in Node, d \in Conn :
              \/ adding'[n][d] = adding[n][d]
              \/ /\ n \in Ends(d) /\ adding[n][d] = "idle"
                 /\ adding'[n][d] = "ready"
    BY <1>0, <1>1 DEF TypeOK, Dial, Adding
  <2>2. DialInv'
    <3> SUFFICES ASSUME NEW d \in Conn
                 PROVE  adding'[Dialler[d]][d] = "idle" <=> adding'[Acceptor[d]][d] = "idle"
      BY DEF DialInv
    <3>1. \A n \in Node : adding'[n][d] = IF d = c /\ n \in Ends(c) THEN "ready"
                                          ELSE adding[n][d]
      BY <1>0, <1>1 DEF TypeOK, Dial
    <3>2. Dialler[d] \in Node /\ Acceptor[d] \in Node
      BY ConnEnds
    <3> QED
      BY <3>1, <3>2 DEF Ends, TableInv, DialInv
  <2> QED
    BY <1>1, <2>1, <2>2, AddingStep DEF Dial
<1>2. ASSUME NEW c \in Conn, Cut(c) PROVE TableInv'
  BY <1>2 DEF Cut, TableInv, TypeOK, AddingInv, EntryInv, HolderInv, DialInv,
              FreePlaceInv, NoOrphanReader, WaitsForToldReader, NoCloseUnderSend, InTable
<1>3. ASSUME NEW n \in Node, NEW c \in Conn, AddRefused(n, c) PROVE TableInv'
  <2>1. n \in Ends(c) /\ adding[n][c] = "ready"
    BY <1>3 DEF AddRefused, TableInv, AddingInv
  <2>2. /\ adding' \in [Node -> [Conn -> Adding]]
        /\ \A m \in Node, d \in Conn :
              \/ adding'[m][d] = adding[m][d]
              \/ m = n /\ d = c /\ adding'[m][d] = "refused"
    BY <1>0, <1>3 DEF TypeOK, AddRefused, Adding
  <2>3. DialInv'
    BY <2>1, <2>2, DialKept DEF TableInv
  <2> QED
    BY <1>3, <2>1, <2>2, <2>3, AddingStep DEF AddRefused
<1>4. ASSUME NEW n \in Node, NEW c \in Conn, AddReplaces(n, c) PROVE TableInv'
  <2>1. n \in Ends(c) /\ closing[n] = None
    BY <1>4 DEF AddReplaces, TableInv, AddingInv, Unlocked, NoWriter
  <2>2. Other(n, c) \in Node /\ sender[n].state # "closing"
    BY <2>1, OtherEnd DEF TableInv, HolderInv
  <2> QED
    BY <1>4, <2>2, RemoveStep DEF AddReplaces
<1>5. ASSUME NEW n \in Node, NEW c \in Conn, AddReplaced(n, c) PROVE TableInv'
  <2>1. sender[n].state # "sending"
    BY <1>5 DEF AddReplaced, Closed, TableInv, WaitsForToldReader
  <2> QED
    BY <1>5, <2>1, InsertStep DEF AddReplaced, Closed
<1>6. ASSUME NEW n \in Node, NEW c \in Conn, AddInserts(n, c) PROVE TableInv'
  BY <1>6, InsertStep DEF AddInserts, Unlocked, NoWriter
<1>7. ASSUME NEW n \in Node, NEW c \in Conn, ReaderCloses(n, c) \/ ReaderFails(n, c)
      PROVE  TableInv'
  BY <1>7, ReaderStep DEF ReaderCloses, ReaderFails
<1>8. ASSUME NEW n \in Node, NEW p \in Node, SendStarts(n, p) PROVE TableInv'
  <2> DEFINE s == [state |-> "sending", to |-> p, conn |-> peers[n][p]]
  <2>1. s \in Sender /\ s.state # "closing" /\ s.conn = peers[n][s.to]
    BY <1>0 DEF TypeOK, Sender
  <2>2. /\ sender' = [sender EXCEPT ![n] = s] /\ sender[n].state = "idle"
        /\ NoWriter(n) /\ UNCHANGED <<peers, adding, reader, close, closing, cut>>
    BY <1>8 DEF SendStarts
  <2> HIDE DEF s
  <2> QED
    BY <2>1, <2>2, SenderStep
<1>9. ASSUME NEW n \in Node, SendSucceeds(n) \/ SendFindsNone(n) PROVE TableInv'
  <2>1. Idle(n) \in Sender /\ Idle(n).state = "idle"
    BY DEF Sender, Idle
  <2>2. /\ sender' = [sender EXCEPT ![n] = Idle(n)] /\ sender[n].state # "closing"
        /\ UNCHANGED <<peers, adding, reader, close, closing, cut>>
    BY <1>9 DEF SendSucceeds, SendFindsNone
  <2> QED
    BY <2>1, <2>2, SenderStep
<1>10. ASSUME NEW n \in Node, SendFails(n) PROVE TableInv'
  <2> DEFINE s == [state |-> "failed", to |-> sender[n].to, conn |-> None]
  <2>1. s \in Sender /\ s.state = "failed"
    BY <1>0 DEF TypeOK, Sender
  <2>2. /\ sender' = [sender EXCEPT ![n] = s] /\ sender[n].state = "sending"
        /\ UNCHANGED <<peers, adding, reader, close, closing, cut>>
    BY <1>10 DEF SendFails
  <2> HIDE DEF s
  <2> QED
    BY <2>1, <2>2, SenderStep
<1>11. ASSUME NEW n \in Node, SendRemoves(n) PROVE TableInv'
  <2>1. sender[n].to \in Node
    BY <1>0 DEF TypeOK, Sender
  <2> QED
    BY <1>11, <2>1, RemoveStep DEF SendRemoves
<1>12. ASSUME NEW n \in Node, SendRemoved(n) PROVE TableInv'
  <2>1. Idle(n) \in Sender /\ Idle(n).state = "idle"
    BY DEF Sender, Idle
  <2>2. closing'[n] = None
    BY <1>0, <1>12 DEF TypeOK, SendRemoved, Closed
  <2>3. /\ sender' = [sender EXCEPT ![n] = Idle(n)] /\ sender[n].state = "closing"
        /\ closing[n] # None /\ closing' = [closing EXCEPT ![n] = None]
        /\ UNCHANGED <<peers, adding, reader, close, cut>>
    BY <1>12 DEF SendRemoved, Closed
  <2> QED
    BY <2>1, <2>2, <2>3, SenderStep
<1>13. ASSUME NEW n \in Node, SendDropped(n) PROVE TableInv'
  <2>1. Idle(n) \in Sender /\ Idle(n).state = "idle"
    BY DEF Sender, Idle
  <2>2. CASE sender[n].state = "closing"
    <3>1. closing[n] # None /\ closing' = [closing EXCEPT ![n] = None]
      BY <1>13, <2>2 DEF SendDropped, TableInv, HolderInv
    <3>2. closing'[n] = None
      BY <1>0, <3>1 DEF TypeOK
    <3>3. /\ sender' = [sender EXCEPT ![n] = Idle(n)]
          /\ UNCHANGED <<peers, adding, reader, close, cut>>
      BY <1>13 DEF SendDropped
    <3> QED
      BY <2>1, <2>2, <3>1, <3>2, <3>3, SenderStep
  <2>3. CASE sender[n].state # "closing"
    <3>1. /\ sender' = [sender EXCEPT ![n] = Idle(n)]
          /\ UNCHANGED <<peers, adding, reader, close, closing, cut>>
      BY <1>13, <2>3 DEF SendDropped
    <3> QED
      BY <2>1, <2>3, <3>1, SenderStep
  <2> QED
    BY <2>2, <2>3
<1>14. ASSUME NEW n \in Node, Restart(n) PROVE TableInv'
  BY <1>14, RestartStep
<1>15. CASE UNCHANGED vars
  BY <1>15 DEF vars, TableInv, TypeOK, AddingInv, EntryInv, HolderInv, DialInv,
               FreePlaceInv, NoOrphanReader, WaitsForToldReader, NoCloseUnderSend, InTable
<1> QED
  BY <1>1, <1>2, <1>3, <1>4, <1>5, <1>6, <1>7, <1>8, <1>9, <1>10, <1>11, <1>12,
     <1>13, <1>14, <1>15 DEF Next, Add, Send

\* The table, its channels and its tasks keep to their types and invariants.
THEOREM TableCorrect == Spec => []TableInv
<1> QED
  BY TableInit, TableStep, PTL DEF Spec

\* No reader is ever out of reach of a close signal.
THEOREM ReadersAreReachable == Spec => []NoOrphanReader
<1>1. TableInv => NoOrphanReader
  BY DEF TableInv
<1> QED
  BY <1>1, TableCorrect, PTL

\* The lock is only ever held for a reader that has been told to close.
THEOREM WaitsEnd == Spec => []WaitsForToldReader
<1>1. TableInv => WaitsForToldReader
  BY DEF TableInv
<1> QED
  BY <1>1, TableCorrect, PTL

\* A stream is never closed under a write.
THEOREM SendsAreUndisturbed == Spec => []NoCloseUnderSend
<1>1. TableInv => NoCloseUnderSend
  BY DEF TableInv
<1> QED
  BY <1>1, TableCorrect, PTL
=============================================================================
