CONSTANTS
    c12 = c12
    c21 = c21
    d12 = d12
    None = None
    Node = {1, 2}
    Conn = {c12, c21, d12}
    Dialler <- Dialler_
    Acceptor <- Acceptor_
    Unstable = {1, d12}
SPECIFICATION Spec
INVARIANTS TableInv NoOrphanReader WaitsForToldReader NoCloseUnderSend
PROPERTIES LinksSpec
