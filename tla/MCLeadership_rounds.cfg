CONSTANTS
    None = None
    Node = {n1, n2}
    Host = {h1}
    Given = None
    Failures = {"acme"}
    Unstable = {}
    Rivals = TRUE
SPECIFICATION Spec
SYMMETRY Symmetry
INVARIANTS LeadershipInv GeneratorsShareAccount NothingMissed
PROPERTIES PersistCoversBackends StoreSpec
