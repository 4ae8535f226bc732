CONSTANTS
    None = None
    Node = {n1}
    Host = {h1, h2, h3}
    Given = None
    Failures = {"kube", "acme"}
    Unstable = {n1}
    Rivals = TRUE
SPECIFICATION FairSpec
INVARIANTS LeadershipInv
PROPERTIES PersistCoversBackends HostsAreServed
