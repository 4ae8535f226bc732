CONSTANTS
    None = None
    Node = {n1, n2}
    Host = {h1}
    Given = None
    Failures = {}
    Unstable = {}
    Rivals = FALSE
SPECIFICATION Spec
INVARIANTS OneGenerator
