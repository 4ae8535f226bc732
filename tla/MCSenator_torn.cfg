CONSTANTS
    None = None
    Node = {n1, n2, n3}
    Views <- FullViews
    Interrupts = {"role"}
    MaxTerm = 2
    Impatient = {n1, n2, n3}
SPECIFICATION Spec
SYMMETRY Symmetry
CHECK_DEADLOCK FALSE
PROPERTIES LeaderStepsDown
