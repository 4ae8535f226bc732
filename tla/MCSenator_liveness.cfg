CONSTANTS
    None = None
    Node = {n1, n2, n3}
    Views <- FullViews
    Interrupts = {"send"}
    MaxTerm = 2
    Impatient = {n1, n2}
SPECIFICATION FairSpec
CHECK_DEADLOCK FALSE
INVARIANTS HeartbeatsAreEarned OneLeaderPerTerm
PROPERTIES LeaderStepsDown LeaderIsHeard RivalsAreDeposed
