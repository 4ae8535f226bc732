CONSTANTS
    Node = {n1, n2, n3}
    Us = n1
    Domain = {d1, d2}
    Late = {n3}
    Faulty = TRUE
SPECIFICATION FairSpec
INVARIANTS AcmeInv
PROPERTIES RejectedOnlyIfLate OrderingSpec EndsUnlessRefused
CHECK_DEADLOCK FALSE
