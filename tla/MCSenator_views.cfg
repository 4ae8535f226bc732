CONSTANTS
    None = None
    Node = {n1, n2, n3}
    Views <- AnyViews
    Interrupts = {"leader", "role", "vote", "send"}
    MaxTerm = 2
    Impatient = {n1, n2}
SPECIFICATION Spec
SYMMETRY Symmetry
CHECK_DEADLOCK FALSE
INVARIANTS IInv OneVotePerTerm SplitNeedsShortLists BelievedLeaderWon CountedVotesAreReal VotesNeverAhead LeadersKeepTheirVote HeartbeatsAreContested
PROPERTIES ElectionSpec
