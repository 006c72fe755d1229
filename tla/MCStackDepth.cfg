SPECIFICATION FairDepthSpec
CONSTANT Emitted <- MCEmitted
INVARIANTS TypeOK WorklistFits AcceptedCertified MaxReached VerdictExact
PROPERTY Returns
CHECK_DEADLOCK FALSE
