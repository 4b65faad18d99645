SPECIFICATION FairSpec
CONSTANT MaxTaps = 3
INVARIANTS TypeOK OthersAreCancelled
PROPERTIES CardSettles
CHECK_DEADLOCK FALSE
