SPECIFICATION FairSpec
CONSTANT MaxSignals = 2
INVARIANTS TypeOK PassIsEarned
PROPERTY EndsWhenTold
\* The runner has exited.
CHECK_DEADLOCK FALSE
