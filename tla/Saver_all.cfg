SPECIFICATION FairSpec
CONSTANTS
    None = None
    Callers = {c1, c2}
    Threads = {TRUE, FALSE}
    Faults = {"write", "kill", "power"}
    Changes = 4
    Deaths = 1
INVARIANT FlushMeansSaved
INVARIANT LastWord
PROPERTY NeverDamaged
PROPERTY FlushReturns
CHECK_DEADLOCK FALSE
