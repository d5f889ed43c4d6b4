SPECIFICATION FairSpec
CONSTANTS
    i1 = i1  i2 = i2  i3 = i3
    None = None
    MaxChunk = 3  MaxSpan = 3  Longest = 4
    Invocations = {i1, i2, i3}
    Jobs <- OneSends
    States = {"down", "up", "wedged", "other"}
    Faults = {"die", "remove"}
INVARIANT AgreementSerial
PROPERTY EveryCallEnds
CHECK_DEADLOCK FALSE
