SPECIFICATION Spec
CONSTANTS
    x = x  y = y  z = z
    n1 = n1  n2 = n2
    None = None
    Devices = {x, y, z}
    Names = {n1, n2}
    MaxSkew = 1
    TTL = 1
    Paired = {x, y, z}
    OwnName <- AllN1
    Ahead <- XYAhead
    May <- Departing
    Moments = 2
    Invites = 0
    Traffic = 3
INVARIANT GuessStaysLocal
INVARIANT StonesPast
CHECK_DEADLOCK FALSE
