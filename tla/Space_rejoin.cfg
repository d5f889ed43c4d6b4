SPECIFICATION Spec
CONSTANTS
    x = x  y = y  z = z
    n1 = n1  n2 = n2
    None = None
    Devices = {x, y, z}
    Names = {n1}
    MaxSkew = 1
    TTL = 1
    Paired = {x, y, z}
    OwnName <- AllN1
    Ahead <- InStep
    May <- Pairers
    Moments = 3
    Invites = 1
    Traffic = 1
INVARIANT NoResurrection
INVARIANT OrderFree
PROPERTY JoinNeverBack
PROPERTY ReinviteSticks
CHECK_DEADLOCK FALSE
