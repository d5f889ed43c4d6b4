SPECIFICATION Spec
CONSTANTS
    a = a  b = b  r = r  u = u  w = w
    m1 = m1  m2 = m2  m3 = m3  m4 = m4
    v1 = v1  v2 = v2
    None = None
    Jobs = {a, u, w}
    MsgIds = {m1, m3, m4}
    Voices = {v1}
    Clients = {c1}
    IdOf <- OfId
    GatingOf <- OfGating
    Chunks <- OfChunks
    VoiceOf <- NoVoices
    Controls = {}
    Faults = {}
INVARIANT NothingLost
CHECK_DEADLOCK FALSE
