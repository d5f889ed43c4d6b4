SPECIFICATION FairSpec
CONSTANTS
    desk = desk  phone = phone  home = home  work = work  m = m  n = n
    None = None  NoWindow = NoWindow
    Day = 2
    DeepQueue = 1
    Devices = {desk, phone}
    Spaces = {home}
    Names = {"desk", "phone"}
    View <- OneSpace
    DefaultOf <- AllHome
    NameOf <- Names2
    Sends = {m, n}
    Cmd <- Commands
    Keep = 2
    Hours <- Night
    Controls <- AtDesk
    Faults = {"lost", "noEngine"}
    Changes = 1
INVARIANT QueuedIsLive
INVARIANT AnswerIsTrue
INVARIANT Once
INVARIANT RefusedForCause
PROPERTY EveryRowAnswered
CHECK_DEADLOCK FALSE
