SPECIFICATION Spec
CONSTANTS
    s1 = s1  s2 = s2  s3 = s3  s4 = s4  f1 = f1
    main = main  work = work  slash = slash  pad = pad  num = num
    p1 = p1  p2 = p2  t1 = t1  t2 = t2  c1 = c1  c2 = c2
    None = None
    Own = {s1, s2, s3}
    Foreign = {f1}
    Labels = {main, work, num}
    Legal = {main, work, num}
    Counter = {num}
    Trim <- TrimOf
    Peers = {p1}
    Tickets = {t1, t2}
    Clients = {c1, c2}
    May <- Sequential
    Most <- Of12
    Faults = {"save"}
SYMMETRY Alike
INVARIANT SpacesSound
INVARIANT AdmittedAsNamed
INVARIANT SingleUse
INVARIANT InvitedIn
PROPERTY OthersStay
