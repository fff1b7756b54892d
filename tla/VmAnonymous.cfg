CONSTANTS
    p1 = p1  p2 = p2  p3 = p3  t1 = t1  t2 = t2  t3 = t3
    a = a  f1 = f1  c = c
    g1 = g1  g2 = g2  k1 = k1  k2 = k2
    Procs = {p1, p2, p3}
    First = p1
    Threads = {t1, t2, t3}
    proc <- MCProc
    Anon = {a}
    Shared = {f1}
    Cow = {c}
    FilePages = {0}
    object_page <- MCObject
    ForkIds = {k1, k2}
    Configs <- MCConfigs
    Frames = {g1, g2}
    NSlots = 2
    Data = {0, 1}
    VeryLow = 1
    FreeLow = 1
    WsLimit = 1
    WsCapacity = 2
    WsExpansion = 1
    UrgentDivisor = 2
    LaxDivisor = 1
    MaxWritebacks = 2
    MaxAnonymous = 2
    Nil = Nil
SPECIFICATION Spec
INVARIANT
    AnonymousCounted
CHECK_DEADLOCK FALSE
SYMMETRY PageSymmetry
