SPECIFICATION Spec
CONSTANTS
    t1 = t1
    t2 = t2
    t3 = t3
    m1 = m1
    m2 = m2
    s1 = s1
    e1 = e1
    Threads = {t1, t2}
    Mutexes = {m1}
    Semaphores = {}
    Events = {}
    NoThread = NoThread
    NoObject = NoObject
    Workloads <- TryLockWorkloads
    SemInit = 1
    MaxCount = 2
INVARIANT
    NoPhantomOwner
CHECK_DEADLOCK FALSE
