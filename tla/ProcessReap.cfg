SPECIFICATION SumSpec
CONSTANTS
    root = root
    a = a
    b = b
    Procs <- MCProcs
    Root = root
    Workers = {w1, w2}
    Senders = {s1}
    NoProc = NoProc
    AnyChild = AnyChild
    Waits <- MCWaits
    Starts <- MCStarts
    Pids <- MCProcs
    Leader = root
    Terminals = {t1}
    Hangups = {h1}
    Callers = {c1}
    None = None
    MaxJobCalls = 6
SYMMETRY MCSymmetry
INVARIANT OnlyExitedReaped
CHECK_DEADLOCK FALSE
