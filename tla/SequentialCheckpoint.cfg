\* Two processes and three callers run, resume and reconcile one key.
SPECIFICATION Spec
CONSTANTS
    p1 = p1
    p2 = p2
    c1 = c1
    c2 = c2
    c3 = c3
    NoCaller = NoCaller
    Pipelines = {p1, p2}
    Callers = {c1, c2, c3}
    Owner <- MCOwner
    Stages = 3
    MaxCalls = 4
    Disruptions = {"store", "ack", "late", "drop", "crash", "stage"}
INVARIANTS
    LedgerInv
    ChainIntact
    AnnouncedIsDurable
PROPERTY
    DispatchedOnce
\* MaxCalls ends every behaviour once all operations have returned.
CHECK_DEADLOCK FALSE
