\* Two processes and three callers run, resume and reconcile three branches.
SPECIFICATION Spec
CONSTANTS
    p1 = p1
    p2 = p2
    c1 = c1
    c2 = c2
    c3 = c3
    NoCaller = NoCaller
    Pipelines = {p1, p2}
    Callers = {c1, c2, c3}
    Owner <- MCOwner
    Limit <- MCLimit
    Size = 3
    MaxCalls = 3
    Disruptions = {"store", "ack", "late", "drop", "crash", "agent", "interrupt"}
\* Callers of the same pipeline are interchangeable.
SYMMETRY CallerSymmetry
INVARIANTS
    LedgerInv
    AnnouncedIsDurable
    UncertainBounded
PROPERTY
    DispatchedOnce
\* MaxCalls ends every behaviour once all operations have returned.
CHECK_DEADLOCK FALSE
