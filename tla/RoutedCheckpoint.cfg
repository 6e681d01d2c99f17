\* Two processes and three callers run, resume and reconcile one selection,
\* beside plain runs and model selections.
SPECIFICATION Spec
CONSTANTS
    p1 = p1
    p2 = p2
    c1 = c1
    c2 = c2
    c3 = c3
    r1 = r1
    r2 = r2
    r3 = r3
    a1 = a1
    a2 = a2
    NoAgent = NoAgent
    NoCaller = NoCaller
    Pipelines = {p1, p2}
    Callers = {c1, c2, c3}
    Owner <- MCOwner
    Routes = {r1, r2, r3}
    Agents = {a1, a2}
    Bind <- MCBind
    MaxCalls = 4
    Disruptions = {"store", "ack", "late", "drop", "crash", "agent", "interrupt"}
\* Callers of the same pipeline are interchangeable.
SYMMETRY CallerSymmetry
INVARIANTS
    LedgerInv
    BoundTarget
    AnnouncedIsDurable
PROPERTY
    DispatchedOnce
\* MaxCalls ends every behaviour once all operations have returned.
CHECK_DEADLOCK FALSE
