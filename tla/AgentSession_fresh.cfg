\* The clones of one instance start a session from nothing; operations are
\* interrupted or fail and the process may restart between any two steps.
SPECIFICATION FairSpec
CONSTANTS
    a1 = a1
    a2 = a2
    o1 = o1
    o2 = o2
    c1 = c1
    c2 = c2
    NoOp = NoOp
    Agents = {a1}
    Ops = {o1, o2}
    Owner <- MCOwnerClones
    Calls = {c1}
    MaxSteps = 2
    MaxOps = 3
    Kinds = {"reply", "observe", "snapshot", "resume"}
    Modes = {"call", "stream"}
    Disruptions = {"model", "interrupt", "crash", "store", "memory"}
INVARIANT
    AckedIsDurable
PROPERTY
    OperationsReturn
\* MaxOps ends every behaviour once all operations have returned.
CHECK_DEADLOCK FALSE
