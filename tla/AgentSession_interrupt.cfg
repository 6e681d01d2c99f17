\* An interrupt arrives while an operation is under way.
SPECIFICATION PausedSpec
CONSTANTS
    a1 = a1
    a2 = a2
    o1 = o1
    o2 = o2
    c1 = c1
    c2 = c2
    NoOp = NoOp
    Agents = {a1}
    Ops = {o1, o2}
    Owner <- MCOwnerClones
    Calls = {c1}
    MaxSteps = 2
    MaxOps = 2
    Kinds = {"resume", "retry"}
    Modes = {"call"}
    Disruptions = {"interrupt", "doubt"}

INVARIANT
    InterruptSeen
\* MaxOps ends every behaviour once all operations have returned.
CHECK_DEADLOCK FALSE
