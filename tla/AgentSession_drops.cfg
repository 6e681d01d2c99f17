\* Two instances recover a paused session while futures are dropped, their
\* saves arrive late and acknowledgements get lost.
SPECIFICATION PausedSpec
CONSTANTS
    a1 = a1
    a2 = a2
    o1 = o1
    o2 = o2
    c1 = c1
    c2 = c2
    NoOp = NoOp
    Agents = {a1, a2}
    Ops = {o1, o2}
    Owner <- MCOwnerApart
    Calls = {c1}
    MaxSteps = 2
    MaxOps = 3
    Kinds = {"observe", "resume", "retry"}
    Modes = {"call", "stream"}
    Disruptions = {"drop", "late", "ack"}
SYMMETRY InstanceSymmetry
INVARIANTS
    FenceInv
    OneKeyPerCall
    CheckpointMatchesHistory
    SessionLoadable
    AckedIsDurable
\* MaxOps ends every behaviour once all operations have returned.
CHECK_DEADLOCK FALSE
