\* Two independent instances recover one paused session; saves, hooks
\* and memory fail, processes restart, tools are in doubt.
SPECIFICATION PausedSpec
CONSTANTS
    a1 = a1
    a2 = a2
    o1 = o1
    o2 = o2
    c1 = c1
    c2 = c2
    NoOp = NoOp
    Agents = {a1, a2}
    Ops = {o1, o2}
    Owner <- MCOwnerApart
    Calls = {c1, c2}
    MaxSteps = 2
    MaxOps = 3
    Kinds = {"observe", "resume", "retry", "resolve"}
    Modes = {"call", "stream"}
    Disruptions = {"store", "crash", "doubt", "hook", "memory"}
SYMMETRY Symmetry
INVARIANTS
    FencedFirst
    EffectsAccounted
    AnsweredOnce
PROPERTIES
    OncePerClaim
    HistoryGrows
