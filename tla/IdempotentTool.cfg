\* Two callers of a full local wrapper and of a durable one.
SPECIFICATION FairSpec
CONSTANTS
    l1 = l1
    d1 = d1
    None = None
    Locals = {l1}
    Stores = {d1}
    Capacity <- MCCapacity
    Keys = {k1, k2}
    Inputs = {i1, i2}
    Callers = {c1, c2}
    MaxCalls = 3
    Disruptions = {"store", "ack", "late", "drop", "doubt"}
INVARIANTS
    OneAnswer
    TableBounded
PROPERTIES
    OncePerKey
    CallsReturn
\* MaxCalls ends every behaviour once all operations have returned.
CHECK_DEADLOCK FALSE
