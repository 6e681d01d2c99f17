\* The clones of one instance, with and without a store.
SPECIFICATION SettledSpec
CONSTANTS
    a1 = a1
    o1 = o1
    o2 = o2
    Agents = {a1}
    Ops = {o1, o2}
    Owner <- MCOwner
    Keep = 1
    Backups <- MCBackups
    MaxOps = 2
    Disruptions = {"store", "ack", "late", "drop", "crash", "model", "pause"}
INVARIANTS
    SummaryFits
    Undisturbed
PROPERTIES
    SavesApart
    OperationsReturn
\* MaxOps ends every behaviour once all operations have returned.
CHECK_DEADLOCK FALSE
