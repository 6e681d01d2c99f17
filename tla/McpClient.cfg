\* A batch of two calls, a discovery and a close over one connection.
SPECIFICATION FairSpec
CONSTANTS
    BatchSize = 2
    Cursors = {"k1"}
    MaxPages = 2
    ChannelCap = 1
    PipeCap = 1
    MaxNoise = 1
    Disruptions = {"ping", "note", "again", "bad", "exit", "limit", "drop"}
INVARIANTS
    ConnectionInv
    DefiniteMeansSettled
PROPERTIES
    NothingAfterDoubt
    OperationsReturn
\* Every behaviour ends once all futures have returned and the child is dead.
CHECK_DEADLOCK FALSE
