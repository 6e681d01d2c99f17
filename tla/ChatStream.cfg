\* One model call, from the session to the response.
SPECIFICATION Spec
CONSTANTS
    Sessions <- MCSessions
    Offloading = TRUE
    Threshold = 2
    Reference = 1
    MaxAdditions = 1
    Limit = 7
    Mishaps = {"offload", "augment", "budget", "hook", "encode"}
    Names <- MCNames
    Wires <- MCWires
    MaxRetries = 4
    InitialDelay = 1
    MaxDelay = 10
    Width = 2
    RetryAfters = {0, 20}
    Disruptions = {"status", "transport", "broken", "interrupt"}
INVARIANTS
    RequestWhole
    ChunkingIrrelevant
    CompleteAnswer
PROPERTY
    RetryDiscipline
\* The behaviours are those of one call: they end with it.
CHECK_DEADLOCK FALSE
