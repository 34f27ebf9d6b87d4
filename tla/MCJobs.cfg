\* Two calls of one agent run, one death of the bridge.
CONSTANT
    MaxCalls = 2
SPECIFICATION FairSpec
INVARIANTS
    TypeOK
    OneCommandAtATime
    NothingOutlivesItsRow
    ToldTheTruth
PROPERTIES
    RowLifecycle
    CallsEnd
    StopEndsSandboxes
CHECK_DEADLOCK FALSE
