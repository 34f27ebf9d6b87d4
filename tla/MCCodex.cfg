\* One execution: a message's output in any chunks, or a compaction.
CONSTANTS
    Ids = {s1, s2}
    MaxLine = 2
    MaxText = 5
    Turns = {u1, u2}
    MaxPipe = 3
    MaxNoise = 1
CHECK_DEADLOCK FALSE
SPECIFICATION FairSpec
INVARIANTS
    LinesAreParsed
    OneSession
    SuccessIsReal
    NoServerLeft
PROPERTIES
    CompactionEnds
