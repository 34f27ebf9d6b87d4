\* A container job that /stop meets before its marker was read.
CONSTANT
    MaxCalls = 1
SPECIFICATION Spec
INVARIANT
    StoppedContainerEnds
CHECK_DEADLOCK FALSE
