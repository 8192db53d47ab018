CONSTANTS
    Streams = {s1, s2}
    SoftMax = 2
    GracefulTimeouts = {FALSE, TRUE}
    MaxInitiates = 1
SPECIFICATION Spec
INVARIANTS AssertionsHold OutputInv
PROPERTIES ClosingEnds
CHECK_DEADLOCK FALSE
