CONSTANTS
    Streams = {s1}
    SoftMax = 2
    GracefulTimeouts = {FALSE, TRUE}
    MaxInitiates = 2
SPECIFICATION Spec
INVARIANTS AssertionsHold
CHECK_DEADLOCK FALSE
