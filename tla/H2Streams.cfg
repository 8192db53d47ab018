CONSTANTS
    MaxId = 3
    MaxStreams = 2
    MaxConcurrent = 1
    MaxStreaming = 1
    MaxPriority = 1
    Scenarios = {
        {"streaming", "trailers", "continuation"},
        {"streaming", "window", "single_stream"},
        {"window"},
        {"goaway", "dos", "priority", "last_stream"},
        {"tunnel"},
        {"streaming", "unaccepted", "refused", "stop_sending"},
        {"tooearly"},
        {"tunnel", "early_end", "single_stream"},
        {"goaway", "last_stream", "late_trailers"}}
SPECIFICATION Spec
CHECK_DEADLOCK FALSE
INVARIANTS AssertionsHold StreamsInv NothingStuck NoZombie DisregardedNotRun
