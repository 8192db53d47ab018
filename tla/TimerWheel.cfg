CONSTANTS
    Timers = {t1, t2}
    Slots = 2
    NumWheels = 3
    Starts = {0}
    Delays = {0, 1, 2, 3, 5, 8, 11}
    MaxNow = 14
    MaxRewinds = 1
SPECIFICATION WheelSpec
INVARIANTS ExactlyDue Validates WakesInTime
PROPERTIES EventuallyFires
