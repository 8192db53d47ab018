SPECIFICATION FairSpec
CONSTANTS
    Items = {n1, n2, n3}
    None = None
    Slots = 3
    Unit = 2
    MaxWeight = 3
    Weights = {1, 2, 3, 4}
INVARIANTS BitsCover
PROPERTIES NeverPassedOver EventuallyServed
CHECK_DEADLOCK FALSE
