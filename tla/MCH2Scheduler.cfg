SPECIFICATION TreeSpec
CONSTANTS
    OfStreams = {s1, s2, s3}
    RecentlyClosed <- McRing
    r1 = r1
    Root = Root
    Closed = Closed
    GivenWeights = {5}
INVARIANTS TreeInv QueuesAgree
PROPERTY SharesProportional
CHECK_DEADLOCK FALSE
SYMMETRY Symmetry
