CONSTANTS
    Threads = {t1, t2}
    Conns = {c1, c2}
    Targets = {a, b}
    Named = {a}
    Ssl = {b}
    Weight <- MCWeight
    TimerThread = t1
    Scenarios <- MCScenarios
    MaxDrift = 0
CHECK_DEADLOCK FALSE
SPECIFICATION Spec
SYMMETRY Symmetry
INVARIANTS PoolInv CountersExact BalancerInv
