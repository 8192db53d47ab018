CONSTANTS
    Threads = {t1, t2, t3}
    Requests = {r1, r2, r3}
    None = None
SPECIFICATION Spec
INVARIANTS ResolverInv NoStrandedRequest OwnedOnce
PROPERTIES NoCallbackAfterCancel EveryRequestFreed
