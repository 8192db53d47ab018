CONSTANTS
    Senders = {t1, t2}
    Receivers = {r1, r2}
    Messages = {m1, m2, m3}
    None = None
SPECIFICATION Spec
INVARIANTS QueueInv
PROPERTIES RefinesMailbox NotificationServed
