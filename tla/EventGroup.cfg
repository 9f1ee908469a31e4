SPECIFICATION Spec
CONSTANTS
    Threads = {t1, t2, t3}
    Bits = {b1, b2}
    Calls <- MCCalls
    NoThread = NoThread
    MaxChoices = 7
INVARIANTS MutexHeld NoLostWakeup
PROPERTIES ImplementsAtomic EveryCallEnds
CHECK_DEADLOCK FALSE
