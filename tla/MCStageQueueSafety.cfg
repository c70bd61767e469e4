SPECIFICATION Spec
CONSTANTS
    w1 = w1
    w2 = w2
    w3 = w3
    Waiters <- ThreeWaiters
    QueueCap = 9
    None = None
INVARIANTS TypeOK EntryKept NoLostWakeup PassedOnlyAfterInstall
PROPERTY ImplementsGates
SYMMETRY WaiterSymmetry
CHECK_DEADLOCK FALSE
