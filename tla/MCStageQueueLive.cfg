SPECIFICATION QueueSpec
CONSTANTS
    w1 = w1
    w2 = w2
    w3 = w3
    Waiters <- TwoWaiters
    QueueCap = 2
    None = None
PROPERTIES KnownEntryWakes EveryAwaitReturns
CHECK_DEADLOCK FALSE
