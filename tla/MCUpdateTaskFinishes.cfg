SPECIFICATION FairSpec
CONSTANTS
    w1 = w1
    w2 = w2
    r1 = r1
    Runner = Runner
    Saver = Saver
    Unset = Unset
    Waiters <- OneWaiter
    Resources <- OneResource
    Replaced <- OneResource
    Releases <- PlainRelease
PROPERTY TaskFinishes
CHECK_DEADLOCK FALSE
