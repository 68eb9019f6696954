SPECIFICATION FairSpec
CONSTANTS
    w1 = w1
    w2 = w2
    w3 = w3
    w4 = w4
    t1 = t1
    t2 = t2
    Work <- TwoWorks
    IdOf <- MCIdOf
    Callers <- TwoCallers
    Worker = worker
    None = none
    MaxPending = 1
    UntilStopped <- OneStubborn
    EarlyJoins = {}
PROPERTY ImplementsLiveQueue
