SPECIFICATION Spec
CONSTANTS
    w1 = w1
    w2 = w2
    w3 = w3
    w4 = w4
    t1 = t1
    t2 = t2
    Work <- FourWorks
    IdOf <- MCIdOf
    Callers <- TwoCallers
    Worker = worker
    None = none
    MaxPending = 2
    UntilStopped <- OneStubborn
    EarlyJoins = {}
INVARIANT InFlightIdsDistinct
INVARIANT JoinMeansQuiescent
INVARIANT StopsOnlyWhatWasAsked
INVARIANT StopReachesActive
INVARIANT CapturesOutliveTheirCall
INVARIANT NoLostWakeup
PROPERTY ImplementsQueue
