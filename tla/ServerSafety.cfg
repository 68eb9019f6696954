SPECIFICATION Spec
CONSTANTS
    init = init
    ping = ping
    c1 = c1
    c2 = c2
    Requests <- Everything
    IdOf <- MCDistinctIds
    MethodOf <- MCMethodOf
    MaxPending = 1
    Stoppers <- OnlyApp
    Owner = owner
    App = app
    Reader = reader
    Writer = writer
    Worker = worker
    None = none
INVARIANT AnsweredAtMostOnce
INVARIANT QueueFullMeansFull
INVARIANT SessionWasAnswered
INVARIANT NoSilentLoss
INVARIANT JoinMeansQuiescent
PROPERTY NoLateAnswer
