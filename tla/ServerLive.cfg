SPECIFICATION FairSpec
CONSTANTS
    init = init
    ping = ping
    c1 = c1
    c2 = c2
    Requests <- TwoCalls
    IdOf <- MCReusedIds
    MethodOf <- MCMethodOf
    MaxPending = 1
    Stoppers <- OnlyOwner
    Owner = owner
    App = app
    Reader = reader
    Writer = writer
    Worker = worker
    None = none
INVARIANT InFlightCoversExecutor
PROPERTY EveryCallSettles
PROPERTY WaitReturnsAfterStop
