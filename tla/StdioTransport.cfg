SPECIFICATION FairSpec
CONSTANTS
    short = short  long = long  longer = longer
    Owner = Owner  App = App  Reader = Reader  Writer = Writer
    None = None
    SizeOf <- MCSizeOf
    Frames <- AllFrames
    MaxOutbound = 4
    OneShotCancel = TRUE
INVARIANTS AccountingExact FramesInOrder CloseFlushes BudgetHonoured OneCloseEvent
PROPERTIES WaitReturns
CHECK_DEADLOCK FALSE
