SPECIFICATION FairSpec
CHECK_DEADLOCK FALSE
CONSTANTS
    Owner = owner
    Reader = reader
    None = none
    Chars = {"j", "x", "r", "n"}
    Capacity = 1
    MaxBytes = 4
    MaxStarts = 2
 
INVARIANT StopLeavesNothing
PROPERTY WaitReturnsAfterStop
