SPECIFICATION FairPlatformSpec
CONSTANTS
    Reader = Reader  Writer = Writer
    first = first  second = second  third = third  owner = owner
    None = None
    Owners <- MCOwners
    Users <- MCUsers
    Directions <- MCDirections
    DirectionOf <- MCDirectionOf
    WakeCapacity = 1
    ShareOutput = TRUE
    Environments <- MCEnvironments
INVARIANTS WakeIsPending LeavesNoTrace ClosedMeansReleased
PROPERTIES ImplementsNativeIo WindowsImplementsNativeIo
