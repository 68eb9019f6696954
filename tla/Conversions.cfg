SPECIFICATION ConvSpec
CHECK_DEADLOCK FALSE
CONSTANTS
    None = none
    Draft = draft
    Default = default
    Whole = whole
    Builtins <- MCBuiltins
    Keys <- MCKeys
    Objects <- MCObjects
    Fragments <- MCFragments
    Worlds <- MCWorlds
    Absent = absent
    Other = other
    MaxCode = 3
    Ids <- MCIds
    Codes <- MCCodes
    Opaque <- MCOpaque
    Groups = 3
    MaxFrame = 6
    MaxDepth = 1
    Uris <- MCUris
    Inputs <- MCInputs
    Replies <- MCReplies
INVARIANT CompilesOnlyClosed
INVARIANT ReceivesWhatWasSent
INVARIANT UriIsRfc3986
INVARIANT FramesWithinLimits
