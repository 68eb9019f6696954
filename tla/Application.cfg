SPECIFICATION AppSpec
CONSTANTS
    Burst = 2
    Rate = 2
    Token = 3
    Horizon = 5
    Names <- MCNames
    Undeclared = "x"
INVARIANT HandlerRateBounded
INVARIANT OutputVettedWhole
INVARIANT ToldStaysTrue
