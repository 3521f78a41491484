CONSTANTS
    kCheapPrepend = 2
    kInitialSize = 1
    ExtraSize = 2
    Base = 3
    CR = 1
    LF = 2
    Widths = {1, 2}
    Numbers <- SomeNumbers
    Data <- SomeData
    Reserves = {0, 1}
    MaxSize = 6
SPECIFICATION Spec
INVARIANTS
    TypeOK
    SpaceIsMade
    LineEndsFound
    IntegersInNetworkOrder
PROPERTIES
    NoNeedlessGrowth
    IsByteQueue
