CONSTANTS
    ClientIds = {a, b}
    Fds = {1, 2, 3, 4, 5}
    None = None
    Ids = {o1, o2, o3, o4}
    Prices = {1, 2}
    Qtys = {1, 2}
    PoolSize = 3
    NoOrder = NoOrder
    Keys = {1, 2, 3, 4}
    Values = {1, 2}
    Capacity = 3
    NoValue = NoValue
    Pixels <- SomePixels
    MaxChanges = 3
    Texts <- SomeTexts
    MaxBytes = 6
    Program <- SomeProgram
    MaxKeys = 4
SYMMETRY Symmetry
SPECIFICATION Spec
INVARIANTS PipeSound BookSound CacheSound QoiLossless TextLossless TextOptimal RobotRunsOnlyWhenAsked RobotThreadsSound
PROPERTIES BookPriceTimePriority CacheKeepsMostRecent
CHECK_DEADLOCK FALSE
