SPECIFICATION FairSpec
CONSTANTS
    ConsumerId <- MCTwo
    Weight <- MCWeight
    ConcurrencyCap <- MCCap
    RateCap <- MCTwoEach
    GlobalRate = 3
    BufferTarget = 2
    Window = 1
    Overfetch = 1
    Arms <- MCBothArms
    Droppable = {2}
    Supply <- MCSupply
    PassTicks = 1
INVARIANTS TypeOK GlobalRateHolds ConsumerRateHolds BufferHolds SharesFair
PROPERTIES BacklogDrains
