SPECIFICATION FairSpec
CONSTANTS
    w1 = w1
    w2 = w2
    DeliveryId = {1}
    Worker <- MCWorker
    NoWorker = NoWorker
    BatchSize = 2
    MaxAttempts = 3
    LeaseDuration = 1
    BackoffBase = 2
    BackoffCap = 3
    KeyOf <- MCKeyOf
    Coalesced <- MCCoalesced
    MaxStaleness <- MCLongStaleness
    NoBound = NoBound
INVARIANTS TypeOK
PROPERTIES EventuallySettled
