SPECIFICATION Spec
CONSTANTS
    w1 = w1
    w2 = w2
    DeliveryId <- MCDeliveryId
    Worker <- MCWorker
    NoWorker = NoWorker
    BatchSize = 2
    MaxAttempts = 2
    LeaseDuration = 1
    BackoffBase = 1
    BackoffCap = 2
    KeyOf <- MCKeyOf
    Coalesced <- MCCoalesced
    MaxStaleness <- MCMaxStaleness
    NoBound = NoBound
SYMMETRY MCSymmetry
INVARIANTS LeaseMatchesAttempt FencesAgree AttemptsCharged SettledByOutcome NewestSurvives ClaimsTracked
PROPERTIES TerminalIsFinal ImplementsLifecycle
