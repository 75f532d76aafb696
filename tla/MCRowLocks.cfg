SPECIFICATION Spec
CONSTANTS
    w1 = w1
    w2 = w2
    Conductor = Conductor
    DeliveryId <- MCDeliveryId
    Worker <- MCWorker
    Batch <- MCBatch
INVARIANTS TypeOK OneStory
PROPERTIES WaitsEnd LeasesEnd ImplementsSettlement
CHECK_DEADLOCK FALSE
