SPECIFICATION Spec
CONSTANTS
    w1 = w1
    w2 = w2
    Conductor = Conductor
    DeliveryId <- MCDeliveryId
    Worker <- MCWorker
    Batch <- MCBatch
INVARIANTS SweepNeverWaits
CHECK_DEADLOCK FALSE
