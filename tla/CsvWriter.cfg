CONSTANTS
  Slots = 3
  ByteCapacity = 5
  Sizes = {1, 3}
  MaxBatches = 4
  StoreBuffer = 1
SPECIFICATION Safety
INVARIANTS RingHasRoom BatchesHandedOverOnce PauseIsArmedOrPosted
PROPERTIES ImplementsRowQueue
