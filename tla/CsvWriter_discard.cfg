CONSTANTS
  Slots = 2
  ByteCapacity = 8
  Sizes = {1}
  MaxBatches = 2
  StoreBuffer = 2
SPECIFICATION Safety
INVARIANTS NoPublishBehindDiscard
