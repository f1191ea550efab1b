CONSTANTS
  Slots = 3
  ByteCapacity = 8
  Sizes = {1}
  MaxBatches = 2
  StoreBuffer = 2
SPECIFICATION Spec
PROPERTIES BatchesAreTaken FailureStopsTheRun JoinReturns
