CONSTANTS
  MaxSequence = 2
  MaxQueue = 3
  Results = {"ok", "text", "tls_verification_failure", "binary_message", "read_failure"}
  MaxGeneration = 3
  MaxEpoch = 1
  MaxAttempt = 2
SPECIFICATION ControllerSpec
CHECK_DEADLOCK FALSE
INVARIANTS PauseIsSharedAndWatched
PROPERTIES ReconnectsAreDue OpenEpochsIncrease TimeoutOfThisPause ImplementsCaptureRun NeverStranded
