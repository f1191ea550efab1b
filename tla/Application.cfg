CONSTANTS
  Arguments = {"--help", "--venue", "--symbols", "--duration", "--output-dir", "--replay",
               "spot", "9", "spot,9", "spot,SPOT", "9,eth", ""}
  ListOf <- MCListOf
  Normal <- MCNormal
  InstrumentId <- MCInstrumentId
  Invalid = "invalid"
  Durations = {"9"}
  kMaxConfiguredSymbols = 2
  MaxArguments = 8
  Errors = {"none", "writer_failure", "session_failure"}
  MaxSignals = 3
SPECIFICATION ApplicationSpec
CHECK_DEADLOCK FALSE
INVARIANTS LineMeansOneThing ExitZeroIsEarned
PROPERTIES RunComesToAnEnd
