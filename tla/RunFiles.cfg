CONSTANTS
  kMaxCsvRecordBytes = 11
  Capacity = 10
  Header <- MCHeader
  UnquotedFields = 1
  MaxPayload = 4
  Payloads <- MCPayloads
  MaxFileRows = 3
  MaxBytes = 10
  TargetCount = 2
  MaxBatches = 2
  Inputs <- MCInputs
  Directories = {"out", "there"}
  Symbols = {"BTC", "ETH"}
  MaxRows = 2
SPECIFICATION FilesSpec
CHECK_DEADLOCK FALSE
INVARIANTS FailedOpenLeavesNothing OutputsAreComplete ReplayExitIsHonest FileIsPrefix ReadsBackWhatWasWritten PayloadsHaveOneSpelling
