CONSTANTS
  Depth = 1
  MaxId = 2
  Mode = "live_capture"
  MaxSeqNo = 8
  Messages = {}
  MaxEpoch = 1
  MaxConnSeq = 3
  Texts <- MCTexts
SPECIFICATION BothSpec
CHECK_DEADLOCK FALSE
INVARIANTS RegeneratedRowsAgree ReplayAcceptsAudit
