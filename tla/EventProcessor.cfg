CONSTANTS
  Depth = 2
  MaxId = 2
  Mode = "live_capture"
  MaxSeqNo = 3
  MaxConnSeq = 3
  MaxEpoch = 1
  BidPrices = {1, 2, 3}
  AskPrices = {3}
  Messages <- MCMessages
SPECIFICATION Spec
INVARIANTS BookWellFormed BookIsCurrent
PROPERTIES UpdateIdsAdvance DiffRowsContinueTheBook RowNumbersContiguous
