CONSTANTS
  Depth = 1
  MaxId = 3
  Mode = "live_capture"
  MaxSeqNo = 8
  Messages = {}
  Prices = {1, 2, 3}
  BidPrices = {1, 2}
  AskPrices = {}
  Quantities = {0, 2}
  MaxEpoch = 1
  MaxConnSeq = 3
  Histories <- MCHistories
SPECIFICATION FeedSpec
CHECK_DEADLOCK FALSE
INVARIANTS NoPhantomLevels
