CONSTANTS
  SymbolSets <- MCSymbolSets
  OtherNames <- MCOtherNames
  LongNames <- MCLongNames
  NameHashes <- MCNameHashes
  PrefixBytes = 3
  SuffixBytes <- MCSuffixBytes
  kMaxConfiguredSymbols = 2
  kMaxCombinedTargetBytes = 40
  kLookupSlotCount = 8
  MaxFields = 4
  Depth = 2
  MaxId = 1
  kMaxDepthUpdates = 3
  Levels <- MCLevels
  KeyOrders <- MCKeyOrders
  MaxFlaws = 1
  Keys = {k1, k2, k3}
  NoKey = none
  kDuplicateTableSize = 4
  MaxGeneration = 2
  ScaleDigits = 2
  Maximum = 4267
  Characters = {0, 2, 4, 6, 7, 9, 10, 11}
  MaxLength = 6
  kMaxJsonNestingDepth = 4
  ContainerDepth = 2
  MaxToken = 5
SPECIFICATION ParsersSpec
CHECK_DEADLOCK FALSE
INVARIANTS RoutesAreExact RoutesOnlyTheNamedStream VerdictFitsDocument AcceptedEventsAreSound ParsesExactly SkippedValuesAreValid
PROPERTY ImplementsPriceSet
