SPECIFICATION FairSpec
CONSTANTS
  Kinds = {"spectrum", "waveform"}
  NoSource = NoSource
  Fine = Fine
  Coarse = Coarse
  Configs = {NoSource, Fine, Coarse}
  BlockCount <- MCBlockCount
  BlockBytes <- MCBlockBytes
  InitConfig = Fine
  InitBytes = 2
  Budgets = {1, 3}
  MaxBlocks = 2
  CompactAbove = 1
  CompactShare = 1
  None = None
  Torn = Torn
  MaxCalls = 3
INVARIANTS TypeOK BlocksAreExact CacheIsBounded RangeHasTaker
PROPERTIES CallsReturn
CHECK_DEADLOCK FALSE
