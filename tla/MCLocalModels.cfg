CONSTANTS
  Models = {llama}
  Workers = {w1, w2}
  Loop = loop
  MaxClear = 3
  MaxWrites = 2
SPECIFICATION FairSpec
INVARIANTS
  PinnedOnly
  ClearFilesOwned
  EngineKept
  StoredKeyOpens
PROPERTIES
  CallsEnd
