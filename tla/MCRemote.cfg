\* Two contexts of each component; two keys that match the pattern, four items in the list, and
\* four elements, of which one is null, in chunks of two, three or four, three to an MGET.
SPECIFICATION MCSpec
CONSTANTS
  c1 = c1
  c2 = c2
  k1 = k1
  k2 = k2
  Contexts = {c1, c2}
  Names = {k1, k2}
  Matching <- TheMatching
  Menus <- TheMenus
  MaxFaults = 2
  Clients = {c1, c2}
  Families <- TheFamilies
  MaxItems = 4
  Elements = {1, 2}
  Scores = {0, 1}
  MaxMishaps = 2
  Keys = {1, 2, 3, 4}
  NullKeys = {2}
  Payloads <- ThePayloads
  BatchCalls = {"getMany", "batchProcess", "batchApply", "batchDelCache", "deleteInCache"}
  ChunkSizes = {2, 4}
  ProcessChunk = 3
  MgetLimit = 3
  MaxTries = 2
  MaxErrors = 2
  MaxChanges = 2
  None = None
  Null = Null
  Undefined = Undefined
INVARIANTS KeysTypeOK CounterExpires ListIsAQueue BatchTypeOK OwnValues CleanIsComplete
PROPERTY PatternGone
