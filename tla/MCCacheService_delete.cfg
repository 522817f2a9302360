CONSTANTS
  n1 = n1
  n2 = n2
  a = a
  b = b
  c = c
  Absent = Absent
  Nodes = {n1}
  Callers = {a}
  Home <- MCHomeOne
  Calls = {"getOrSet", "delete"}
  MaxVersion = 1
  Undefineds = {}
  Nulls = {}
  CacheNullable = TRUE
  Ttl = 2
  InMemoryTtl = 1
  MaxDelay = 0
  MaxCreate = 0
  MaxFailures = 1
SPECIFICATION FairSpec
PROPERTY DeletedFromBoth
