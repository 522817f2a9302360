CONSTANTS
  n1 = n1
  n2 = n2
  a = a
  b = b
  c = c
  Absent = Absent
  Nodes = {n1}
  Callers = {a, b}
  Home <- MCHomePair
  Calls = {"getOrSet", "getOrSetLocal", "getOrSetRemote", "get", "getRemote", "refreshLocal",
           "setOrUpdate", "setOrUpdateLocal", "setOrUpdateRemote", "set", "setLocal", "setRemote",
           "delete", "deleteLocal", "deleteRemote"}
  MaxVersion = 2
  Undefineds = {1}
  Nulls = {2}
  CacheNullable = FALSE
  Ttl = 2
  InMemoryTtl = 1
  MaxDelay = 0
  MaxCreate = 0
  MaxFailures = 1
SPECIFICATION FairSpec
INVARIANTS TypeOK EntriesAreAlive OnlyStorable
PROPERTIES CallsReturn ImplementsSharedCalls
