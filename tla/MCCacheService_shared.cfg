CONSTANTS
  n1 = n1
  n2 = n2
  a = a
  b = b
  c = c
  Absent = Absent
  Nodes = {n1, n2}
  Callers = {a, b, c}
  Home <- MCHomeShared
  Calls = {"getOrSet", "refreshLocal", "setOrUpdate", "set"}
  MaxVersion = 1
  Undefineds = {}
  Nulls = {}
  CacheNullable = TRUE
  Ttl = 2
  InMemoryTtl = 1
  MaxDelay = 1
  MaxCreate = 1
  MaxFailures = 1
SPECIFICATION Spec
SYMMETRY Symmetry
INVARIANT BoundedStaleness
