\* Two of everything that runs at the same time, three of what only has to be told apart.
SPECIFICATION MCSpec
CONSTANTS
  g1 = g1
  g2 = g2
  Guests = {g1, g2}
  BatchSize = 2
  HitsThreshold = 2
  MaxMinute = 2
  MaxHits = 4
  MaxUpsets = 1
  Documents = 3
  PageSize = 2
  Attributes = {"a", "b"}
  Versions = {1}
  MaxOutages = 1
  Fields = {"a", "b"}
  FieldValues = {0, 1}
  Missing = Missing
  Now = 1
  MaxConditions = 3
  JobCalls = {1, 2}
  Methods = {"m"}
  Anonymous = ""
  Apps = {"a1", "a2"}
  Signals = {"SIGINT", "SIGTERM"}
  MaxResources = 3
  Contents = {"v"}
  Profilers = {1, 2}
  MaxClock = 3
  Items = {1, 2, 3}
  MaxLength = 4
  Undefined = Undefined
  Throws = Throws
INVARIANTS HitsAccounted ScrollIsComplete QueryFindsAsked LockSetExact Graceful ContextsApart CpuTime ArraysAgree
PROPERTY Exits
