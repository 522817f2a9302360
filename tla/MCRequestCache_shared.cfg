CONSTANTS
  k1 = k1
  k2 = k2
  a = a
  b = b
  c = c
  Absent = Absent
  Undefined = Undefined
  Failure = Failure
  Refusal = Refusal
  CustomError = CustomError
  Requests = {a, b, c}
  MaxVersion = 0
  Falsy = {}
  CacheDuration = 1
  TokenTtl = 3
  Margin = 2
  OnFailure = {"Error", "object"}
  MaxFetch = 1
  MaxSign = 1
  MaxFailures = 1
  KeyOf <- MCShared
  Keys = {k1, k2}
  Signed = {k2}
SPECIFICATION FairSpec
PROPERTIES RequestsAreAnswered ImplementsSharedCalls
