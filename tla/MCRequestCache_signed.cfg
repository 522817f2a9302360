CONSTANTS
  k1 = k1
  k2 = k2
  a = a
  b = b
  c = c
  Absent = Absent
  Undefined = Undefined
  Failure = Failure
  Refusal = Refusal
  CustomError = CustomError
  Requests = {a, b, c}
  MaxVersion = 1
  Falsy = {1}
  CacheDuration = 2
  TokenTtl = 3
  Margin = 2
  OnFailure = {"Error", "object", "handled"}
  MaxFetch = 1
  MaxSign = 1
  MaxFailures = 1
  KeyOf <- MCSigned
  Keys = {k1}
  Signed = {k1}
SPECIFICATION Spec
SYMMETRY Symmetry
INVARIANTS TypeOK PromisesAreAlive BoundedStaleness ErrorsStayErrors
PROPERTIES TokensLast
