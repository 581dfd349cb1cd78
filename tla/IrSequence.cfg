\* Three concurrent requests draw from a no_gap sequence that an administrator
\* may make standard, and no_gap again.
SPECIFICATION Spec
CONSTANTS
  r1 = r1
  r2 = r2
  r3 = r3
  Request <- ThreeRequests
  NoRequest = NoRequest
  Start = 1
  Increment = 2
  InitialImpl = "no_gap"
  SwitchTo <- Both
  MaxTries = 1
  MaxCalls = 2
  MaxNumber = 11
SYMMETRY Requests
INVARIANTS
  TypeOK
  UniqueNumbers
  NoGap
  NoMixedImplementation
CHECK_DEADLOCK FALSE
