CONSTANTS
  Caller = {c1, c2}
  Id = {a, b}
  MaxCount = 2
  Slice = {0, 1}
  MaxBacks = 1
  None = None
SPECIFICATION Spec
INVARIANTS TypeOK LimitHolds
PROPERTIES LimitedOnlyAtLimit EveryCallerAnswered
