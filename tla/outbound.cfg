SPECIFICATION Spec
CONSTANTS
  Calls = {c1, c2, c3}
  Interval = 2
  MaxLag = 1
  Attempts = 2
  TimeLimits = {3}
  MaxFaults = 1
  MaxCancels = 1
  MaxInstalls = 2
  LastInstant = 4
SYMMETRY CallSymmetry
INVARIANTS TypeOK AnswersBoundCopies
PROPERTY Paced
CHECK_DEADLOCK FALSE
