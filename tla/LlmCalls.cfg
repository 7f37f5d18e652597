\* Two jobs of one run at once, each with two attempts of calls of up to two
\* turns and one refactoring, and a worker that dies; ceilings below, at and
\* above the default; MaxLost is more than LostBounded allows.
CONSTANTS
  Caller = {c1, c2}
  MaxCost = 2
  DefaultBudget = 2
  Ceilings = {1, 2, 3}
  MaxLost = 12
  MAX_TURNS = 2
  MAX_JOB_ATTEMPTS = 2
  MaxMessages = 4
  MaxRefactors = 1
  MaxDeaths = 1
SPECIFICATION CallsSpec
SYMMETRY Symmetry
INVARIANTS TypeOK OvershootBounded LostBounded
CHECK_DEADLOCK FALSE
