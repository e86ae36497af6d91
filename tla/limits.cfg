SPECIFICATION LimitSpec
CONSTANTS
  Callers = {c1, c2}
  Limit = 2
  Window = 2
  MaxClock = 5
  MaxTried = 4
INVARIANTS WindowIsKept
PROPERTIES WaitIsTrue
CHECK_DEADLOCK FALSE
