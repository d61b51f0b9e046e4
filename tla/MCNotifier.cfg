SPECIFICATION SmallSpec
CONSTANTS
  Users = {1, 2}
  Runs = {1, 2}
  DueBills = {b1, b2}
  MaxAttempts = 2
  MaxFaults = 1
  MaxChanges = 2
INVARIANTS LogInv RepeatsInv
PROPERTIES EveryoneIsTold
CHECK_DEADLOCK FALSE
