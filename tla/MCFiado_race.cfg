SPECIFICATION Spec
CONSTANTS
  Clients = {joao}
  Days = {1, 2}
  Amounts <- UnitAmounts
  MaxAmount = 1
  MaxMovements = 3
  Nil = Nil
  Lost = Lost
  Procs = {p1, p2}
  Calls = {"record"}
INVARIANTS SinceIsOpeningDay
CHECK_DEADLOCK FALSE
