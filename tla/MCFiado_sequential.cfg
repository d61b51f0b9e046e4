SPECIFICATION Spec
CONSTANTS
  Clients = {joao}
  Days = {1, 2}
  Amounts <- ThreeAmounts
  MaxAmount = 2
  MaxMovements = 4
  Nil = Nil
  Lost = Lost
  Procs = {p1}
  Calls = {"record", "delete"}
INVARIANTS SinceIsOpeningDay LoopsAreTheDefinitions
