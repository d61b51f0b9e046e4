SPECIFICATION FairSpec
CONSTANTS
  Clients = {joao}
  Days = {1}
  Amounts <- UnitAmounts
  MaxAmount = 1
  MaxMovements = 3
  Nil = Nil
  Lost = Lost
  Procs = {p1, p2}
  Calls = {"record", "delete"}
PROPERTIES DesdeIsRepaired
