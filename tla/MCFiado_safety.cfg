SPECIFICATION Spec
CONSTANTS
  Clients = {joao, maria}
  Days = {1}
  Amounts <- UnitAmounts
  MaxAmount = 1
  MaxMovements = 3
  Nil = Nil
  Lost = Lost
  Procs = {p1, p2}
  Calls = {"record", "delete", "failure"}
INVARIANTS IInv BalanceIsSum SettledSince
PROPERTIES ImplementsBook
