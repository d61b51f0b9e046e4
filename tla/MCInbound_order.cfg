SPECIFICATION Spec
CONSTANTS
  ana = ana
  bia = bia
  a1 = a1
  a2 = a2
  b1 = b1
  undated = undated
  refused = refused
  Phones = {ana, bia}
  Msgs = {a1, a2, b1, undated, refused}
  Sender <- TheSenders
  SentAt <- TheTimes
  Undated = {undated}
  Refused = {refused}
  Batches <- Pair
  Writers = {a1}
  Hooks = {h1}
  MaxPosts = 1
  MaxReceives = 3
  Faults = {"check", "agent", "append", "reply", "mark", "stale", "expiry"}
  KillAt <- AnyStep
INVARIANTS MarkInv OrderInv ApologyIsFinal
CHECK_DEADLOCK FALSE
