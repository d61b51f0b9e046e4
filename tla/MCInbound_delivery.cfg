SPECIFICATION Spec
CONSTANTS
  ana = ana
  bia = bia
  a1 = a1
  a2 = a2
  b1 = b1
  undated = undated
  refused = refused
  Phones = {ana, bia}
  Msgs = {a1, a2, b1, undated, refused}
  Sender <- TheSenders
  SentAt <- TheTimes
  Undated = {undated}
  Refused = {refused}
  Batches <- Mixed
  Writers = {}
  Hooks = {h1}
  MaxPosts = 2
  MaxReceives = 1
  Faults = {"session", "publish", "ack", "webhook", "dedup", "agent"}
  KillAt = {"reply", "delete"}
INVARIANTS NothingIsDropped
CHECK_DEADLOCK FALSE
