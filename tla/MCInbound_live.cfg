SPECIFICATION FairSpec
CONSTANTS
  ana = ana
  bia = bia
  a1 = a1
  a2 = a2
  b1 = b1
  undated = undated
  refused = refused
  Phones = {ana, bia}
  Msgs = {a1, a2, b1, undated, refused}
  Sender <- TheSenders
  SentAt <- TheTimes
  Undated = {undated}
  Refused = {refused}
  Batches <- Pair
  Writers = {a1}
  Hooks = {h1}
  MaxPosts = 2
  MaxReceives = 2
  Faults = {"ack", "dedup", "agent"}
  KillAt = {"reply", "delete"}
PROPERTIES SettledStaysSettled QuestionsEnd
CHECK_DEADLOCK FALSE
