SPECIFICATION Spec
CONSTANTS
  MaxRequests = 3
  Pages = {p1}
  Kinds = {"start", "view", "confirm", "reset", "answer", "notify"}
  Forwarded = {TRUE}
  Client = "singleTab"
  Orphans = FALSE
CHECK_DEADLOCK FALSE
INVARIANTS FlashKeptUntilShown
