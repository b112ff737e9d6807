SPECIFICATION Spec
CONSTANTS
  MaxRequests = 4
  Pages = {p1}
  Kinds = {"start", "view", "reset", "answer", "notify"}
  Forwarded = {TRUE}
  Client = "patient"
  Orphans = TRUE
CHECK_DEADLOCK FALSE
INVARIANTS FlashKeptUntilShown FlashShownOnce
PROPERTIES AnswersNeverRevert ImplementsAtomic
