SPECIFICATION FairSpec
CONSTANTS
  MaxRequests = 3
  Pages = {p1}
  Kinds = {"start", "view", "confirm", "reset", "answer", "notify"}
  Forwarded = {TRUE, FALSE}
  Client = "tabs"
  Orphans = FALSE
CHECK_DEADLOCK FALSE
INVARIANTS TypeOK AcknowledgedPostWasStored FormsStayInTheirSession
PROPERTIES CreatedKept ConfirmationEndsSession EveryRequestEnds
