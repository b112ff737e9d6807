SPECIFICATION Spec
CONSTANTS
  None = None
  Gone = Gone
  Browsers = {b1, b2}
  Users = {u1, u2}
  Emails = {e1}
  Values = {x}
INVARIANTS RecordsMatchConfirmed
PROPERTIES AnswersStayTheirOwn SavedMeansRecord
SYMMETRY Symmetry
CHECK_DEADLOCK FALSE
