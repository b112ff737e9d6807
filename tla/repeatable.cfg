SPECIFICATION Spec
CONSTANTS
  Values = {a}
  Empty = Empty
  None = None
  Minimum = 1
  Maximum = 3
  MaxItems = 4
INVARIANTS CountWithinBounds FormIsObeyed NothingHidden SentAsShown DisplayAgrees
