SPECIFICATION Spec
CONSTANTS
  q = q  x = x  y = y  r = r  g = g  w = w  d = d
  yes = yes  no = no  one = one  two = two
  good = good  better = better  bad = bad
  maskGood = maskGood  maskBetter = maskBetter  maskAny = maskAny
  Outside = Outside
  Blank = Blank
  None = None
  Late <- MCLate
  PageDefs <- MCPageDefs
  Outsides <- MCOutsides
  Days <- MCDays
  Wrong <- MCWrong
INVARIANTS AcceptedIsComplete ErrorsAgree PostIsObeyed SentAsListed
