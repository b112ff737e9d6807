SPECIFICATION FairSpec
CONSTANTS
  None = None
  Blank = Blank
  Always = Always
  Never = Never
  NoSuchPage = NoSuchPage
  Error = Error
  start = start
  a = a
  b = b
  c = c
  sum = sum
  conf = conf
  yes = yes
  no = no
  Values = {yes, no}
  Services <- Varied
  Tabs = {t1, t2}
INVARIANTS NeighboursAreFlow CompleteOpens
PROPERTIES SubmittedComplete ChangeFindsGap ShownInFlow RedirectsEnd
