SPECIFICATION Spec
CONSTANTS
  None = None
  Blank = Blank
  Always = Always
  Never = Never
  NoSuchPage = NoSuchPage
  Error = Error
  start = start
  a = a
  b = b
  c = c
  sum = sum
  conf = conf
  yes = yes
  no = no
  Values = {yes, no}
  Services <- Documented
  Tabs = {t1}
PROPERTY ExplicitNextObeyed
