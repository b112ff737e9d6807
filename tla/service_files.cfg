SPECIFICATION Spec
CONSTANTS
  None = None
  Undefined = Undefined
  Always = Always
  Never = Never
  start = start
  a = a
  b = b
  c = c
  base = base
  extra = extra
  yes = yes
  no = no
  NewPages = {c}
  Addable = {c, start}
  MaxEdits = 3
  FileOrder <- SomeOrder
  Services <- SomeServices
  Conds <- SomeConds
  Answers <- SomeAnswers
  Simple <- SimpleConds
  Nesting = 4
INVARIANTS ShownAsDocumented NamesLostByReload EditsKept StaysLoadable
