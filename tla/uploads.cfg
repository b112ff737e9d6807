SPECIFICATION Spec
CONSTANTS
  None = None
  pa = pa
  pb = pb
  ca = ca
  cb = cb
  cc = cc
  Tabs = {t1, t2}
  Pages = {pa, pb}
  Components = {ca, cb, cc}
  PageOf <- OfPage
  MaxFiles <- Most
  MinFiles <- Fewest
  Required = {ca, cc}
  Checked = {pa}
  Summarised = {pa}
  After <- Following
  MaxUploads = 3
INVARIANTS OnePlace AcceptedAreSent
PROPERTIES AcceptedWasShown AcceptedLeavesForOne RoomMeansNewSlot
SYMMETRY Symmetry
