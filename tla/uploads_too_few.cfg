SPECIFICATION Spec
CONSTANTS
  None = None
  pa = pa
  pb = pb
  ca = ca
  cb = cb
  cc = cc
  Tabs = {t1}
  Pages = {pa}
  Components = {ca}
  PageOf <- OnePage
  MaxFiles <- Most
  MinFiles <- Two
  Required = {ca}
  Checked = {pa}
  Summarised = {pa}
  After <- Last
  MaxUploads = 2
PROPERTIES StepsNeedFiles
