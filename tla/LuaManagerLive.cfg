CONSTANTS
  t1 = t1
  t2 = t2
  encrypted = encrypted
  plain = plain
  missing = missing
  empty = empty
  k1 = k1
  o1 = o1
  o2 = o2
  o3 = o3
  NoState = NoState
  NoThread = NoThread
  NoFile = NoFile
  BlankKey = BlankKey
  NoKey = NoKey
  Plain = Plain
  Empty = Empty
  Missing = Missing
  Thread <- MCThread
  File <- MCFewFiles
  Obj <- MCFewObj
  Key <- MCKey
  Asset <- MCFewAssets
  MaxCalls = 2
SPECIFICATION FairSpec
PROPERTIES
  MonitorReleased
CHECK_DEADLOCK FALSE
