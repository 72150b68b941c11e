CONSTANTS
  t1 = t1
  t2 = t2
  encrypted = encrypted
  plain = plain
  missing = missing
  empty = empty
  k1 = k1
  o1 = o1
  o2 = o2
  o3 = o3
  NoState = NoState
  NoThread = NoThread
  NoFile = NoFile
  BlankKey = BlankKey
  NoKey = NoKey
  Plain = Plain
  Empty = Empty
  Missing = Missing
  Thread <- MCThread
  File <- MCFile
  Obj <- MCObj
  Key <- MCKey
  Asset <- MCAsset
  MaxCalls = 3
SPECIFICATION Spec
INVARIANTS
  TypeOK
  VMExclusive
  NoUseAfterClose
  CachedIsReady
  NoOrphanMachine
  StackAccounting
  AnswerIsOwn
PROPERTIES
  CacheStable
  RefinesHost
SYMMETRY MCSymmetry
CHECK_DEADLOCK FALSE
