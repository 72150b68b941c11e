CONSTANTS
  main = main
  table = table
  udata = udata
  string = string
  thread = thread
  c1 = c1
  c2 = c2
  upval = upval
  Nothing = Nothing
  Index = Index
  Main = main
  Obj <- PairObj
  Kind <- PairKind
  Finalizable = {}
  DebugLibrary = FALSE
  Modes = {"strong"}
  MaxRefs = 1
  MaxStack = 2
SPECIFICATION GCFairSpec
INVARIANTS
  NoDangling
PROPERTIES
  GarbageCollected
