CONSTANTS
  main = main
  table = table
  udata = udata
  string = string
  thread = thread
  c1 = c1
  c2 = c2
  upval = upval
  Nothing = Nothing
  Index = Index
  Main = main
  Obj <- UpvalObj
  Kind <- UpvalKind
  Finalizable = {}
  DebugLibrary = TRUE
  Modes = {"strong"}
  MaxRefs = 1
  MaxStack = 2
SPECIFICATION GCSpec
INVARIANTS
  NoDangling
SYMMETRY UpvalSymmetry
