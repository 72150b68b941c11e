CONSTANTS
  main = main
  table = table
  udata = udata
  string = string
  thread = thread
  c1 = c1
  c2 = c2
  upval = upval
  Nothing = Nothing
  Index = Index
  Main = main
  Obj <- TableObj
  Kind <- TableKind
  Finalizable = {udata}
  DebugLibrary = FALSE
  Modes = {"strong", "k", "v", "kv"}
  MaxRefs = 1
  MaxStack = 2
SPECIFICATION GCSpec
INVARIANTS
  NoDangling
  GCInv
  FullIsComplete
PROPERTIES
  WeakKept
  FinalizedOnce
