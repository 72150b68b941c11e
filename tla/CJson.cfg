CONSTANTS
  a = a
  b = b
  outer = outer
  inner = inner
  Boolean = Boolean
  Texts = {a, b}
  NoText = NoText
  Heaps <- MCHeaps
  Roots <- MCRoots
  Depths = {1, 3}
  DefaultDepth = 3
  SparseRatio = 2
  SparseSafe = 2
  MinStack = 2
  MaxCStack = 6
  MaxInt = 2147483647
  MaxTokens = 10
SPECIFICATION JsonSpec
INVARIANTS
  SlotsReserved
  DepthBalanced
  BuffersOwned
  DecodesGrammar
  EncodesTree
  EncodedReadsBack
