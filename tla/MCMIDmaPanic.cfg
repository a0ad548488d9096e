CONSTANTS
  Caches = {c1, c2}
  Addrs = {a1}
  DirOf <- OneDirectory
  Ways = 1
  Ops = {"LD", "ST"}
  BlockSize = 1
  Values = {0, 1}
  DmaAccess <- WholeBlock
  FastMemory = FALSE
  None = None
SPECIFICATION Spec
VIEW View
SYMMETRY Symmetry
INVARIANT NoInvalidDmaTransition
