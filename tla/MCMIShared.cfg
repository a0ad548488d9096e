CONSTANTS
  Caches = {c1, c2}
  Addrs = {a1, a2}
  DirOf <- OneDirectory
  Ways = 1
  Ops = {"LD", "ST"}
  BlockSize = 1
  Values = {0, 1}
  DmaAccess <- WholeBlock
  FastMemory = TRUE
  None = None
SPECIFICATION SharedSpec
VIEW SharedView
SYMMETRY Symmetry
INVARIANTS TypeOK SingleWriter ReadsLatest MemoryCurrent OwnerAsserts NoInvalidCpuTransition NoProtocolDeadlock
PROPERTY DmaReadsLatest
