CONSTANTS
  Procs = {p1, p2}
  MaxFds = 4
  MaxFiles = 2
  MaxNodes = 3
  Bytes = {1}
  ArenaSize = 6
  CapUnit = 2
  Align = 2
  HeapSize = 2
  WordMod = 8
  SizeMod = 16
  MaxOffset = 2
  Far = {15}
  MaxCount = 1
  Trees <- MCTrees
SPECIFICATION Spec
INVARIANTS FdsExact 
PROPERTIES ExecveRestores MountComplete
SYMMETRY Symmetry
