CONSTANTS
  MaxPages = 7
  PageSize = 4
  Maps <- SmallMaps
  LowEnd = 6
  KernelStart = 12
  KernelEnd = 14
  MaxRequest = 3
  Divisor = 3
  MinDefault = 2
SPECIFICATION MSpec
INVARIANT AccountsExact
PROPERTY AllocFresh
