CONSTANTS
  MaxTasks = 4
  TickMod = 16
  MaxUptime = 3
  SleepRequests = {1}
  HZ = 1
  TotalPages = 4
  BootFree = 2
  CriticalPercent = 25
  FloorPages = 0
  MinDrop = 1
  MinStreak = 2
  MaxBrk = 1
  MaxPages = 2
SPECIFICATION KSpec
PROPERTIES KillsOneUserTask GuardPatient
CHECK_DEADLOCK FALSE
