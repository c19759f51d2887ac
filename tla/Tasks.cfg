CONSTANTS
  MaxTasks = 4
  TickMod = 16
  MaxUptime = 5
  SleepRequests = {0, 2, 15}
SPECIFICATION Spec
INVARIANTS OneRunning PidOfSlot Wait4MissesOnlyLast
PROPERTIES BoundedWait  OnlySleepRevives ImplementsRoundRobin
