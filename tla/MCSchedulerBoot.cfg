SPECIFICATION Spec
CONSTANTS
  boot = boot
  idle = idle
  w1 = w1
  w2 = w2
  null = null
  Boot = boot
  Idle = idle
  Workers <- OneWorker
  Null = null
  TickMod = 12
  MaxSleep = 1
  MaxFrames = 3
  MaxLate = 0
VIEW RelativeTime
PROPERTIES
  TimerFindsScheduler
