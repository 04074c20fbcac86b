SPECIFICATION Spec
CONSTANTS
  boot = boot
  idle = idle
  w1 = w1
  w2 = w2
  null = null
  Boot = boot
  Idle = idle
  Workers <- OneWorker
  Null = null
  TickMod = 14
  MaxSleep = 2
  MaxFrames = 3
  MaxLate = 1
VIEW AbsoluteTime
CONSTRAINT Timely
INVARIANTS
  TypeOK
  LockDiscipline
  WakeExact
  SleepHonoured
PROPERTIES
  NeverGivesUp
