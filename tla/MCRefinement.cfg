SPECIFICATION Spec
CONSTANTS
  boot = boot
  idle = idle
  w1 = w1
  w2 = w2
  null = null
  Boot = boot
  Idle = idle
  Workers <- TwoWorkers
  Null = null
  TickMod = 18
  MaxSleep = 1
  MaxFrames = 3
  MaxLate = 1
VIEW RelativeTime
CONSTRAINT Timely
SYMMETRY WorkerSymmetry
INVARIANTS
  ContextsSound
  RingWellFormed
  HltNeverMasked
PROPERTIES
  ReapsOnlyOthers
  ImplementsRoundRobin
