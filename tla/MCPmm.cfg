SPECIFICATION Spec
CONSTANTS
  BitmapSize = 4
  WordBits = 2
  PageSize = 4
  LowEnd = 3
  KernelStart = 9
  KernelEnd = 14
  MemoryMaps <- Maps
INVARIANTS
  TypeOK
  HintSound
  HandsOutOnlyRam
PROPERTIES
  ImplementsFrameAllocator
