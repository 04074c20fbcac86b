SPECIFICATION Spec
CONSTANTS
  BitmapSize = 8
  WordBits = 4
  PageSize = 4
  LowEnd = 4
  KernelStart = 4
  KernelEnd = 8
  Ram = 7
  MemoryMap <- OneRegion
  TableEntries = 4
  LargeBase = 15
  LargeEnd = 18
  StackBase = 18
  StackLimit = 24
  Bin = kmalloc_cache
  HeapCaches <- Bins
  ThreadPool = thread_pool
  Capacity <- TwoObjects
  LargeSizes = {1, 2}
  StackSizes = {1, 2}
CHECK_DEADLOCK FALSE
CONSTRAINT UntilTheCallEnds
INVARIANTS
  TypeOK
  OneOwner
  SlabsExact
  NeverFaults
  GuardPages
PROPERTIES
  MappingsStay
