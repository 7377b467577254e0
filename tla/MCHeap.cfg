SPECIFICATION Spec
CONSTANTS
  Frames <- MCFrames
  BUDDY_PAGE_SIZE = 4096
  heap_cache_sizes <- MCSizes
  SlabHeader = 2080
  LargeHeader = 8
  SizeWord = 65536
  RequestSizes <- MCRequests
  Readings = {TRUE, FALSE}
INVARIANTS
  ObjectsDisjoint
  SlabsConsistent
  PartialLists
  NoPageLeaked
PROPERTIES
  UsesPageAllocator
  DoubleFreeHarmless
