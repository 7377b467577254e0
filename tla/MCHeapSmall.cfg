SPECIFICATION Spec
CONSTANTS
  Frames <- MCFrames
  BUDDY_PAGE_SIZE = 4096
  heap_cache_sizes <- MCTestSizes
  SlabHeader = 2080
  LargeHeader = 8
  SizeWord = 65536
  RequestSizes <- MCTestRequests
  Readings = {TRUE}
PROPERTIES
  SmallRequestsServed
