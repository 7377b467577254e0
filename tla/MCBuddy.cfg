SPECIFICATION Spec
CONSTANTS
  BUDDY_MAX_ORDER = 3
  BUDDY_MAX_PAGES = 9
  BUDDY_PAGE_SIZE = 2
  FrameWord = 16
  MemMaps <- MCMemMaps
  PageCounts <- MCPageCounts
  PhysAddrs <- MCPhysAddrs
INVARIANTS
  IInv
  BlocksDisjoint
  ListsConsistent
  RemoveSucceeds
  NoLostPages
  NeverFragmented
PROPERTIES
  PagesConserved
  CallsReturn
  ImplementsPageAllocator
