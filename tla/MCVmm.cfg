SPECIFICATION Spec
CONSTANTS
  Pool = {p1, p2, p3, p4, p5}
  Mmio = {apic}
  Root = cr3
  Boot = boot
  BootIndex = 1
  Index <- MCIndex
  VAddrs <- MCVAddrs
  NoFrame = NoFrame
SYMMETRY MCSymmetry
INVARIANTS
  TablesPrivate
  NoPageLost
  NoStaleTlb
PROPERTIES
  OnlyOwnAddress
