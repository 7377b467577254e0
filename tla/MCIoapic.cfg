SPECIFICATION Spec
CONSTANTS
  Ram <- MCRam
  FirstFrame = 1
  ioapic_entries <- MCIoapics
  iso_entries <- MCIsos
  Pins <- MCPins
  Line <- MCLine
  ApicIds = {0, 1}
  Irqs <- MCIrqs
  Vectors = {32}
  Dests = {0, 1}
INVARIANTS
  VirtIsIoapic
  DirectMapIntact
  EntriesAsLoaded
CHECK_DEADLOCK FALSE
