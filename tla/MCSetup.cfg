SPECIFICATION MCSpec
CONSTANTS
  Addresses <- MCAddresses
  Frequencies <- MCFrequencies
  Highs = {0, 1}
  Pages = {0, 1}
  Levels = 2
INVARIANTS
  LoadsSucceed
  GatesLeadToStubs
  TimerReady
  WritesReachApic
  FaultsOnlyAtFirst
CHECK_DEADLOCK FALSE
