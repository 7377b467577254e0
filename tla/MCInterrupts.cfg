SPECIFICATION Spec
CONSTANTS
  DeviceVectors <- MCDevices
  FaultVectors <- MCFaults
  MaxRaises = 4
INVARIANTS
  ContextRestored
  EoiBalanced
  HangsOnlyOnFault
PROPERTIES
  InterruptsServed
CHECK_DEADLOCK FALSE
