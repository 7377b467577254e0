SPECIFICATION Spec
CONSTANTS
  DeviceVectors <- MCDevices
  FaultVectors <- MCAllFaults
  MaxRaises = 1
INVARIANTS
  RegistersMatchFrame
CHECK_DEADLOCK FALSE
