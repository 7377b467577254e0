SPECIFICATION Spec
CONSTANTS
  Irqs = {0, 7, 15}
  MaskIrqs = {2, 15}
  Offset1 <- MCOffset1
  Offset2 <- MCOffset2
INVARIANTS
  MaskAsAsked
  RequestsGetThrough
  ReadsRegisterAsked
