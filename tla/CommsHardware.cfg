CONSTANTS
  REGS = 3
  Values = {0, 1}
  Sizes <- MCSizes
  COMMS_BUFFER_SIZE = 2
  MAX_FD = 1
SPECIFICATION Spec
INVARIANTS
  OwnDescriptors
PROPERTIES
  ImplementsRegisters
