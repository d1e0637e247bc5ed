SPECIFICATION Spec
CONSTANTS
  FastRegs = {MCU_RESET, BOOT_STATUS}
  SlowRegs = {CAMERA}
  MCU_RESET = MCU_RESET
  None = None
  HoldTicks = 15
INVARIANT OneTransaction
