SPECIFICATION FairSpec
CONSTANTS
  FastRegs = {MCU_RESET, BOOT_STATUS}
  SlowRegs = {CAMERA}
  MCU_RESET = MCU_RESET
  None = None
  HoldTicks = 2
INVARIANTS AnsweredOnce HostFirst
PROPERTIES RequestHeld ServServed
