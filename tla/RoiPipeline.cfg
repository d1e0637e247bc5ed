SPECIFICATION PipelineSpec
CONSTANTS
  ROI_C0 = 0
  ROI_C1 = 5
  ROI_R0 = 0
  ROI_R1 = 5
  COL_STEP = 2
  ROW_STEP = 12
  Overlay <- MCOverlay
  MaxStarts = 2
  MaxKeys = 3
  MaxFaults = 1
  ROI_COLS = 6
  ROI_ROWS = 6
  WORD = 16
  CLAUSES = 2
  STATES = 1
  T = 1
  Forgets <- MCForgets
  Colour <- MCColour
  Scenes = {1, 2}
  Thresholds = {0, 1}
  EPOCHS = 1
  Exponents = {}
  Curve <- MCCurve
  Exponent <- MCCurve
  OSD_COLS = 2
  OSD_ROWS = 2
  FRAME_PIXELS = 72
  BURST = 2
  ADDR_LO_SPAN = 16
  MODBUS_ADDR_LIMIT = 4352
  MAX_READ = 125
  DUMP_READ = 125
  OverlayLimit = 8
  Resends = 1
VIEW MCView
INVARIANTS
  SamplesKept
  SampleOfOneCapture
  DeployedAgrees
CHECK_DEADLOCK FALSE
