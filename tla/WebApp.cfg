SPECIFICATION Spec
CONSTANTS
  Threads = {t1, t2}
  NoThread = NoThread
  NoClient = NoClient
  Sessions <- AllSessions
  Boards <- GoodAndBad
  MaxFaults = 1
  Exponents <- GammaExponents
  Curve <- GammaCurve
  Exponent <- GammaExponent
  OSD_COLS = 2
  OSD_ROWS = 2
  FRAME_PIXELS = 3
  BURST = 2
  ADDR_LO_SPAN = 2
  MODBUS_ADDR_LIMIT = 4352
  MAX_READ = 2
  DUMP_READ = 125
  OverlayLimit = 4
  Resends = 1
INVARIANTS
  TypeOK
  AcknowledgedSettings
  OverlayAsPosted
  FrameIsOneCapture
  CancelHonoured
  ProgressHonest
  ConnectionsAccounted
PROPERTIES
  RequestsEnd
CHECK_DEADLOCK FALSE
