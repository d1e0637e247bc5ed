SPECIFICATION Spec
CONSTANTS
  NUM_BUFFERS = 3
  MEMORY_INITIAL_DELAY = 1
  SourceRows = 4
  OutputRows = 3
  BurstsPerRow = 1
  BURST_CYCLES = 4
  TCMD = 10
  RD_LATENCY = 1
INVARIANTS TypeOK CommandsGranted CommandSpacing ReadsComplete ShownNotWritten InFrame BankExclusion
