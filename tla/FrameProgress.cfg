SPECIFICATION FairSpec
CONSTANTS
  NUM_BUFFERS = 3
  MEMORY_INITIAL_DELAY = 1
  SourceRows = 3
  OutputRows = 2
  BurstsPerRow = 1
  BURST_CYCLES = 4
  TCMD = 4
  RD_LATENCY = 1
PROPERTIES UploadsComplete DownloadsComplete
