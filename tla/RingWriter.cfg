SPECIFICATION ControlSpec
CONSTANTS
  NUM_BUFFERS = 3
  MEMORY_INITIAL_DELAY = 2
PROPERTY WriterStays
