SPECIFICATION Spec
CONSTANTS
  osd_hello = osd_hello
  calc = calc
  Overlays <- MCOverlays
  Size <- MCSize
  Returning = {osd_hello}
  Calculating = {calc}
  Commands = {add, sqrt}
  CommandWords = 2
  Beats = 3
  RamWords = 3
  NoWord = NoWord
  NoJob = NoJob
  Slips = 2
INVARIANT LoadsOverAnything
CHECK_DEADLOCK FALSE
