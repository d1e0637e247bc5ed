SPECIFICATION Spec
CONSTANTS
  osd_hello = osd_hello
  calc = calc
  Overlays <- MCOverlays
  Size <- MCSize
  Returning = {osd_hello}
  Calculating = {calc}
  Commands = {add}
  CommandWords = 5
  Beats = 256
  RamWords = 3
  NoWord = NoWord
  NoJob = NoJob
  Slips = 0
CONSTRAINT NoRepeat
INVARIANT CalcCompletes
