--------------------------- MODULE SampleCollector ---------------------------
(***************************************************************************)
(* roi_collect/collect_samples.py: it grabs a frame, reads the cells of    *)
(* the region of interest out of the board's memory, asks for a label, and *)
(* keeps the labelled samples in memory and in a file, one line each.  It  *)
(* can be killed between any two steps, and started again on the same file *)
(* and on a board that has gone on meanwhile.                              *)
(*                                                                         *)
(* An uncaught exception of the client ends the program like a kill.  The  *)
(* box it may draw, its preview and its messages are left out; so is a     *)
(* second user of the line or of the grab engine: the overlay that runs on *)
(* the board is parked.                                                    *)
(***************************************************************************)
EXTENDS ModbusClient

CONSTANTS
  ROI_C0, ROI_C1, ROI_R0, ROI_R1,   \* the region in grid cells
  COL_STEP, ROW_STEP,               \* addresses from a cell to the next
  Overlay,                          \* the words of the box overlay
  MaxStarts, MaxKeys, MaxFaults

VARIABLES
  board,
  pc, got,            \* where the program is, and the answers of its calls
  roi,                \* the sample in hand
  records, n_face, n_none,
  file,               \* [lines, torn]: is the last line cut off
  kept, asked,        \* what the operator was told is kept, and what will be
                      \* if the key that was pressed takes effect
  spoilt,             \* killed while the file was being written again
  since, odd,         \* the capture before the sample in hand; what disturbed it
  starts, keys, faults

memory == <<records, n_face, n_none>>
told == <<kept, asked, spoilt>>
line == <<board, got, roi, since, odd>>
budget == <<starts, keys, faults>>
collectorVars == <<line, pc, memory, file, told, budget>>

GridCols == ROI_C1 - ROI_C0 + 1
GridRows == ROI_R1 - ROI_R0 + 1
GridCells == GridCols * GridRows
CellAddr(k) == (ROI_R0 + ((k - 1) \div GridCols)) * ROW_STEP + (ROI_C0 + ((k - 1) % GridCols)) * COL_STEP

\* The region is on the frame, and a burst fills both data registers.
ASSUME RegionAssumption ==
  /\ GridCells \in Nat \ {0}
  /\ \A k \in 1..GridCells : CellAddr(k) \in Nat /\ CellAddr(k) + 1 < FRAME_PIXELS
  /\ BURST > 1
ASSUME OverlayAssumption == Overlay \in Seq(Nat)

\* Mutant: arms and reads at once.
grab_roiUnready ==
  <<WriteSingle(REG_GRAB, 1), ReadReg(REG_GRAB)>>
    \o FlattenSeq([k \in 1..GridCells |-> psram_read(CellAddr(k))])

\* Arm, wait, then one burst per cell.
grab_roi ==
  <<WriteSingle(REG_GRAB, 1), WaitIdle(REG_GRAB)>>
    \o FlattenSeq([k \in 1..GridCells |-> psram_read(CellAddr(k))])

\* The answer with the high half of cell k's word.
PerCell == Len(psram_read(0))
Cells(answers) == [k \in 1..GridCells |-> answers[2 + PerCell * k - 1][1]]

Calls == CASE pc = "boot" -> serv_boot_load(Overlay) [] pc = "grab" -> grab_roi [] OTHER -> <<>>
Op == Calls[Len(got) + 1]

Count(recs, label) == Cardinality({i \in DOMAIN recs : recs[i].label = label})

Init ==
  /\ \E serv \in BOOLEAN : board = PowerOn(TRUE, serv)
  /\ pc = "down" /\ got = <<>> /\ roi = <<>>
  /\ records = <<>> /\ n_face = 0 /\ n_none = 0
  /\ file = [lines |-> <<>>, torn |-> FALSE]
  /\ kept = <<>> /\ asked = <<>> /\ spoilt = FALSE
  /\ since = 0 /\ odd = FALSE
  /\ starts = 0 /\ keys = 0 /\ faults = 0

\* main, with the overlay or with --no-load.
Start ==
  /\ pc = "down" /\ starts < MaxStarts /\ starts' = starts + 1
  /\ pc' \in {"boot", "load"} /\ got' = <<>>
  /\ UNCHANGED <<board, roi, since, odd, memory, file, told, keys, faults>>

\* The next capture begins here.
Capture == /\ pc' = "grab" /\ got' = <<>> /\ roi' = <<>>
           /\ since' = board.shot /\ odd' = FALSE
           /\ UNCHANGED board

Exits == /\ pc' = "down" /\ got' = <<>> /\ roi' = <<>> /\ since' = 0 /\ odd' = FALSE
         /\ records' = <<>> /\ n_face' = 0 /\ n_none' = 0

\* Only a file that was cut off can not be parsed.
load_dataset ==
  /\ pc = "load"
  /\ IF file.torn
     THEN Exits /\ UNCHANGED <<board, told>>
     ELSE /\ Capture
          /\ records' = file.lines
          /\ n_face' = Count(file.lines, 1) /\ n_none' = Count(file.lines, 0)
          /\ kept' = IF spoilt \/ file.lines = asked THEN file.lines ELSE kept
          /\ asked' = kept' /\ spoilt' = FALSE
  /\ UNCHANGED <<file, budget>>

-----------------------------------------------------------------------------
(* One call on the line *)

Calling == pc \in {"boot", "grab"} /\ Len(got) < Len(Calls)
Spend(n) == faults + n <= MaxFaults /\ faults' = faults + n /\ UNCHANGED <<starts, keys>>

Answers(n) ==
  /\ Calling
  /\ Op.fn = "wait" => ~ Status(board, Op.addr) /\ n = 1
  /\ Spend(IF n = 1 THEN 0 ELSE 1)
  /\ LET r == Answered(board, Op, n)
     IN  board' = r[2] /\ got' = Append(got, r[1])
  /\ odd' = (odd \/ (Op.addr = REG_GRAB /\ Op.value = 1 /\ board.engine = "capture"))
  /\ UNCHANGED <<pc, roi, since, memory, file, told>>

\* No answer, or the deadline of a wait: the exception leaves main.
TimesOut(n) ==
  /\ Calling /\ (Op.fn = "wait" => n = 0)
  /\ Spend(1)
  /\ board' = After(board, Op, n)
  /\ Exits
  /\ UNCHANGED <<file, told>>
Deadline ==
  /\ Calling /\ Op.fn = "wait" /\ Stuck(board, Op.addr)
  /\ Exits
  /\ UNCHANGED <<board, file, told, budget>>

Booted ==
  /\ pc = "boot" /\ ~ Calling
  /\ pc' = "load" /\ got' = <<>>
  /\ UNCHANGED <<board, roi, since, odd, memory, file, told, budget>>

Grabbed ==
  /\ pc = "grab" /\ ~ Calling
  /\ pc' = "prompt" /\ roi' = Cells(got) /\ got' = <<>>
  /\ UNCHANGED <<board, since, odd, memory, file, told, budget>>

-----------------------------------------------------------------------------
(* Keys *)

Press == pc = "prompt" /\ keys < MaxKeys /\ keys' = keys + 1 /\ UNCHANGED <<starts, faults>>

Label(label) ==
  /\ Press
  /\ records' = Append(records, [label |-> label, roi565 |-> roi])
  /\ asked' = Append(kept, [label |-> label, roi565 |-> roi])
  /\ pc' = "append"
  /\ UNCHANGED <<line, n_face, n_none, file, kept, spoilt>>

\* Mutant: opens the file for writing.
AppendLineOver ==
  /\ pc = "append"
  /\ file' = [file EXCEPT !.lines = <<records[Len(records)]>>]
  /\ pc' = "count"
  /\ UNCHANGED <<line, memory, told, budget>>

\* A line is short enough for one write when the file is closed.
AppendLine ==
  /\ pc = "append"
  /\ file' = [file EXCEPT !.lines = Append(@, records[Len(records)])]
  /\ pc' = "count"
  /\ UNCHANGED <<line, memory, told, budget>>
Saved ==
  /\ pc = "count"
  /\ LET label == records[Len(records)].label
     IN  /\ n_face' = IF label = 1 THEN n_face + 1 ELSE n_face
         /\ n_none' = IF label = 1 THEN n_none ELSE n_none + 1
  /\ kept' = asked
  /\ Capture
  /\ UNCHANGED <<records, file, asked, spoilt, budget>>

Undo ==
  /\ Press
  /\ IF records = <<>>
     THEN Capture /\ UNCHANGED <<memory, told>>
     ELSE LET dropped == records[Len(records)]
          IN  /\ records' = Front(records)
              /\ n_face' = IF dropped.label = 1 THEN n_face - 1 ELSE n_face
              /\ n_none' = IF dropped.label = 1 THEN n_none ELSE n_none - 1
              /\ asked' = Front(kept)
              /\ pc' = "truncate"
              /\ UNCHANGED <<line, kept, spoilt>>
  /\ UNCHANGED file

\* rewrite_dataset: opening the file for writing empties it, and the lines
\* are written by the block, the last of which may be cut off.
Truncate ==
  /\ pc = "truncate"
  /\ file' = [lines |-> <<>>, torn |-> FALSE]
  /\ pc' = "rewrite"
  /\ UNCHANGED <<line, memory, told, budget>>
WriteBlock(k, torn) ==
  /\ pc = "rewrite" /\ k >= Len(file.lines)
  /\ file' = [lines |-> SubSeq(records, 1, k), torn |-> torn]
  /\ UNCHANGED <<line, pc, memory, told, budget>>

WriteRest ==
  /\ pc = "rewrite"
  /\ file' = [lines |-> records, torn |-> FALSE]
  /\ kept' = asked
  /\ Capture
  /\ UNCHANGED <<memory, asked, spoilt, budget>>

Recapture == Press /\ Capture /\ UNCHANGED <<memory, file, told>>

Quit ==
  /\ pc = "prompt"
  /\ Exits
  /\ UNCHANGED <<board, file, told, budget>>

Kill ==
  /\ pc # "down" /\ Spend(1)
  /\ Exits
  /\ spoilt' = (spoilt \/ pc = "rewrite")
  /\ UNCHANGED <<board, file, kept, asked>>

-----------------------------------------------------------------------------
BoardMoves ==
  /\ board' \in BoardSteps(board)
  /\ UNCHANGED <<got, roi, since, odd, pc, memory, file, told, budget>>
Watchdog ==
  /\ board.engine # "idle" /\ Spend(1)
  /\ board' = WatchdogEnds(board) /\ odd' = TRUE
  /\ UNCHANGED <<got, roi, since, pc, memory, file, told>>

OnLine ==
  \/ Start \/ Booted \/ Grabbed \/ Deadline
  \/ \E n \in 1..Resends+1 : Answers(n)
  \/ \E n \in 0..Resends+1 : TimesOut(n)
  \/ BoardMoves \/ Watchdog
OnFile ==
  \/ load_dataset \/ AppendLine \/ Saved \/ Truncate \/ WriteRest
  \/ \E k \in 0..Len(records)-1, torn \in BOOLEAN : WriteBlock(k, torn)
OnKey == (\E label \in {0, 1} : Label(label)) \/ Undo \/ Recapture \/ Quit

CollectorNext == OnLine \/ OnFile \/ OnKey \/ Kill
CollectorSpec == Init /\ [][CollectorNext]_collectorVars
-----------------------------------------------------------------------------
(* Properties *)

\* At the prompt the program's list, its counts and the file are what the
\* operator was told; at any time the file is that or what the key that was
\* pressed makes of it, unless it is being rewritten or a kill cut that off.
SamplesKept ==
  /\ pc \in {"grab", "prompt"} =>
       /\ file = [lines |-> kept, torn |-> FALSE] /\ records = kept
       /\ n_face = Count(kept, 1) /\ n_none = Count(kept, 0)
  /\ pc # "rewrite" /\ ~ spoilt => file \in {[lines |-> s, torn |-> FALSE] : s \in {kept, asked}}

\* A sample at the prompt is the cells of the region, row by row, of one
\* capture begun after the last key, unless one was under way when it was
\* armed or the watchdog ended it.
SampleOfOneCapture ==
  pc = "prompt" /\ ~ odd =>
    /\ roi[1][1] > since
    /\ roi = [k \in 1..GridCells |-> <<roi[1][1], CellAddr(k) + 1>>]
=============================================================================
