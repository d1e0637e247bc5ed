---------------------------- MODULE FrameUploader ----------------------------
(***************************************************************************)
(* src/fsms/FrameUploader.sv: takes the camera's command words (frame      *)
(* start, row start, frame end) and writes each row into the frame buffer  *)
(* as a sequence of memory bursts, one arbiter grant per burst.            *)
(*                                                                         *)
(* Tick(start, base, command, ack) is one clock edge.  command is the      *)
(* word at the head of the camera's command link, or NoCommand while its   *)
(* valid flag is low.  Addresses are <<buffer, burst within the frame>>.   *)
(***************************************************************************)
EXTENDS Naturals

CONSTANTS
  FRAME_WIDTH,   \* pixels of a row
  FRAME_HEIGHT,  \* rows of a frame
  BURST_CYCLES,  \* words of a burst
  TCMD           \* least distance of two memory commands, in cycles

VARIABLES
  state,
  row_counter, col_counter,
  write_cyc_counter,
  frame_addr,         \* where the next burst goes
  command_data_recv,
  read_rdy,           \* acknowledges a command word
  write_rq,           \* asks the arbiter for the bus
  mem_wr_en, write_addr,
  upload_done

fsmVars == <<state, upload_done>>
commandVars == <<command_data_recv, read_rdy>>
placeVars == <<row_counter, col_counter, frame_addr>>
memoryVars == <<write_cyc_counter, write_rq, mem_wr_en, write_addr>>

CACHE_DELAY == 2

\* Mutant: the bus is let go when the last word is out.
HoldCyclesBurst == BURST_CYCLES

\* How long a burst keeps the bus, so that the next command comes late enough.
HoldCycles == TCMD + CACHE_DELAY

NoCommand == 0
FrameStart == 1
RowStart == 2
FrameEnd == 3
Commands == 1 .. 3

States == {"FRAME_PROCESSING_START_WAIT", "CHECK_QUEUE", "FRAME_PROCESSING_DONE",
           "FRAME_PROCESSING_WRITE_CYC", "WRITE_MEMORY", "WRITE_MEMORY_WAIT",
           "FRAME_WRITE_ROW_START", "WAIT_FRAME_START_CMD", "CHECK_FRAME_START",
           "WAIT_ROW_START", "CHECK_ROW_START", "WAIT_FRAME_END", "CHECK_FRAME_END"}

Reset ==
  /\ state = "FRAME_PROCESSING_START_WAIT"
  /\ row_counter = 0 /\ col_counter = 0
  /\ write_cyc_counter = 0
  /\ frame_addr = <<0, 0>> /\ write_addr = <<0, 0>>
  /\ command_data_recv = NoCommand
  /\ read_rdy = 0 /\ write_rq = 0 /\ mem_wr_en = 0
  /\ upload_done = 0

-----------------------------------------------------------------------------
StartWait(start, base) ==
  /\ state = "FRAME_PROCESSING_START_WAIT"
  /\ upload_done' = 0
  /\ IF start
       THEN /\ state' = "WAIT_FRAME_START_CMD"
            /\ frame_addr' = <<base, 0>>
            /\ row_counter' = 0
       ELSE UNCHANGED <<state, frame_addr, row_counter>>
  /\ UNCHANGED <<col_counter, commandVars, memoryVars>>

\* Take the command word when there is one; the acknowledge leaves with it.
WaitCommand(wait, check, command) ==
  /\ state = wait
  /\ IF command # NoCommand
       THEN /\ state' = check
            /\ read_rdy' = 1
            /\ command_data_recv' = command
       ELSE UNCHANGED <<state, commandVars>>
  /\ UNCHANGED <<upload_done, placeVars, memoryVars>>

\* Any other command than the one waited for is dropped.
CheckCommand(check, expected, next, wait) ==
  /\ state = check
  /\ read_rdy' = 0
  /\ state' = IF command_data_recv = expected THEN next ELSE wait
  /\ UNCHANGED <<upload_done, command_data_recv, placeVars, memoryVars>>

\* Mutant: the frame ends one row early.
CheckQueueShort ==
  /\ state = "CHECK_QUEUE"
  /\ state' = IF row_counter = FRAME_HEIGHT - 1 THEN "WAIT_FRAME_END" ELSE "WAIT_ROW_START"
  /\ UNCHANGED <<upload_done, commandVars, placeVars, memoryVars>>

\* Mutant: the frame ends one row late.
CheckQueueLong ==
  /\ state = "CHECK_QUEUE"
  /\ state' = IF row_counter = FRAME_HEIGHT + 1 THEN "WAIT_FRAME_END" ELSE "WAIT_ROW_START"
  /\ UNCHANGED <<upload_done, commandVars, placeVars, memoryVars>>

CheckQueue ==
  /\ state = "CHECK_QUEUE"
  /\ state' = IF row_counter = FRAME_HEIGHT THEN "WAIT_FRAME_END" ELSE "WAIT_ROW_START"
  /\ UNCHANGED <<upload_done, commandVars, placeVars, memoryVars>>

RowBegin ==
  /\ state = "FRAME_WRITE_ROW_START"
  /\ state' = "WRITE_MEMORY_WAIT"
  /\ write_cyc_counter' = 0
  /\ col_counter' = 0
  /\ UNCHANGED <<upload_done, row_counter, frame_addr, commandVars, write_rq, mem_wr_en,
                 write_addr>>

\* Mutant: the burst starts without the grant.
WriteMemoryWaitNot(ack) ==
  /\ state = "WRITE_MEMORY_WAIT"
  /\ write_rq' = 1
  /\ write_cyc_counter' = 0
  /\ state' = "WRITE_MEMORY"
  /\ UNCHANGED <<upload_done, placeVars, commandVars, mem_wr_en, write_addr>>

WriteMemoryWait(ack) ==
  /\ state = "WRITE_MEMORY_WAIT"
  /\ write_rq' = 1
  /\ write_cyc_counter' = 0
  /\ state' = IF ack THEN "WRITE_MEMORY" ELSE state
  /\ UNCHANGED <<upload_done, placeVars, commandVars, mem_wr_en, write_addr>>

\* Feed the words of a burst, two pixels each; the write command goes out
\* once the first word has come through the row buffer.
WriteMemoryWord ==
  /\ state = "WRITE_MEMORY"
  /\ write_cyc_counter # BURST_CYCLES
  /\ write_cyc_counter' = write_cyc_counter + 1
  /\ mem_wr_en' = IF write_cyc_counter = CACHE_DELAY THEN 1 ELSE 0
  /\ write_addr' = IF write_cyc_counter = CACHE_DELAY THEN frame_addr ELSE write_addr
  /\ col_counter' = IF col_counter # FRAME_WIDTH THEN col_counter + 2 ELSE col_counter
  /\ UNCHANGED <<fsmVars, row_counter, frame_addr, commandVars, write_rq>>

WriteMemoryEnd ==
  /\ state = "WRITE_MEMORY"
  /\ write_cyc_counter = BURST_CYCLES
  /\ state' = "FRAME_PROCESSING_WRITE_CYC"
  /\ frame_addr' = <<frame_addr[1], frame_addr[2] + 1>>
  /\ UNCHANGED <<upload_done, row_counter, col_counter, commandVars, memoryVars>>

\* Hold the bus until the memory can take another command, then let it go.
WriteCycle ==
  /\ state = "FRAME_PROCESSING_WRITE_CYC"
  /\ write_cyc_counter # HoldCycles
  /\ write_cyc_counter' = write_cyc_counter + 1
  /\ UNCHANGED <<fsmVars, placeVars, commandVars, write_rq, mem_wr_en, write_addr>>

\* Mutant: the request is not taken back.
WriteCycleEndHold(ack) ==
  /\ state = "FRAME_PROCESSING_WRITE_CYC"
  /\ write_cyc_counter = HoldCycles
  /\ IF col_counter = FRAME_WIDTH
       THEN row_counter' = row_counter + 1 /\ state' = "CHECK_QUEUE"
       ELSE /\ state' = IF ack THEN state ELSE "WRITE_MEMORY_WAIT"
            /\ UNCHANGED row_counter
  /\ UNCHANGED <<upload_done, col_counter, frame_addr, commandVars, memoryVars>>

WriteCycleEnd(ack) ==
  /\ state = "FRAME_PROCESSING_WRITE_CYC"
  /\ write_cyc_counter = HoldCycles
  /\ write_rq' = 0
  /\ IF col_counter = FRAME_WIDTH
       THEN row_counter' = row_counter + 1 /\ state' = "CHECK_QUEUE"
       ELSE /\ state' = IF ack THEN state ELSE "WRITE_MEMORY_WAIT"
            /\ UNCHANGED row_counter
  /\ UNCHANGED <<upload_done, col_counter, frame_addr, commandVars, write_cyc_counter,
                 mem_wr_en, write_addr>>

Done ==
  /\ state = "FRAME_PROCESSING_DONE"
  /\ upload_done' = 1
  /\ state' = "FRAME_PROCESSING_START_WAIT"
  /\ UNCHANGED <<placeVars, commandVars, memoryVars>>

-----------------------------------------------------------------------------
TakeCommands(command) ==
  \/ WaitCommand("WAIT_FRAME_START_CMD", "CHECK_FRAME_START", command)
  \/ CheckCommand("CHECK_FRAME_START", FrameStart, "WAIT_ROW_START", "WAIT_FRAME_START_CMD")
  \/ WaitCommand("WAIT_ROW_START", "CHECK_ROW_START", command)
  \/ CheckCommand("CHECK_ROW_START", RowStart, "FRAME_WRITE_ROW_START", "WAIT_ROW_START")
  \/ WaitCommand("WAIT_FRAME_END", "CHECK_FRAME_END", command)
  \/ CheckCommand("CHECK_FRAME_END", FrameEnd, "FRAME_PROCESSING_DONE", "WAIT_FRAME_END")

WriteRow(ack) ==
  \/ RowBegin
  \/ WriteMemoryWait(ack)
  \/ WriteMemoryWord
  \/ WriteMemoryEnd
  \/ WriteCycle
  \/ WriteCycleEnd(ack)

Tick(start, base, command, ack) ==
  \/ StartWait(start, base)
  \/ TakeCommands(command)
  \/ CheckQueue
  \/ WriteRow(ack)
  \/ Done

TypeOK ==
  /\ state \in States
  /\ row_counter \in 0 .. FRAME_HEIGHT
  /\ col_counter \in 0 .. FRAME_WIDTH
  /\ write_cyc_counter \in 0 .. TCMD + CACHE_DELAY
  /\ command_data_recv \in {NoCommand} \cup Commands
  /\ read_rdy \in 0 .. 1 /\ write_rq \in 0 .. 1 /\ mem_wr_en \in 0 .. 1
  /\ upload_done \in 0 .. 1

=============================================================================
