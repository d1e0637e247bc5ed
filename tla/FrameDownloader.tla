--------------------------- MODULE FrameDownloader ---------------------------
(***************************************************************************)
(* src/fsms/FrameDownloader.sv: the sequencer that turns the rows of the   *)
(* row cache into the token and pixel stream of the display, one word per  *)
(* write enable, honouring the back-pressure of the queue behind it.       *)
(*                                                                         *)
(* Tick(start, row_avail, queue_full) is one clock edge.  A word of the    *)
(* stream is a token or Pixel.                                             *)
(***************************************************************************)
EXTENDS Naturals

CONSTANTS
  EMIT_ROW_SIZE,  \* pixels of an output row
  FRAME_HEIGHT    \* output rows of a frame

VARIABLES
  state,
  row_counter, col_counter,
  wr_en, queue_data,         \* the registered push into the queue
  cache_start, row_release,  \* pulses to the row cache
  download_done

sequencerVars == <<state, row_counter, col_counter>>
pushVars == <<wr_en, queue_data>>

TOKEN_FRAME_START == "FrameStart"
TOKEN_ROW_START == "RowStart"
TOKEN_FRAME_END == "FrameEnd"
Pixel == "Pixel"

Words == {TOKEN_FRAME_START, TOKEN_ROW_START, TOKEN_FRAME_END, Pixel}

States == {"S_START_WAIT", "S_FRAME_START", "S_ROW_WAIT", "S_ROW_START", "S_DRAIN_W1",
           "S_DRAIN_W2", "S_DRAIN_PUSH", "S_ROW_END", "S_ROW_GAP", "S_FRAME_END", "S_DONE"}

Reset ==
  /\ state = "S_START_WAIT"
  /\ row_counter = 0 /\ col_counter = 0
  /\ wr_en = 0 /\ queue_data = TOKEN_FRAME_START
  /\ cache_start = 0 /\ row_release = 0
  /\ download_done = 0

-----------------------------------------------------------------------------

last_col == col_counter = EMIT_ROW_SIZE - 1

NoPush == wr_en' = 0 /\ UNCHANGED queue_data

Push(word) == wr_en' = 1 /\ queue_data' = word

\* Pulses last one cycle.
NoPulse == cache_start' = 0 /\ row_release' = 0

StartWait(start) ==
  /\ state = "S_START_WAIT"
  /\ download_done' = 0
  /\ IF start
       THEN cache_start' = 1 /\ row_counter' = 0 /\ state' = "S_FRAME_START"
       ELSE cache_start' = 0 /\ UNCHANGED <<row_counter, state>>
  /\ row_release' = 0
  /\ NoPush
  /\ UNCHANGED col_counter

\* A full queue holds the machine where it is.
Stall(queue_full) ==
  /\ queue_full
  /\ state \in {"S_FRAME_START", "S_ROW_START", "S_DRAIN_PUSH", "S_FRAME_END"}
  /\ NoPush /\ NoPulse
  /\ UNCHANGED <<sequencerVars, download_done>>

FrameToken(from, word, to, queue_full) ==
  /\ ~queue_full
  /\ state = from
  /\ Push(word)
  /\ state' = to
  /\ NoPulse
  /\ UNCHANGED <<row_counter, col_counter, download_done>>

RowWait(row_avail) ==
  /\ state = "S_ROW_WAIT"
  /\ state' = IF row_counter = FRAME_HEIGHT THEN "S_FRAME_END"
              ELSE IF row_avail THEN "S_ROW_START"
              ELSE state
  /\ NoPush /\ NoPulse
  /\ UNCHANGED <<row_counter, col_counter, download_done>>

RowToken(queue_full) ==
  /\ ~queue_full
  /\ state = "S_ROW_START"
  /\ Push(TOKEN_ROW_START)
  /\ col_counter' = 0
  /\ state' = "S_DRAIN_W1"
  /\ NoPulse
  /\ UNCHANGED <<row_counter, download_done>>

PushPixel(queue_full) ==
  /\ ~queue_full
  /\ state = "S_DRAIN_PUSH"
  /\ Push(Pixel)
  /\ IF last_col
       THEN state' = "S_ROW_END" /\ UNCHANGED col_counter
       ELSE state' = "S_DRAIN_W1" /\ col_counter' = col_counter + 1
  /\ NoPulse
  /\ UNCHANGED <<row_counter, download_done>>

\* Mutant: the next row is looked for without waiting for the release.
RowEndNoGap ==
  /\ state = "S_ROW_END"
  /\ row_release' = 1 /\ cache_start' = 0
  /\ row_counter' = row_counter + 1
  /\ state' = "S_ROW_WAIT"
  /\ NoPush
  /\ UNCHANGED <<col_counter, download_done>>

RowEnd ==
  /\ state = "S_ROW_END"
  /\ row_release' = 1 /\ cache_start' = 0
  /\ row_counter' = row_counter + 1
  /\ state' = "S_ROW_GAP"
  /\ NoPush
  /\ UNCHANGED <<col_counter, download_done>>

\* The states that only let time pass: two for the memory of the row bank,
\* one for the cache to take the released bank off.
Pass ==
  /\ \/ state = "S_DRAIN_W1" /\ state' = "S_DRAIN_W2"
     \/ state = "S_DRAIN_W2" /\ state' = "S_DRAIN_PUSH"
     \/ state = "S_ROW_GAP" /\ state' = "S_ROW_WAIT"
  /\ NoPush /\ NoPulse
  /\ UNCHANGED <<row_counter, col_counter, download_done>>

Done ==
  /\ state = "S_DONE"
  /\ download_done' = 1
  /\ state' = "S_START_WAIT"
  /\ NoPush /\ NoPulse
  /\ UNCHANGED <<row_counter, col_counter>>

Tick(start, row_avail, queue_full) ==
  \/ StartWait(start)
  \/ Stall(queue_full)
  \/ FrameToken("S_FRAME_START", TOKEN_FRAME_START, "S_ROW_WAIT", queue_full)
  \/ RowWait(row_avail)
  \/ RowToken(queue_full)
  \/ PushPixel(queue_full)
  \/ RowEnd
  \/ Pass
  \/ FrameToken("S_FRAME_END", TOKEN_FRAME_END, "S_DONE", queue_full)
  \/ Done

TypeOK ==
  /\ state \in States
  /\ row_counter \in 0 .. FRAME_HEIGHT
  /\ col_counter \in 0 .. EMIT_ROW_SIZE - 1
  /\ wr_en \in 0 .. 1 /\ queue_data \in Words
  /\ cache_start \in 0 .. 1 /\ row_release \in 0 .. 1
  /\ download_done \in 0 .. 1

=============================================================================
