---------------------------- MODULE FrameControl ----------------------------
(***************************************************************************)
(* The control plane of src/video_controller.sv: the upload and download   *)
(* state machines, the lock they take around every use of the buffer       *)
(* table (lanes 0 and 1 of the shared arbiter), and the table itself.      *)
(*                                                                         *)
(* Everything runs on one clock, so a step is a clock edge: every register *)
(* takes its next value from the values before the edge.  The burst lanes  *)
(* of the arbiter, the two frame-done pulses and the memory's init_done    *)
(* are inputs, free in every cycle.                                        *)
(***************************************************************************)
EXTENDS Naturals, FiniteSets

CONSTANTS
  NUM_BUFFERS,          \* 3 in the code
  MEMORY_INITIAL_DELAY  \* cycles between init_done and the first frame

ASSUME NumBuffersAssumption == NUM_BUFFERS \in Nat /\ NUM_BUFFERS >= 3
ASSUME DelayAssumption == MEMORY_INITIAL_DELAY \in Nat

VARIABLES
  uploading_state, downloading_state,
  uploading_start_cnt,
  producer_req, consumer_req,                \* the lock requests
  buffer_write_rdy, buffer_write_finalize,   \* to the table, upload side
  buffer_read_rdy, buffer_read_finalize,     \* to the table, download side
  start_uploading, start_downloading,
  write_base, read_base,     \* the buffers write_base_addr and read_base_addr name
  \* the buffer table
  buffer_states, buffer_read_ptr, buffer_write_ptr, buffer_write_prev_ptr,
  write_state, read_state, buffer_id_valid, buffer_id,
  \* the shared arbiter
  grant_state, grant

uploadVars == <<uploading_state, producer_req, buffer_write_rdy, buffer_write_finalize,
                start_uploading, write_base>>

downloadVars == <<downloading_state, consumer_req, buffer_read_rdy, buffer_read_finalize,
                  start_downloading, read_base>>

tableVars == <<buffer_states, buffer_read_ptr, buffer_write_ptr, buffer_write_prev_ptr,
               write_state, read_state, buffer_id_valid, buffer_id>>

controlVars == <<uploadVars, downloadVars, uploading_start_cnt, tableVars,
                 grant_state, grant>>

BC == INSTANCE BufferController
ARB == INSTANCE Arbiter

FRAME_UPLOADER_IDX == 0
FRAME_DOWNLOADER_IDX == 1
DATA_WRITER_IDX == 2
DATA_READER_IDX == 3

DataLanes == {DATA_WRITER_IDX, DATA_READER_IDX}

\* The states of both machines, without their UPLOADING_ / DOWNLOADING_ prefix.
FsmStates == {"IDLE", "START_WAITE", "LOCK_BUFFER", "FIND_BUFFER", "SELECT_BUFFER",
              "START_PROCESS_FRAME", "FRAME_DONE_WAIT", "RELEASE_BUFFER_WAIT",
              "RELEASE_BUFFER"}

Bit(condition) == IF condition THEN 1 ELSE 0

MemoryReady == uploading_start_cnt = MEMORY_INITIAL_DELAY

-----------------------------------------------------------------------------
(***************************************************************************)
(* Both sides are one state machine: take the lock, find a buffer, drop    *)
(* the lock, process a frame, take the lock, give the buffer back.  state  *)
(* and next are a side's state register before and after the edge.         *)
(***************************************************************************)
Fsm(state, next, granted, done) ==
  LET Goes(from, to, condition) == state = from /\ next = (IF condition THEN to ELSE from)
  IN  \/ Goes("IDLE", "START_WAITE", TRUE)
      \/ Goes("START_WAITE", "LOCK_BUFFER", MemoryReady)
      \/ Goes("LOCK_BUFFER", "FIND_BUFFER", granted)
      \/ Goes("FIND_BUFFER", "SELECT_BUFFER", buffer_id_valid = 1)
      \/ Goes("SELECT_BUFFER", "START_PROCESS_FRAME", TRUE)
      \/ Goes("START_PROCESS_FRAME", "FRAME_DONE_WAIT", TRUE)
      \/ Goes("FRAME_DONE_WAIT", "RELEASE_BUFFER_WAIT", done)
      \/ Goes("RELEASE_BUFFER_WAIT", "RELEASE_BUFFER", granted)
      \/ Goes("RELEASE_BUFFER", "IDLE", TRUE)

\* Mutant: the lock is dropped as soon as it is taken.
LockRequestBrief(state, held) ==
  IF state \in {"LOCK_BUFFER", "RELEASE_BUFFER_WAIT"} THEN 1
  ELSE IF state \in {"FIND_BUFFER", "RELEASE_BUFFER"} THEN 0
  ELSE held

\* The lock request is raised while waiting for the lock and lowered on the
\* way out of it.
LockRequest(state, held) ==
  IF state \in {"LOCK_BUFFER", "RELEASE_BUFFER_WAIT"} THEN 1
  ELSE IF state \in {"SELECT_BUFFER", "RELEASE_BUFFER"} THEN 0
  ELSE held

Upload(done) ==
  /\ Fsm(uploading_state, uploading_state', FRAME_UPLOADER_IDX \in grant, done)
  /\ producer_req' = LockRequest(uploading_state, producer_req)
  /\ buffer_write_rdy' = Bit(uploading_state = "FIND_BUFFER")
  /\ buffer_write_finalize' = Bit(uploading_state = "RELEASE_BUFFER")
  /\ start_uploading' = Bit(uploading_state = "SELECT_BUFFER")
  /\ write_base' = IF uploading_state = "SELECT_BUFFER" THEN buffer_id ELSE write_base

\* As Upload, but for the start pulse, which comes one state later.
Download(done) ==
  /\ Fsm(downloading_state, downloading_state', FRAME_DOWNLOADER_IDX \in grant, done)
  /\ consumer_req' = LockRequest(downloading_state, consumer_req)
  /\ buffer_read_rdy' = Bit(downloading_state = "FIND_BUFFER")
  /\ buffer_read_finalize' = Bit(downloading_state = "RELEASE_BUFFER")
  /\ start_downloading' = Bit(downloading_state = "START_PROCESS_FRAME")
  /\ read_base' = IF downloading_state = "SELECT_BUFFER" THEN buffer_id ELSE read_base

\* Mutant: the count does not stop at its limit.
StartCountOn(init_done) ==
  uploading_start_cnt' =
    IF uploading_state = "START_WAITE" /\ init_done THEN uploading_start_cnt + 1
    ELSE uploading_start_cnt

\* Counts only while the upload side waits; both sides look at the result.
StartCount(init_done) ==
  uploading_start_cnt' =
    IF ~MemoryReady /\ uploading_state = "START_WAITE" /\ init_done
    THEN uploading_start_cnt + 1
    ELSE uploading_start_cnt

shared_req(dataReq) ==
  (IF producer_req = 1 THEN {FRAME_UPLOADER_IDX} ELSE {}) \cup
  (IF consumer_req = 1 THEN {FRAME_DOWNLOADER_IDX} ELSE {}) \cup
  dataReq

-----------------------------------------------------------------------------

ControlInit ==
  /\ uploading_state = "IDLE"
  /\ downloading_state = "IDLE"
  /\ uploading_start_cnt = 0
  /\ producer_req = 0 /\ consumer_req = 0
  /\ buffer_write_rdy = 0 /\ buffer_write_finalize = 0
  /\ buffer_read_rdy = 0 /\ buffer_read_finalize = 0
  /\ start_uploading = 0 /\ start_downloading = 0
  /\ write_base = 0 /\ read_base = 0
  /\ BC!Reset
  /\ ARB!Reset

ControlTick(uploading_finished, downloading_finished, dataReq, init_done) ==
  /\ Upload(uploading_finished)
  /\ Download(downloading_finished)
  /\ StartCount(init_done)
  /\ BC!Clock(buffer_write_rdy, buffer_write_finalize, buffer_read_rdy, buffer_read_finalize)
  /\ ARB!Clock(shared_req(dataReq))

ControlNext ==
  \E uploading_finished, downloading_finished, init_done \in BOOLEAN,
     dataReq \in SUBSET DataLanes :
    ControlTick(uploading_finished, downloading_finished, dataReq, init_done)

ControlSpec == ControlInit /\ [][ControlNext]_controlVars

-----------------------------------------------------------------------------
ControlTypeOK ==
  /\ uploading_state \in FsmStates /\ downloading_state \in FsmStates
  /\ uploading_start_cnt \in 0 .. MEMORY_INITIAL_DELAY
  /\ producer_req \in 0 .. 1 /\ consumer_req \in 0 .. 1
  /\ buffer_write_rdy \in 0 .. 1 /\ buffer_write_finalize \in 0 .. 1
  /\ buffer_read_rdy \in 0 .. 1 /\ buffer_read_finalize \in 0 .. 1
  /\ start_uploading \in 0 .. 1 /\ start_downloading \in 0 .. 1
  /\ write_base \in BC!Buffers /\ read_base \in BC!Buffers
  /\ BC!TypeOK
  /\ ARB!TypeOK

\* A side owns its buffer from the answer of the table until it asks to give it back.
Processing(state) ==
  state \in {"START_PROCESS_FRAME", "FRAME_DONE_WAIT", "RELEASE_BUFFER_WAIT"}

(***************************************************************************)
(* The lock works across its own latency: no request of one side reaches   *)
(* the table in a cycle in which a request of the other side does.  It     *)
(* includes the assertion of BufferController.sv, that the two rdy signals *)
(* are never high together, and extends it to the finalize pulses, which   *)
(* leave one cycle after the lock is dropped.                              *)
(***************************************************************************)
TableExclusion ==
  ~ /\ buffer_write_rdy = 1 \/ buffer_write_finalize = 1
    /\ buffer_read_rdy = 1 \/ buffer_read_finalize = 1

(***************************************************************************)
(* The answer a side latches is its own.  buffer_id_valid and buffer_id    *)
(* are one pair of registers for both sides, and valid stays up for two    *)
(* cycles after the asker has gone: a side that looked too early would     *)
(* take the buffer of the other one.                                       *)
(***************************************************************************)
OwnAnswer ==
  /\ uploading_state = "SELECT_BUFFER" =>
       write_state = "WRITE_SELECT" /\ buffer_id = buffer_write_ptr
  /\ downloading_state = "SELECT_BUFFER" =>
       read_state = "READ_SELECT" /\ buffer_id = buffer_read_ptr

(***************************************************************************)
(* No tearing: while both sides process a frame they work at different     *)
(* base addresses, so the frame on the display is never overwritten by the *)
(* camera.                                                                 *)
(***************************************************************************)
NoTearing ==
  Processing(uploading_state) /\ Processing(downloading_state) => write_base # read_base

(***************************************************************************)
(* No buffer leaks: a buffer is marked busy exactly while a side holds it, *)
(* and a side that comes back for the next frame has given the last one    *)
(* back.  A finalize pulse the table missed would leave the buffer busy    *)
(* and answer the next request with the old buffer.                        *)
(***************************************************************************)
NoLeak ==
  /\ \A b \in BC!Buffers :
       /\ buffer_states[b] = "WRITE_BUSY" <=> write_state = "WRITE_SELECT" /\ b = buffer_write_ptr
       /\ buffer_states[b] = "READ_BUSY" <=> read_state = "READ_SELECT" /\ b = buffer_read_ptr
  /\ uploading_state \in {"START_WAITE", "LOCK_BUFFER"} => write_state = "WRITE_IDLE"
  /\ downloading_state \in {"START_WAITE", "LOCK_BUFFER"} => read_state = "READ_IDLE"

(***************************************************************************)
(* The reader's search never starts: the last complete frame is never      *)
(* being written when the display asks for it, so READ_NEXT, which would   *)
(* show an older frame, is never entered.                                  *)
(***************************************************************************)
ReaderNeverSearches == read_state # "READ_NEXT"

(***************************************************************************)
(* What README.md says of a writer that is faster than the display: when   *)
(* the buffer it would go to is being shown, it stays where it is and      *)
(* overwrites the frame it has just written.                               *)
(***************************************************************************)
WriterStays ==
  [][ /\ write_state = "CHECK_STEP" /\ write_state' = "WRITE_SELECT"
      /\ buffer_states[BC!get_next(buffer_write_prev_ptr)] = "READ_BUSY"
      => buffer_write_ptr' = buffer_write_prev_ptr ]_controlVars

\* The ring as the abstract specification sees it: a buffer is held from the
\* edge that marks it busy to the edge that takes the mark away.
Ring == INSTANCE FrameRing WITH
  Buffer <- BC!Buffers,
  NoBuffer <- NUM_BUFFERS,
  Blank <- 0,
  writing <- IF write_state = "WRITE_SELECT" THEN buffer_write_ptr ELSE NUM_BUFFERS,
  reading <- IF read_state = "READ_SELECT" THEN buffer_read_ptr ELSE NUM_BUFFERS,
  newest <- buffer_write_prev_ptr

(***************************************************************************)
(* The control plane implements the frame ring: the camera never gets the  *)
(* buffer on display or the newest frame, the display always gets the      *)
(* newest complete one.                                                    *)
(***************************************************************************)
ImplementsRing == Ring!Spec

=============================================================================
