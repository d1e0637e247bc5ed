----------------------------- MODULE FrameBuffer -----------------------------
(***************************************************************************)
(* src/video_controller.sv as a whole: the control plane of FrameControl   *)
(* driving the FrameUploader and the FrameDownloader with its row cache,   *)
(* all three sharing the memory through lanes 2 and 3 of the arbiter.      *)
(*                                                                         *)
(* A step is one clock cycle.  Outside are the camera's command link (an   *)
(* endless well-formed stream, each word offered at some time and held     *)
(* until it is acknowledged), the queue of the display (full or not in any *)
(* cycle) and the memory, whose read data comes RD_LATENCY cycles after    *)
(* the command, one word per cycle.                                        *)
(***************************************************************************)
EXTENDS FrameControl

CONSTANTS
  SourceRows,    \* rows of a camera frame
  OutputRows,    \* rows of a frame on the display
  BurstsPerRow,
  BURST_CYCLES,
  TCMD,
  RD_LATENCY

VARIABLES
  \* frame_uploader
  fu_state, fu_upload_done, fu_row_counter, fu_col_counter, fu_write_cyc_counter,
  fu_frame_addr, fu_command_data_recv, fu_read_rdy, fu_write_rq, fu_mem_wr_en, fu_write_addr,
  \* frame_downloader
  fd_state, fd_row_counter, fd_col_counter, fd_wr_en, fd_queue_data, fd_cache_start,
  fd_row_release, fd_download_done,
  \* its row cache
  dc_fstate, dc_cur_addr, dc_read_counter, dc_burst_in_row, dc_rows_fetched,
  dc_fill_bank, dc_front_bank, dc_bank_full, dc_read_rq, dc_mem_rd_en, dc_active, dc_resid,
  \* the camera's command link
  camera,    \* words of the current frame that have been taken
  link,      \* the word offered, or NoCommand
  \* the memory
  mem_age,   \* cycles since the last command, up to MaxAge
  mem_read,  \* the last command was a read
  filled     \* bursts of the frame in each buffer that have been written (history)

fuVars == <<fu_state, fu_upload_done, fu_row_counter, fu_col_counter, fu_write_cyc_counter,
            fu_frame_addr, fu_command_data_recv, fu_read_rdy, fu_write_rq, fu_mem_wr_en,
            fu_write_addr>>
fdVars == <<fd_state, fd_row_counter, fd_col_counter, fd_wr_en, fd_queue_data,
            fd_cache_start, fd_row_release, fd_download_done>>
dcVars == <<dc_fstate, dc_cur_addr, dc_read_counter, dc_burst_in_row, dc_rows_fetched,
            dc_fill_bank, dc_front_bank, dc_bank_full, dc_read_rq, dc_mem_rd_en, dc_active,
            dc_resid>>
envVars == <<camera, link, mem_age, mem_read, filled>>
vars == <<controlVars, fuVars, fdVars, dcVars, envVars>>

RowPixels == 2 * BURST_CYCLES * BurstsPerRow

FrameBursts == SourceRows * BurstsPerRow

FU == INSTANCE FrameUploader WITH
  FRAME_WIDTH <- RowPixels, FRAME_HEIGHT <- SourceRows,
  state <- fu_state, upload_done <- fu_upload_done, row_counter <- fu_row_counter,
  col_counter <- fu_col_counter, write_cyc_counter <- fu_write_cyc_counter,
  frame_addr <- fu_frame_addr, command_data_recv <- fu_command_data_recv,
  read_rdy <- fu_read_rdy, write_rq <- fu_write_rq, mem_wr_en <- fu_mem_wr_en,
  write_addr <- fu_write_addr

FD == INSTANCE FrameDownloader WITH
  EMIT_ROW_SIZE <- RowPixels, FRAME_HEIGHT <- OutputRows,
  state <- fd_state, row_counter <- fd_row_counter, col_counter <- fd_col_counter,
  wr_en <- fd_wr_en, queue_data <- fd_queue_data, cache_start <- fd_cache_start,
  row_release <- fd_row_release, download_done <- fd_download_done

DC == INSTANCE DownloadRowCache WITH
  FETCH_ROWS <- OutputRows, BURSTS_PER_ROW <- BurstsPerRow,
  SOURCE_PIXELS <- OutputRows, TARGET_PIXELS <- SourceRows,
  fstate <- dc_fstate, cur_addr <- dc_cur_addr, read_counter <- dc_read_counter,
  burst_in_row <- dc_burst_in_row, rows_fetched <- dc_rows_fetched,
  fill_bank <- dc_fill_bank, front_bank <- dc_front_bank, bank_full <- dc_bank_full,
  read_rq <- dc_read_rq, mem_rd_en <- dc_mem_rd_en, active <- dc_active, resid <- dc_resid

\* What the code relies on: a burst is long enough for the write command to
\* fall again, the vertical scaler steps by one or two rows, and the memory is
\* not faster to answer than the distance it asks for between two commands.
ParameterAssumption ==
  /\ {SourceRows, OutputRows, BurstsPerRow, BURST_CYCLES, TCMD, RD_LATENCY} \subseteq Nat \ {0}
  /\ BURST_CYCLES >= FU!CACHE_DELAY + 2
  /\ TCMD >= BURST_CYCLES
  /\ OutputRows <= SourceRows /\ SourceRows < 2 * OutputRows
  /\ RD_LATENCY + BURST_CYCLES + 5 >= TCMD

ASSUME ParameterAssumption

MaxAge == IF TCMD > RD_LATENCY + BURST_CYCLES THEN TCMD ELSE RD_LATENCY + BURST_CYCLES

-----------------------------------------------------------------------------
cmd_en == fu_mem_wr_en = 1 \/ dc_mem_rd_en = 1

rd_data_valid ==
  mem_read = 1 /\ mem_age >= RD_LATENCY /\ mem_age < RD_LATENCY + BURST_CYCLES

\* On a write and a read in one cycle the bus carries the write.
Memory ==
  /\ mem_age' = IF cmd_en THEN 1 ELSE IF mem_age < MaxAge THEN mem_age + 1 ELSE mem_age
  /\ mem_read' = IF cmd_en THEN 1 - fu_mem_wr_en ELSE mem_read
  /\ filled' = [b \in BC!Buffers |->
       IF fu_mem_wr_en = 1 /\ fu_write_addr[1] = b THEN fu_write_addr[2] + 1 ELSE filled[b]]

\* The word a camera sends after it has sent n words of a frame.
StreamWord(n) ==
  IF n = 0 THEN FU!FrameStart ELSE IF n <= SourceRows THEN FU!RowStart ELSE FU!FrameEnd

StreamNext(n) == IF n = SourceRows + 1 THEN 0 ELSE n + 1

CommandLink(offer) ==
  LET taken == link # FU!NoCommand /\ fu_read_rdy = 1
      sent == IF taken THEN StreamNext(camera) ELSE camera
  IN  /\ camera' = sent
      /\ link' = IF link # FU!NoCommand /\ ~taken THEN link
                 ELSE IF offer THEN StreamWord(sent)
                 ELSE FU!NoCommand

Init ==
  /\ ControlInit
  /\ FU!Reset /\ FD!Reset /\ DC!Reset
  /\ camera = 0 /\ link = FU!NoCommand
  /\ mem_age = MaxAge /\ mem_read = 0
  /\ filled = [b \in BC!Buffers |-> FrameBursts]

DataRequests ==
  (IF fu_write_rq = 1 THEN {DATA_WRITER_IDX} ELSE {}) \cup
  (IF dc_read_rq = 1 THEN {DATA_READER_IDX} ELSE {})

UploadAndFetch ==
  /\ ControlTick(fu_upload_done = 1, fd_download_done = 1, DataRequests, TRUE)
  /\ FU!Tick(start_uploading = 1, write_base, link, DATA_WRITER_IDX \in grant)
  /\ DC!Tick(fd_cache_start = 1, read_base, DATA_READER_IDX \in grant, rd_data_valid,
             fd_row_release = 1)

Drain(queue_full) == FD!Tick(start_downloading = 1, DC!row_avail, queue_full)

\* The two inputs vary in the cycles in which something looks at them.
LinkFree == link = FU!NoCommand \/ fu_read_rdy = 1

Pushing == fd_state \in {"S_FRAME_START", "S_ROW_START", "S_DRAIN_PUSH", "S_FRAME_END"}

Next ==
  /\ UploadAndFetch
  /\ Memory
  /\ \E queue_full \in IF Pushing THEN BOOLEAN ELSE {FALSE} : Drain(queue_full)
  /\ \E offer \in IF LinkFree THEN BOOLEAN ELSE {FALSE} : CommandLink(offer)

Spec == Init /\ [][Next]_vars

\* The clock runs.
FairSpec == Spec /\ WF_vars(Next)

-----------------------------------------------------------------------------
TypeOK ==
  /\ ControlTypeOK
  /\ FU!TypeOK /\ FD!TypeOK /\ DC!TypeOK
  /\ fu_frame_addr \in BC!Buffers \X (0 .. FrameBursts)
  /\ fu_write_addr \in BC!Buffers \X (0 .. FrameBursts - 1)
  /\ dc_cur_addr[1] \in BC!Buffers
  /\ camera \in 0 .. SourceRows + 1
  /\ link \in {FU!NoCommand} \cup FU!Commands
  /\ mem_age \in 0 .. MaxAge /\ mem_read \in 0 .. 1
  /\ filled \in [BC!Buffers -> 0 .. FrameBursts]

(***************************************************************************)
(* A command goes out only under the grant of its side, so that the write  *)
(* and the read command are never on the bus together: the condition       *)
(* video_controller calls error and its simulation asserts against.        *)
(***************************************************************************)
CommandsGranted ==
  /\ fu_mem_wr_en = 1 => DATA_WRITER_IDX \in grant
  /\ dc_mem_rd_en = 1 => DATA_READER_IDX \in grant
  /\ ~ (fu_mem_wr_en = 1 /\ dc_mem_rd_en = 1)

(***************************************************************************)
(* No command reaches the memory within TCMD cycles of another one,        *)
(* whichever sides they come from.  The uploader counts the distance out   *)
(* itself; for the cache it follows from the burst it waits for and the    *)
(* latency of the arbiter.                                                 *)
(***************************************************************************)
CommandSpacing == cmd_en => mem_age >= TCMD

(***************************************************************************)
(* The display reads complete frames only: when a read command goes out,   *)
(* every burst of the addressed buffer has been written since its upload   *)
(* began (or none ever was).                                               *)
(***************************************************************************)
ReadsComplete == dc_mem_rd_en = 1 => filled[dc_cur_addr[1]] = FrameBursts

(***************************************************************************)
(* From the seeding of the cache to the end of the frame, no write command *)
(* addresses the buffer the cache reads.                                   *)
(***************************************************************************)
ShownNotWritten ==
  dc_active = 1 /\ fu_mem_wr_en = 1 => fu_write_addr[1] # dc_cur_addr[1]

(***************************************************************************)
(* Both sides stay inside the frame: the uploader writes the bursts of a   *)
(* buffer in order, and the vertical scaler never steps past the last      *)
(* camera row ("never reads past the frame into the next buffer region").  *)
(***************************************************************************)
InFrame ==
  /\ fu_mem_wr_en = 1 => fu_write_addr[2] = filled[fu_write_addr[1]] % FrameBursts
  /\ dc_mem_rd_en = 1 => dc_cur_addr[2] < SourceRows /\ dc_cur_addr[3] < BurstsPerRow

\* The downloader is emitting a row.
Draining == fd_state \in {"S_ROW_START", "S_DRAIN_W1", "S_DRAIN_W2", "S_DRAIN_PUSH", "S_ROW_END"}

Full(bank) == dc_bank_full[bank]

(***************************************************************************)
(* The two row banks keep the two halves of the download apart: the bank   *)
(* being drained is full, is not the one being filled, and holds the row   *)
(* whose turn it is, so that no row is shown twice, skipped, or overwritten *)
(* half-way.                                                               *)
(***************************************************************************)
BankExclusion ==
  Draining =>
    /\ Full(dc_front_bank) = 1
    /\ dc_fstate \in {"F_REQ", "F_WAIT", "F_DATA"} => dc_fill_bank # dc_front_bank
    /\ dc_rows_fetched - (Full(0) + Full(1)) = fd_row_counter

\* The camera sends and the display accepts, sooner or later.
CameraSends == []<>(link # FU!NoCommand)

DisplayAccepts == []<>(~Pushing)

(***************************************************************************)
(* Both directions keep going: uploads complete for ever if the camera     *)
(* keeps sending, even when the display is stuck, and downloads complete   *)
(* for ever if the display keeps accepting, even when the camera is stuck. *)
(* No side waits for good on the lock or on the bus.                       *)
(***************************************************************************)
UploadsComplete == CameraSends => []<>(fu_upload_done = 1)
DownloadsComplete == DisplayAccepts => []<>(fd_download_done = 1)

=============================================================================
