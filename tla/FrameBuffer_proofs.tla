------------------------- MODULE FrameBuffer_proofs -------------------------
(***************************************************************************)
(* Proofs about FrameControl, for any number of buffers from three on and  *)
(* any start-up delay: the safety invariants of its run, and that it       *)
(* implements the abstract frame ring.  And about FrameBuffer, for every   *)
(* frame geometry, burst length and memory timing ParameterAssumption      *)
(* allows: the seven safety invariants of its run.                         *)
(*                                                                         *)
(* The inductive invariant of FrameControl has two layers.  LockInv is     *)
(* about the lock alone: which side's state machine is where the arbiter's *)
(* tree points to its lane.  TableInv is about the buffer table and uses   *)
(* LockInv to know that only one side touches the table at a time.         *)
(*                                                                         *)
(* A step of FrameBuffer is a step of the control plane, so that invariant *)
(* carries over.  It is extended by six parts: who owns the memory bus     *)
(* (BusInv), where in the frame the upload is and what that has filled     *)
(* (PlaceInv, FillInv), which of the machines is between its start and its *)
(* done pulse (HandshakeInv), how the row cache and the downloader share   *)
(* the two banks (CacheInv), where the vertical scaler is (ScalerInv), and *)
(* how old the last memory command is at each stage on the way to the next *)
(* one (SpacingInv).                                                       *)
(***************************************************************************)
EXTENDS FrameBuffer, Integers, TLAPS

(* The control plane *)

\* States in which a side owns the lock.
Locked(state) == state \in {"FIND_BUFFER", "SELECT_BUFFER", "RELEASE_BUFFER"}

\* States in which a side still may see the grant of the lock it gave back.
Leaving(state) == state \in {"START_PROCESS_FRAME", "IDLE"}

\* The tree serves the upload side, or the download side.
AtUpload == grant_state["buffer"] = 0 /\ grant_state["root"] = 0
AtDownload == grant_state["buffer"] = 1 /\ grant_state["root"] = 0

UploadLock ==
  /\ FRAME_UPLOADER_IDX \in grant => AtUpload /\ (producer_req = 1 \/ Leaving(uploading_state))
  /\ Locked(uploading_state) => AtUpload /\ producer_req = 1
  /\ uploading_state = "START_PROCESS_FRAME" => grant_state["buffer"] = 0
  /\ buffer_write_rdy = 1 => uploading_state \in {"FIND_BUFFER", "SELECT_BUFFER"}
  /\ buffer_write_finalize = 1 => uploading_state = "IDLE" /\ grant_state["buffer"] = 0

DownloadLock ==
  /\ FRAME_DOWNLOADER_IDX \in grant => AtDownload /\ (consumer_req = 1 \/ Leaving(downloading_state))
  /\ Locked(downloading_state) => AtDownload /\ consumer_req = 1
  /\ downloading_state = "START_PROCESS_FRAME" => grant_state["buffer"] = 1
  /\ buffer_read_rdy = 1 => downloading_state \in {"FIND_BUFFER", "SELECT_BUFFER"}
  /\ buffer_read_finalize = 1 => downloading_state = "IDLE" /\ grant_state["buffer"] = 1

LockInv == UploadLock /\ DownloadLock

-----------------------------------------------------------------------------
(***************************************************************************)
(* What the arbiter does for the two lock lanes, whatever the data lanes   *)
(* ask for: a grant needs the request and the tree's pointer, and the      *)
(* pointer stays on a lane that requests.                                  *)
(***************************************************************************)
LEMMA LockLanes ==
  ASSUME NEW dataReq \in SUBSET DataLanes, ControlTypeOK, ARB!Clock(shared_req(dataReq))
  PROVE  /\ FRAME_UPLOADER_IDX \in grant' => producer_req = 1 /\ AtUpload
         /\ FRAME_DOWNLOADER_IDX \in grant' => consumer_req = 1 /\ AtDownload
         /\ producer_req = 1 /\ AtUpload => AtUpload'
         /\ consumer_req = 1 /\ AtDownload => AtDownload'
<1> DEFINE req == shared_req(dataReq)
<1>1. /\ 0 \in req <=> producer_req = 1
      /\ 1 \in req <=> consumer_req = 1
  BY DEF shared_req, DataLanes, FRAME_UPLOADER_IDX, FRAME_DOWNLOADER_IDX, DATA_WRITER_IDX,
         DATA_READER_IDX
<1>2. grant_state \in [ARB!Nodes -> 0 .. 1]
  BY DEF ControlTypeOK, ARB!TypeOK
<1>3. /\ ARB!LeafValid("buffer", req) <=>
           (0 \in req /\ grant_state["buffer"] = 0) \/ 1 \in req
      /\ "buffer" \in ARB!Nodes /\ "root" \in ARB!Nodes /\ "buffer" # "root"
  BY DEF ARB!LeafValid, ARB!NodeValid, ARB!LaneAt, ARB!Nodes, ARB!Leaves
<1>4. /\ grant_state'["root"] = ARB!NextState("root", ARB!LeafValid("buffer", req), ARB!LeafValid("data", req))
      /\ grant_state'["buffer"] = ARB!NextState("buffer", 0 \in req, 1 \in req)
  BY <1>3 DEF ARB!Clock, ARB!LaneAt
<1>5. /\ 0 \in grant' <=> ARB!Granted(0, req)
      /\ 1 \in grant' <=> ARB!Granted(1, req)
  BY DEF ARB!Clock, ARB!Lanes
<1>6. /\ ARB!Granted(0, req) => 0 \in req /\ AtUpload
      /\ ARB!Granted(1, req) => 1 \in req /\ AtDownload
  BY DEF ARB!Granted, ARB!LeafOf, ARB!InputOf, ARB!SideOf, AtUpload, AtDownload
<1>7. /\ 0 \in req /\ AtUpload => AtUpload'
      /\ 1 \in req /\ AtDownload => AtDownload'
  BY <1>3, <1>4 DEF ARB!NextState, AtUpload, AtDownload
<1> QED
  BY <1>1, <1>5, <1>6, <1>7 DEF FRAME_UPLOADER_IDX, FRAME_DOWNLOADER_IDX

-----------------------------------------------------------------------------
\* Type correctness.

LEMMA TypeInit == ControlInit => ControlTypeOK
  BY NumBuffersAssumption, DelayAssumption
  DEF ControlInit, ControlTypeOK, BC!Reset, BC!TypeOK, BC!Buffers, BC!BufferStates,
      BC!WriteStates, BC!ReadStates, ARB!Reset, ARB!TypeOK, ARB!Nodes, ARB!Leaves, FsmStates

LEMMA NextBuffer ==
  ASSUME NEW b \in BC!Buffers
  PROVE  /\ BC!get_next(b) \in BC!Buffers
         /\ BC!get_next(b) # b
         /\ BC!get_next(BC!get_next(b)) # b
         /\ BC!get_next(BC!get_next(b)) # BC!get_next(b)
  BY NumBuffersAssumption DEF BC!Buffers, BC!get_next

LEMMA TypeStep == ControlTypeOK /\ [ControlNext]_controlVars => ControlTypeOK'
<1> SUFFICES ASSUME ControlTypeOK, [ControlNext]_controlVars PROVE ControlTypeOK'
  OBVIOUS
<1>1. CASE UNCHANGED controlVars
  BY <1>1 DEF ControlTypeOK, controlVars, uploadVars, downloadVars, tableVars, BC!TypeOK, ARB!TypeOK
<1>2. CASE ControlNext
  <2> PICK uploading_finished \in BOOLEAN, downloading_finished \in BOOLEAN,
           init_done \in BOOLEAN, dataReq \in SUBSET DataLanes :
        ControlTick(uploading_finished, downloading_finished, dataReq, init_done)
    BY <1>2 DEF ControlNext
  <2>1. /\ uploading_state' \in FsmStates /\ producer_req' \in 0 .. 1
        /\ buffer_write_rdy' \in 0 .. 1 /\ buffer_write_finalize' \in 0 .. 1
        /\ start_uploading' \in 0 .. 1 /\ write_base' \in BC!Buffers
    BY DEF ControlTick, Upload, Fsm, FsmStates, LockRequest, Bit, ControlTypeOK, BC!TypeOK
  <2>2. /\ downloading_state' \in FsmStates /\ consumer_req' \in 0 .. 1
        /\ buffer_read_rdy' \in 0 .. 1 /\ buffer_read_finalize' \in 0 .. 1
        /\ start_downloading' \in 0 .. 1 /\ read_base' \in BC!Buffers
    BY DEF ControlTick, Download, Fsm, FsmStates, LockRequest, Bit, ControlTypeOK, BC!TypeOK
  <2>3. uploading_start_cnt' \in 0 .. MEMORY_INITIAL_DELAY
    BY DelayAssumption DEF ControlTick, StartCount, MemoryReady, ControlTypeOK
  <2>4. BC!TypeOK'
    <3>1. BC!Clock(buffer_write_rdy, buffer_write_finalize, buffer_read_rdy, buffer_read_finalize)
      BY DEF ControlTick
    <3>2. buffer_states' \in [BC!Buffers -> BC!BufferStates] /\ buffer_id' \in BC!Buffers
      BY <3>1 DEF BC!Clock, BC!Table, ControlTypeOK, BC!TypeOK, BC!BufferStates
    <3>3. /\ buffer_write_ptr' \in BC!Buffers /\ buffer_write_prev_ptr' \in BC!Buffers
          /\ write_state' \in BC!WriteStates
      BY <3>1, NextBuffer DEF BC!Clock, BC!WriteSide, BC!WriteRelease, BC!WriteAdvance,
         BC!WriteCheck, BC!WriteHold, ControlTypeOK, BC!TypeOK, BC!WriteStates
    <3>4. buffer_read_ptr' \in BC!Buffers /\ read_state' \in BC!ReadStates
      BY <3>1, NextBuffer DEF BC!Clock, BC!ReadSide, BC!ReadRelease, BC!ReadStart,
         BC!ReadCheck, BC!ReadAdvance, BC!ReadHold, ControlTypeOK, BC!TypeOK, BC!ReadStates
    <3>5. buffer_id_valid' \in 0 .. 1
      BY <3>1 DEF BC!Clock, BC!Answer
    <3> QED
      BY <3>2, <3>3, <3>4, <3>5 DEF BC!TypeOK
  <2>5. ARB!TypeOK'
    BY DEF ControlTick, ARB!Clock, ARB!TypeOK, ARB!NextState
  <2> QED
    BY <2>1, <2>2, <2>3, <2>4, <2>5 DEF ControlTypeOK
<1> QED
  BY <1>1, <1>2

(***************************************************************************)
(* Type correctness of the control plane.                                  *)
(***************************************************************************)
THEOREM TypeCorrect == ControlSpec => []ControlTypeOK
  BY TypeInit, TypeStep, PTL DEF ControlSpec

-----------------------------------------------------------------------------
\* The lock.

LEMMA LockInit == ControlInit => LockInv
  BY DEF ControlInit, ARB!Reset, LockInv, UploadLock, DownloadLock, Locked, Leaving, AtUpload

LEMMA LockStep ==
  ControlTypeOK /\ LockInv /\ [ControlNext]_controlVars => LockInv'
<1> SUFFICES ASSUME ControlTypeOK, LockInv, [ControlNext]_controlVars PROVE LockInv'
  OBVIOUS
<1>1. CASE UNCHANGED controlVars
  BY <1>1 DEF LockInv, UploadLock, DownloadLock, Locked, Leaving, AtUpload, AtDownload,
              controlVars, uploadVars, downloadVars
<1>2. CASE ControlNext
  <2> PICK uploading_finished \in BOOLEAN, downloading_finished \in BOOLEAN,
           init_done \in BOOLEAN, dataReq \in SUBSET DataLanes :
        ControlTick(uploading_finished, downloading_finished, dataReq, init_done)
    BY <1>2 DEF ControlNext
  <2>1. /\ FRAME_UPLOADER_IDX \in grant' => producer_req = 1 /\ AtUpload
        /\ FRAME_DOWNLOADER_IDX \in grant' => consumer_req = 1 /\ AtDownload
        /\ producer_req = 1 /\ AtUpload => AtUpload'
        /\ consumer_req = 1 /\ AtDownload => AtDownload'
    BY LockLanes DEF ControlTick
  <2>2. UploadLock'
    <3>1. Upload(uploading_finished)
      BY DEF ControlTick
    <3>2. FRAME_UPLOADER_IDX \in grant' =>
            AtUpload' /\ (producer_req' = 1 \/ Leaving(uploading_state'))
      BY <2>1, <3>1 DEF Upload, Fsm, LockRequest, Leaving, ControlTypeOK, FsmStates
    <3>3. Locked(uploading_state') => AtUpload' /\ producer_req' = 1
      BY <2>1, <3>1 DEF Upload, Fsm, LockRequest, Locked, Leaving, LockInv, UploadLock
    <3>4. uploading_state' = "START_PROCESS_FRAME" => AtUpload'
      BY <2>1, <3>1 DEF Upload, Fsm, Locked, LockInv, UploadLock
    <3>5. /\ buffer_write_rdy' = 1 => uploading_state' \in {"FIND_BUFFER", "SELECT_BUFFER"}
          /\ buffer_write_finalize' = 1 => uploading_state' = "IDLE" /\ AtUpload'
      BY <2>1, <3>1 DEF Upload, Fsm, Bit, Locked, LockInv, UploadLock
    <3> QED
      BY <3>2, <3>3, <3>4, <3>5 DEF UploadLock, AtUpload
  <2>3. DownloadLock'
    <3>1. Download(downloading_finished)
      BY DEF ControlTick
    <3>2. FRAME_DOWNLOADER_IDX \in grant' =>
            AtDownload' /\ (consumer_req' = 1 \/ Leaving(downloading_state'))
      BY <2>1, <3>1 DEF Download, Fsm, LockRequest, Leaving, ControlTypeOK, FsmStates
    <3>3. Locked(downloading_state') => AtDownload' /\ consumer_req' = 1
      BY <2>1, <3>1 DEF Download, Fsm, LockRequest, Locked, Leaving, LockInv, DownloadLock
    <3>4. downloading_state' = "START_PROCESS_FRAME" => AtDownload'
      BY <2>1, <3>1 DEF Download, Fsm, Locked, LockInv, DownloadLock
    <3>5. /\ buffer_read_rdy' = 1 => downloading_state' \in {"FIND_BUFFER", "SELECT_BUFFER"}
          /\ buffer_read_finalize' = 1 => downloading_state' = "IDLE" /\ AtDownload'
      BY <2>1, <3>1 DEF Download, Fsm, Bit, Locked, LockInv, DownloadLock
    <3> QED
      BY <3>2, <3>3, <3>4, <3>5 DEF DownloadLock, AtDownload
  <2> QED
    BY <2>2, <2>3 DEF LockInv
<1> QED
  BY <1>1, <1>2

LEMMA LockExcludes == LockInv => TableExclusion
  BY DEF LockInv, UploadLock, DownloadLock, TableExclusion, Locked, AtUpload, AtDownload

(***************************************************************************)
(* The table is never touched by both sides in one cycle, for any number   *)
(* of buffers: the assertion of BufferController.sv, extended to finalize. *)
(***************************************************************************)
THEOREM Exclusion == ControlSpec => []TableExclusion
<1>1. ControlInit => ControlTypeOK /\ LockInv
  BY TypeInit, LockInit
<1>2. ControlTypeOK /\ LockInv /\ [ControlNext]_controlVars => (ControlTypeOK /\ LockInv)'
  BY TypeStep, LockStep
<1> QED
  BY <1>1, <1>2, LockExcludes, PTL DEF ControlSpec

-----------------------------------------------------------------------------
(***************************************************************************)
(* The buffer table.  While the write side searches, the buffer it steps   *)
(* over is the one on display, so the newest frame is never reached.       *)
(***************************************************************************)

\* The display holds the buffer after the newest one.
NextIsShown ==
  read_state = "READ_SELECT" /\ buffer_read_ptr = BC!get_next(buffer_write_prev_ptr)

Holding(state) == state = "SELECT_BUFFER" \/ Processing(state) \/ state = "RELEASE_BUFFER"

Asking(state) == state \in {"FIND_BUFFER", "SELECT_BUFFER"}

WriteInv ==
  /\ uploading_state \in {"START_WAITE", "LOCK_BUFFER"} => write_state = "WRITE_IDLE"
  /\ uploading_state = "IDLE" =>
       write_state = IF buffer_write_finalize = 1 THEN "WRITE_SELECT" ELSE "WRITE_IDLE"
  /\ Holding(uploading_state) => write_state = "WRITE_SELECT"
  /\ Asking(uploading_state) /\ write_state = "WRITE_SELECT" => buffer_id = buffer_write_ptr
  /\ Processing(uploading_state) => write_base = buffer_write_ptr

SearchInv ==
  /\ write_state = "WRITE_IDLE" =>
       \/ buffer_write_ptr = buffer_write_prev_ptr
       \/ /\ uploading_state = "FIND_BUFFER" /\ NextIsShown
          /\ buffer_write_ptr = BC!get_next(buffer_write_prev_ptr)
  /\ write_state = "CHECK_STEP" =>
       /\ uploading_state = "FIND_BUFFER"
       /\ \/ buffer_write_ptr = BC!get_next(buffer_write_prev_ptr)
          \/ /\ NextIsShown
             /\ buffer_write_ptr = BC!get_next(BC!get_next(buffer_write_prev_ptr))
  /\ write_state = "WRITE_SELECT" => buffer_write_ptr # buffer_write_prev_ptr

ReadInv ==
  /\ downloading_state \in {"START_WAITE", "LOCK_BUFFER"} => read_state = "READ_IDLE"
  /\ downloading_state = "IDLE" =>
       read_state = IF buffer_read_finalize = 1 THEN "READ_SELECT" ELSE "READ_IDLE"
  /\ Holding(downloading_state) => read_state = "READ_SELECT"
  /\ Asking(downloading_state) /\ read_state = "READ_SELECT" => buffer_id = buffer_read_ptr
  /\ Processing(downloading_state) => read_base = buffer_read_ptr
  /\ read_state = "READ_CHECK_STEP" =>
       downloading_state = "FIND_BUFFER" /\ buffer_read_ptr = buffer_write_prev_ptr
  /\ ReaderNeverSearches

Marks ==
  \A b \in BC!Buffers :
    /\ buffer_states[b] = "WRITE_BUSY" <=> write_state = "WRITE_SELECT" /\ b = buffer_write_ptr
    /\ buffer_states[b] = "READ_BUSY" <=> read_state = "READ_SELECT" /\ b = buffer_read_ptr

Answered ==
  buffer_id_valid = 1 =>
    \/ /\ Asking(uploading_state) \/ uploading_state = "START_PROCESS_FRAME"
       /\ write_state = "WRITE_SELECT"
    \/ /\ Asking(downloading_state) \/ downloading_state = "START_PROCESS_FRAME"
       /\ read_state = "READ_SELECT"

TableInv == WriteInv /\ SearchInv /\ ReadInv /\ Marks /\ Answered

\* The inductive invariant.
ControlInv == ControlTypeOK /\ LockInv /\ TableInv

LEMMA TableInit == ControlInit => TableInv
  BY NumBuffersAssumption
  DEF ControlInit, BC!Reset, BC!Buffers, TableInv, WriteInv, SearchInv, ReadInv, Marks, Answered,
      Holding, Asking, Processing, ReaderNeverSearches

\* While a side asks, the other side's inputs to the table are low.
LEMMA OneSideAsks ==
  ASSUME LockInv, ControlTypeOK
  PROVE  /\ Asking(uploading_state) => buffer_read_rdy = 0 /\ buffer_read_finalize = 0
         /\ Asking(downloading_state) => buffer_write_rdy = 0 /\ buffer_write_finalize = 0
         /\ ~ ((buffer_write_rdy = 1 \/ buffer_write_finalize = 1) /\
               (buffer_read_rdy = 1 \/ buffer_read_finalize = 1))
         /\ buffer_write_rdy = 1 => Asking(uploading_state) /\ buffer_write_finalize = 0
         /\ buffer_read_rdy = 1 => Asking(downloading_state) /\ buffer_read_finalize = 0
         /\ buffer_write_finalize = 1 => uploading_state = "IDLE"
         /\ buffer_read_finalize = 1 => downloading_state = "IDLE"
  BY DEF LockInv, UploadLock, DownloadLock, ControlTypeOK, Asking, Locked, AtUpload, AtDownload

\* A valid answer seen by a side that waits for one is its own.
LEMMA OwnValid ==
  ASSUME LockInv, TableInv, buffer_id_valid = 1
  PROVE  /\ uploading_state = "FIND_BUFFER" => write_state = "WRITE_SELECT"
         /\ downloading_state = "FIND_BUFFER" => read_state = "READ_SELECT"
  BY DEF LockInv, UploadLock, DownloadLock, TableInv, Answered, Locked, Asking, AtUpload, AtDownload

LEMMA TableStep == ControlInv /\ [ControlNext]_controlVars => TableInv'
<1> SUFFICES ASSUME ControlInv, [ControlNext]_controlVars PROVE TableInv'
  OBVIOUS
<1> USE DEF ControlInv
<1>1. CASE UNCHANGED controlVars
  BY <1>1 DEF TableInv, WriteInv, SearchInv, ReadInv, Marks, Answered, Holding, Asking,
     Processing, NextIsShown, ReaderNeverSearches, controlVars, uploadVars, downloadVars, tableVars
<1>2. CASE ControlNext
  <2> PICK uploading_finished \in BOOLEAN, downloading_finished \in BOOLEAN,
           init_done \in BOOLEAN, dataReq \in SUBSET DataLanes :
        ControlTick(uploading_finished, downloading_finished, dataReq, init_done)
    BY <1>2 DEF ControlNext
  <2>1. /\ Upload(uploading_finished)
        /\ Download(downloading_finished)
        /\ BC!Answer(buffer_write_rdy, buffer_read_rdy)
        /\ BC!WriteSide(buffer_write_rdy, buffer_write_finalize)
        /\ BC!ReadSide(buffer_read_rdy, buffer_read_finalize)
        /\ BC!Table(buffer_write_rdy, buffer_write_finalize, buffer_read_rdy, buffer_read_finalize)
    BY DEF ControlTick, BC!Clock
  <2>2. /\ buffer_read_rdy = 0 /\ buffer_read_finalize = 0 => UNCHANGED <<read_state, buffer_read_ptr>>
        /\ buffer_write_rdy = 0 /\ buffer_write_finalize = 0 =>
             UNCHANGED <<write_state, buffer_write_ptr, buffer_write_prev_ptr>>
    BY <2>1 DEF BC!WriteSide, BC!WriteRelease, BC!WriteAdvance, BC!WriteCheck, BC!WriteHold,
       BC!WriteReleases, BC!ReadSide, BC!ReadRelease, BC!ReadStart, BC!ReadCheck, BC!ReadAdvance,
       BC!ReadHold, BC!ReadReleases
  <2> DEFINE wlow == buffer_write_rdy = 0 /\ buffer_write_finalize = 0
             rlow == buffer_read_rdy = 0 /\ buffer_read_finalize = 0
  <2>q. wlow \/ rlow
    BY OneSideAsks DEF ControlTypeOK
  <2>3. Marks'
    <3>1. CASE wlow
      <4> SUFFICES ASSUME NEW b \in BC!Buffers
                   PROVE  /\ buffer_states'[b] = "WRITE_BUSY" <=>
                               write_state' = "WRITE_SELECT" /\ b = buffer_write_ptr'
                          /\ buffer_states'[b] = "READ_BUSY" <=>
                               read_state' = "READ_SELECT" /\ b = buffer_read_ptr'
        BY DEF Marks
      <4>1. UNCHANGED <<write_state, buffer_write_ptr>>
        BY <3>1, <2>2
      <4>2. buffer_states'[b] =
              IF b = buffer_read_ptr /\ BC!ReadReleases(buffer_read_finalize) THEN "DISPLAYED"
              ELSE IF b = buffer_read_ptr /\ BC!ReadTakes(buffer_read_rdy, buffer_read_finalize)
                THEN "READ_BUSY" ELSE buffer_states[b]
        BY <3>1, <2>1 DEF BC!Table, BC!WriteReleases, BC!WriteTakes
      <4>3. /\ buffer_states[b] = "WRITE_BUSY" <=> write_state = "WRITE_SELECT" /\ b = buffer_write_ptr
            /\ buffer_states[b] = "READ_BUSY" <=> read_state = "READ_SELECT" /\ b = buffer_read_ptr
        BY DEF TableInv, Marks
      <4> QED
        BY <2>1, <4>1, <4>2, <4>3 DEF BC!ReadSide, BC!ReadRelease, BC!ReadStart, BC!ReadCheck,
           BC!ReadAdvance, BC!ReadHold, BC!ReadReleases, BC!ReadTakes
    <3>2. CASE rlow
      <4> SUFFICES ASSUME NEW b \in BC!Buffers
                   PROVE  /\ buffer_states'[b] = "WRITE_BUSY" <=>
                               write_state' = "WRITE_SELECT" /\ b = buffer_write_ptr'
                          /\ buffer_states'[b] = "READ_BUSY" <=>
                               read_state' = "READ_SELECT" /\ b = buffer_read_ptr'
        BY DEF Marks
      <4>1. UNCHANGED <<read_state, buffer_read_ptr>>
        BY <3>2, <2>2
      <4>2. buffer_states'[b] =
              IF b = buffer_write_ptr /\ BC!WriteReleases(buffer_write_finalize) THEN "UPDATED"
              ELSE IF b = buffer_write_ptr /\ BC!WriteTakes(buffer_write_rdy, buffer_write_finalize)
                THEN "WRITE_BUSY" ELSE buffer_states[b]
        BY <3>2, <2>1 DEF BC!Table, BC!ReadReleases, BC!ReadTakes
      <4>3. /\ buffer_states[b] = "WRITE_BUSY" <=> write_state = "WRITE_SELECT" /\ b = buffer_write_ptr
            /\ buffer_states[b] = "READ_BUSY" <=> read_state = "READ_SELECT" /\ b = buffer_read_ptr
        BY DEF TableInv, Marks
      <4> QED
        BY <2>1, <4>1, <4>2, <4>3 DEF BC!WriteSide, BC!WriteRelease, BC!WriteAdvance, BC!WriteCheck,
           BC!WriteHold, BC!WriteReleases, BC!WriteTakes
    <3> QED
      BY <2>q, <3>1, <3>2
  <2>4. WriteInv'
    <3>1. /\ Asking(uploading_state) => buffer_read_rdy = 0 /\ buffer_read_finalize = 0
          /\ buffer_write_rdy = 1 => Asking(uploading_state) /\ buffer_write_finalize = 0
          /\ buffer_write_finalize = 1 => uploading_state = "IDLE"
          /\ buffer_write_rdy \in 0 .. 1 /\ buffer_write_finalize \in 0 .. 1
      BY OneSideAsks DEF ControlTypeOK
    <3>2. uploading_state = "FIND_BUFFER" /\ buffer_id_valid = 1 => write_state = "WRITE_SELECT"
      BY OwnValid
    <3>3. write_state = "WRITE_SELECT" =>
            /\ buffer_write_ptr' = buffer_write_ptr
            /\ write_state' = IF buffer_write_finalize = 1 THEN "WRITE_IDLE" ELSE "WRITE_SELECT"
      BY <2>1 DEF BC!WriteSide, BC!WriteRelease, BC!WriteAdvance, BC!WriteCheck, BC!WriteHold,
         BC!WriteReleases
    <3>4. Asking(uploading_state) /\ write_state' = "WRITE_SELECT" => buffer_id' = buffer_write_ptr'
      BY <2>1, <3>1, <3>3 DEF BC!WriteSide, BC!WriteRelease, BC!WriteAdvance, BC!WriteCheck,
         BC!WriteHold, BC!WriteReleases, BC!WriteTakes, BC!ReadTakes, BC!Table, TableInv, WriteInv
    <3>5. /\ uploading_state' \in {"START_WAITE", "LOCK_BUFFER"} => write_state' = "WRITE_IDLE"
          /\ uploading_state' = "IDLE" =>
               write_state' = IF buffer_write_finalize' = 1 THEN "WRITE_SELECT" ELSE "WRITE_IDLE"
          /\ Holding(uploading_state') => write_state' = "WRITE_SELECT"
      BY <2>1, <2>2, <3>1, <3>2, <3>3 DEF Upload, Fsm, Bit, Holding, Asking, Processing, TableInv, WriteInv,
         ControlTypeOK
    <3>6. Asking(uploading_state') /\ write_state' = "WRITE_SELECT" => buffer_id' = buffer_write_ptr'
      BY <2>1, <2>2, <3>1, <3>4 DEF Upload, Fsm, Asking, TableInv, WriteInv, ControlTypeOK
    <3>7. Processing(uploading_state') => write_base' = buffer_write_ptr'
      BY <2>1, <3>3 DEF Upload, Fsm, Asking, Holding, Processing, TableInv, WriteInv
    <3> QED
      BY <3>5, <3>6, <3>7 DEF WriteInv
  <2>5. SearchInv'
    <3> DEFINE next == BC!get_next(buffer_write_prev_ptr)
    <3>1. /\ Asking(uploading_state) => rlow
          /\ buffer_write_rdy = 1 => Asking(uploading_state) /\ buffer_write_finalize = 0
          /\ buffer_write_finalize = 1 => uploading_state = "IDLE"
          /\ buffer_write_rdy \in 0 .. 1 /\ buffer_write_finalize \in 0 .. 1
      BY OneSideAsks DEF ControlTypeOK
    <3>2. uploading_state = "FIND_BUFFER" /\ write_state # "WRITE_SELECT" =>
            uploading_state' = "FIND_BUFFER"
      BY <2>1, OwnValid DEF Upload, Fsm, ControlTypeOK, BC!TypeOK
    <3>3. /\ next # buffer_write_prev_ptr /\ BC!get_next(next) # buffer_write_prev_ptr
          /\ BC!get_next(next) # next /\ next \in BC!Buffers /\ buffer_write_ptr \in BC!Buffers
      BY NextBuffer DEF ControlTypeOK, BC!TypeOK
    <3>4. CASE buffer_write_rdy = 1 /\ write_state = "WRITE_SELECT"
      <4>1. UNCHANGED <<write_state, buffer_write_ptr, buffer_write_prev_ptr>>
        BY <3>1, <3>4, <2>1 DEF BC!WriteSide, BC!WriteRelease, BC!WriteAdvance, BC!WriteCheck,
           BC!WriteHold, BC!WriteReleases
      <4> QED
        BY <4>1, <3>4 DEF TableInv, SearchInv
    <3>5. CASE buffer_write_rdy = 1 /\ write_state # "WRITE_SELECT"
      <4>1. uploading_state' = "FIND_BUFFER"
        BY <3>1, <3>2, <3>5 DEF Asking, Holding, TableInv, WriteInv
      <4>2. UNCHANGED <<read_state, buffer_read_ptr, buffer_write_prev_ptr>>
        BY <3>1, <3>5, <2>1, <2>2 DEF BC!WriteSide, BC!WriteRelease, BC!WriteAdvance,
           BC!WriteCheck, BC!WriteHold, BC!WriteReleases
      <4>3. CASE write_state = "WRITE_IDLE"
        <5>1. write_state' = "CHECK_STEP" /\ buffer_write_ptr' = BC!get_next(buffer_write_ptr)
          BY <3>1, <3>5, <4>3, <2>1 DEF BC!WriteSide, BC!WriteRelease, BC!WriteAdvance,
             BC!WriteCheck, BC!WriteHold, BC!WriteReleases
        <5> QED
          BY <4>1, <4>2, <4>3, <5>1 DEF TableInv, SearchInv, NextIsShown
      <4>4. CASE write_state = "CHECK_STEP"
        <5>1. /\ buffer_write_ptr' = buffer_write_ptr
              /\ write_state' = IF buffer_states[buffer_write_ptr] = "READ_BUSY"
                                  THEN "WRITE_IDLE" ELSE "WRITE_SELECT"
          BY <3>1, <3>5, <4>4, <2>1 DEF BC!WriteSide, BC!WriteRelease, BC!WriteAdvance,
             BC!WriteCheck, BC!WriteHold, BC!WriteReleases, BC!WriteTakes
        <5>2. buffer_states[buffer_write_ptr] = "READ_BUSY" =>
                read_state = "READ_SELECT" /\ buffer_write_ptr = buffer_read_ptr
          BY <3>3 DEF TableInv, Marks
        <5> QED
          BY <3>3, <4>1, <4>2, <4>4, <5>1, <5>2 DEF TableInv, SearchInv, NextIsShown
      <4> QED
        BY <3>5, <4>3, <4>4 DEF ControlTypeOK, BC!TypeOK, BC!WriteStates
    <3>6. CASE buffer_write_finalize = 1
      <4>1. write_state = "WRITE_SELECT"
        BY <3>1, <3>6 DEF TableInv, WriteInv
      <4>2. /\ write_state' = "WRITE_IDLE" /\ buffer_write_ptr' = buffer_write_ptr
            /\ buffer_write_prev_ptr' = buffer_write_ptr
        BY <3>6, <4>1, <2>1 DEF BC!WriteSide, BC!WriteRelease, BC!WriteAdvance, BC!WriteCheck,
           BC!WriteHold, BC!WriteReleases
      <4> QED
        BY <4>2 DEF SearchInv
    <3>7. CASE wlow
      <4>1. UNCHANGED <<write_state, buffer_write_ptr, buffer_write_prev_ptr>>
        BY <3>7, <2>2
      <4>2. uploading_state = "FIND_BUFFER" => UNCHANGED <<read_state, buffer_read_ptr>>
        BY <3>1, <2>2 DEF Asking
      <4> QED
        BY <3>2, <4>1, <4>2 DEF TableInv, SearchInv, NextIsShown
    <3> QED
      BY <3>1, <3>4, <3>5, <3>6, <3>7
  <2>6. ReadInv'
    <3>1. /\ Asking(downloading_state) => buffer_write_rdy = 0 /\ buffer_write_finalize = 0
          /\ buffer_read_rdy = 1 => Asking(downloading_state) /\ buffer_read_finalize = 0
          /\ buffer_read_finalize = 1 => downloading_state = "IDLE"
          /\ buffer_read_rdy \in 0 .. 1 /\ buffer_read_finalize \in 0 .. 1
      BY OneSideAsks DEF ControlTypeOK
    <3>2. downloading_state = "FIND_BUFFER" /\ buffer_id_valid = 1 => read_state = "READ_SELECT"
      BY OwnValid
    <3>3. read_state = "READ_SELECT" =>
            /\ buffer_read_ptr' = buffer_read_ptr
            /\ read_state' = IF buffer_read_finalize = 1 THEN "READ_IDLE" ELSE "READ_SELECT"
      BY <2>1 DEF BC!ReadSide, BC!ReadRelease, BC!ReadStart, BC!ReadCheck, BC!ReadAdvance,
         BC!ReadHold, BC!ReadReleases
    <3>4. Asking(downloading_state) /\ read_state' = "READ_SELECT" => buffer_id' = buffer_read_ptr'
      BY <2>1, <3>1, <3>3 DEF BC!ReadSide, BC!ReadRelease, BC!ReadStart, BC!ReadCheck,
         BC!ReadAdvance, BC!ReadHold, BC!ReadReleases, BC!ReadTakes, BC!WriteTakes, BC!Table,
         TableInv, ReadInv
    <3>5. /\ downloading_state' \in {"START_WAITE", "LOCK_BUFFER"} => read_state' = "READ_IDLE"
          /\ downloading_state' = "IDLE" =>
               read_state' = IF buffer_read_finalize' = 1 THEN "READ_SELECT" ELSE "READ_IDLE"
          /\ Holding(downloading_state') => read_state' = "READ_SELECT"
      BY <2>1, <2>2, <3>1, <3>2, <3>3 DEF Download, Fsm, Bit, Holding, Asking, Processing, TableInv,
         ReadInv, ControlTypeOK
    <3>6. Asking(downloading_state') /\ read_state' = "READ_SELECT" => buffer_id' = buffer_read_ptr'
      BY <2>1, <2>2, <3>1, <3>4 DEF Download, Fsm, Asking, TableInv, ReadInv, ControlTypeOK
    <3>7. Processing(downloading_state') => read_base' = buffer_read_ptr'
      BY <2>1, <3>3 DEF Download, Fsm, Asking, Holding, Processing, TableInv, ReadInv
    <3>8. /\ read_state' = "READ_CHECK_STEP" =>
               downloading_state' = "FIND_BUFFER" /\ buffer_read_ptr' = buffer_write_prev_ptr'
          /\ read_state' # "READ_NEXT"
      <4>1. read_state = "READ_CHECK_STEP" => buffer_states[buffer_read_ptr] # "WRITE_BUSY"
        BY DEF TableInv, ReadInv, SearchInv, Marks, ControlTypeOK, BC!TypeOK
      <4>2. CASE buffer_read_rdy = 1
        <5>1. /\ downloading_state = "FIND_BUFFER" \/ read_state = "READ_SELECT"
              /\ buffer_write_prev_ptr' = buffer_write_prev_ptr
          BY <4>2, <2>2, <3>1 DEF Asking, Holding, TableInv, ReadInv
        <5>2. downloading_state = "FIND_BUFFER" /\ read_state # "READ_SELECT" =>
                downloading_state' = "FIND_BUFFER"
          BY <2>1, <3>2, <5>1 DEF Download, Fsm, ControlTypeOK, BC!TypeOK
        <5> QED
          BY <4>1, <4>2, <5>1, <5>2, <2>1, <3>1 DEF BC!ReadSide, BC!ReadRelease, BC!ReadStart,
             BC!ReadCheck, BC!ReadAdvance, BC!ReadHold, BC!ReadReleases, BC!ReadTakes, TableInv,
             ReadInv, ReaderNeverSearches
      <4>3. CASE buffer_read_rdy = 0
        <5>1. read_state' = "READ_CHECK_STEP" => UNCHANGED <<read_state, buffer_read_ptr>>
          BY <4>3, <2>1 DEF BC!ReadSide, BC!ReadRelease, BC!ReadStart, BC!ReadCheck,
             BC!ReadAdvance, BC!ReadHold
        <5>2. read_state' # "READ_NEXT"
          BY <4>3, <2>1 DEF BC!ReadSide, BC!ReadRelease, BC!ReadStart, BC!ReadCheck,
             BC!ReadAdvance, BC!ReadHold, TableInv, ReadInv, ReaderNeverSearches
        <5>3. read_state = "READ_CHECK_STEP" =>
                downloading_state' = "FIND_BUFFER" /\ buffer_write_prev_ptr' = buffer_write_prev_ptr
          BY <2>1, <2>2, <3>1, <3>2 DEF Download, Fsm, Asking, TableInv, ReadInv
        <5> QED
          BY <5>1, <5>2, <5>3 DEF TableInv, ReadInv
      <4> QED
        BY <4>2, <4>3, <3>1
    <3> QED
      BY <3>5, <3>6, <3>7, <3>8 DEF ReadInv, ReaderNeverSearches
  <2>7. Answered'
    <3>1. CASE write_state = "WRITE_SELECT" /\ buffer_write_rdy = 1
      BY <3>1, <2>1, OneSideAsks DEF Answered, Upload, Fsm, Asking, BC!WriteSide, BC!WriteRelease,
         BC!WriteAdvance, BC!WriteCheck, BC!WriteHold, BC!WriteReleases
    <3>2. CASE read_state = "READ_SELECT" /\ buffer_read_rdy = 1
      BY <3>2, <2>1, OneSideAsks DEF Answered, Download, Fsm, Asking, BC!ReadSide, BC!ReadRelease,
         BC!ReadStart, BC!ReadCheck, BC!ReadAdvance, BC!ReadHold, BC!ReadReleases
    <3> QED
      BY <2>1, <3>1, <3>2 DEF BC!Answer, Answered
  <2> QED
    BY <2>3, <2>4, <2>5, <2>6, <2>7 DEF TableInv
<1> QED
  BY <1>1, <1>2

LEMMA ControlInvariant == ControlSpec => []ControlInv
<1>1. ControlInit => ControlInv
  BY TypeInit, LockInit, TableInit DEF ControlInv
<1>2. ControlInv /\ [ControlNext]_controlVars => ControlInv'
  BY TypeStep, LockStep, TableStep DEF ControlInv
<1> QED
  BY <1>1, <1>2, PTL DEF ControlSpec

-----------------------------------------------------------------------------
(***************************************************************************)
(* The buffer a side latches is the one the table gave to it.              *)
(***************************************************************************)
THEOREM AnswerIsOwn == ControlSpec => []OwnAnswer
<1>1. ControlInv => OwnAnswer
  BY DEF ControlInv, TableInv, WriteInv, ReadInv, OwnAnswer, Asking, Holding
<1> QED
  BY <1>1, ControlInvariant, PTL

(***************************************************************************)
(* The camera never writes into the buffer on the display.                 *)
(***************************************************************************)
THEOREM Untorn == ControlSpec => []NoTearing
<1>1. ControlInv => NoTearing
  BY DEF ControlInv, ControlTypeOK, BC!TypeOK, TableInv, WriteInv, ReadInv, Marks, NoTearing,
     Holding
<1> QED
  BY <1>1, ControlInvariant, PTL

(***************************************************************************)
(* Every buffer is busy exactly while a side holds it, and each side gives *)
(* a buffer back before it asks for the next one.                          *)
(***************************************************************************)
THEOREM Unleaked == ControlSpec => []NoLeak
<1>1. ControlInv => NoLeak
  BY DEF ControlInv, TableInv, WriteInv, ReadInv, Marks, NoLeak
<1> QED
  BY <1>1, ControlInvariant, PTL

(***************************************************************************)
(* The newest frame is never being written when the display asks for it.   *)
(***************************************************************************)
THEOREM NeverSearches == ControlSpec => []ReaderNeverSearches
<1>1. ControlInv => ReaderNeverSearches
  BY DEF ControlInv, TableInv, ReadInv
<1> QED
  BY <1>1, ControlInvariant, PTL

-----------------------------------------------------------------------------
(***************************************************************************)
(* Refinement: every clock edge is a step of the abstract ring, or none.   *)
(***************************************************************************)
LEMMA RingInit == ControlInit => Ring!Init
  BY DEF ControlInit, BC!Reset, Ring!Init

LEMMA RingStep == ControlInv /\ [ControlNext]_controlVars => [Ring!Next]_Ring!ringVars
<1> SUFFICES ASSUME ControlInv, [ControlNext]_controlVars PROVE [Ring!Next]_Ring!ringVars
  OBVIOUS
<1>1. CASE UNCHANGED controlVars
  BY <1>1 DEF controlVars, tableVars, Ring!ringVars
<1>2. CASE ControlNext
  <2> PICK uploading_finished \in BOOLEAN, downloading_finished \in BOOLEAN,
           init_done \in BOOLEAN, dataReq \in SUBSET DataLanes :
        ControlTick(uploading_finished, downloading_finished, dataReq, init_done)
    BY <1>2 DEF ControlNext
  <2>1. /\ BC!WriteSide(buffer_write_rdy, buffer_write_finalize)
        /\ BC!ReadSide(buffer_read_rdy, buffer_read_finalize)
    BY DEF ControlTick, BC!Clock
  <2> DEFINE wlow == buffer_write_rdy = 0 /\ buffer_write_finalize = 0
             rlow == buffer_read_rdy = 0 /\ buffer_read_finalize = 0
             W == IF write_state = "WRITE_SELECT" THEN buffer_write_ptr ELSE NUM_BUFFERS
             R == IF read_state = "READ_SELECT" THEN buffer_read_ptr ELSE NUM_BUFFERS
  <2>2. wlow \/ rlow
    BY OneSideAsks DEF ControlInv, ControlTypeOK
  <2>3. \A b \in BC!Buffers : b # NUM_BUFFERS
    BY NumBuffersAssumption DEF BC!Buffers
  <2>4. /\ buffer_write_ptr \in BC!Buffers /\ buffer_write_ptr' \in BC!Buffers
        /\ buffer_read_ptr \in BC!Buffers /\ buffer_read_ptr' \in BC!Buffers
    BY TypeStep DEF ControlInv, ControlTypeOK, BC!TypeOK
  <2>5. ControlInv'
    BY TypeStep, LockStep, TableStep DEF ControlInv
  <2>6. CASE wlow
    <3>1. UNCHANGED <<write_state, buffer_write_ptr, buffer_write_prev_ptr>>
      BY <2>1, <2>6 DEF BC!WriteSide, BC!WriteRelease, BC!WriteAdvance, BC!WriteCheck,
         BC!WriteHold, BC!WriteReleases
    <3>2. CASE read_state = "READ_SELECT" /\ read_state' # "READ_SELECT"
      BY <2>3, <2>4, <3>1, <3>2 DEF Ring!Next, Ring!EndRead
    <3>3. CASE read_state # "READ_SELECT" /\ read_state' = "READ_SELECT"
      <4>1. buffer_read_ptr' = buffer_write_prev_ptr
        BY <2>1, <3>3 DEF BC!ReadSide, BC!ReadRelease, BC!ReadStart, BC!ReadCheck, BC!ReadAdvance,
           BC!ReadHold, BC!ReadReleases, BC!ReadTakes, ControlInv, TableInv, ReadInv
      <4> QED
        BY <2>3, <2>4, <3>1, <3>3, <4>1 DEF Ring!Next, Ring!BeginRead
    <3>4. CASE read_state = "READ_SELECT" <=> read_state' = "READ_SELECT"
      <4>1. R' = R
        BY <2>1, <3>4 DEF BC!ReadSide, BC!ReadRelease, BC!ReadStart, BC!ReadCheck, BC!ReadAdvance,
           BC!ReadHold, BC!ReadReleases
      <4> QED
        BY <3>1, <4>1 DEF Ring!ringVars
    <3> QED
      BY <3>2, <3>3, <3>4
  <2>7. CASE rlow
    <3>1. UNCHANGED <<read_state, buffer_read_ptr>>
      BY <2>1, <2>7 DEF BC!ReadSide, BC!ReadRelease, BC!ReadStart, BC!ReadCheck, BC!ReadAdvance,
         BC!ReadHold, BC!ReadReleases
    <3>2. CASE write_state = "WRITE_SELECT" /\ write_state' # "WRITE_SELECT"
      <4>1. buffer_write_prev_ptr' = buffer_write_ptr
        BY <2>1, <3>2 DEF BC!WriteSide, BC!WriteRelease, BC!WriteAdvance, BC!WriteCheck,
           BC!WriteHold, BC!WriteReleases
      <4> QED
        BY <2>3, <2>4, <3>1, <3>2, <4>1 DEF Ring!Next, Ring!EndWrite
    <3>3. CASE write_state # "WRITE_SELECT" /\ write_state' = "WRITE_SELECT"
      <4>1. buffer_write_prev_ptr' = buffer_write_prev_ptr
        BY <2>1, <3>3 DEF BC!WriteSide, BC!WriteRelease, BC!WriteAdvance, BC!WriteCheck,
           BC!WriteHold, BC!WriteReleases
      <4>2. buffer_write_ptr' # buffer_write_prev_ptr'
        BY <2>5, <3>3 DEF ControlInv, TableInv, SearchInv
      <4>3. W' # R
        BY <2>3, <2>4, <2>5, <3>1, <3>3 DEF ControlInv, TableInv, Marks
      <4> QED
        BY <2>3, <2>4, <3>1, <3>3, <4>1, <4>2, <4>3 DEF Ring!Next, Ring!BeginWrite
    <3>4. CASE write_state = "WRITE_SELECT" <=> write_state' = "WRITE_SELECT"
      <4>1. W' = W /\ buffer_write_prev_ptr' = buffer_write_prev_ptr
        BY <2>1, <3>4 DEF BC!WriteSide, BC!WriteRelease, BC!WriteAdvance, BC!WriteCheck,
           BC!WriteHold, BC!WriteReleases
      <4> QED
        BY <3>1, <4>1 DEF Ring!ringVars
    <3> QED
      BY <3>2, <3>3, <3>4
  <2> QED
    BY <2>2, <2>6, <2>7
<1> QED
  BY <1>1, <1>2

(***************************************************************************)
(* The control plane implements the frame ring: for any number of buffers  *)
(* from three on, the camera gets neither the buffer on display nor the    *)
(* newest frame, and the display always gets the newest complete frame.    *)
(***************************************************************************)
THEOREM RingImplemented == ControlSpec => ImplementsRing
  BY ControlInvariant, RingInit, RingStep, PTL DEF ControlSpec, ImplementsRing, Ring!Spec

-----------------------------------------------------------------------------
\* The memory bus.

\* The tree of the arbiter points to the uploader, or to the row cache.
AtWriter == grant_state["data"] = 0 /\ grant_state["root"] = 1
AtReader == grant_state["data"] = 1 /\ grant_state["root"] = 1

\* The uploader works under a grant and asks for more of it.
HoldsBus ==
  \/ fu_state = "WRITE_MEMORY"
  \/ fu_state = "FRAME_PROCESSING_WRITE_CYC" /\ fu_write_rq = 1

Fetching == dc_fstate \in {"F_REQ", "F_WAIT", "F_DATA"}

BusInv ==
  /\ DATA_WRITER_IDX \in grant => AtWriter
  /\ DATA_READER_IDX \in grant => AtReader
  /\ fu_write_rq = 1 =>
       fu_state \in {"WRITE_MEMORY_WAIT", "WRITE_MEMORY", "FRAME_PROCESSING_WRITE_CYC"}
  /\ fu_state = "WRITE_MEMORY_WAIT" /\ DATA_WRITER_IDX \in grant => fu_write_rq = 1
  /\ HoldsBus => fu_write_rq = 1 /\ DATA_WRITER_IDX \in grant
  /\ fu_mem_wr_en = 1 <=>
       fu_state = "WRITE_MEMORY" /\ fu_write_cyc_counter = FU!CACHE_DELAY + 1
  /\ dc_read_rq = 1 <=> dc_fstate \in {"F_WAIT", "F_DATA"}
  /\ dc_fstate = "F_DATA" => DATA_READER_IDX \in grant
  /\ dc_mem_rd_en = 1 => dc_fstate = "F_DATA"

-----------------------------------------------------------------------------
\* Where the upload is.

RowBase(row) == row * BurstsPerRow

\* Two pixels in each word of a burst.
BurstPixels(n) == 2 * BURST_CYCLES * n

\* Bursts of the current row that are written.
RowBursts == fu_frame_addr[2] - RowBase(fu_row_counter)

PlaceInv ==
  /\ fu_state \in {"WAIT_FRAME_START_CMD", "CHECK_FRAME_START"} =>
       fu_row_counter = 0 /\ fu_frame_addr[2] = 0
  /\ fu_state \in {"WAIT_ROW_START", "CHECK_ROW_START", "FRAME_WRITE_ROW_START"} =>
       fu_row_counter < SourceRows /\ RowBursts = 0
  /\ fu_state = "CHECK_QUEUE" => RowBursts = 0
  /\ fu_state = "WRITE_MEMORY_WAIT" =>
       /\ fu_row_counter < SourceRows /\ RowBursts \in 0 .. BurstsPerRow - 1
       /\ fu_col_counter = BurstPixels(RowBursts)
  /\ fu_state = "WRITE_MEMORY" =>
       /\ fu_row_counter < SourceRows /\ RowBursts \in 0 .. BurstsPerRow - 1
       /\ fu_write_cyc_counter \in 0 .. BURST_CYCLES
       /\ fu_col_counter = BurstPixels(RowBursts) + 2 * fu_write_cyc_counter
  /\ fu_state = "FRAME_PROCESSING_WRITE_CYC" =>
       /\ fu_row_counter < SourceRows /\ RowBursts \in 1 .. BurstsPerRow
       /\ fu_col_counter = BurstPixels(RowBursts)
  /\ fu_state \in {"WAIT_FRAME_END", "CHECK_FRAME_END", "FRAME_PROCESSING_DONE"} =>
       fu_frame_addr[2] = FrameBursts

Uploading == fu_state # "FRAME_PROCESSING_START_WAIT"

\* What the history knows of a buffer whose next burst is n.
FilledUpTo(n) == IF n = 0 THEN FrameBursts ELSE n

\* Only the buffer being uploaded is incomplete, and it is filled up to the
\* burst the uploader is at.
FillInv ==
  /\ \A b \in BC!Buffers : filled[b] = FrameBursts \/ (Uploading /\ b = fu_frame_addr[1])
  /\ Uploading =>
       filled[fu_frame_addr[1]] =
         IF fu_state = "WRITE_MEMORY" /\ fu_write_cyc_counter > FU!CACHE_DELAY + 1
           THEN fu_frame_addr[2] + 1
           ELSE FilledUpTo(fu_frame_addr[2])
  /\ fu_mem_wr_en = 1 => fu_write_addr = fu_frame_addr

-----------------------------------------------------------------------------
\* Start and done pulses between the control plane and the two machines.

HandshakeInv ==
  /\ start_uploading = 1 <=> uploading_state = "START_PROCESS_FRAME"
  /\ uploading_state = "FRAME_DONE_WAIT" <=> Uploading \/ fu_upload_done = 1
  /\ fu_upload_done = 1 => ~Uploading
  /\ Uploading => fu_frame_addr[1] = write_base
  /\ start_downloading = 1 => fd_state = "S_START_WAIT" /\ fd_download_done = 0
  /\ downloading_state = "FRAME_DONE_WAIT" <=>
       start_downloading = 1 \/ fd_state # "S_START_WAIT" \/ fd_download_done = 1
  /\ fd_download_done = 1 => fd_state = "S_START_WAIT"

-----------------------------------------------------------------------------
\* The row cache and the downloader.

FullBanks == Full(0) + Full(1)

CacheInv ==
  /\ fd_cache_start = 1 => fd_state = "S_FRAME_START"
  /\ fd_row_release = 1 <=> fd_state = "S_ROW_GAP"
  /\ fd_state = "S_FRAME_START" => fd_row_counter = 0
  /\ Draining => fd_row_counter < OutputRows
  /\ fd_state \in {"S_FRAME_END", "S_DONE"} => fd_row_counter = OutputRows
  /\ Draining \/ fd_state = "S_ROW_GAP" => Full(dc_front_bank) = 1
  /\ Fetching => dc_active = 1 /\ dc_rows_fetched < OutputRows /\ Full(dc_fill_bank) = 0
  /\ dc_fstate = "F_DONE" => dc_active = 0
  /\ dc_active = 1 /\ dc_rows_fetched = OutputRows => FullBanks >= 1
  /\ fd_cache_start = 0 => dc_rows_fetched + fd_row_release = FullBanks + fd_row_counter
  /\ fd_state \in {"S_START_WAIT", "S_FRAME_END", "S_DONE"} \/ fd_cache_start = 1 =>
       dc_active = 0
  /\ dc_active = 1 => dc_cur_addr[1] = read_base
  /\ dc_cur_addr[3] = IF Fetching THEN dc_burst_in_row ELSE 0

\* The scaler has not lost a fraction of a row.
ScalerInv ==
  /\ dc_cur_addr[2] \in Nat
  /\ OutputRows * dc_cur_addr[2] + dc_resid = dc_rows_fetched * SourceRows + DC!ScalerInit

-----------------------------------------------------------------------------
\* The age of the last memory command, on the way to the next one.

BurstEnd == RD_LATENCY + BURST_CYCLES

WriteSpacing ==
  /\ fu_state = "WRITE_MEMORY" =>
       IF fu_write_cyc_counter <= FU!CACHE_DELAY + 1
         THEN mem_age >= TCMD + fu_write_cyc_counter - (FU!CACHE_DELAY + 1)
         ELSE mem_age >= fu_write_cyc_counter - (FU!CACHE_DELAY + 1)
  /\ fu_state = "FRAME_PROCESSING_WRITE_CYC" /\ fu_write_rq = 1 =>
       mem_age >= fu_write_cyc_counter - FU!CACHE_DELAY

ReadSpacing ==
  /\ mem_read = 1 /\ mem_age < BurstEnd => dc_fstate = "F_DATA" /\ dc_mem_rd_en = 0
  /\ dc_fstate = "F_DATA" =>
       IF dc_mem_rd_en = 1
         THEN dc_read_counter = 0 /\ mem_age >= TCMD
         ELSE /\ mem_read = 1 /\ mem_age <= BurstEnd
              /\ dc_read_counter = IF mem_age <= RD_LATENCY THEN 0 ELSE mem_age - RD_LATENCY

BetweenCommands ==
  ~HoldsBus /\ dc_fstate # "F_DATA" =>
    /\ mem_age >= TCMD - 4
    /\ dc_fstate = "F_WAIT" => mem_age >= TCMD - 3
    /\ dc_fstate = "F_WAIT" /\ AtReader => mem_age >= TCMD - 2
    /\ dc_fstate = "F_WAIT" /\ DATA_READER_IDX \in grant => mem_age >= TCMD - 1

SpacingInv == WriteSpacing /\ ReadSpacing /\ BetweenCommands

\* The inductive invariant.
FrameBufferInv ==
  /\ ControlInv /\ TypeOK /\ BusInv /\ PlaceInv /\ FillInv /\ HandshakeInv /\ CacheInv
  /\ ScalerInv /\ SpacingInv

-----------------------------------------------------------------------------
\* The parameters.

LEMMA Parameters ==
  /\ SourceRows \in Nat \ {0} /\ OutputRows \in Nat \ {0} /\ BurstsPerRow \in Nat \ {0}
  /\ BURST_CYCLES \in Nat /\ TCMD \in Nat \ {0} /\ RD_LATENCY \in Nat \ {0}
  /\ BURST_CYCLES >= FU!CACHE_DELAY + 2 /\ FU!CACHE_DELAY = 2
  /\ TCMD >= BURST_CYCLES
  /\ OutputRows <= SourceRows /\ SourceRows < 2 * OutputRows
  /\ BurstEnd + 5 >= TCMD /\ BurstEnd \in Nat
  /\ MaxAge \in Nat /\ MaxAge >= TCMD /\ MaxAge >= BurstEnd
  BY ParameterAssumption DEF ParameterAssumption, FU!CACHE_DELAY, MaxAge, BurstEnd

LEMMA ProductMonotone ==
  ASSUME NEW i \in Nat, NEW j \in Nat, NEW k \in Nat, i <= j
  PROVE  i * k <= j * k /\ k * i <= k * j
<1>1. j * k = i * k + (j - i) * k /\ (j - i) * k \in Nat
  OBVIOUS
<1>2. k * i = i * k /\ k * j = j * k /\ i * k \in Nat /\ j * k \in Nat
  OBVIOUS
<1> QED
  BY <1>1, <1>2

LEMMA FrameBurstsType == FrameBursts \in Nat \ {0}
<1>1. 1 * BurstsPerRow <= SourceRows * BurstsPerRow
  BY Parameters, ProductMonotone
<1> QED
  BY <1>1, Parameters DEF FrameBursts

\* The first bursts of the rows.
LEMMA RowBases ==
  /\ RowBase(0) = 0
  /\ RowBase(SourceRows) = FrameBursts
  /\ \A row \in Nat :
       /\ RowBase(row) \in Nat
       /\ RowBase(row + 1) = RowBase(row) + BurstsPerRow
       /\ row < SourceRows => RowBase(row) + BurstsPerRow <= FrameBursts
<1>1. RowBase(0) = 0 /\ RowBase(SourceRows) = FrameBursts
  BY Parameters DEF RowBase, FrameBursts
<1>2. ASSUME NEW row \in Nat
      PROVE  RowBase(row) \in Nat /\ RowBase(row + 1) = RowBase(row) + BurstsPerRow
  BY Parameters DEF RowBase
<1>3. ASSUME NEW row \in Nat, row < SourceRows
      PROVE  RowBase(row + 1) <= RowBase(SourceRows)
  BY <1>3, Parameters, ProductMonotone DEF RowBase
<1> QED
  BY <1>1, <1>2, <1>3

\* The pixels of n bursts: a row is full after BurstsPerRow of them, not before.
LEMMA BurstPixelsFacts ==
  /\ BurstPixels(0) = 0
  /\ RowPixels = BurstPixels(BurstsPerRow)
  /\ \A n \in Nat :
       /\ BurstPixels(n) \in Nat
       /\ BurstPixels(n + 1) = BurstPixels(n) + 2 * BURST_CYCLES
       /\ n < BurstsPerRow => BurstPixels(n) + 2 * BURST_CYCLES <= RowPixels
<1>1. BurstPixels(0) = 0 /\ RowPixels = BurstPixels(BurstsPerRow)
  BY Parameters DEF BurstPixels, RowPixels
<1>2. ASSUME NEW n \in Nat
      PROVE  BurstPixels(n) \in Nat /\ BurstPixels(n + 1) = BurstPixels(n) + 2 * BURST_CYCLES
  BY Parameters DEF BurstPixels
<1>3. ASSUME NEW n \in Nat, n < BurstsPerRow
      PROVE  BurstPixels(n + 1) <= BurstPixels(BurstsPerRow)
  BY <1>3, Parameters, ProductMonotone DEF BurstPixels
<1> QED
  BY <1>1, <1>2, <1>3

-----------------------------------------------------------------------------
\* A step, taken apart.

UploaderTick == FU!Tick(start_uploading = 1, write_base, link, DATA_WRITER_IDX \in grant)

CacheTick ==
  DC!Tick(fd_cache_start = 1, read_base, DATA_READER_IDX \in grant, rd_data_valid,
          fd_row_release = 1)

ControlPart == ControlTick(fu_upload_done = 1, fd_download_done = 1, DataRequests, TRUE)

LEMMA StepParts ==
  ASSUME Next
  PROVE  /\ ControlPart /\ UploaderTick /\ CacheTick /\ Memory
         /\ \E queue_full \in BOOLEAN : Drain(queue_full)
         /\ \E offer \in BOOLEAN : CommandLink(offer)
  BY DEF Next, UploadAndFetch, ControlPart, UploaderTick, CacheTick

LEMMA ControlStep == [Next]_vars => [ControlNext]_controlVars
<1>1. DataRequests \in SUBSET DataLanes
  BY DEF DataRequests, DataLanes
<1>2. Next => ControlNext
  BY <1>1, StepParts DEF ControlPart, ControlNext
<1> QED
  BY <1>2 DEF vars

\* What the arbiter does for the two data lanes, whatever the lock lanes ask.
LEMMA DataLanesFacts ==
  ASSUME ControlTypeOK, ControlPart
  PROVE  /\ DATA_WRITER_IDX \in grant' => fu_write_rq = 1 /\ AtWriter
         /\ DATA_READER_IDX \in grant' => dc_read_rq = 1 /\ AtReader
         /\ fu_write_rq = 1 /\ AtWriter => AtWriter' /\ DATA_WRITER_IDX \in grant'
         /\ dc_read_rq = 1 /\ AtReader => AtReader' /\ DATA_READER_IDX \in grant'
         /\ dc_read_rq # 1 => ~AtReader'
<1> DEFINE req == shared_req(DataRequests)
<1>1. /\ 2 \in req <=> fu_write_rq = 1
      /\ 3 \in req <=> dc_read_rq = 1
  BY DEF shared_req, DataRequests, FRAME_UPLOADER_IDX, FRAME_DOWNLOADER_IDX, DATA_WRITER_IDX,
         DATA_READER_IDX
<1>2. grant_state \in [ARB!Nodes -> 0 .. 1]
  BY DEF ControlTypeOK, ARB!TypeOK
<1>3. /\ ARB!LeafValid("data", req) <=> (2 \in req /\ grant_state["data"] = 0) \/ 3 \in req
      /\ "data" \in ARB!Nodes /\ "root" \in ARB!Nodes /\ "data" # "root"
  BY DEF ARB!LeafValid, ARB!NodeValid, ARB!LaneAt, ARB!Nodes, ARB!Leaves
<1>4. ARB!Clock(req)
  BY DEF ControlPart, ControlTick
<1>5. /\ grant_state'["root"] =
           ARB!NextState("root", ARB!LeafValid("buffer", req), ARB!LeafValid("data", req))
      /\ grant_state'["data"] = ARB!NextState("data", 2 \in req, 3 \in req)
  BY <1>3, <1>4 DEF ARB!Clock, ARB!LaneAt
<1>6. /\ 2 \in grant' <=> ARB!Granted(2, req)
      /\ 3 \in grant' <=> ARB!Granted(3, req)
  BY <1>4 DEF ARB!Clock, ARB!Lanes
<1>7. /\ ARB!Granted(2, req) <=> 2 \in req /\ AtWriter
      /\ ARB!Granted(3, req) <=> 3 \in req /\ AtReader
  BY <1>3 DEF ARB!Granted, ARB!LeafOf, ARB!InputOf, ARB!SideOf, AtWriter, AtReader
<1>8. /\ 2 \in req /\ AtWriter => AtWriter'
      /\ 3 \in req /\ AtReader => AtReader'
      /\ 3 \notin req => ~AtReader'
  BY <1>3, <1>5 DEF ARB!NextState, AtWriter, AtReader
<1> QED
  BY <1>1, <1>6, <1>7, <1>8 DEF DATA_WRITER_IDX, DATA_READER_IDX

-----------------------------------------------------------------------------
\* The memory bus.

LEMMA BusInit == Init => BusInv
  BY DEF Init, ControlInit, ARB!Reset, FU!Reset, DC!Reset, BusInv, HoldsBus

LEMMA BusStep == ControlTypeOK /\ TypeOK /\ BusInv /\ [Next]_vars => BusInv'
<1> SUFFICES ASSUME ControlTypeOK, TypeOK, BusInv, [Next]_vars PROVE BusInv'
  OBVIOUS
<1>1. CASE UNCHANGED vars
  BY <1>1 DEF vars, controlVars, fuVars, dcVars, BusInv, HoldsBus, AtWriter, AtReader
<1>2. CASE Next
  <2> DEFINE wgrant == DATA_WRITER_IDX \in grant
             rgrant == DATA_READER_IDX \in grant
  <2>1. /\ wgrant' => fu_write_rq = 1 /\ AtWriter
        /\ rgrant' => dc_read_rq = 1 /\ AtReader
        /\ fu_write_rq = 1 /\ AtWriter => AtWriter' /\ wgrant'
        /\ dc_read_rq = 1 /\ AtReader => AtReader' /\ rgrant'
    BY <1>2, StepParts, DataLanesFacts
  <2>2. /\ wgrant => AtWriter
        /\ rgrant => AtReader
    BY DEF BusInv
  <2>3. wgrant' => AtWriter'
    BY <2>1
  <2>4. rgrant' => AtReader'
    BY <2>1
  <2>5. UploaderTick /\ CacheTick
    BY <1>2, StepParts
  <2>6. /\ fu_write_rq' = 1 =>
             fu_state' \in {"WRITE_MEMORY_WAIT", "WRITE_MEMORY", "FRAME_PROCESSING_WRITE_CYC"}
        /\ fu_state' = "WRITE_MEMORY_WAIT" /\ wgrant' => fu_write_rq' = 1
        /\ HoldsBus' => fu_write_rq' = 1 /\ wgrant'
        /\ fu_mem_wr_en' = 1 <=>
             fu_state' = "WRITE_MEMORY" /\ fu_write_cyc_counter' = FU!CACHE_DELAY + 1
    <3>1. fu_write_cyc_counter \in Nat
      BY Parameters DEF TypeOK, FU!TypeOK
    <3> QED
      BY <2>1, <2>2, <2>5, <3>1, Parameters
      DEF UploaderTick, FU!Tick, FU!StartWait, FU!TakeCommands, FU!WaitCommand, FU!CheckCommand,
          FU!CheckQueue, FU!WriteRow, FU!RowBegin, FU!WriteMemoryWait, FU!WriteMemoryWord,
          FU!WriteMemoryEnd, FU!WriteCycle, FU!WriteCycleEnd, FU!Done, FU!commandVars,
          FU!memoryVars, FU!fsmVars, FU!placeVars, BusInv, HoldsBus
  <2>7. /\ dc_read_rq' = 1 <=> dc_fstate' \in {"F_WAIT", "F_DATA"}
        /\ dc_fstate' = "F_DATA" => rgrant'
        /\ dc_mem_rd_en' = 1 => dc_fstate' = "F_DATA"
    BY <2>1, <2>2, <2>5
    DEF CacheTick, DC!Tick, DC!Start, DC!Fetch, DC!FetchIdle, DC!FetchRequest, DC!FetchWait,
        DC!FetchWord, DC!FetchNextBurst, DC!FetchRowDone, DC!Publishes, DC!FetchDone, BusInv
  <2> QED
    BY <2>3, <2>4, <2>6, <2>7 DEF BusInv
<1> QED
  BY <1>1, <1>2

-----------------------------------------------------------------------------
\* Where the upload is.

LEMMA PlaceInit == Init => PlaceInv
  BY DEF Init, FU!Reset, PlaceInv

LEMMA PlaceStep == TypeOK /\ PlaceInv /\ [Next]_vars => PlaceInv'
<1> SUFFICES ASSUME TypeOK, PlaceInv, [Next]_vars PROVE PlaceInv'
  OBVIOUS
<1>1. CASE UNCHANGED vars
  BY <1>1 DEF vars, fuVars, PlaceInv, RowBursts
<1>2. CASE Next
  <2>1. UploaderTick
    BY <1>2, StepParts
  <2>2. /\ fu_row_counter \in 0 .. SourceRows /\ fu_col_counter \in Nat
        /\ fu_frame_addr[2] \in Nat /\ fu_write_cyc_counter \in Nat
        /\ fu_row_counter \in Nat /\ RowBase(fu_row_counter) \in Nat
        /\ RowBursts \in Int
        /\ RowBase(fu_row_counter + 1) = RowBase(fu_row_counter) + BurstsPerRow
    BY Parameters, RowBases, FrameBurstsType DEF TypeOK, FU!TypeOK, RowBursts, FU!CACHE_DELAY
  <2>3. /\ RowBase(0) = 0 /\ RowBase(SourceRows) = FrameBursts
        /\ BurstPixels(0) = 0
        /\ RowBursts \in Nat => BurstPixels(RowBursts) \in Nat
        /\ RowBursts \in Nat /\ RowBursts < BurstsPerRow =>
             /\ BurstPixels(RowBursts + 1) = BurstPixels(RowBursts) + 2 * BURST_CYCLES
             /\ BurstPixels(RowBursts) + 2 * BURST_CYCLES <= RowPixels
        /\ RowPixels = BurstPixels(BurstsPerRow)
    BY RowBases, BurstPixelsFacts
  <2> USE Parameters DEF PlaceInv
  <2>4. CASE FU!StartWait(start_uploading = 1, write_base)
    BY <2>4 DEF FU!StartWait
  <2>5. CASE FU!TakeCommands(link)
    <3>1. UNCHANGED <<fu_row_counter, fu_col_counter, fu_frame_addr>>
      BY <2>5 DEF FU!TakeCommands, FU!WaitCommand, FU!CheckCommand, FU!placeVars
    <3>2. \/ fu_state \in {"WAIT_FRAME_START_CMD", "CHECK_FRAME_START"} /\
               fu_state' \in {"WAIT_FRAME_START_CMD", "CHECK_FRAME_START", "WAIT_ROW_START"}
          \/ fu_state \in {"WAIT_ROW_START", "CHECK_ROW_START"} /\
               fu_state' \in {"WAIT_ROW_START", "CHECK_ROW_START", "FRAME_WRITE_ROW_START"}
          \/ fu_state \in {"WAIT_FRAME_END", "CHECK_FRAME_END"} /\
               fu_state' \in {"WAIT_FRAME_END", "CHECK_FRAME_END", "FRAME_PROCESSING_DONE"}
      BY <2>5 DEF FU!TakeCommands, FU!WaitCommand, FU!CheckCommand
    <3>3. RowBursts' = RowBursts
      BY <3>1 DEF RowBursts
    <3>4. fu_row_counter = 0 /\ fu_frame_addr[2] = 0 => fu_row_counter < SourceRows /\ RowBursts = 0
      BY <2>3 DEF RowBursts
    <3>5. QED
      BY <3>1, <3>2, <3>3, <3>4
  <2>6. CASE FU!CheckQueue
    BY <2>2, <2>3, <2>6 DEF FU!CheckQueue, FU!placeVars, RowBursts
  <2>7. CASE FU!RowBegin
    BY <2>2, <2>3, <2>7 DEF FU!RowBegin, RowBursts
  <2>8. CASE FU!WriteMemoryWait(DATA_WRITER_IDX \in grant)
    BY <2>2, <2>3, <2>8 DEF FU!WriteMemoryWait, FU!placeVars, RowBursts
  <2>9. CASE FU!WriteMemoryWord
    BY <2>2, <2>3, <2>9 DEF FU!WriteMemoryWord, FU!fsmVars, RowBursts
  <2>10. CASE FU!WriteMemoryEnd
    BY <2>2, <2>3, <2>10 DEF FU!WriteMemoryEnd, RowBursts
  <2>11. CASE FU!WriteCycle
    BY <2>2, <2>3, <2>11 DEF FU!WriteCycle, FU!fsmVars, FU!placeVars, RowBursts
  <2>12. CASE FU!WriteCycleEnd(DATA_WRITER_IDX \in grant)
    BY <2>2, <2>3, <2>12 DEF FU!WriteCycleEnd, RowBursts
  <2>13. CASE FU!Done
    BY <2>13 DEF FU!Done
  <2> QED
    BY <2>1, <2>4, <2>5, <2>6, <2>7, <2>8, <2>9, <2>10, <2>11, <2>12, <2>13
    DEF UploaderTick, FU!Tick, FU!WriteRow
<1> QED
  BY <1>1, <1>2

\* A burst in progress lies inside the frame.
LEMMA BurstInFrame ==
  ASSUME TypeOK, PlaceInv
  PROVE  /\ fu_state = "WRITE_MEMORY" => fu_frame_addr[2] \in 0 .. FrameBursts - 1
         /\ fu_state = "FRAME_PROCESSING_WRITE_CYC" => fu_frame_addr[2] > 0
<1>1. /\ fu_row_counter \in Nat /\ fu_row_counter \in 0 .. SourceRows
      /\ fu_frame_addr[2] \in Nat
  BY Parameters, FrameBurstsType DEF TypeOK, FU!TypeOK
<1>2. /\ RowBase(fu_row_counter) \in Nat
      /\ fu_row_counter < SourceRows => RowBase(fu_row_counter) + BurstsPerRow <= FrameBursts
  BY <1>1, RowBases
<1> QED
  BY <1>1, <1>2, Parameters, FrameBurstsType DEF PlaceInv, RowBursts

LEMMA FillInit == Init => FillInv
  BY DEF Init, FU!Reset, FillInv, Uploading

LEMMA FillStep ==
  TypeOK /\ BusInv /\ PlaceInv /\ FillInv /\ [Next]_vars => FillInv'
<1> SUFFICES ASSUME TypeOK, BusInv, PlaceInv, FillInv, [Next]_vars PROVE FillInv'
  OBVIOUS
<1>1. CASE UNCHANGED vars
  BY <1>1 DEF vars, fuVars, envVars, FillInv, Uploading
<1>2. CASE Next
  <2>1. UploaderTick /\ Memory
    BY <1>2, StepParts
  <2>2. /\ fu_frame_addr[1] \in BC!Buffers /\ fu_frame_addr[2] \in Nat
        /\ fu_write_cyc_counter \in Nat /\ write_base \in BC!Buffers
        /\ fu_mem_wr_en \in 0 .. 1
    BY Parameters, FrameBurstsType DEF TypeOK, FU!TypeOK, FU!CACHE_DELAY, ControlTypeOK
  <2>3. \A b \in BC!Buffers :
          filled'[b] = IF fu_mem_wr_en = 1 /\ b = fu_frame_addr[1] THEN fu_frame_addr[2] + 1
                       ELSE filled[b]
    BY <2>1 DEF Memory, FillInv
  <2>4. fu_mem_wr_en = 1 <=>
          fu_state = "WRITE_MEMORY" /\ fu_write_cyc_counter = FU!CACHE_DELAY + 1
    BY DEF BusInv
  <2> USE Parameters, FrameBurstsType DEF FillInv, Uploading, FilledUpTo
  <2>5. CASE FU!StartWait(start_uploading = 1, write_base)
    BY <2>2, <2>3, <2>4, <2>5 DEF FU!StartWait, FU!memoryVars
  <2>6. CASE FU!TakeCommands(link)
    BY <2>2, <2>3, <2>4, <2>6
    DEF FU!TakeCommands, FU!WaitCommand, FU!CheckCommand, FU!placeVars, FU!memoryVars
  <2>7. CASE FU!CheckQueue
    BY <2>2, <2>3, <2>4, <2>7 DEF FU!CheckQueue, FU!placeVars, FU!memoryVars
  <2>8. CASE FU!RowBegin
    BY <2>2, <2>3, <2>4, <2>8 DEF FU!RowBegin
  <2>9. CASE FU!WriteMemoryWait(DATA_WRITER_IDX \in grant)
    BY <2>2, <2>3, <2>4, <2>9 DEF FU!WriteMemoryWait, FU!placeVars
  <2>10. CASE FU!WriteMemoryWord
    BY <2>2, <2>3, <2>4, <2>10 DEF FU!WriteMemoryWord, FU!fsmVars
  <2>11. CASE FU!WriteMemoryEnd
    BY <2>2, <2>3, <2>4, <2>11 DEF FU!WriteMemoryEnd, FU!memoryVars
  <2>12. CASE FU!WriteCycle
    BY <2>2, <2>3, <2>4, <2>12 DEF FU!WriteCycle, FU!fsmVars, FU!placeVars
  <2>13. CASE FU!WriteCycleEnd(DATA_WRITER_IDX \in grant)
    BY <2>2, <2>3, <2>4, <2>13 DEF FU!WriteCycleEnd
  <2>14. CASE FU!Done
    BY <2>2, <2>3, <2>4, <2>14 DEF FU!Done, FU!placeVars, FU!memoryVars, PlaceInv
  <2> QED
    BY <2>1, <2>5, <2>6, <2>7, <2>8, <2>9, <2>10, <2>11, <2>12, <2>13, <2>14
    DEF UploaderTick, FU!Tick, FU!WriteRow
<1> QED
  BY <1>1, <1>2

-----------------------------------------------------------------------------
\* Start and done pulses.

LEMMA HandshakeInit == Init => HandshakeInv
  BY DEF Init, ControlInit, FU!Reset, FD!Reset, HandshakeInv, Uploading

LEMMA HandshakeStep == TypeOK /\ HandshakeInv /\ [Next]_vars => HandshakeInv'
<1> SUFFICES ASSUME TypeOK, HandshakeInv, [Next]_vars PROVE HandshakeInv'
  OBVIOUS
<1>1. CASE UNCHANGED vars
  BY <1>1 DEF vars, controlVars, uploadVars, downloadVars, fuVars, fdVars, HandshakeInv, Uploading
<1>2. CASE Next
  <2>1. /\ ControlPart /\ UploaderTick
        /\ \E queue_full \in BOOLEAN : Drain(queue_full)
    BY <1>2, StepParts
  <2>2. /\ Upload(fu_upload_done = 1)
        /\ Download(fd_download_done = 1)
    BY <2>1 DEF ControlPart, ControlTick
  <2>3. /\ uploading_state \in FsmStates /\ downloading_state \in FsmStates
        /\ fu_state \in FU!States /\ fd_download_done \in 0 .. 1
    BY DEF TypeOK, ControlTypeOK, FU!TypeOK, FD!TypeOK
  <2>4. /\ start_uploading' = 1 <=> uploading_state' = "START_PROCESS_FRAME"
        /\ uploading_state' = "FRAME_DONE_WAIT" <=>
             \/ uploading_state = "START_PROCESS_FRAME"
             \/ uploading_state = "FRAME_DONE_WAIT" /\ fu_upload_done # 1
        /\ uploading_state # "SELECT_BUFFER" => write_base' = write_base
    BY <2>2, <2>3 DEF Upload, Fsm, Bit, FsmStates
  <2>5. /\ start_downloading' = 1 <=> downloading_state = "START_PROCESS_FRAME"
        /\ downloading_state' = "FRAME_DONE_WAIT" <=>
             \/ downloading_state = "START_PROCESS_FRAME"
             \/ downloading_state = "FRAME_DONE_WAIT" /\ fd_download_done # 1
    BY <2>2, <2>3 DEF Download, Fsm, Bit, FsmStates
  <2>6. /\ Uploading' <=>
             \/ Uploading /\ fu_state # "FRAME_PROCESSING_DONE"
             \/ ~Uploading /\ start_uploading = 1
        /\ fu_upload_done' = 1 <=>
             \/ fu_state = "FRAME_PROCESSING_DONE"
             \/ Uploading /\ fu_upload_done = 1
        /\ fu_frame_addr'[1] = IF ~Uploading /\ start_uploading = 1 THEN write_base
                               ELSE fu_frame_addr[1]
    BY <2>1, <2>3
    DEF UploaderTick, FU!Tick, FU!StartWait, FU!TakeCommands, FU!WaitCommand, FU!CheckCommand,
        FU!CheckQueue, FU!WriteRow, FU!RowBegin, FU!WriteMemoryWait, FU!WriteMemoryWord,
        FU!WriteMemoryEnd, FU!WriteCycle, FU!WriteCycleEnd, FU!Done, FU!fsmVars, FU!placeVars,
        FU!States, Uploading
  <2>7. /\ fd_state' # "S_START_WAIT" <=>
             \/ fd_state \notin {"S_START_WAIT", "S_DONE"}
             \/ fd_state = "S_START_WAIT" /\ start_downloading = 1
        /\ fd_download_done' = 1 <=>
             \/ fd_state = "S_DONE"
             \/ fd_state # "S_START_WAIT" /\ fd_download_done = 1
        /\ fd_download_done' \in 0 .. 1
    BY <2>1, <2>3
    DEF Drain, FD!Tick, FD!StartWait, FD!Stall, FD!FrameToken, FD!RowWait, FD!RowToken,
        FD!PushPixel, FD!RowEnd, FD!Pass, FD!Done, FD!sequencerVars
  <2> QED
    BY <2>4, <2>5, <2>6, <2>7 DEF HandshakeInv, Uploading
<1> QED
  BY <1>1, <1>2

-----------------------------------------------------------------------------
\* The row cache and the downloader.

\* What a step of the downloader does to what the cache depends on.
LEMMA DownloaderStep ==
  ASSUME TypeOK, NEW queue_full \in BOOLEAN, Drain(queue_full)
  PROVE  /\ fd_cache_start' = 1 <=> fd_state = "S_START_WAIT" /\ start_downloading = 1
         /\ fd_row_release' = 1 <=> fd_state = "S_ROW_END"
         /\ fd_cache_start' \in 0 .. 1 /\ fd_row_release' \in 0 .. 1
         /\ fd_row_counter' =
              IF fd_state = "S_START_WAIT" /\ start_downloading = 1 THEN 0
              ELSE IF fd_state = "S_ROW_END" THEN fd_row_counter + 1
              ELSE fd_row_counter
         /\ fd_cache_start' = 1 => fd_state' = "S_FRAME_START"
         /\ fd_state' = "S_ROW_GAP" <=> fd_state = "S_ROW_END"
         /\ fd_state' = "S_START_WAIT" => fd_state = "S_DONE" \/ UNCHANGED fd_state
         /\ fd_state' = "S_FRAME_START" => fd_cache_start' = 1 \/ UNCHANGED fd_state
         /\ fd_state' \in {"S_FRAME_END", "S_DONE"} =>
              \/ fd_state = "S_ROW_WAIT" /\ fd_row_counter = OutputRows
              \/ fd_state \in {"S_FRAME_END", "S_DONE"}
         /\ Draining' =>
              \/ fd_state = "S_ROW_WAIT" /\ fd_row_counter # OutputRows /\ DC!row_avail
              \/ Draining /\ fd_state # "S_ROW_END"
  BY DEF Drain, FD!Tick, FD!StartWait, FD!Stall, FD!FrameToken, FD!RowWait, FD!RowToken,
         FD!PushPixel, FD!RowEnd, FD!Pass, FD!Done, FD!sequencerVars, FD!NoPulse, Draining,
         TypeOK, FD!TypeOK

\* What a step of the cache does to the banks.
LEMMA BankStep ==
  ASSUME TypeOK, CacheInv, CacheTick, fd_cache_start = 0
  PROVE  /\ FullBanks \in 0 .. 2 /\ FullBanks' \in 0 .. 2
         /\ FullBanks' = FullBanks + Bit(DC!Publishes) - fd_row_release
         /\ dc_rows_fetched' = dc_rows_fetched + Bit(DC!Publishes)
         /\ Full(dc_front_bank) = 1 /\ fd_row_release = 0 => Full(dc_front_bank)' = 1
         /\ DC!Publishes => FullBanks' >= 1
         /\ Fetching' =>
              \/ Fetching /\ ~DC!Publishes
              \/ dc_active = 1 /\ dc_rows_fetched # OutputRows /\ ~Fetching
         /\ Fetching' => Full(dc_fill_bank)' = 0
<1>1. /\ DC!SwapBanks(fd_row_release = 1)
      /\ DC!Fetch(DATA_READER_IDX \in grant, rd_data_valid)
  BY DEF CacheTick, DC!Tick
<1>2. /\ dc_bank_full \in [0 .. 1 -> 0 .. 1] /\ dc_bank_full' \in [0 .. 1 -> 0 .. 1]
      /\ dc_fill_bank \in 0 .. 1 /\ dc_front_bank \in 0 .. 1
      /\ fd_row_release \in 0 .. 1
      /\ dc_rows_fetched \in Nat
  BY <1>1, Parameters DEF TypeOK, DC!TypeOK, DC!Banks, FD!TypeOK, DC!SwapBanks
<1>3. \A k \in 0 .. 1 :
        dc_bank_full'[k] = IF DC!Publishes /\ k = dc_fill_bank THEN 1
                           ELSE IF fd_row_release = 1 /\ k = dc_front_bank THEN 0
                           ELSE dc_bank_full[k]
  BY <1>1 DEF DC!SwapBanks, DC!Banks
<1>4. /\ DC!Publishes => Full(dc_fill_bank) = 0
      /\ fd_row_release = 1 => Full(dc_front_bank) = 1
  BY DEF CacheInv, Fetching, DC!Publishes
<1>5. /\ FullBanks \in 0 .. 2 /\ FullBanks' \in 0 .. 2
      /\ FullBanks' = FullBanks + Bit(DC!Publishes) - fd_row_release
      /\ DC!Publishes => FullBanks' >= 1
  BY <1>2, <1>3, <1>4 DEF FullBanks, Full, Bit
<1>6. dc_rows_fetched' = dc_rows_fetched + Bit(DC!Publishes)
  BY <1>1, <1>2
  DEF DC!Fetch, DC!FetchIdle, DC!FetchRequest, DC!FetchWait, DC!FetchWord, DC!FetchNextBurst,
      DC!FetchRowDone, DC!Publishes, DC!FetchDone, Bit
<1>7. Full(dc_front_bank) = 1 /\ fd_row_release = 0 => Full(dc_front_bank)' = 1
  BY <1>1, <1>2, <1>3 DEF DC!SwapBanks, Full
<1>8. Fetching' =>
        \/ Fetching /\ ~DC!Publishes
        \/ /\ dc_active = 1 /\ dc_rows_fetched # OutputRows /\ ~Fetching
           /\ dc_bank_full[dc_fill_bank] = 0 /\ ~DC!Publishes
  BY <1>1
  DEF DC!Fetch, DC!FetchIdle, DC!FetchRequest, DC!FetchWait, DC!FetchWord, DC!FetchNextBurst,
      DC!FetchRowDone, DC!Publishes, DC!FetchDone, Fetching
<1>9. Fetching' => Full(dc_fill_bank)' = 0
  BY <1>1, <1>2, <1>3, <1>8 DEF DC!SwapBanks, Full, CacheInv
<1> QED
  BY <1>5, <1>6, <1>7, <1>8, <1>9

LEMMA CacheInit == Init => CacheInv
  BY Parameters
  DEF Init, FD!Reset, DC!Reset, DC!Banks, CacheInv, Draining, Fetching, Full, FullBanks

LEMMA CacheStep == TypeOK /\ HandshakeInv /\ CacheInv /\ [Next]_vars => CacheInv'
<1> SUFFICES ASSUME TypeOK, HandshakeInv, CacheInv, [Next]_vars PROVE CacheInv'
  OBVIOUS
<1>1. CASE UNCHANGED vars
  BY <1>1 DEF vars, controlVars, downloadVars, fdVars, dcVars, CacheInv, Draining, Fetching, Full,
     FullBanks
<1>2. CASE Next
  <2>1. CacheTick /\ ControlPart
    BY <1>2, StepParts
  <2> PICK queue_full \in BOOLEAN : Drain(queue_full)
    BY <1>2, StepParts
  <2>2. /\ fd_row_counter \in 0 .. OutputRows /\ dc_rows_fetched \in 0 .. OutputRows
        /\ fd_cache_start \in 0 .. 1 /\ fd_row_release \in 0 .. 1 /\ OutputRows \in Nat
        /\ dc_cur_addr[3] \in Nat /\ dc_burst_in_row \in Nat /\ dc_active \in 0 .. 1
    BY Parameters DEF TypeOK, FD!TypeOK, DC!TypeOK, CacheInv
  <2>3. dc_active = 1 \/ fd_cache_start = 1 => read_base' = read_base
    <3>1. dc_active = 1 \/ fd_cache_start = 1 => downloading_state = "FRAME_DONE_WAIT"
      BY <2>2 DEF CacheInv, HandshakeInv
    <3> QED
      BY <2>1, <3>1 DEF ControlPart, ControlTick, Download
  <2>4. CASE fd_cache_start = 1
    <3>1. DC!Start(read_base)
      BY <2>1, <2>4 DEF CacheTick, DC!Tick
    <3>2. /\ dc_fstate' = "F_IDLE" /\ dc_active' = 1 /\ dc_rows_fetched' = 0
          /\ dc_cur_addr' = <<read_base, 0, 0>> /\ FullBanks' = 0
      BY <3>1 DEF DC!Start, FullBanks, Full, DC!Banks
    <3>3. /\ fd_state = "S_FRAME_START" /\ fd_row_counter = 0
      BY <2>4 DEF CacheInv
    <3>4. /\ fd_cache_start' = 0 /\ fd_row_release' = 0 /\ fd_row_counter' = 0
          /\ ~Draining' /\ fd_state' \notin {"S_ROW_GAP", "S_FRAME_END", "S_DONE", "S_START_WAIT"}
      BY <3>3, DownloaderStep DEF Draining
    <3> QED
      BY <2>3, <2>4, <3>2, <3>4, Parameters DEF CacheInv, Fetching
  <2>5. CASE fd_cache_start = 0
    <3> DEFINE published == Bit(DC!Publishes)
    <3>1. /\ FullBanks \in 0 .. 2 /\ FullBanks' \in 0 .. 2
          /\ FullBanks' = FullBanks + published - fd_row_release
          /\ dc_rows_fetched' = dc_rows_fetched + published
          /\ published \in 0 .. 1
          /\ published = 1 => FullBanks' >= 1
          /\ published = 1 <=> DC!Publishes
      BY <2>1, <2>5, BankStep DEF Bit
    <3>2. dc_rows_fetched + fd_row_release = FullBanks + fd_row_counter
      BY <2>5 DEF CacheInv
    <3>3. fd_cache_start' = 0 =>
            fd_row_counter' = fd_row_counter + fd_row_release' /\ fd_row_release' \in 0 .. 1
      BY <2>2, DownloaderStep
    <3> HIDE DEF published
    <3>4. fd_cache_start' = 0 =>
            dc_rows_fetched' + fd_row_release' = FullBanks' + fd_row_counter'
      BY <2>2, <3>1, <3>2, <3>3
    <3>5. Fetching' =>
            /\ dc_active' = 1 /\ dc_rows_fetched' < OutputRows /\ Full(dc_fill_bank)' = 0
      <4>0. /\ Fetching' =>
                 \/ Fetching /\ ~DC!Publishes
                 \/ dc_active = 1 /\ dc_rows_fetched # OutputRows /\ ~Fetching
            /\ Fetching' => Full(dc_fill_bank)' = 0
            /\ DC!Publishes => Fetching
        BY <2>1, <2>5, BankStep DEF DC!Publishes, Fetching
      <4>1. Fetching' => published = 0 /\ dc_active = 1 /\ dc_rows_fetched < OutputRows
        BY <2>2, <3>1, <4>0 DEF CacheInv
      <4>2. Fetching' => dc_active' = 1
        BY <2>1, <2>5, <4>1
        DEF CacheTick, DC!Tick, DC!Fetch, DC!FetchIdle, DC!FetchRequest, DC!FetchWait,
            DC!FetchWord, DC!FetchNextBurst, DC!FetchRowDone, DC!Publishes, DC!FetchDone, Fetching
      <4> QED
        BY <2>2, <3>1, <4>0, <4>1, <4>2
    <3>6. /\ dc_active' \in 0 .. 1
          /\ dc_fstate' = "F_DONE" => dc_active' = 0
          /\ dc_active' = 1 =>
               /\ dc_active = 1 /\ dc_cur_addr'[1] = dc_cur_addr[1]
               /\ ~ (dc_fstate = "F_IDLE" /\ dc_rows_fetched = OutputRows)
          /\ published = 0 => UNCHANGED dc_rows_fetched
          /\ dc_active = 1 /\ dc_rows_fetched = OutputRows => dc_fstate = "F_IDLE"
      <4>1. dc_fstate \in {"F_IDLE", "F_REQ", "F_WAIT", "F_DATA", "F_DONE"}
        BY DEF TypeOK, DC!TypeOK
      <4>2. dc_active = 1 /\ dc_rows_fetched = OutputRows => dc_fstate = "F_IDLE"
        BY <2>2, <4>1 DEF CacheInv, Fetching
      <4> QED
        BY <2>1, <2>2, <2>5, <3>1, <4>1, <4>2
        DEF CacheTick, DC!Tick, DC!Fetch, DC!FetchIdle, DC!FetchRequest, DC!FetchWait,
            DC!FetchWord, DC!FetchNextBurst, DC!FetchRowDone, DC!Publishes, DC!FetchDone, CacheInv
    <3>7. dc_active' = 1 /\ dc_rows_fetched' = OutputRows => FullBanks' >= 1
      BY <2>2, <3>1, <3>6
    <3>8. dc_cur_addr'[3] = IF Fetching' THEN dc_burst_in_row' ELSE 0
      BY <2>1, <2>2, <2>5
      DEF CacheTick, DC!Tick, DC!Fetch, DC!FetchIdle, DC!FetchRequest, DC!FetchWait,
          DC!FetchWord, DC!FetchNextBurst, DC!FetchRowDone, DC!Publishes, DC!FetchDone, CacheInv,
          Fetching
    <3>9. /\ fd_cache_start' = 1 => fd_state' = "S_FRAME_START"
          /\ fd_row_release' = 1 <=> fd_state' = "S_ROW_GAP"
          /\ fd_state' = "S_FRAME_START" => fd_row_counter' = 0
          /\ Draining' => fd_row_counter' < OutputRows
          /\ fd_state' \in {"S_FRAME_END", "S_DONE"} => fd_row_counter' = OutputRows
      BY <2>2, DownloaderStep DEF CacheInv, Draining
    <3>10. Draining' \/ fd_state' = "S_ROW_GAP" => Full(dc_front_bank)' = 1
      <4>1. Draining' \/ fd_state' = "S_ROW_GAP" =>
              Full(dc_front_bank) = 1 /\ fd_row_release = 0
        BY <2>2, DownloaderStep DEF CacheInv, Draining, DC!row_avail, Full
      <4> QED
        BY <2>1, <2>5, <4>1, BankStep
    <3>11. fd_state' \in {"S_START_WAIT", "S_FRAME_END", "S_DONE"} \/ fd_cache_start' = 1 =>
             dc_active' = 0
      <4>1. CASE fd_state = "S_ROW_WAIT" /\ fd_row_counter = OutputRows
        <5>1. dc_rows_fetched = OutputRows /\ FullBanks = 0
          BY <2>2, <3>1, <3>2, <4>1, BankStep, <2>1, <2>5 DEF CacheInv
        <5>2. dc_active = 0
          BY <2>2, <5>1 DEF CacheInv
        <5> QED
          BY <2>1, <2>5, <5>2, <3>6
      <4>2. CASE fd_state \in {"S_START_WAIT", "S_FRAME_END", "S_DONE"}
        BY <2>2, <4>2, <3>6 DEF CacheInv
      <4> QED
        BY <2>2, <4>1, <4>2, DownloaderStep
    <3>12. dc_active' = 1 => dc_cur_addr'[1] = read_base'
      BY <2>3, <3>6 DEF CacheInv
    <3> QED
      BY <3>4, <3>5, <3>6, <3>7, <3>8, <3>9, <3>10, <3>11, <3>12 DEF CacheInv
  <2> QED
    BY <2>2, <2>4, <2>5
<1> QED
  BY <1>1, <1>2

-----------------------------------------------------------------------------
\* The vertical scaler.

LEMMA ScalerInit == Init => ScalerInv
  BY Parameters DEF Init, DC!Reset, DC!ScalerInit, ScalerInv

LEMMA ScalerStep ==
  ASSUME TypeOK, ScalerInv, [Next]_vars
  PROVE  ScalerInv' /\ dc_resid' \in 0 .. OutputRows - 1
<1>0. dc_resid \in 0 .. OutputRows - 1 /\ dc_rows_fetched \in Nat /\ dc_cur_addr[2] \in Nat
  BY Parameters DEF TypeOK, DC!TypeOK, ScalerInv
<1>1. CASE UNCHANGED vars
  BY <1>0, <1>1 DEF vars, dcVars, ScalerInv, DC!ScalerInit
<1>2. CASE Next
  <2>1. CacheTick
    BY <1>2, StepParts
  <2>2. CASE DC!Start(read_base)
    BY <2>2, Parameters DEF DC!Start, DC!ScalerInit, ScalerInv
  <2>3. CASE DC!FetchRowDone
    <3> DEFINE step == DC!position_increment
    <3>1. /\ dc_rows_fetched' = dc_rows_fetched + 1
          /\ dc_cur_addr'[2] = dc_cur_addr[2] + step
          /\ dc_resid' = dc_resid + SourceRows - step * OutputRows
      BY <2>3 DEF DC!FetchRowDone, DC!resid_n
    <3>2. /\ step = 2 => dc_resid + SourceRows >= 2 * OutputRows
          /\ step = 1 => ~ (dc_resid + SourceRows >= 2 * OutputRows)
          /\ step \in 1 .. 2
      BY DEF DC!position_increment, DC!take2
    <3> HIDE DEF step
    <3>3. dc_resid' \in 0 .. OutputRows - 1 /\ dc_cur_addr'[2] \in Nat
      BY <1>0, <3>1, <3>2, Parameters
    <3>4. /\ OutputRows * (dc_cur_addr[2] + step) = OutputRows * dc_cur_addr[2] + step * OutputRows
          /\ (dc_rows_fetched + 1) * SourceRows = dc_rows_fetched * SourceRows + SourceRows
          /\ OutputRows * dc_cur_addr[2] \in Int /\ dc_rows_fetched * SourceRows \in Int
          /\ step * OutputRows \in Int /\ DC!ScalerInit \in Int
      BY <1>0, <3>2, Parameters DEF DC!ScalerInit
    <3>5. OutputRows * (dc_cur_addr[2] + step) + dc_resid' =
            (dc_rows_fetched + 1) * SourceRows + DC!ScalerInit
      <4> DEFINE place == OutputRows * dc_cur_addr[2]
                 done == dc_rows_fetched * SourceRows
                 move == step * OutputRows
      <4>1. place + dc_resid = done + DC!ScalerInit /\ dc_resid' = dc_resid + SourceRows - move
        BY <3>1 DEF ScalerInv
      <4>2. place \in Int /\ done \in Int /\ move \in Int /\ DC!ScalerInit \in Int
        BY <3>4
      <4> HIDE DEF place, done, move
      <4>3. (place + move) + dc_resid' = (done + SourceRows) + DC!ScalerInit
        BY <1>0, <4>1, <4>2, Parameters
      <4> QED
        BY <3>4, <4>3 DEF place, done, move
    <3> QED
      BY <3>1, <3>3, <3>5 DEF ScalerInv, DC!ScalerInit
  <2>4. CASE UNCHANGED <<dc_rows_fetched, dc_resid>> /\ dc_cur_addr'[2] = dc_cur_addr[2]
    BY <1>0, <2>4 DEF ScalerInv, DC!ScalerInit
  <2> QED
    BY <2>1, <2>2, <2>3, <2>4
    DEF CacheTick, DC!Tick, DC!Fetch, DC!FetchIdle, DC!FetchRequest, DC!FetchWait, DC!FetchWord,
        DC!FetchNextBurst, DC!FetchDone
<1> QED
  BY <1>1, <1>2

\* The last fetched row is still a row of the camera's frame.
LEMMA ScalerBound ==
  ASSUME TypeOK, ScalerInv, dc_rows_fetched < OutputRows
  PROVE  dc_cur_addr[2] < SourceRows
<1>1. /\ dc_rows_fetched \in Nat /\ dc_rows_fetched + 1 <= OutputRows
      /\ dc_resid \in 0 .. OutputRows - 1 /\ dc_cur_addr[2] \in Nat
  BY Parameters DEF TypeOK, DC!TypeOK, ScalerInv
<1>2. (dc_rows_fetched + 1) * SourceRows <= OutputRows * SourceRows
  BY <1>1, Parameters, ProductMonotone
<1>3. (dc_rows_fetched + 1) * SourceRows = dc_rows_fetched * SourceRows + SourceRows
  BY <1>1, Parameters
<1>4. DC!ScalerInit \in Nat /\ DC!ScalerInit < SourceRows
  BY Parameters DEF DC!ScalerInit
<1>5. OutputRows * dc_cur_addr[2] < OutputRows * SourceRows
  <2> DEFINE done == dc_rows_fetched * SourceRows
             place == OutputRows * dc_cur_addr[2]
             all == OutputRows * SourceRows
  <2>1. done \in Nat /\ place \in Nat /\ all \in Nat
    BY <1>1, Parameters
  <2>2. place + dc_resid = done + DC!ScalerInit /\ done + SourceRows <= all
    BY <1>2, <1>3 DEF ScalerInv
  <2> HIDE DEF done, place, all
  <2>3. place < all
    BY <1>1, <1>4, <2>1, <2>2, Parameters
  <2> QED
    BY <2>3 DEF place, all
<1>6. SourceRows <= dc_cur_addr[2] => OutputRows * SourceRows <= OutputRows * dc_cur_addr[2]
  BY <1>1, Parameters, ProductMonotone
<1>7. OutputRows * SourceRows \in Nat /\ OutputRows * dc_cur_addr[2] \in Nat
  BY <1>1, Parameters
<1> QED
  BY <1>1, <1>5, <1>6, <1>7, Parameters

-----------------------------------------------------------------------------
\* The age of the last command.

LEMMA SpacingInit == Init => SpacingInv
  BY Parameters
  DEF Init, FU!Reset, DC!Reset, SpacingInv, WriteSpacing, ReadSpacing, BetweenCommands, HoldsBus

\* Only one side has the bus, and a read in progress is never cut off by a
\* new start of the cache.
LEMMA OneOnBus ==
  ASSUME TypeOK, BusInv, CacheInv
  PROVE  /\ HoldsBus => dc_fstate # "F_DATA"
         /\ DATA_READER_IDX \in grant => ~HoldsBus
         /\ DATA_WRITER_IDX \in grant => dc_fstate # "F_DATA"
         /\ fu_mem_wr_en = 1 => HoldsBus /\ dc_mem_rd_en # 1
         /\ dc_mem_rd_en = 1 => dc_fstate = "F_DATA" /\ fu_mem_wr_en # 1
         /\ dc_fstate = "F_DATA" => fd_cache_start # 1
  BY DEF BusInv, HoldsBus, AtWriter, AtReader, CacheInv, Fetching

\* What one cycle without a command does to the age of the last one.
LEMMA Aging ==
  ASSUME NEW x \in 0 .. MaxAge, NEW y \in 0 .. MaxAge,
         y = x + 1 \/ (y = x /\ x = MaxAge)
  PROVE  /\ y >= x
         /\ x >= TCMD - 4 => y >= TCMD - 3
         /\ x >= TCMD - 3 => y >= TCMD - 2
         /\ x >= TCMD - 2 => y >= TCMD - 1
         /\ x >= TCMD - 1 => y >= TCMD
         /\ x < BurstEnd => y = x + 1
         /\ x >= BurstEnd => y >= BurstEnd
         /\ \A c \in Nat : x >= c - 3 /\ c <= TCMD + 2 => y >= c - 2
<1>1. CASE y = x + 1
  BY <1>1, Parameters
<1>2. CASE y = x /\ x = MaxAge
  BY <1>2, Parameters
<1> QED
  BY <1>1, <1>2

LEMMA SpacingStep ==
  TypeOK /\ BusInv /\ PlaceInv /\ CacheInv /\ SpacingInv /\ [Next]_vars => SpacingInv'
<1> SUFFICES ASSUME TypeOK, BusInv, PlaceInv, CacheInv, SpacingInv, [Next]_vars PROVE SpacingInv'
  OBVIOUS
<1>1. CASE UNCHANGED vars
  BY <1>1 DEF vars, controlVars, fuVars, dcVars, envVars, SpacingInv, WriteSpacing, ReadSpacing,
     BetweenCommands, HoldsBus, AtReader
<1>2. CASE Next
  <2>1. UploaderTick /\ CacheTick /\ Memory /\ ControlPart
    BY <1>2, StepParts
  <2>2. /\ mem_age \in 0 .. MaxAge /\ mem_read \in 0 .. 1
        /\ fu_mem_wr_en \in 0 .. 1 /\ dc_mem_rd_en \in 0 .. 1
        /\ fu_write_cyc_counter \in 0 .. FU!HoldCycles /\ FU!HoldCycles = TCMD + 2
        /\ dc_read_counter \in 0 .. BURST_CYCLES /\ fu_write_rq \in 0 .. 1
    BY Parameters DEF FU!HoldCycles, TypeOK, FU!TypeOK, DC!TypeOK
  <2> DEFINE quiet == fu_mem_wr_en = 0 /\ dc_mem_rd_en = 0
  <2>3. /\ mem_age' \in 0 .. MaxAge
        /\ ~quiet => mem_age' = 1
        /\ quiet => mem_read' = mem_read
        /\ quiet => mem_age' = mem_age + 1 \/ (mem_age' = mem_age /\ mem_age = MaxAge)
        /\ fu_mem_wr_en = 1 => mem_read' = 0
        /\ dc_mem_rd_en = 1 /\ fu_mem_wr_en # 1 => mem_read' = 1
    BY <2>1, <2>2, Parameters DEF Memory, cmd_en
  <2>a. quiet =>
          /\ mem_age' >= mem_age
          /\ mem_age >= TCMD - 4 => mem_age' >= TCMD - 3
          /\ mem_age >= TCMD - 3 => mem_age' >= TCMD - 2
          /\ mem_age >= TCMD - 2 => mem_age' >= TCMD - 1
          /\ mem_age >= TCMD - 1 => mem_age' >= TCMD
          /\ mem_age < BurstEnd => mem_age' = mem_age + 1
          /\ mem_age >= BurstEnd => mem_age' >= BurstEnd
          /\ \A c \in Nat : mem_age >= c - 3 /\ c <= TCMD + 2 => mem_age' >= c - 2
    BY <2>2, <2>3, Aging
  <2>4. WriteSpacing'
    <3>1. CASE fu_state = "WRITE_MEMORY_WAIT" /\ DATA_WRITER_IDX \in grant
      <4>1. mem_age >= TCMD - 4 /\ quiet
        BY <2>2, <3>1, OneOnBus DEF SpacingInv, BetweenCommands, HoldsBus
      <4>2. mem_age' >= TCMD - 3
        BY <2>a, <4>1
      <4> QED
        BY <2>1, <2>2, <2>3, <3>1, <4>2, Parameters
        DEF UploaderTick, FU!Tick, FU!StartWait, FU!TakeCommands, FU!WaitCommand,
            FU!CheckCommand, FU!CheckQueue, FU!WriteRow, FU!RowBegin, FU!WriteMemoryWait,
            FU!WriteMemoryWord, FU!WriteMemoryEnd, FU!WriteCycle, FU!WriteCycleEnd, FU!Done,
            WriteSpacing
    <3>2. CASE fu_state = "WRITE_MEMORY"
      <4>1. quiet <=> fu_write_cyc_counter # FU!CACHE_DELAY + 1
        BY <2>2, <3>2, OneOnBus DEF BusInv, HoldsBus
      <4>2. CASE FU!WriteMemoryWord
        <5>1. /\ fu_state' = "WRITE_MEMORY" /\ fu_write_cyc_counter' = fu_write_cyc_counter + 1
              /\ fu_write_cyc_counter # BURST_CYCLES
          BY <3>2, <4>2 DEF FU!WriteMemoryWord, FU!fsmVars
        <5>2. fu_write_cyc_counter < BURST_CYCLES
          BY <2>2, <3>2, <5>1, Parameters DEF PlaceInv
        <5>3. CASE fu_write_cyc_counter = 3
          <6>1. mem_age' = 1
            BY <2>3, <4>1, <5>3, Parameters
          <6> QED
            BY <5>1, <5>3, <6>1, Parameters DEF WriteSpacing
        <5>4. CASE fu_write_cyc_counter # 3
          <6>1. quiet
            BY <4>1, <5>4, Parameters
          <6>2. CASE fu_write_cyc_counter < 3
            <7>1. /\ mem_age >= TCMD + fu_write_cyc_counter - 3
                  /\ TCMD + fu_write_cyc_counter \in Nat
                  /\ TCMD + fu_write_cyc_counter <= TCMD + 2
              BY <2>2, <3>2, <6>2, Parameters DEF SpacingInv, WriteSpacing
            <7>2. mem_age' >= TCMD + fu_write_cyc_counter - 2
              BY <2>2, <2>3, <6>1, <6>2, <7>1, Parameters
            <7> QED
              BY <2>2, <5>1, <6>2, <7>2, Parameters DEF WriteSpacing
          <6>3. CASE fu_write_cyc_counter > 3
            <7>1. mem_age >= fu_write_cyc_counter - 3 /\ fu_write_cyc_counter <= TCMD + 2
              BY <2>2, <3>2, <5>2, <6>3, Parameters DEF SpacingInv, WriteSpacing
            <7>2. mem_age' >= fu_write_cyc_counter - 2
              BY <2>a, <2>2, <6>1, <7>1
            <7> QED
              BY <2>2, <5>1, <6>3, <7>2, Parameters DEF WriteSpacing
          <6> QED
            BY <2>2, <5>4, <6>2, <6>3
        <5> QED
          BY <5>3, <5>4
      <4>3. CASE FU!WriteMemoryEnd
        <5>1. /\ fu_write_cyc_counter = BURST_CYCLES /\ fu_write_cyc_counter' = BURST_CYCLES
              /\ fu_state' # "WRITE_MEMORY"
          BY <3>2, <4>3 DEF FU!WriteMemoryEnd, FU!memoryVars
        <5>2. mem_age >= BURST_CYCLES - 3 /\ quiet
          BY <2>2, <3>2, <4>1, <5>1, Parameters DEF SpacingInv, WriteSpacing
        <5> QED
          BY <2>a, <2>2, <2>3, <5>1, <5>2, Parameters DEF WriteSpacing
      <4> QED
        BY <2>1, <3>2, <4>2, <4>3
        DEF UploaderTick, FU!Tick, FU!StartWait, FU!TakeCommands, FU!WaitCommand,
            FU!CheckCommand, FU!CheckQueue, FU!WriteRow, FU!RowBegin, FU!WriteMemoryWait,
            FU!WriteCycle, FU!WriteCycleEnd, FU!Done
    <3>3. CASE fu_state = "FRAME_PROCESSING_WRITE_CYC"
      <4>1. quiet \/ fu_write_rq # 1
        BY <2>2, <3>3, OneOnBus DEF BusInv, HoldsBus
      <4>2. CASE FU!WriteCycle
        <5>1. /\ fu_state' = "FRAME_PROCESSING_WRITE_CYC" /\ fu_write_rq' = fu_write_rq
              /\ fu_write_cyc_counter' = fu_write_cyc_counter + 1
              /\ fu_write_cyc_counter # FU!HoldCycles
          BY <3>3, <4>2 DEF FU!WriteCycle, FU!fsmVars
        <5>2. CASE fu_write_rq = 1
          <6>1. mem_age >= fu_write_cyc_counter - 2 /\ fu_write_cyc_counter <= TCMD + 1 /\ quiet
            BY <2>2, <3>3, <4>1, <5>1, <5>2, Parameters
            DEF SpacingInv, WriteSpacing, PlaceInv, FU!HoldCycles
          <6>2. mem_age >= (fu_write_cyc_counter + 1) - 3 /\ fu_write_cyc_counter + 1 <= TCMD + 2
            BY <2>2, <6>1, Parameters
          <6>3. mem_age' >= (fu_write_cyc_counter + 1) - 2
            BY <2>a, <2>2, <6>1, <6>2
          <6> QED
            BY <2>2, <2>3, <5>1, <6>3, Parameters DEF WriteSpacing
        <5> QED
          BY <5>1, <5>2 DEF WriteSpacing
      <4>3. CASE FU!WriteCycleEnd(DATA_WRITER_IDX \in grant)
        BY <3>3, <4>3 DEF FU!WriteCycleEnd, WriteSpacing
      <4> QED
        BY <2>1, <3>3, <4>2, <4>3
        DEF UploaderTick, FU!Tick, FU!StartWait, FU!TakeCommands, FU!WaitCommand,
            FU!CheckCommand, FU!CheckQueue, FU!WriteRow, FU!RowBegin, FU!WriteMemoryWait,
            FU!WriteMemoryWord, FU!WriteMemoryEnd, FU!Done
    <3> QED
      BY <2>1, <3>1, <3>2, <3>3
      DEF UploaderTick, FU!Tick, FU!StartWait, FU!TakeCommands, FU!WaitCommand,
          FU!CheckCommand, FU!CheckQueue, FU!WriteRow, FU!RowBegin, FU!WriteMemoryWait,
          FU!WriteMemoryWord, FU!WriteMemoryEnd, FU!WriteCycle, FU!WriteCycleEnd, FU!Done,
          WriteSpacing
  <2>5. ReadSpacing'
    <3>1. CASE dc_fstate = "F_DATA"
      <4>1. /\ fu_mem_wr_en = 0
            /\ DC!Fetch(DATA_READER_IDX \in grant, rd_data_valid)
        BY <2>1, <2>2, <3>1, OneOnBus DEF CacheTick, DC!Tick
      <4>2. CASE dc_mem_rd_en = 1
        <5>1. dc_read_counter = 0 /\ ~rd_data_valid
          BY <3>1, <4>2 DEF SpacingInv, ReadSpacing, rd_data_valid, BurstEnd
        <5>2. DC!FetchWord(rd_data_valid)
          BY <3>1, <4>1, <5>1, Parameters
          DEF DC!Fetch, DC!FetchIdle, DC!FetchRequest, DC!FetchWait, DC!FetchNextBurst,
              DC!FetchRowDone, DC!Publishes, DC!FetchDone
        <5>3. /\ dc_fstate' = "F_DATA" /\ dc_mem_rd_en' = 0 /\ dc_read_counter' = 0
              /\ mem_age' = 1 /\ mem_read' = 1
          BY <2>3, <3>1, <4>1, <4>2, <5>1, <5>2 DEF DC!FetchWord
        <5> QED
          BY <5>3, Parameters DEF ReadSpacing, BurstEnd
      <4>3. CASE dc_mem_rd_en = 0
        <5>1. /\ mem_read = 1 /\ mem_age <= BurstEnd
              /\ dc_read_counter = IF mem_age <= RD_LATENCY THEN 0 ELSE mem_age - RD_LATENCY
          BY <3>1, <4>3 DEF SpacingInv, ReadSpacing
        <5>2. CASE DC!FetchWord(rd_data_valid)
          <6>1. /\ dc_fstate' = "F_DATA" /\ dc_mem_rd_en' = 0
                /\ dc_read_counter # BURST_CYCLES
                /\ dc_read_counter' = IF /\ mem_read = 1 /\ mem_age >= RD_LATENCY
                                         /\ mem_age < RD_LATENCY + BURST_CYCLES
                                        THEN dc_read_counter + 1 ELSE dc_read_counter
            BY <3>1, <5>2 DEF DC!FetchWord, rd_data_valid
          <6>2. mem_age < BurstEnd
            BY <2>2, <5>1, <6>1, Parameters DEF BurstEnd
          <6>3. mem_age' = mem_age + 1 /\ mem_read' = 1
            BY <2>3, <2>a, <4>1, <4>3, <5>1, <6>2
          <6> QED
            BY <2>2, <5>1, <6>1, <6>2, <6>3, Parameters DEF ReadSpacing, BurstEnd
        <5>3. CASE dc_read_counter = BURST_CYCLES
          <6>1. mem_age = BurstEnd
            BY <2>2, <5>1, <5>3, Parameters DEF BurstEnd
          <6>3. mem_age' >= BurstEnd
            BY <2>2, <2>a, <4>1, <4>3, <6>1, Parameters
          <6>2. dc_fstate' # "F_DATA"
            BY <3>1, <4>1, <5>3
            DEF DC!Fetch, DC!FetchIdle, DC!FetchRequest, DC!FetchWait, DC!FetchWord,
                DC!FetchNextBurst, DC!FetchRowDone, DC!FetchDone
          <6> QED
            BY <2>3, <6>2, <6>3, Parameters DEF ReadSpacing
        <5> QED
          BY <3>1, <4>1, <5>2, <5>3
          DEF DC!Fetch, DC!FetchIdle, DC!FetchRequest, DC!FetchWait, DC!FetchNextBurst,
              DC!FetchRowDone, DC!Publishes, DC!FetchDone
      <4> QED
        BY <2>2, <4>2, <4>3
    <3>2. CASE dc_fstate # "F_DATA"
      <4>1. dc_mem_rd_en = 0
        BY <2>2, <3>2, OneOnBus
      <4>2. mem_read' = 1 => mem_age' >= BurstEnd
        <5> SUFFICES ASSUME mem_read' = 1 PROVE mem_age' >= BurstEnd
          OBVIOUS
        <5>1. quiet /\ mem_read = 1
          BY <2>2, <2>3, <4>1
        <5>2. mem_age >= BurstEnd
          BY <2>2, <3>2, <5>1, Parameters DEF SpacingInv, ReadSpacing
        <5> QED
          BY <2>a, <5>1, <5>2
      <4>3. dc_fstate' = "F_DATA" =>
              /\ dc_mem_rd_en' = 1 /\ dc_read_counter' = 0
              /\ dc_fstate = "F_WAIT" /\ DATA_READER_IDX \in grant
        BY <2>1, <3>2
        DEF CacheTick, DC!Tick, DC!Start, DC!Fetch, DC!FetchIdle, DC!FetchRequest, DC!FetchWait,
            DC!FetchWord, DC!FetchNextBurst, DC!FetchRowDone, DC!Publishes, DC!FetchDone
      <4>4. dc_fstate' = "F_DATA" => mem_age >= TCMD - 1 /\ fu_mem_wr_en = 0
        BY <2>2, <3>2, <4>3, OneOnBus DEF SpacingInv, BetweenCommands
      <4>5. dc_fstate' = "F_DATA" => mem_age' >= TCMD
        BY <2>a, <4>1, <4>4
      <4> QED
        BY <2>3, <4>2, <4>3, <4>5, Parameters DEF ReadSpacing
    <3> QED
      BY <3>1, <3>2
  <2>6. BetweenCommands'
    <3> SUFFICES ASSUME ~HoldsBus', dc_fstate' # "F_DATA"
                 PROVE  /\ mem_age' >= TCMD - 4
                        /\ dc_fstate' = "F_WAIT" => mem_age' >= TCMD - 3
                        /\ dc_fstate' = "F_WAIT" /\ AtReader' => mem_age' >= TCMD - 2
                        /\ dc_fstate' = "F_WAIT" /\ DATA_READER_IDX \in grant' =>
                             mem_age' >= TCMD - 1
      BY DEF BetweenCommands
    <3>1. CASE HoldsBus
      <4>1. /\ fu_state = "FRAME_PROCESSING_WRITE_CYC" /\ fu_write_rq = 1
            /\ fu_write_cyc_counter = FU!HoldCycles
        BY <2>1, <3>1
        DEF UploaderTick, FU!Tick, FU!StartWait, FU!TakeCommands, FU!WaitCommand,
            FU!CheckCommand, FU!CheckQueue, FU!WriteRow, FU!RowBegin, FU!WriteMemoryWait,
            FU!WriteMemoryWord, FU!WriteMemoryEnd, FU!WriteCycle, FU!WriteCycleEnd, FU!Done,
            FU!fsmVars, FU!memoryVars, HoldsBus, BusInv
      <4>2. mem_age >= TCMD /\ quiet
        BY <2>2, <4>1, OneOnBus, Parameters
        DEF FU!HoldCycles, SpacingInv, WriteSpacing, BusInv, HoldsBus
      <4>3. mem_age' >= TCMD
        BY <2>2, <2>3, <2>a, <4>2, Parameters
      <4> QED
        BY <2>3, <4>3, Parameters
    <3>2. CASE dc_fstate = "F_DATA"
      <4>1. /\ fu_mem_wr_en = 0
            /\ DC!Fetch(DATA_READER_IDX \in grant, rd_data_valid)
        BY <2>1, <2>2, <3>2, OneOnBus DEF CacheTick, DC!Tick
      <4>2. dc_read_counter = BURST_CYCLES /\ dc_fstate' # "F_WAIT"
        BY <3>2, <4>1
        DEF DC!Fetch, DC!FetchIdle, DC!FetchRequest, DC!FetchWait, DC!FetchWord,
            DC!FetchNextBurst, DC!FetchRowDone, DC!Publishes, DC!FetchDone
      <4>3. mem_age = BurstEnd /\ dc_mem_rd_en = 0
        BY <2>2, <3>2, <4>2, Parameters DEF SpacingInv, ReadSpacing, BurstEnd
      <4>5. mem_age' = BurstEnd + 1 \/ (mem_age' = BurstEnd /\ BurstEnd = MaxAge)
        BY <2>2, <2>3, <4>1, <4>3
      <4>4. mem_age' >= TCMD - 4
        BY <2>3, <4>5, Parameters
      <4> QED
        BY <4>2, <4>4
    <3>3. CASE ~HoldsBus /\ dc_fstate # "F_DATA"
      <4>1. /\ mem_age >= TCMD - 4
            /\ dc_fstate = "F_WAIT" => mem_age >= TCMD - 3
            /\ dc_fstate = "F_WAIT" /\ AtReader => mem_age >= TCMD - 2
        BY <3>3 DEF SpacingInv, BetweenCommands
      <4>2. quiet
        BY <2>2, <3>3, OneOnBus
      <4>3. /\ mem_age' >= TCMD - 3
            /\ mem_age >= TCMD - 3 => mem_age' >= TCMD - 2
            /\ mem_age >= TCMD - 2 => mem_age' >= TCMD - 1
        BY <2>a, <4>1, <4>2
      <4>4. /\ dc_read_rq # 1 => ~AtReader'
            /\ DATA_READER_IDX \in grant' => dc_read_rq = 1 /\ AtReader
        BY <2>1, DataLanesFacts DEF TypeOK
      <4>5. dc_fstate' = "F_WAIT" => dc_fstate = "F_WAIT" \/ (dc_fstate = "F_REQ" /\ dc_read_rq # 1)
        BY <2>1
        DEF CacheTick, DC!Tick, DC!Start, DC!Fetch, DC!FetchIdle, DC!FetchRequest, DC!FetchWait,
            DC!FetchWord, DC!FetchNextBurst, DC!FetchRowDone, DC!Publishes, DC!FetchDone, BusInv
      <4> QED
        BY <4>1, <4>3, <4>4, <4>5, <2>3, Parameters DEF AtReader
    <3> QED
      BY <3>1, <3>2, <3>3
  <2> QED
    BY <2>4, <2>5, <2>6 DEF SpacingInv
<1> QED
  BY <1>1, <1>2

-----------------------------------------------------------------------------
\* Types.

LEMMA FrameBufferTypeInit == Init => TypeOK
<1>1. /\ 0 \in BC!Buffers /\ 0 \in 0 .. FrameBursts /\ 0 \in 0 .. FrameBursts - 1
      /\ FrameBursts \in 0 .. FrameBursts
  BY NumBuffersAssumption, FrameBurstsType DEF BC!Buffers
<1>2. RowPixels \in Nat \ {0}
  <2>1. BurstPixels(0) + 2 * BURST_CYCLES <= RowPixels /\ RowPixels = BurstPixels(BurstsPerRow)
    BY BurstPixelsFacts, Parameters
  <2> QED
    BY <2>1, BurstPixelsFacts, Parameters
<1>3. DC!ScalerInit \in 0 .. OutputRows - 1
  BY Parameters DEF DC!ScalerInit
<1> SUFFICES ASSUME Init PROVE TypeOK
  OBVIOUS
<1>4. ControlTypeOK
  BY TypeInit DEF Init
<1>5. FU!TypeOK
  BY <1>2, Parameters DEF Init, FU!Reset, FU!TypeOK, FU!States, FU!NoCommand, FU!Commands
<1>6. FD!TypeOK
  BY <1>2, Parameters DEF Init, FD!Reset, FD!TypeOK, FD!States, FD!Words
<1>7. DC!TypeOK
  BY <1>3, Parameters DEF Init, DC!Reset, DC!TypeOK, DC!Banks
<1> QED
  BY <1>1, <1>4, <1>5, <1>6, <1>7, Parameters
  DEF Init, TypeOK, FU!Reset, DC!Reset, FU!NoCommand, FU!Commands

LEMMA UploaderType ==
  ASSUME ControlTypeOK, TypeOK, PlaceInv, UploaderTick
  PROVE  /\ FU!TypeOK'
         /\ fu_frame_addr' \in BC!Buffers \X (0 .. FrameBursts)
         /\ fu_write_addr' \in BC!Buffers \X (0 .. FrameBursts - 1)
<1>1. /\ fu_state \in FU!States
      /\ fu_row_counter \in 0 .. SourceRows /\ fu_col_counter \in 0 .. RowPixels
      /\ fu_write_cyc_counter \in 0 .. TCMD + 2 /\ fu_write_cyc_counter \in Nat
      /\ fu_command_data_recv \in 0 .. 3 /\ link \in 0 .. 3
      /\ fu_read_rdy \in 0 .. 1 /\ fu_write_rq \in 0 .. 1 /\ fu_mem_wr_en \in 0 .. 1
      /\ fu_upload_done \in 0 .. 1
      /\ fu_frame_addr \in BC!Buffers \X (0 .. FrameBursts)
      /\ fu_write_addr \in BC!Buffers \X (0 .. FrameBursts - 1)
      /\ write_base \in BC!Buffers
  BY Parameters
  DEF TypeOK, FU!TypeOK, FU!NoCommand, FU!Commands, ControlTypeOK
<1>2. RowPixels \in Nat
  BY BurstPixelsFacts, Parameters
<1>3. fu_state' \in FU!States
  BY <1>1
  DEF FU!States, UploaderTick, FU!Tick, FU!StartWait, FU!TakeCommands, FU!WaitCommand,
      FU!CheckCommand, FU!CheckQueue, FU!WriteRow, FU!RowBegin, FU!WriteMemoryWait,
      FU!WriteMemoryWord, FU!WriteMemoryEnd, FU!WriteCycle, FU!WriteCycleEnd, FU!Done, FU!fsmVars
<1>4. /\ fu_command_data_recv' \in 0 .. 3
      /\ fu_read_rdy' \in 0 .. 1 /\ fu_write_rq' \in 0 .. 1 /\ fu_mem_wr_en' \in 0 .. 1
      /\ fu_upload_done' \in 0 .. 1
  BY <1>1
  DEF UploaderTick, FU!Tick, FU!StartWait, FU!TakeCommands, FU!WaitCommand,
      FU!CheckCommand, FU!CheckQueue, FU!WriteRow, FU!RowBegin, FU!WriteMemoryWait,
      FU!WriteMemoryWord, FU!WriteMemoryEnd, FU!WriteCycle, FU!WriteCycleEnd, FU!Done,
      FU!fsmVars, FU!commandVars, FU!memoryVars
<1>5. fu_row_counter' \in 0 .. SourceRows
  BY <1>1, Parameters
  DEF UploaderTick, FU!Tick, FU!StartWait, FU!TakeCommands, FU!WaitCommand,
      FU!CheckCommand, FU!CheckQueue, FU!WriteRow, FU!RowBegin, FU!WriteMemoryWait,
      FU!WriteMemoryWord, FU!WriteMemoryEnd, FU!WriteCycle, FU!WriteCycleEnd, FU!Done,
      FU!placeVars, PlaceInv
<1>6. fu_write_cyc_counter' \in 0 .. TCMD + 2
  <2>1. CASE FU!WriteMemoryWord
    BY <1>1, <2>1, Parameters DEF FU!WriteMemoryWord, PlaceInv
  <2>2. CASE FU!WriteCycle
    BY <1>1, <2>2, Parameters DEF FU!WriteCycle, FU!HoldCycles
  <2> QED
    BY <1>1, <2>1, <2>2, Parameters
    DEF UploaderTick, FU!Tick, FU!StartWait, FU!TakeCommands, FU!WaitCommand,
        FU!CheckCommand, FU!CheckQueue, FU!WriteRow, FU!RowBegin, FU!WriteMemoryWait,
        FU!WriteMemoryEnd, FU!WriteCycleEnd, FU!Done, FU!memoryVars
<1>7. fu_col_counter' \in 0 .. RowPixels
  <2>1. CASE FU!WriteMemoryWord
    <3>1. /\ fu_state = "WRITE_MEMORY" /\ fu_write_cyc_counter < BURST_CYCLES
          /\ fu_write_cyc_counter \in Nat
          /\ fu_col_counter' \in {fu_col_counter, fu_col_counter + 2}
      BY <1>1, <2>1, Parameters DEF FU!WriteMemoryWord, PlaceInv
    <3>2. /\ RowBursts \in Nat /\ RowBursts < BurstsPerRow
          /\ fu_col_counter = BurstPixels(RowBursts) + 2 * fu_write_cyc_counter
      BY <3>1, Parameters DEF PlaceInv
    <3>3. BurstPixels(RowBursts) \in Nat /\ BurstPixels(RowBursts) + 2 * BURST_CYCLES <= RowPixels
      BY <3>2, BurstPixelsFacts
    <3> DEFINE base == BurstPixels(RowBursts)
    <3> HIDE DEF base
    <3>4. /\ base \in Nat /\ base + 2 * BURST_CYCLES <= RowPixels
          /\ fu_col_counter = base + 2 * fu_write_cyc_counter
      BY <3>2, <3>3 DEF base
    <3> QED
      BY <1>1, <1>2, <3>1, <3>4, Parameters
  <2> QED
    BY <1>1, <1>2, <2>1
    DEF UploaderTick, FU!Tick, FU!StartWait, FU!TakeCommands, FU!WaitCommand,
        FU!CheckCommand, FU!CheckQueue, FU!WriteRow, FU!RowBegin, FU!WriteMemoryWait,
        FU!WriteMemoryEnd, FU!WriteCycle, FU!WriteCycleEnd, FU!Done, FU!placeVars
<1>8. fu_frame_addr' \in BC!Buffers \X (0 .. FrameBursts)
  <2>1. CASE FU!WriteMemoryEnd
    <3>1. /\ fu_frame_addr' = <<fu_frame_addr[1], fu_frame_addr[2] + 1>>
          /\ fu_frame_addr[2] \in 0 .. FrameBursts - 1 /\ fu_frame_addr[1] \in BC!Buffers
      BY <1>1, <2>1, BurstInFrame DEF FU!WriteMemoryEnd
    <3> QED
      BY <3>1, FrameBurstsType
  <2> QED
    BY <1>1, <2>1, FrameBurstsType
    DEF UploaderTick, FU!Tick, FU!StartWait, FU!TakeCommands, FU!WaitCommand,
        FU!CheckCommand, FU!CheckQueue, FU!WriteRow, FU!RowBegin, FU!WriteMemoryWait,
        FU!WriteMemoryWord, FU!WriteCycle, FU!WriteCycleEnd, FU!Done, FU!placeVars
<1>9. fu_write_addr' \in BC!Buffers \X (0 .. FrameBursts - 1)
  <2>1. CASE FU!WriteMemoryWord
    <3>1. /\ fu_write_addr' \in {fu_write_addr, fu_frame_addr}
          /\ fu_frame_addr[2] \in 0 .. FrameBursts - 1
      BY <1>1, <2>1, BurstInFrame DEF FU!WriteMemoryWord
    <3> QED
      BY <1>1, <3>1
  <2> QED
    BY <1>1, <2>1
    DEF UploaderTick, FU!Tick, FU!StartWait, FU!TakeCommands, FU!WaitCommand,
        FU!CheckCommand, FU!CheckQueue, FU!WriteRow, FU!RowBegin, FU!WriteMemoryWait,
        FU!WriteMemoryEnd, FU!WriteCycle, FU!WriteCycleEnd, FU!Done, FU!memoryVars
<1> QED
  BY <1>3, <1>4, <1>5, <1>6, <1>7, <1>8, <1>9, Parameters
  DEF FU!TypeOK, FU!NoCommand, FU!Commands

LEMMA DownloaderType ==
  ASSUME TypeOK, CacheInv, NEW queue_full \in BOOLEAN, Drain(queue_full)
  PROVE  FD!TypeOK'
<1>1. RowPixels \in Nat
  BY BurstPixelsFacts, Parameters
<1>2. /\ fd_state \in FD!States
      /\ fd_row_counter \in 0 .. OutputRows /\ fd_col_counter \in 0 .. RowPixels - 1
      /\ fd_wr_en \in 0 .. 1 /\ fd_queue_data \in FD!Words
      /\ fd_cache_start \in 0 .. 1 /\ fd_row_release \in 0 .. 1 /\ fd_download_done \in 0 .. 1
  BY DEF TypeOK, FD!TypeOK
<1>3. fd_state = "S_ROW_END" => fd_row_counter < OutputRows
  BY DEF CacheInv, Draining
<1>4. fd_state' \in FD!States
  BY <1>2
  DEF FD!States, Drain, FD!Tick, FD!StartWait, FD!Stall, FD!FrameToken, FD!RowWait, FD!RowToken,
      FD!PushPixel, FD!RowEnd, FD!Pass, FD!Done, FD!sequencerVars
<1>5. fd_row_counter' \in 0 .. OutputRows
  BY <1>2, <1>3, Parameters
  DEF Drain, FD!Tick, FD!StartWait, FD!Stall, FD!FrameToken, FD!RowWait, FD!RowToken,
      FD!PushPixel, FD!RowEnd, FD!Pass, FD!Done, FD!sequencerVars
<1>6. fd_col_counter' \in 0 .. RowPixels - 1
  BY <1>1, <1>2
  DEF Drain, FD!Tick, FD!StartWait, FD!Stall, FD!FrameToken, FD!RowWait, FD!RowToken,
      FD!PushPixel, FD!RowEnd, FD!Pass, FD!Done, FD!sequencerVars, FD!last_col
<1>7. /\ fd_wr_en' \in 0 .. 1 /\ fd_queue_data' \in FD!Words
      /\ fd_cache_start' \in 0 .. 1 /\ fd_row_release' \in 0 .. 1 /\ fd_download_done' \in 0 .. 1
  BY <1>2
  DEF Drain, FD!Tick, FD!StartWait, FD!Stall, FD!FrameToken, FD!RowWait, FD!RowToken,
      FD!PushPixel, FD!RowEnd, FD!Pass, FD!Done, FD!Push, FD!NoPush, FD!NoPulse, FD!Words
<1> QED
  BY <1>4, <1>5, <1>6, <1>7 DEF FD!TypeOK

LEMMA CacheType ==
  ASSUME ControlTypeOK, TypeOK, CacheInv, CacheTick, dc_resid' \in 0 .. OutputRows - 1
  PROVE  DC!TypeOK' /\ dc_cur_addr'[1] \in BC!Buffers
<1>1. /\ dc_fstate \in {"F_IDLE", "F_REQ", "F_WAIT", "F_DATA", "F_DONE"}
      /\ dc_read_counter \in 0 .. BURST_CYCLES
      /\ dc_burst_in_row \in 0 .. BurstsPerRow - 1
      /\ dc_rows_fetched \in 0 .. OutputRows
      /\ dc_fill_bank \in 0 .. 1 /\ dc_front_bank \in 0 .. 1
      /\ dc_bank_full \in [0 .. 1 -> 0 .. 1]
      /\ dc_read_rq \in 0 .. 1 /\ dc_mem_rd_en \in 0 .. 1 /\ dc_active \in 0 .. 1
      /\ dc_cur_addr[1] \in BC!Buffers /\ read_base \in BC!Buffers
  BY DEF TypeOK, DC!TypeOK, DC!Banks, ControlTypeOK
<1>2. dc_fstate = "F_DATA" => dc_rows_fetched < OutputRows
  BY DEF CacheInv, Fetching
<1>3. CASE DC!Start(read_base)
  BY <1>1, <1>3, Parameters DEF DC!Start, DC!TypeOK, DC!Banks
<1>4. CASE DC!SwapBanks(fd_row_release = 1) /\ DC!Fetch(DATA_READER_IDX \in grant, rd_data_valid)
  <2>1. /\ dc_fill_bank' \in 0 .. 1 /\ dc_front_bank' \in 0 .. 1
        /\ dc_bank_full' \in [0 .. 1 -> 0 .. 1]
    BY <1>1, <1>4 DEF DC!SwapBanks, DC!Banks
  <2>2. /\ dc_fstate' \in {"F_IDLE", "F_REQ", "F_WAIT", "F_DATA", "F_DONE"}
        /\ dc_read_counter' \in 0 .. BURST_CYCLES
        /\ dc_burst_in_row' \in 0 .. BurstsPerRow - 1
        /\ dc_rows_fetched' \in 0 .. OutputRows
        /\ dc_read_rq' \in 0 .. 1 /\ dc_mem_rd_en' \in 0 .. 1 /\ dc_active' \in 0 .. 1
    BY <1>1, <1>2, <1>4, Parameters
    DEF DC!Fetch, DC!FetchIdle, DC!FetchRequest, DC!FetchWait, DC!FetchWord, DC!FetchNextBurst,
        DC!FetchRowDone, DC!Publishes, DC!FetchDone
  <2>3. dc_cur_addr'[1] = dc_cur_addr[1]
    BY <1>4
    DEF DC!Fetch, DC!FetchIdle, DC!FetchRequest, DC!FetchWait, DC!FetchWord, DC!FetchNextBurst,
        DC!FetchRowDone, DC!FetchDone
  <2> QED
    BY <1>1, <2>1, <2>2, <2>3 DEF DC!TypeOK, DC!Banks
<1> QED
  BY <1>3, <1>4 DEF CacheTick, DC!Tick

LEMMA EnvironmentType ==
  ASSUME TypeOK, Memory, NEW offer \in BOOLEAN, CommandLink(offer)
  PROVE  /\ camera' \in 0 .. SourceRows + 1
         /\ link' \in {FU!NoCommand} \cup FU!Commands
         /\ mem_age' \in 0 .. MaxAge /\ mem_read' \in 0 .. 1
         /\ filled' \in [BC!Buffers -> 0 .. FrameBursts]
<1>1. /\ camera \in 0 .. SourceRows + 1 /\ link \in {FU!NoCommand} \cup FU!Commands
      /\ mem_age \in 0 .. MaxAge /\ mem_read \in 0 .. 1
      /\ filled \in [BC!Buffers -> 0 .. FrameBursts]
      /\ fu_write_addr \in BC!Buffers \X (0 .. FrameBursts - 1)
      /\ fu_mem_wr_en \in 0 .. 1
  BY DEF TypeOK, FU!TypeOK
<1>2. \A n \in 0 .. SourceRows + 1 :
        StreamNext(n) \in 0 .. SourceRows + 1 /\ StreamWord(n) \in FU!Commands
  BY Parameters DEF StreamNext, StreamWord, FU!Commands, FU!FrameStart, FU!RowStart, FU!FrameEnd
<1>3. camera' \in 0 .. SourceRows + 1
  BY <1>1, <1>2 DEF CommandLink
<1>4. link' \in {FU!NoCommand} \cup FU!Commands
  BY <1>1, <1>2 DEF CommandLink
<1>5. mem_age' \in 0 .. MaxAge /\ mem_read' \in 0 .. 1
  BY <1>1, Parameters DEF Memory
<1>6. fu_write_addr[2] + 1 \in 0 .. FrameBursts
  BY <1>1, FrameBurstsType
<1>7. filled' \in [BC!Buffers -> 0 .. FrameBursts]
  BY <1>1, <1>6 DEF Memory
<1> QED
  BY <1>3, <1>4, <1>5, <1>7

-----------------------------------------------------------------------------
\* The inductive invariant.

LEMMA FrameBufferInit == Init => FrameBufferInv
<1>1. Init => ControlInv
  BY TypeInit, LockInit, TableInit DEF Init, ControlInv
<1> QED
  BY <1>1, FrameBufferTypeInit, BusInit, PlaceInit, FillInit, HandshakeInit, CacheInit, ScalerInit,
     SpacingInit
  DEF FrameBufferInv

LEMMA FrameBufferTypeStep ==
  ASSUME FrameBufferInv, ControlTypeOK', dc_resid' \in 0 .. OutputRows - 1, [Next]_vars
  PROVE  TypeOK'
<1>1. ControlTypeOK /\ TypeOK /\ PlaceInv /\ CacheInv
  BY DEF FrameBufferInv, ControlInv
<1>2. CASE UNCHANGED vars
  BY <1>1, <1>2
  DEF vars, controlVars, fuVars, fdVars, dcVars, envVars, TypeOK, FU!TypeOK, FD!TypeOK, DC!TypeOK
<1>3. CASE Next
  <2>1. UploaderTick /\ CacheTick /\ Memory
    BY <1>3, StepParts
  <2>2. FD!TypeOK'
    BY <1>1, <1>3, StepParts, DownloaderType
  <2>3. /\ camera' \in 0 .. SourceRows + 1
        /\ link' \in {FU!NoCommand} \cup FU!Commands
        /\ mem_age' \in 0 .. MaxAge /\ mem_read' \in 0 .. 1
        /\ filled' \in [BC!Buffers -> 0 .. FrameBursts]
    BY <1>1, <1>3, StepParts, EnvironmentType
  <2> QED
    BY <1>1, <2>1, <2>2, <2>3, UploaderType, CacheType DEF TypeOK
<1> QED
  BY <1>2, <1>3

LEMMA FrameBufferStep == FrameBufferInv /\ [Next]_vars => FrameBufferInv'
<1> SUFFICES ASSUME FrameBufferInv, [Next]_vars PROVE FrameBufferInv'
  OBVIOUS
<1>1. [ControlNext]_controlVars
  BY ControlStep
<1>2. ControlInv /\ ControlTypeOK /\ TypeOK
  BY DEF FrameBufferInv, ControlInv
<1>3. ControlInv'
  BY <1>1, <1>2, TypeStep, LockStep, TableStep DEF ControlInv
<1>4. ScalerInv' /\ dc_resid' \in 0 .. OutputRows - 1
  BY <1>2, ScalerStep DEF FrameBufferInv
<1>5. TypeOK'
  BY <1>3, <1>4, FrameBufferTypeStep DEF ControlInv
<1>6. BusInv' /\ PlaceInv' /\ FillInv' /\ HandshakeInv' /\ CacheInv' /\ SpacingInv'
  BY <1>2, BusStep, PlaceStep, FillStep, HandshakeStep, CacheStep, SpacingStep DEF FrameBufferInv
<1> QED
  BY <1>3, <1>4, <1>5, <1>6 DEF FrameBufferInv

LEMMA FrameBufferInvariant == Spec => []FrameBufferInv
  BY FrameBufferInit, FrameBufferStep, PTL DEF Spec

-----------------------------------------------------------------------------
(***************************************************************************)
(* Every register of video_controller, of its two machines and of the row  *)
(* cache stays in its range, for any geometry and timing.                  *)
(***************************************************************************)
THEOREM FrameBufferTyped == Spec => []TypeOK
<1>1. FrameBufferInv => TypeOK
  BY DEF FrameBufferInv
<1> QED
  BY <1>1, FrameBufferInvariant, PTL

(***************************************************************************)
(* The write and the read command are never on the memory bus together,    *)
(* and each goes out only under the grant of its own side.                 *)
(***************************************************************************)
THEOREM Granted == Spec => []CommandsGranted
<1>1. ASSUME FrameBufferInv PROVE CommandsGranted
  <2>1. TypeOK /\ BusInv /\ CacheInv
    BY <1>1 DEF FrameBufferInv
  <2> QED
    BY <2>1, OneOnBus DEF CommandsGranted, BusInv, HoldsBus
<1> QED
  BY <1>1, FrameBufferInvariant, PTL

(***************************************************************************)
(* Two commands are never closer than TCMD cycles, although only the       *)
(* uploader counts the distance out: for the cache it follows from the     *)
(* burst it waits for and the cycles the arbiter takes.                    *)
(***************************************************************************)
THEOREM Spaced == Spec => []CommandSpacing
<1>1. ASSUME FrameBufferInv PROVE CommandSpacing
  <2>1. TypeOK /\ BusInv /\ CacheInv /\ SpacingInv
    BY <1>1 DEF FrameBufferInv
  <2>2. mem_age \in 0 .. MaxAge /\ fu_write_cyc_counter \in Nat
    BY <2>1, Parameters DEF TypeOK, FU!TypeOK
  <2>3. fu_mem_wr_en = 1 => mem_age >= TCMD
    BY <2>1, <2>2, Parameters DEF BusInv, SpacingInv, WriteSpacing
  <2>4. dc_mem_rd_en = 1 => mem_age >= TCMD
    BY <2>1 DEF BusInv, SpacingInv, ReadSpacing
  <2> QED
    BY <2>3, <2>4 DEF CommandSpacing, cmd_en
<1> QED
  BY <1>1, FrameBufferInvariant, PTL

\* While the cache fetches a frame, no upload is in the buffer it reads.
LEMMA ReadBufferLeftAlone ==
  ASSUME FrameBufferInv, dc_active = 1
  PROVE  /\ dc_cur_addr[1] = read_base
         /\ Uploading => fu_frame_addr[1] # dc_cur_addr[1]
<1>1. /\ ControlInv /\ TypeOK /\ HandshakeInv /\ CacheInv
  BY DEF FrameBufferInv
<1>2. dc_cur_addr[1] = read_base /\ fd_state # "S_START_WAIT"
  BY <1>1 DEF CacheInv
<1>3. downloading_state = "FRAME_DONE_WAIT"
  BY <1>1, <1>2 DEF HandshakeInv
<1>4. Uploading => uploading_state = "FRAME_DONE_WAIT" /\ fu_frame_addr[1] = write_base
  BY <1>1 DEF HandshakeInv
<1>5. NoTearing
  BY <1>1
  DEF ControlInv, ControlTypeOK, BC!TypeOK, TableInv, WriteInv, ReadInv, Marks, NoTearing, Holding
<1> QED
  BY <1>2, <1>3, <1>4, <1>5 DEF NoTearing, Processing

(***************************************************************************)
(* A read command addresses only a buffer of which every burst has been    *)
(* written since its upload began.                                         *)
(***************************************************************************)
THEOREM CompleteFrames == Spec => []ReadsComplete
<1>1. ASSUME FrameBufferInv, dc_mem_rd_en = 1
      PROVE  filled[dc_cur_addr[1]] = FrameBursts
  <2>1. TypeOK /\ FillInv /\ BusInv /\ CacheInv
    BY <1>1 DEF FrameBufferInv
  <2>2. dc_active = 1
    BY <1>1, <2>1 DEF BusInv, CacheInv, Fetching
  <2>3. dc_cur_addr[1] \in BC!Buffers
    BY <2>1 DEF TypeOK
  <2> QED
    BY <1>1, <2>1, <2>2, <2>3, ReadBufferLeftAlone DEF FillInv
<1>2. FrameBufferInv => ReadsComplete
  BY <1>1 DEF ReadsComplete
<1> QED
  BY <1>2, FrameBufferInvariant, PTL

(***************************************************************************)
(* From the seeding of the cache to the end of the frame no write command  *)
(* addresses the buffer being shown.                                       *)
(***************************************************************************)
THEOREM ShownUntouched == Spec => []ShownNotWritten
<1>1. ASSUME FrameBufferInv, dc_active = 1, fu_mem_wr_en = 1
      PROVE  fu_write_addr[1] # dc_cur_addr[1]
  <2>1. FillInv /\ BusInv
    BY <1>1 DEF FrameBufferInv
  <2>2. fu_write_addr = fu_frame_addr /\ Uploading
    BY <1>1, <2>1 DEF FillInv, BusInv, Uploading
  <2> QED
    BY <1>1, <2>2, ReadBufferLeftAlone
<1>2. FrameBufferInv => ShownNotWritten
  BY <1>1 DEF ShownNotWritten
<1> QED
  BY <1>2, FrameBufferInvariant, PTL

LEMMA BurstModulo ==
  /\ \A n \in 0 .. FrameBursts - 1 : n % FrameBursts = n
  /\ FrameBursts % FrameBursts = 0
  BY FrameBurstsType

(***************************************************************************)
(* The uploader writes the bursts of a buffer in order from the first to   *)
(* the last, and the vertical scaler never steps past the last camera row. *)
(***************************************************************************)
THEOREM StaysInFrame == Spec => []InFrame
<1>1. ASSUME FrameBufferInv, fu_mem_wr_en = 1
      PROVE  fu_write_addr[2] = filled[fu_write_addr[1]] % FrameBursts
  <2>1. TypeOK /\ PlaceInv /\ FillInv /\ BusInv
    BY <1>1 DEF FrameBufferInv
  <2>2. /\ fu_write_addr = fu_frame_addr /\ fu_state = "WRITE_MEMORY"
        /\ fu_write_cyc_counter = FU!CACHE_DELAY + 1
    BY <1>1, <2>1 DEF FillInv, BusInv
  <2>3. fu_frame_addr[2] \in 0 .. FrameBursts - 1
    BY <2>1, <2>2, BurstInFrame
  <2>4. filled[fu_frame_addr[1]] = FilledUpTo(fu_frame_addr[2])
    BY <2>1, <2>2, Parameters DEF FillInv, Uploading
  <2>5. FilledUpTo(fu_frame_addr[2]) % FrameBursts = fu_frame_addr[2]
    BY <2>3, BurstModulo DEF FilledUpTo
  <2> QED
    BY <2>2, <2>4, <2>5
<1>2. ASSUME FrameBufferInv, dc_mem_rd_en = 1
      PROVE  dc_cur_addr[2] < SourceRows /\ dc_cur_addr[3] < BurstsPerRow
  <2>1. TypeOK /\ BusInv /\ CacheInv /\ ScalerInv
    BY <1>2 DEF FrameBufferInv
  <2>2. Fetching /\ dc_rows_fetched < OutputRows /\ dc_cur_addr[3] = dc_burst_in_row
    BY <1>2, <2>1 DEF BusInv, CacheInv, Fetching
  <2>3. dc_cur_addr[2] < SourceRows
    BY <2>1, <2>2, ScalerBound
  <2>4. dc_burst_in_row \in 0 .. BurstsPerRow - 1
    BY <2>1 DEF TypeOK, DC!TypeOK
  <2> QED
    BY <2>2, <2>3, <2>4, Parameters
<1>3. FrameBufferInv => InFrame
  BY <1>1, <1>2 DEF InFrame
<1> QED
  BY <1>3, FrameBufferInvariant, PTL

(***************************************************************************)
(* The bank being drained is full, is not the one being filled, and holds  *)
(* the row whose turn it is.                                               *)
(***************************************************************************)
THEOREM BanksApart == Spec => []BankExclusion
<1>1. ASSUME FrameBufferInv, Draining
      PROVE  /\ Full(dc_front_bank) = 1
             /\ dc_fstate \in {"F_REQ", "F_WAIT", "F_DATA"} => dc_fill_bank # dc_front_bank
             /\ dc_rows_fetched - (Full(0) + Full(1)) = fd_row_counter
  <2>1. TypeOK /\ CacheInv
    BY <1>1 DEF FrameBufferInv
  <2>2. fd_cache_start = 0 /\ fd_row_release = 0
    BY <1>1, <2>1 DEF CacheInv, Draining, TypeOK, FD!TypeOK
  <2>3. dc_rows_fetched = FullBanks + fd_row_counter
    <3>1. dc_rows_fetched + fd_row_release = FullBanks + fd_row_counter
      BY <2>1, <2>2 DEF CacheInv
    <3>2. dc_rows_fetched \in Nat
      BY <2>1, Parameters DEF TypeOK, DC!TypeOK
    <3> QED
      BY <2>2, <3>1, <3>2
  <2>4. Full(0) \in 0 .. 1 /\ Full(1) \in 0 .. 1 /\ fd_row_counter \in Nat
    BY <2>1, Parameters DEF TypeOK, DC!TypeOK, DC!Banks, FD!TypeOK, Full
  <2>5. dc_rows_fetched - (Full(0) + Full(1)) = fd_row_counter
    BY <2>3, <2>4 DEF FullBanks
  <2> QED
    BY <1>1, <2>1, <2>5 DEF CacheInv, Fetching
<1>2. FrameBufferInv => BankExclusion
  BY <1>1 DEF BankExclusion
<1> QED
  BY <1>2, FrameBufferInvariant, PTL

(***************************************************************************)
(* The buffer table under the real uploader and downloader is still the    *)
(* ring of buffers FrameRing specifies: whatever FrameControl's steps are  *)
(* proved to do, the steps of the frame buffer do.                         *)
(***************************************************************************)
THEOREM FrameBufferIsRing == Spec => ImplementsRing
<1>1. Init => ControlInit
  BY DEF Init
<1>2. Spec => ControlSpec
  BY <1>1, ControlStep, PTL DEF Spec, ControlSpec
<1> QED
  BY <1>2, RingImplemented, PTL
=============================================================================
