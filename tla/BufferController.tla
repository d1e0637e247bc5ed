-------------------------- MODULE BufferController --------------------------
(***************************************************************************)
(* src/BufferController.sv: the table of frame buffers and the two small   *)
(* state machines that pick a buffer for the camera (write side) and for   *)
(* the display (read side).  One clock edge is Clock(...), with the levels *)
(* of the four request inputs as arguments; signals are 0 or 1.            *)
(***************************************************************************)
EXTENDS Naturals

CONSTANT NUM_BUFFERS

VARIABLES
  buffer_states,
  buffer_read_ptr,
  buffer_write_ptr,
  buffer_write_prev_ptr,  \* the last buffer whose frame is complete
  write_state,
  read_state,
  buffer_id_valid,        \* both are shared by the two sides
  buffer_id

Buffers == 0 .. NUM_BUFFERS - 1

BufferStates == {"AVAILABLE", "UPDATED", "DISPLAYED", "READ_BUSY", "WRITE_BUSY"}

WriteStates == {"WRITE_IDLE", "CHECK_STEP", "WRITE_SELECT"}

ReadStates == {"READ_IDLE", "READ_CHECK_STEP", "READ_SELECT", "READ_NEXT"}

\* Mutant: the ring wraps one buffer early.
get_nextShort(current_pos) ==
  IF current_pos = NUM_BUFFERS - 2 THEN 0 ELSE current_pos + 1

get_next(current_pos) ==
  IF current_pos = NUM_BUFFERS - 1 THEN 0 ELSE current_pos + 1

Reset ==
  /\ buffer_states = [b \in Buffers |-> "AVAILABLE"]
  /\ buffer_read_ptr = 0
  /\ buffer_write_ptr = 0
  /\ buffer_write_prev_ptr = 0
  /\ write_state = "WRITE_IDLE"
  /\ read_state = "READ_IDLE"
  /\ buffer_id_valid = 0
  /\ buffer_id = 0

-----------------------------------------------------------------------------
\* The events that touch the table, decided on the values before the edge.

\* Mutant: the write side is not released while the display holds a buffer.
WriteReleasesAlone(finalize_wr) ==
  finalize_wr = 1 /\ write_state = "WRITE_SELECT" /\ read_state # "READ_SELECT"

WriteReleases(finalize_wr) == finalize_wr = 1 /\ write_state = "WRITE_SELECT"

\* Mutant: the write side does not look at the state of the buffer.
WriteTakesAny(write_rq_rdy, finalize_wr) ==
  finalize_wr = 0 /\ write_rq_rdy = 1 /\ write_state = "CHECK_STEP"

WriteTakes(write_rq_rdy, finalize_wr) ==
  /\ finalize_wr = 0
  /\ write_rq_rdy = 1
  /\ write_state = "CHECK_STEP"
  /\ buffer_states[buffer_write_ptr] # "READ_BUSY"

ReadReleases(finalize_rd) == finalize_rd = 1 /\ read_state = "READ_SELECT"

ReadTakes(read_rq_rdy, finalize_rd) ==
  /\ finalize_rd = 0
  /\ read_rq_rdy = 1
  /\ read_state = "READ_CHECK_STEP"
  /\ buffer_states[buffer_read_ptr] # "WRITE_BUSY"

\* Both sides write the table in the same edge; on a tie the read side, which
\* comes last in the block, wins.
Table(write_rq_rdy, finalize_wr, read_rq_rdy, finalize_rd) ==
  /\ buffer_states' = [b \in Buffers |->
       IF b = buffer_read_ptr /\ ReadReleases(finalize_rd) THEN "DISPLAYED"
       ELSE IF b = buffer_read_ptr /\ ReadTakes(read_rq_rdy, finalize_rd) THEN "READ_BUSY"
       ELSE IF b = buffer_write_ptr /\ WriteReleases(finalize_wr) THEN "UPDATED"
       ELSE IF b = buffer_write_ptr /\ WriteTakes(write_rq_rdy, finalize_wr) THEN "WRITE_BUSY"
       ELSE buffer_states[b]]
  /\ buffer_id' =
       IF ReadTakes(read_rq_rdy, finalize_rd) THEN buffer_read_ptr
       ELSE IF WriteTakes(write_rq_rdy, finalize_wr) THEN buffer_write_ptr
       ELSE buffer_id

-----------------------------------------------------------------------------
\* Write side: step to the next buffer, skip the one on display, hold.

WriteRelease(finalize_wr) ==
  /\ WriteReleases(finalize_wr)
  /\ write_state' = "WRITE_IDLE"
  /\ buffer_write_prev_ptr' = buffer_write_ptr
  /\ UNCHANGED buffer_write_ptr

WriteAdvance(write_rq_rdy, finalize_wr) ==
  /\ finalize_wr = 0 /\ write_rq_rdy = 1
  /\ write_state = "WRITE_IDLE"
  /\ write_state' = "CHECK_STEP"
  /\ buffer_write_ptr' = get_next(buffer_write_ptr)
  /\ UNCHANGED buffer_write_prev_ptr

WriteCheck(write_rq_rdy, finalize_wr) ==
  /\ finalize_wr = 0 /\ write_rq_rdy = 1
  /\ write_state = "CHECK_STEP"
  /\ write_state' = IF WriteTakes(write_rq_rdy, finalize_wr) THEN "WRITE_SELECT" ELSE "WRITE_IDLE"
  /\ UNCHANGED <<buffer_write_ptr, buffer_write_prev_ptr>>

WriteHold(write_rq_rdy, finalize_wr) ==
  /\ \/ write_state = "WRITE_SELECT" /\ ~WriteReleases(finalize_wr)
     \/ write_state # "WRITE_SELECT" /\ (finalize_wr = 1 \/ write_rq_rdy = 0)
  /\ UNCHANGED <<write_state, buffer_write_ptr, buffer_write_prev_ptr>>

\* Read side: start at the last complete frame, walk on while it is being
\* written, hold.

ReadRelease(finalize_rd) ==
  /\ ReadReleases(finalize_rd)
  /\ read_state' = "READ_IDLE"
  /\ UNCHANGED buffer_read_ptr

\* Mutant: the display goes on to the next buffer of the ring.
ReadStartNext(read_rq_rdy, finalize_rd) ==
  /\ finalize_rd = 0 /\ read_rq_rdy = 1
  /\ read_state = "READ_IDLE"
  /\ read_state' = "READ_CHECK_STEP"
  /\ buffer_read_ptr' = get_next(buffer_read_ptr)

ReadStart(read_rq_rdy, finalize_rd) ==
  /\ finalize_rd = 0 /\ read_rq_rdy = 1
  /\ read_state = "READ_IDLE"
  /\ read_state' = "READ_CHECK_STEP"
  /\ buffer_read_ptr' = buffer_write_prev_ptr

ReadCheck(read_rq_rdy, finalize_rd) ==
  /\ finalize_rd = 0 /\ read_rq_rdy = 1
  /\ read_state = "READ_CHECK_STEP"
  /\ read_state' = IF ReadTakes(read_rq_rdy, finalize_rd) THEN "READ_SELECT" ELSE "READ_NEXT"
  /\ UNCHANGED buffer_read_ptr

ReadAdvance(read_rq_rdy, finalize_rd) ==
  /\ finalize_rd = 0 /\ read_rq_rdy = 1
  /\ read_state = "READ_NEXT"
  /\ read_state' = "READ_CHECK_STEP"
  /\ buffer_read_ptr' = get_next(buffer_read_ptr)

ReadHold(read_rq_rdy, finalize_rd) ==
  /\ \/ read_state = "READ_SELECT" /\ ~ReadReleases(finalize_rd)
     \/ read_state # "READ_SELECT" /\ (finalize_rd = 1 \/ read_rq_rdy = 0)
  /\ UNCHANGED <<read_state, buffer_read_ptr>>

-----------------------------------------------------------------------------

WriteSide(write_rq_rdy, finalize_wr) ==
  \/ WriteRelease(finalize_wr)
  \/ WriteAdvance(write_rq_rdy, finalize_wr)
  \/ WriteCheck(write_rq_rdy, finalize_wr)
  \/ WriteHold(write_rq_rdy, finalize_wr)

ReadSide(read_rq_rdy, finalize_rd) ==
  \/ ReadRelease(finalize_rd)
  \/ ReadStart(read_rq_rdy, finalize_rd)
  \/ ReadCheck(read_rq_rdy, finalize_rd)
  \/ ReadAdvance(read_rq_rdy, finalize_rd)
  \/ ReadHold(read_rq_rdy, finalize_rd)

\* Mutant: the answer does not ask who holds the buffer.
AnswerEarly(write_rq_rdy, read_rq_rdy) ==
  buffer_id_valid' = IF write_rq_rdy = 1 \/ read_rq_rdy = 1 THEN 1 ELSE 0

\* The answer is valid one edge after either side holds a buffer and asks.
Answer(write_rq_rdy, read_rq_rdy) ==
  buffer_id_valid' =
    IF \/ write_state = "WRITE_SELECT" /\ write_rq_rdy = 1
       \/ read_state = "READ_SELECT" /\ read_rq_rdy = 1
    THEN 1 ELSE 0

Clock(write_rq_rdy, finalize_wr, read_rq_rdy, finalize_rd) ==
  /\ Answer(write_rq_rdy, read_rq_rdy)
  /\ WriteSide(write_rq_rdy, finalize_wr)
  /\ ReadSide(read_rq_rdy, finalize_rd)
  /\ Table(write_rq_rdy, finalize_wr, read_rq_rdy, finalize_rd)

TypeOK ==
  /\ buffer_states \in [Buffers -> BufferStates]
  /\ buffer_read_ptr \in Buffers
  /\ buffer_write_ptr \in Buffers
  /\ buffer_write_prev_ptr \in Buffers
  /\ write_state \in WriteStates
  /\ read_state \in ReadStates
  /\ buffer_id_valid \in 0 .. 1
  /\ buffer_id \in Buffers

=============================================================================
