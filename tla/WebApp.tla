------------------------------- MODULE WebApp -------------------------------
(***************************************************************************)
(* webapp/app.py: the threads that serve the page, one request each, the   *)
(* bus lock that serialises their use of the one serial connection, and    *)
(* the grab's progress record, which has a lock of its own.                *)
(*                                                                         *)
(* A request is a record with the name of its route.  Under the lock it    *)
(* runs its program of line operations, one at a time; the board, the      *)
(* cable and the other threads move in between.  An operation may be       *)
(* answered, answered after it was sent again, not answered, or refused.   *)
(*                                                                         *)
(* `seen' is not in the program: it is what a user who has only the        *)
(* answers knows of the device: <<>> is "nothing", <<v>> is v.  `strays'   *)
(* is not in it either, nor is what a thread's record holds after res.     *)
(***************************************************************************)
EXTENDS ModbusClient

CONSTANTS Threads, NoThread, NoClient,
          Sessions,   \* [may |-> requests that users make together, asks |-> how many]
          Boards,     \* does its memory calibrate, has it a SERV core
          MaxFaults   \* lost answers, stalls of the camera, unplugged cables

ASSUME LockAssumption == NoThread \notin Threads
ASSUME ClientAssumption == NoClient \notin Nat

VARIABLES board,      \* see Device
          port,       \* the serial port exists
          handles,    \* open serial connections
          live,       \* those whose port has been there since
          client,     \* _client
          lock,       \* _lock: the thread that holds it
          thread, progress, seen,
          strays,     \* connections a grab let go of although they were open or in use
          session, asks, faults

vars == <<board, port, handles, live, client, lock, thread, progress, seen, strays, session, asks, faults>>

-----------------------------------------------------------------------------
(* The routes as programs *)

_read_snapshot == [i \in DOMAIN needed_registers |-> ReadReg(needed_registers[i])]

\* Mutant: the neighbours are not read.
SetBitsAlone(cur, mask, on) == IF on THEN mask ELSE {}

SetBits(cur, mask, on) == IF on THEN cur \cup mask ELSE cur \ mask

\* Read, modify, write and read back; the first answer is number i.
ReadModifyWrite(reg, mask, on, got, i) ==
  <<ReadReg(reg), WriteSingle(reg, SetBits(Answer(got, i), mask, on)), ReadReg(reg)>>

_apply_control(c, v, got) ==
  CASE c.type = "byte" -> <<WriteSingle(c.reg, v), ReadReg(c.reg)>>
    [] c.type = "bit"  -> ReadModifyWrite(c.reg, c.mask, v, got, 1)
    [] c.type = "gamma" ->
         LET order == Tail(gamma_register_addrs) \o <<SLOP_REG>>
         IN  [i \in DOMAIN order |-> WriteSingle(order[i], gamma_registers[v][order[i]])]
               \o <<ReadReg(c.sample_reg)>>
    [] c.type = "pattern" ->
         IF v \notin DOMAIN PATTERN_OPTIONS THEN <<Raise>>
         ELSE ReadModifyWrite(PATTERN_REGS[1], {7}, PATTERN_OPTIONS[v].xsc, got, 1)
                \o ReadModifyWrite(PATTERN_REGS[2], {7}, PATTERN_OPTIONS[v].ysc, got, 4)

_matrix_payload == [i \in 1..7 |-> ReadReg(Append(MTX_REGS, MTXS_REG)[i])]

Magnitude(v) == Bits(Min({255, IF v < 0 THEN -v ELSE v}))

\* Coefficient, then its bit in the shared register of signs.
api_matrix_coeff(q, got) ==
  <<WriteSingle(MTX_REGS[q.index + 1], Magnitude(q.value)), ReadReg(MTXS_REG),
    WriteSingle(MTXS_REG, SetBits(Answer(got, 2), {q.index}, q.value < 0))>>
    \o _matrix_payload

PostLines(q) == FlattenSeq([i \in 1..Min({Len(q.lines), OSD_ROWS}) |-> osd_write_text(i - 1, 0, q.lines[i])])
PostText(q) == IF q.text # <<>> THEN osd_write_text(q.row, q.col, q.text[1]) ELSE <<>>
PostEnabled(q) == IF q.enabled # <<>> THEN osd_set_enabled(q.enabled[1]) ELSE <<>>

\* Mutant: in the order of the route's docstring.
PostTextFirst(q) ==
  (IF q.clear THEN osd_clear ELSE <<>>) \o PostText(q) \o PostLines(q) \o PostEnabled(q) \o osd_enabled

\* Each part only if it is given; a text that is given may be empty.
api_osd_post(q) ==
  (IF q.clear THEN osd_clear ELSE <<>>) \o PostLines(q) \o PostText(q) \o PostEnabled(q) \o osd_enabled

api_health == <<ReadReg(\hF0), ReadHolding(\hF1, 2)>> \o read_health
api_connect == <<ReadReg(\h0A)>>
api_disconnect == <<>>
api_settings == _read_snapshot
api_control(q, got) == _apply_control(CONTROLS[q.id], q.value, got)
api_gamma_device == [i \in DOMAIN gamma_register_addrs |-> ReadReg(gamma_register_addrs[i])]
api_matrix == _matrix_payload
api_matrix_contrast_center(q, got) ==
  SubSeq(ReadModifyWrite(MTXS_REG, MTXS_AUTO_CONTRAST, q.value, got, 1), 1, 2) \o _matrix_payload
api_grab == grab_frame
api_dump == dump_registers
api_reset_defaults == reset_to_defaults
api_serv_upload(q) == serv_boot_load(q.words)
api_serv_reset == serv_mcu_reset
api_state == <<>>
api_osd_get == osd_enabled \o osd_read_text
api_raw_get(q) == <<ReadHolding(q.addr, q.count)>>
api_raw_post(q) == <<WriteSingle(q.addr, q.value), ReadReg(q.addr)>>

Program(q, got) ==
  CASE q.route = "health"       -> api_health
    [] q.route = "connect"      -> api_connect
    [] q.route = "disconnect"   -> api_disconnect
    [] q.route = "settings"     -> api_settings
    [] q.route = "control"      -> api_control(q, got)
    [] q.route = "gamma_device" -> api_gamma_device
    [] q.route = "matrix"       -> api_matrix
    [] q.route = "coeff"        -> api_matrix_coeff(q, got)
    [] q.route = "center"       -> api_matrix_contrast_center(q, got)
    [] q.route = "grab"         -> api_grab
    [] q.route = "dump"         -> api_dump
    [] q.route = "reset_defaults" -> api_reset_defaults
    [] q.route = "upload"       -> api_serv_upload(q)
    [] q.route = "serv_reset"   -> api_serv_reset
    [] q.route = "osd"          -> api_osd_get
    [] q.route = "osd_post"     -> api_osd_post(q)
    [] q.route = "raw"          -> api_raw_get(q)
    [] q.route = "raw_post"     -> api_raw_post(q)
    [] q.route = "state"        -> api_state

\* Requests that are refused before they ask for the lock.
Refused(q) ==
  CASE q.route = "control" -> q.id \notin DOMAIN CONTROLS
    [] q.route = "coeff"   -> q.index \notin 0..Len(MTX_REGS)-1
    [] q.route = "upload"  -> 2 * Len(q.words) \notin 1..OverlayLimit
    [] OTHER -> FALSE

-----------------------------------------------------------------------------
(* What app.py takes a request apart into; write_reg sends one byte, which
   is a cell of the overlay wherever that is 256 cells or more.  Left out are
   two raw accesses that the page does not make: a read of the pixel stream,
   which the board holds back while its engine works, and a write to the grab's
   register of anything but its two requests (3 writes to the memory).      *)

Routes == {"health", "connect", "disconnect", "settings", "control", "gamma_device", "matrix", "coeff",
           "center", "grab", "dump", "reset_defaults", "upload", "serv_reset", "osd", "osd_post", "raw",
           "raw_post", "state"}
Ids == DOMAIN CONTROLS
Values(c) == CASE c.type = "byte"  -> SUBSET (0..7)
               [] c.type = "bit"   -> BOOLEAN
               [] c.type = "gamma" -> Exponents
               [] OTHER            -> STRING
Typed(q) ==
  /\ q.route \in Routes
  /\ CASE q.route = "control"  -> q.id \in Ids => q.value \in Values(CONTROLS[q.id])
       [] q.route = "coeff"    -> q.value \in Int
       [] q.route = "center"   -> q.value \in BOOLEAN
       [] q.route = "upload"   -> q.words \in Seq(Nat)
       [] q.route = "osd_post" -> /\ q.clear \in BOOLEAN /\ q.enabled \in {<<>>, <<TRUE>>, <<FALSE>>}
                                  /\ q.row \in Int /\ q.col \in Int
                                  /\ q.text # <<>> => q.text = <<q.text[1]>> /\ q.text[1] \in Seq(Chars)
                                  /\ q.lines \in Seq(Seq(Chars))
       [] q.route = "raw"      -> q.addr + q.count <= STREAM_BASE \/ q.addr >= MODBUS_ADDR_LIMIT
       [] q.route = "raw_post" -> /\ q.addr \in Nat
                                  /\ q.addr = REG_GRAB => q.value \in 0..2
                                  /\ q.addr \in CamRegs => q.value \subseteq 0..7
                                  /\ q.addr = REG_OSD_ADDR => q.value \in 0..OSD_CELLS-1
       [] OTHER -> TRUE

ASSUME RequestAssumption == \A s \in Sessions : \A q \in s.may : Typed(q)

\* The page's slider gets back the exponent it sent within one of its steps:
\* the code's curves do so for every exponent from 0.30 to 2.50.
SliderStep == 5
ASSUME CurveAssumption ==
  \A g \in Exponents : estimate_gamma(gamma_registers[g]) - g \in 1-SliderStep..SliderStep-1

-----------------------------------------------------------------------------
(* What a user knows of the device *)

Coeffs == 0..Len(MTX_REGS)-1
NotKnown == [control |-> [id \in Ids |-> <<>>], coeff |-> [i \in Coeffs |-> <<>>],
             center |-> <<>>, cells |-> <<>>, on |-> <<>>]

\* What a write to register a can change; a new initialisation changes all of
\* the camera's.
Poked(s, a) ==
  [control |-> [id \in Ids |-> IF a \in RegsOf(CONTROLS[id]) \cup {REG_REINIT} THEN <<>> ELSE s.control[id]],
   coeff   |-> [i \in Coeffs |-> IF a \in {MTX_REGS[i+1], MTXS_REG, REG_REINIT} THEN <<>> ELSE s.coeff[i]],
   center  |-> IF a \in {MTXS_REG, REG_REINIT} THEN <<>> ELSE s.center,
   cells   |-> IF a \in {REG_OSD_CTRL, REG_OSD_DATA} THEN <<>> ELSE s.cells,
   on      |-> IF a = REG_OSD_CTRL THEN <<>> ELSE s.on]

\* A request that failed may have changed what it was to change.
Doubt(s, q) ==
  CASE q.route = "control"  -> [s EXCEPT !.control[q.id] = <<>>]
    [] q.route = "coeff"    -> [s EXCEPT !.coeff[q.index] = <<>>]
    [] q.route = "center"   -> [s EXCEPT !.center = <<>>]
    [] q.route = "raw_post" -> Poked(s, q.addr)
    [] q.route \in {"osd_post", "upload"} -> [s EXCEPT !.cells = <<>>, !.on = <<>>]
    [] q.route = "reset_defaults" -> Poked(s, REG_REINIT)
    [] OTHER -> s

Blank == <<"latin", 32>>
Written(cells, piece) ==
  [i \in DOMAIN cells |->
     LET here == {k \in DOMAIN piece.text : (piece.at + k - 1) % OSD_CELLS = i}
     IN  IF here = {} THEN cells[i] ELSE piece.text[Max(here)]]
\* The first n lines, each in its row from the first column.
Lined(cells, lines, n) ==
  LET Upto[i \in 0..n] == IF i = 0 THEN cells
                          ELSE Written(Upto[i-1], [at |-> (i - 1) * OSD_COLS, text |-> lines[i]])
  IN  Upto[n]
\* The text lies over the lines, whatever order the route's docstring gives.
Posted(s, q) ==
  LET base == IF q.clear THEN <<[i \in 0..OSD_CELLS-1 |-> Blank]>> ELSE s.cells
      page == Lined(base[1], q.lines, Min({Len(q.lines), OSD_ROWS}))
  IN  IF base = <<>> THEN <<>>
      ELSE IF q.text = <<>> THEN <<page>>
      ELSE <<Written(page, [at |-> q.row * OSD_COLS + q.col, text |-> q.text[1]])>>

\* What an answer adds; an overlay write that was sent twice may be there twice,
\* and clearing also hides the overlay.
Learn(s, q, twice) ==
  CASE q.route = "control" -> [s EXCEPT !.control[q.id] = <<q.value>>]
    [] q.route = "coeff"   -> [s EXCEPT !.coeff[q.index] = <<Max({-255, Min({255, q.value})})>>]
    [] q.route = "center"  -> [s EXCEPT !.center = <<q.value>>]
    [] q.route = "osd_post" ->
         [s EXCEPT !.cells = IF twice THEN <<>> ELSE Posted(s, q),
                   !.on = IF q.enabled # <<>> THEN q.enabled ELSE IF q.clear THEN <<>> ELSE @]
    [] OTHER -> Doubt(s, q)

-----------------------------------------------------------------------------
\* The operation after the answers got, or the end of the program.
End == [Raise EXCEPT !.fn = "end"]
OpAfter(q, got) == LET body == Program(q, got)
                   IN  IF Len(got) < Len(body) THEN body[Len(got) + 1] ELSE End

Idle == [at |-> "idle", q |-> [route |-> "none"], conn |-> NoClient, op |-> End, got |-> <<>>, res |-> "none",
         since |-> 0, odd |-> {}, asked |-> FRAME_PIXELS]

Grabbing(t) == thread[t].at # "idle" /\ thread[t].q.route = "grab"

Init ==
  /\ \E b \in Boards : board = PowerOn(b.calib, b.serv)
  /\ port = TRUE /\ handles = {1} /\ live = {1} /\ client = 1
  /\ lock = NoThread
  /\ thread = [t \in Threads |-> Idle]
  /\ progress = [active |-> FALSE, done |-> 0, cancel |-> FALSE]
  /\ seen = NotKnown
  /\ strays = {} /\ session \in Sessions /\ asks = 0 /\ faults = 0

Fault(n) == faults + n <= MaxFaults /\ faults' = faults + n /\ UNCHANGED session

\* A request gets a thread, any free one; a grab announces itself before it
\* waits for the lock.
Free == CHOOSE t \in Threads : thread[t].at = "idle"
Ask(t, q) ==
  /\ thread[t].at = "idle" /\ t = Free /\ asks < session.asks /\ asks' = asks + 1
  /\ ~ Refused(q) /\ UNCHANGED session
  /\ LET at == IF q.route = "state" THEN "state" ELSE "lock"
         new == [Idle EXCEPT !.at = at, !.q = q, !.op = OpAfter(q, <<>>), !.since = board.shot]
         both == {u \in Threads : q.route = "grab" /\ Grabbing(u)}
     IN  thread' = [u \in Threads |->
           IF u = t THEN [new EXCEPT !.odd = IF both = {} THEN {} ELSE {"shared"}]
           ELSE IF u \in both THEN [thread[u] EXCEPT !.odd = @ \cup {"shared"}] ELSE thread[u]]
  /\ progress' = IF q.route = "grab" THEN [active |-> TRUE, done |-> 0, cancel |-> FALSE]
                 ELSE progress
  /\ UNCHANGED <<board, port, handles, live, client, lock, seen, strays, faults>>

Goto(t, at) == thread' = [thread EXCEPT ![t].at = at]
Ends(t, res) == thread' = [thread EXCEPT ![t].at = "leave", ![t].res = res]
Board == <<board, seen>>
Wire == <<port, handles, live, strays>>
Budget == <<session, asks, faults>>

(* /api/state reads the connection twice, without the lock.                *)
StateConnected(t) ==
  /\ thread[t].at = "state"
  /\ IF client = NoClient THEN Ends(t, "ok") ELSE Goto(t, "describe")
  /\ UNCHANGED <<Board, Wire, client, lock, progress, Budget>>
StateDescribe(t) ==
  /\ thread[t].at = "describe"
  /\ Ends(t, IF client = NoClient THEN "crash" ELSE "ok")
  /\ UNCHANGED <<Board, Wire, client, lock, progress, Budget>>

Acquire(t) ==
  /\ thread[t].at = "lock" /\ lock = NoThread
  /\ lock' = t
  /\ Goto(t, IF thread[t].q.route \in {"connect", "disconnect"} THEN "drop" ELSE "test")
  /\ UNCHANGED <<Board, Wire, client, progress, Budget>>

InBody(t) == thread[t].at \in {"body", "fetch"}

\* `with _lock' ends with the exception; only the grab's handler is outside of it.
Fail(t, res) ==
  LET q == thread[t].q
  IN  /\ thread' = [thread EXCEPT ![t].res = res,
                      ![t].at = IF res = "lost" /\ q.route # "connect" THEN "drop" ELSE "leave"]
      /\ lock' = IF q.route = "grab" THEN NoThread ELSE lock

(* _require_client reads the connection twice, and a grab that lost its    *)
(* port may clear it in between.                                           *)
Test(t) ==
  /\ thread[t].at = "test"
  /\ IF client = NoClient THEN Fail(t, "error") ELSE Goto(t, "require") /\ UNCHANGED lock
  /\ UNCHANGED <<Board, Wire, client, progress, Budget>>
_require_client(t) ==
  /\ thread[t].at = "require"
  /\ IF client = NoClient THEN Fail(t, "crash")
     ELSE thread' = [thread EXCEPT ![t].at = "body", ![t].conn = client] /\ UNCHANGED lock
  /\ UNCHANGED <<Board, Wire, client, progress, Budget>>

(* Close the shared connection, if there is one, and forget it: a test, a  *)
(* use and an assignment.  The grab comes here without the lock, so what   *)
(* it forgets may be another connection than the one it closed, or be open *)
(* again; nobody closes that one then.                                     *)
Dropped(t) == CASE thread[t].q.route = "connect" -> "open" [] OTHER -> "leave"
Drop(t) ==
  /\ thread[t].at = "drop"
  /\ Goto(t, IF client = NoClient THEN Dropped(t) ELSE "close")
  /\ UNCHANGED <<Board, Wire, client, lock, progress, Budget>>
Close(t) ==
  /\ thread[t].at = "close"
  /\ IF client = NoClient THEN Ends(t, "crash") ELSE Goto(t, "clear")
  /\ handles' = handles \ {client} /\ live' = live \ {client}
  /\ UNCHANGED <<Board, port, strays, client, lock, progress, Budget>>
Clear(t) ==
  /\ thread[t].at = "clear"
  /\ Goto(t, Dropped(t))
  /\ client' = NoClient
  /\ strays' = IF thread[t].q.route # "grab" THEN strays
               ELSE strays \cup {c \in {client} : \/ c \in handles
                                                 \/ \E u \in Threads : InBody(u) /\ thread[u].conn = c}
  /\ UNCHANGED <<Board, port, handles, live, lock, progress, Budget>>

\* The least number that no connection has; there is always one.
Fresh == LET unused == (1..session.asks + 2 * Cardinality(Threads))
                         \ (handles \cup strays \cup {client} \cup {thread[t].conn : t \in Threads})
         IN  {c \in unused : \A d \in unused : c <= d}

\* pymodbus opens a port for itself alone.
Open(t) ==
  /\ thread[t].at = "open"
  /\ IF port /\ handles = {}
     THEN \E c \in Fresh :
            /\ thread' = [thread EXCEPT ![t].at = "body", ![t].conn = c]
            /\ handles' = {c} /\ live' = {c}
     ELSE Ends(t, "error") /\ UNCHANGED <<handles, live>>
  /\ UNCHANGED <<Board, port, strays, client, lock, progress, Budget>>

-----------------------------------------------------------------------------
(* One operation under the lock *)

Chunk(t) == Grabbing(t) /\ thread[t].op.fn = "read"
Calling(t) == /\ thread[t].op.fn \notin {"raise", "end"} /\ Legal(thread[t].op)
              /\ Chunk(t) => thread[t].at = "fetch"

\* A closed client opens its port again by itself, if it can.
Reaches(t) == \/ thread[t].conn \in live
              \/ thread[t].conn \notin handles /\ port /\ handles = {}
Reopened(t) == /\ handles' = handles \cup {thread[t].conn}
               /\ live' = live \cup {thread[t].conn}
               /\ UNCHANGED <<port, strays>>

\* Mutant: api_connect leaves it open.
ShutNone(t) == {}

\* A connection that api_connect could not use is closed.
Shut(t) == IF thread[t].q.route = "connect" THEN {thread[t].conn} ELSE {}

\* ValueError of the client, or an exception response of the slave.
Rejected(t) ==
  /\ thread[t].op.fn = "raise" \/ ~ Legal(thread[t].op)
  /\ Fail(t, "error")
  /\ handles' = handles \ Shut(t) /\ live' = live \ Shut(t)
  /\ seen' = Doubt(seen, thread[t].q)
  /\ UNCHANGED <<board, port, strays, client, progress, Budget>>

\* Operations that do not do the same the second time.
Repeats(op) == op.addr = REG_OSD_DATA \/ op.addr >= OSD_STREAM_BASE

Answers(t, n) ==
  /\ Calling(t) /\ Reaches(t) /\ Ready(board, thread[t].op)
  /\ thread[t].op.fn = "wait" => ~ Status(board, thread[t].op.addr) /\ n = 1
  /\ Fault(IF n = 1 THEN 0 ELSE 1)
  /\ Reopened(t)
  /\ LET r == Answered(board, thread[t].op, n)
         odd == (IF n > 1 /\ Repeats(thread[t].op) THEN {"twice"} ELSE {})
                  \cup (IF thread[t].op.addr = REG_GRAB /\ thread[t].op.value = 1 /\ board.engine = "capture"
                        THEN {"running"} ELSE {})
             got == Append(thread[t].got, r[1])
     IN  /\ board' = r[2]
         /\ thread' = [thread EXCEPT ![t].at = "body", ![t].got = got, ![t].odd = @ \cup odd,
                                     ![t].op = OpAfter(thread[t].q, got)]
         /\ progress' = IF Chunk(t) THEN [progress EXCEPT !.done = Len(Pixels(got))] ELSE progress
  /\ UNCHANGED <<client, lock, seen, asks>>

\* No answer to any of the sends, of which n arrived.
TimesOut(t, n) ==
  /\ Calling(t) /\ Reaches(t) /\ Ready(board, thread[t].op)
  /\ thread[t].op.fn = "wait" => n = 0
  /\ Fault(1)
  /\ board' = After(board, thread[t].op, n)
  /\ Fail(t, "error")
  /\ seen' = Doubt(seen, thread[t].q)
  /\ handles' = (handles \cup {thread[t].conn}) \ Shut(t)
  /\ live' = (live \cup {thread[t].conn}) \ Shut(t)
  /\ UNCHANGED <<port, strays, client, progress, asks>>

\* Mutant: waits for ever.
DeadlineNever(t) == FALSE

\* The deadline of a wait for a bit that will not clear.
Deadline(t) ==
  /\ Calling(t) /\ Reaches(t) /\ thread[t].op.fn = "wait" /\ Stuck(board, thread[t].op.addr)
  /\ Fail(t, "error")
  /\ Reopened(t)
  /\ seen' = Doubt(seen, thread[t].q)
  /\ UNCHANGED <<board, client, progress, Budget>>

\* OSError: the port is gone.
Loses(t) ==
  /\ Calling(t) /\ ~ Reaches(t)
  /\ Fail(t, "lost")
  /\ handles' = handles \ Shut(t) /\ live' = live \ Shut(t)
  /\ seen' = Doubt(seen, thread[t].q)
  /\ UNCHANGED <<board, port, strays, client, progress, Budget>>

\* Mutant: not between chunks.
should_cancelWaiting(t) == progress.cancel /\ thread[t].op.fn = "wait"

should_cancel(t) == progress.cancel

\* The grab looks at the flag while it waits and before every chunk.
Looks(t) ==
  /\ thread[t].at = "body" /\ Grabbing(t)
  /\ \/ thread[t].op.fn = "wait" /\ Status(board, REG_GRAB) /\ should_cancel(t)
     \/ thread[t].op.fn = "read"
  /\ IF should_cancel(t) THEN Fail(t, "cancelled") ELSE Goto(t, "fetch") /\ UNCHANGED lock
  /\ UNCHANGED <<Board, Wire, client, progress, Budget>>

Completes(t) ==
  /\ thread[t].op.fn = "end"
  /\ LET th == thread[t]
     IN  /\ Ends(t, "ok")
         /\ client' = IF th.q.route = "connect" THEN th.conn ELSE client
         /\ lock' = IF th.q.route = "grab" THEN NoThread ELSE lock
         /\ seen' = IF "restarted" \notin th.odd THEN Learn(seen, th.q, "twice" \in th.odd) ELSE Doubt(seen, th.q)
  /\ UNCHANGED <<board, Wire, progress, Budget>>

\* Mutant: not in a `finally'.
GrabOverAnswered(t) == [progress EXCEPT !.active = thread[t].res # "ok"]

GrabOver(t) == [progress EXCEPT !.active = FALSE]

Leave(t) ==
  /\ thread[t].at = "leave"
  /\ thread' = [thread EXCEPT ![t] = Idle]
  /\ lock' = IF lock = t THEN NoThread ELSE lock
  /\ progress' = IF Grabbing(t) THEN GrabOver(t) ELSE progress
  /\ UNCHANGED <<Board, Wire, client, Budget>>

-----------------------------------------------------------------------------
PostCancel ==
  /\ [route |-> "grab"] \in session.may
  /\ asks < session.asks /\ asks' = asks + 1 /\ UNCHANGED session
  /\ progress' = [progress EXCEPT !.cancel = TRUE]
  /\ thread' = [t \in Threads |-> IF Grabbing(t)
                  THEN [thread[t] EXCEPT !.asked = Min({@, Len(Pixels(thread[t].got))})] ELSE thread[t]]
  /\ UNCHANGED <<Board, Wire, client, lock, faults>>

BoardMoves ==
  /\ board' \in BoardSteps(board)
  /\ UNCHANGED <<Wire, client, lock, thread, progress, seen, Budget>>

\* The camera stalls and the engine's watchdog ends the capture.
Watchdog ==
  /\ board.engine # "idle" /\ Fault(1)
  /\ board' = WatchdogEnds(board)
  /\ thread' = [t \in Threads |-> IF Grabbing(t) /\ lock = t
                                  THEN [thread[t] EXCEPT !.odd = @ \cup {"watchdog"}]
                                  ELSE thread[t]]
  /\ UNCHANGED <<Wire, client, lock, progress, seen, asks>>

\* The cable also powers the board; it is up again before its port is.  A
\* request under way whose connection another one then closes opens it again
\* by itself, and goes on with a board that has forgotten the first half.
Unplug ==
  /\ port /\ Fault(1)
  /\ port' = FALSE /\ live' = {}
  /\ board' = [PowerOn(board.calib, board.serv) EXCEPT !.shot = board.shot]
  /\ seen' = NotKnown
  /\ thread' = [t \in Threads |-> IF InBody(t) THEN [thread[t] EXCEPT !.odd = @ \cup {"restarted"}]
                                  ELSE thread[t]]
  /\ UNCHANGED <<handles, strays, client, lock, progress, asks>>
Replug ==
  /\ ~ port /\ port' = TRUE
  /\ UNCHANGED <<Board, handles, live, strays, client, lock, thread, progress, Budget>>

Operates(t) ==
  \/ Rejected(t) \/ Deadline(t) \/ Loses(t) \/ Looks(t) \/ Completes(t)
  \/ \E n \in 1..Resends+1 : Answers(t, n)
  \/ \E n \in 0..Resends+1 : TimesOut(t, n)

Step(t) ==
  \/ StateConnected(t) \/ StateDescribe(t)
  \/ Acquire(t) \/ Test(t) \/ _require_client(t)
  \/ Drop(t) \/ Close(t) \/ Clear(t) \/ Open(t)
  \/ InBody(t) /\ Operates(t)
  \/ Leave(t)

Next ==
  \/ \E t \in Threads : (\E q \in session.may : Ask(t, q)) \/ Step(t)
  \/ PostCancel \/ BoardMoves \/ Watchdog \/ Unplug \/ Replug

(* A thread that can run does, and so does the board; nothing makes a      *)
(* user ask, a cable be plugged in again, or a fault happen.               *)
Works == BoardMoves \/ \E t \in Threads : Step(t)
Spec == Init /\ [][Next]_vars /\ WF_vars(Works)
-----------------------------------------------------------------------------
(* Properties *)

Known(x, v) == x # <<>> => x[1] = v
Served(t, route) == thread[t].at = "leave" /\ thread[t].res = "ok" /\ thread[t].q.route = route

\* Types, and ids in their ranges.
TypeOK ==
  /\ board.cursor \in 0..OSD_CELLS-1 /\ board.engine \in {"idle", "wait", "capture"}
  /\ \A a \in CamRegs : board.cam[a] \subseteq 0..7
  /\ live \subseteq handles /\ (~ port => live = {})
  /\ lock \in Threads \cup {NoThread}
  /\ \A t \in Threads : thread[t].at \in {"idle", "lock", "test", "require", "state", "describe",
                                          "drop", "close", "clear", "open", "body", "fetch", "leave"}
  /\ progress.done \in 0..FRAME_PIXELS

\* A setting shows what the last acknowledged request made it, whatever other
\* requests did to the registers it shares, failed or not; the slider of gamma
\* within a step.
Shows(id, x, v) ==
  x # <<>> => IF id = "gamma" THEN v - x[1] \in 1-SliderStep..SliderStep-1 ELSE v = x[1]
AcknowledgedSettings ==
  /\ lock = NoThread /\ ~ board.initing =>
       /\ \A id \in Ids : Shows(id, seen.control[id], decode_control(CONTROLS[id], board.cam))
       /\ \A i \in Coeffs : Known(seen.coeff[i], decode_matrix(board.cam, i))
       /\ Known(seen.center, MTXS_AUTO_CONTRAST \subseteq board.cam[MTXS_REG])
  /\ \A t \in Threads : Served(t, "settings") =>
       LET snapshot == [a \in Range(needed_registers) |->
                          Answer(thread[t].got, CHOOSE i \in DOMAIN needed_registers : needed_registers[i] = a)]
       IN  \A id \in Ids : Shows(id, seen.control[id], decode_all(snapshot).controls[id])

\* The overlay holds what was posted, and GET answers it, unless a character
\* or a chunk went over the line twice.  What was posted is taken in the order
\* of the code: blank, then the lines, then the text over them.  The docstring
\* of the route says text, then lines; a text over one of its own post's lines
\* would look different.
Printed(ch) == osd_char(osd_byte(ch))
OverlayAsPosted ==
  /\ lock = NoThread =>
       /\ Known(seen.on, board.on)
       /\ seen.cells # <<>> =>
            \A i \in 0..OSD_CELLS-1 : osd_char(board.cells[i]) = Printed(seen.cells[1][i])
  /\ \A t \in Threads : Served(t, "osd") /\ "twice" \notin thread[t].odd =>
       LET codes == FlattenSeq(SubSeq(thread[t].got, 3, Len(thread[t].got)))
       IN  /\ Known(seen.on, thread[t].got[1][1])
           /\ seen.cells # <<>> =>
                \A i \in 1..OSD_CELLS : osd_char(codes[i]) = Printed(seen.cells[1][i-1])

\* A frame that is answered is one capture in raster order, begun after the
\* request, unless a chunk was sent twice, the watchdog ended the capture, the
\* board lost its power and the connection came back, or a capture was under
\* way when the grab was armed (which is then the frame).
FrameIsOneCapture ==
  \A t \in Threads : Served(t, "grab") /\ thread[t].odd \cap {"twice", "watchdog", "restarted"} = {} =>
    LET pix == Pixels(thread[t].got)
        shot == pix[1][1]
    IN  /\ pix = [i \in 1..FRAME_PIXELS |-> <<shot, i - 1>>]
        /\ shot > thread[t].since \/ "running" \in thread[t].odd

\* A grab is cancelled only if a cancel was posted since it came, and one that
\* nobody overlapped reads at most one more chunk after that.
CancelHonoured ==
  \A t \in Threads : Grabbing(t) =>
    /\ thread[t].res = "cancelled" => thread[t].asked < FRAME_PIXELS
    /\ "shared" \notin thread[t].odd => Len(Pixels(thread[t].got)) <= thread[t].asked + MAX_READ

\* The progress a poll sees is that of the one grab there is, from its entry
\* to its answer however it ends.
ProgressHonest ==
  /\ progress.active => \E t \in Threads : Grabbing(t)
  /\ \A t \in Threads : Grabbing(t) /\ "shared" \notin thread[t].odd =>
       progress.active /\ progress.done = Len(Pixels(thread[t].got))

\* The shared connection is an open one, unless it was just closed to be
\* forgotten.  When no request is under way no other connection is open, but
\* for those that a grab let go of without the lock, while another request
\* used them or had stored them in the meantime: no request that closes and
\* forgets under the lock ever loses one.
ConnectionsAccounted ==
  /\ client # NoClient /\ client \notin handles => \E t \in Threads : thread[t].at = "clear"
  /\ (\A t \in Threads : thread[t].at = "idle") => handles \subseteq {client} \cup strays

\* Every request is answered: whatever fails, the lock is given back.
RequestsEnd == \A t \in Threads : thread[t].at # "idle" ~> thread[t].at = "idle"
=============================================================================
