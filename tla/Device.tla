------------------------------- MODULE Device -------------------------------
(***************************************************************************)
(* The board as the host sees it: what one Modbus read or write does to    *)
(* the registers behind it, and what the board does by itself.  ServBus    *)
(* shows that register accesses are atomic.  The board is one record, so   *)
(* that a request can be applied to it once, twice or not at all.          *)
(*                                                                         *)
(* A frame in channel 1 of the memory is, pixel by pixel, the number of    *)
(* the capture it comes from.  Two things are over before the next Modbus  *)
(* frame can arrive and are not steps of their own: the sweep that clears  *)
(* the overlay (1020 cycles) and a burst of the memory.                    *)
(***************************************************************************)
EXTENDS Ov7670

CONSTANTS
  OSD_COLS, OSD_ROWS,
  FRAME_PIXELS,
  BURST,            \* pixels in a burst of the memory
  ADDR_LO_SPAN,     \* addresses the low address register tells apart, 2^16
  MODBUS_ADDR_LIMIT

ASSUME BurstAssumption == BURST \in Nat \ {0}
ASSUME ScreenAssumption == OSD_COLS \in Nat \ {0} /\ OSD_ROWS \in Nat \ {0}
ASSUME SpanAssumption == ADDR_LO_SPAN \in Nat \ {0}

OSD_CELLS == OSD_COLS * OSD_ROWS
CAM_REG_MAX == \hC9
REG_MCU_RESET == \hE2
REG_BOOT_LEN == \hE4
REG_BOOT_DATA == \hE8
REG_BOOT_STATUS == \hEC
REG_GRAB == \hF3
REG_GRAB_ADDR_LO == \hF4
REG_GRAB_ADDR_HI == \hF5
REG_GRAB_DATA_HI == \hF6
REG_GRAB_DATA_LO == \hF7
REG_STREAM == \hF8
REG_REINIT == \hFA
REG_OSD_CTRL == \hFB
REG_OSD_ADDR == \hFC
REG_OSD_DATA == \hFD
OSD_STREAM_BASE == \h0800
STREAM_BASE == \h1000

\* The registers some request touches; the others read as they are reset.
CamRegs == NeededRegs \cup Range(gamma_register_addrs)
             \cup Range(MTX_REGS) \cup {MTXS_REG}
CamReset(a) == IF a \in DOMAIN IDENTITY THEN IDENTITY[a] ELSE {}

NoPixel == <<0, 0>>

PowerOn(calib, serv) ==
  [cam |-> [a \in CamRegs |-> CamReset(a)], initing |-> FALSE,
   on |-> FALSE, cursor |-> 0, cells |-> [i \in 0..OSD_CELLS-1 |-> 0],
   calib |-> calib, engine |-> "idle", busy |-> FALSE,
   shot |-> 0, mem |-> [i \in 0..FRAME_PIXELS-1 |-> 0],
   addr |-> 0, data |-> [i \in 1..BURST |-> NoPixel],
   baddr |-> 0, widx |-> 0, loaded |-> FALSE, burst |-> [i \in 1..BURST |-> NoPixel],
   serv |-> serv, pending |-> FALSE]

-----------------------------------------------------------------------------
(* Frame grab: psram_ch1.sv behind wb_grab.sv *)

Pixel(d, i) == IF i < FRAME_PIXELS THEN <<d.mem[i], i>> ELSE NoPixel

\* Requests are edges that only an idle, calibrated engine looks at; busy
\* rises with every request.
ArmGrab(d) ==
  [d EXCEPT !.busy = TRUE,
            !.engine = IF @ = "idle" /\ d.calib THEN "wait" ELSE @]

\* A burst read is done at once where it is taken, and its done clears busy.
ReadBurst(d, at) ==
  IF d.engine = "idle" /\ d.calib
  THEN [d EXCEPT !.addr = at, !.busy = FALSE,
                 !.data = [i \in 1..BURST |-> Pixel(d, at + i - 1)]]
  ELSE [d EXCEPT !.addr = at, !.busy = TRUE]

\* wb_grab serves the stream from the burst it has fetched, and fetches the
\* next one when the stream gets to it: n pixels, and the board after them.
ServePixels(d, n) ==
  LET BurstOf(i) == d.baddr + BURST * ((d.widx + i - 1) \div BURST)
      Has(i) == d.loaded /\ BurstOf(i) = d.baddr
      end == IF Has(n) THEN d ELSE ReadBurst(d, BurstOf(n))
      at == (d.widx + n) % BURST
  IN  <<[i \in 1..n |-> (IF Has(i) THEN d.burst ELSE ReadBurst(d, BurstOf(i)).data)
                          [((d.widx + i - 1) % BURST) + 1]],
        [end EXCEPT !.widx = at, !.loaded = at # 0,
                    !.baddr = IF at = 0 THEN BurstOf(n) + BURST ELSE BurstOf(n),
                    !.burst = IF Has(n) THEN @ ELSE end.data]>>

Rewind(d) == [d EXCEPT !.baddr = 0, !.widx = 0, !.loaded = FALSE]

(* The engine waits for the start of a frame, mirrors its writes, and is   *)
(* done when it ends; its watchdog is done without one.                    *)
CaptureStarts(d) ==
  [d EXCEPT !.engine = "capture", !.shot = @ + 1,
            !.mem = [i \in DOMAIN @ |-> IF 2 * i < FRAME_PIXELS THEN d.shot + 1 ELSE @[i]]]
CaptureEnds(d) ==
  [d EXCEPT !.engine = "idle", !.busy = FALSE, !.mem = [i \in DOMAIN @ |-> d.shot]]
WatchdogEnds(d) == [d EXCEPT !.engine = "idle", !.busy = FALSE]

-----------------------------------------------------------------------------
(* Text overlay: wb_osd.sv *)

\* Mutant: the cursor does not wrap.
AdvanceOn(d) == [d EXCEPT !.cursor = @ + 1]

Advance(d) == [d EXCEPT !.cursor = (@ + 1) % OSD_CELLS]

\* Bit 0 shows the overlay, bit 1 clears it and homes the cursor.
OsdControl(d, v) ==
  LET e == [d EXCEPT !.on = v % 2 = 1]
  IN  IF v < 2 THEN e
      ELSE [e EXCEPT !.cells = [i \in DOMAIN @ |-> 0], !.cursor = 0]

ReadCells(d, n) ==
  <<[i \in 1..n |-> d.cells[(d.cursor + i - 1) % OSD_CELLS]],
    [d EXCEPT !.cursor = (@ + n) % OSD_CELLS]>>

-----------------------------------------------------------------------------
(* One Modbus request, checked and executed *)

Legal(op) == op.addr + op.count <= MODBUS_ADDR_LIMIT

\* wb_sccb holds an access back until the camera's initialisation is over.
Ready(d, op) == op.addr <= CAM_REG_MAX => ~ d.initing

WriteReg(d, a, v) ==
  CASE a \in CamRegs       -> [d EXCEPT !.cam[a] = v]
    [] a = REG_GRAB /\ v = 1 -> ArmGrab(d)
    [] a = REG_GRAB /\ v = 2 -> ReadBurst(d, d.addr)
    [] a = REG_GRAB_ADDR_LO -> [d EXCEPT !.addr = @ - (@ % ADDR_LO_SPAN) + v]
    [] a = REG_GRAB_ADDR_HI -> [d EXCEPT !.addr = v * ADDR_LO_SPAN + (@ % ADDR_LO_SPAN)]
    [] a = REG_STREAM      -> Rewind(d)
    [] a = REG_REINIT      -> [d EXCEPT !.initing = TRUE]
    [] a = REG_OSD_CTRL    -> OsdControl(d, v)
    [] a = REG_OSD_ADDR    -> [d EXCEPT !.cursor = v]
    [] a = REG_OSD_DATA    -> Advance([d EXCEPT !.cells[d.cursor] = v])
    [] a = REG_BOOT_DATA   -> [d EXCEPT !.pending = TRUE]
    [] OTHER               -> d

Status(d, a) == CASE a = REG_GRAB -> d.busy
                  [] a = REG_BOOT_STATUS -> d.pending

ReadOne(d, a) ==
  CASE a \in CamRegs -> d.cam[a]
    [] a \in {REG_GRAB, REG_BOOT_STATUS} -> Status(d, a)
    [] a = REG_GRAB_DATA_HI -> d.data[2]
    [] a = REG_GRAB_DATA_LO -> d.data[1]
    [] a = REG_OSD_CTRL -> d.on
    [] OTHER -> CamReset(a)

\* The registers read, and the board after it.
ReadRegs(d, a, n) ==
  IF a >= STREAM_BASE THEN ServePixels(d, n)
  ELSE IF a = REG_OSD_DATA \/ a >= OSD_STREAM_BASE THEN ReadCells(d, n)
  ELSE <<[i \in 1..n |-> ReadOne(d, a + i - 1)], d>>

\* What a request answers with, and the board after it was executed.
Execute(d, op) ==
  CASE op.fn = "write" -> <<<<>>, WriteReg(d, op.addr, op.value)>>
    [] OTHER           -> ReadRegs(d, op.addr, op.count)

\* The board after executing it n times.
After(d, op, n) == LET Times[i \in 0..n] == IF i = 0 THEN d ELSE Execute(Times[i-1], op)[2]
                   IN  Times[n]

-----------------------------------------------------------------------------
(* The board by itself *)

InitEnds(d) == [d EXCEPT !.initing = FALSE, !.cam = [a \in CamRegs |-> CamReset(a)]]
Drains(d) == [d EXCEPT !.pending = FALSE]

BoardSteps(d) ==
  (IF d.engine = "wait" THEN {CaptureStarts(d)} ELSE {})
    \cup (IF d.engine = "capture" THEN {CaptureEnds(d)} ELSE {})
    \cup (IF d.initing THEN {InitEnds(d)} ELSE {})
    \cup (IF d.serv /\ d.pending THEN {Drains(d)} ELSE {})

\* The status bit a caller waits for can not clear any more.
Stuck(d, a) == Status(d, a) /\ IF a = REG_GRAB THEN d.engine = "idle" ELSE ~ d.serv
=============================================================================
