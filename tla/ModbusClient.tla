---------------------------- MODULE ModbusClient ----------------------------
(***************************************************************************)
(* webapp/modbus_client.py: the calls of ModbusRTU as programs, that is,   *)
(* as the sequence of the operations they make on the line.  An operation  *)
(* that depends on an earlier answer is filled in once got, the answers so *)
(* far, holds it; it is not looked at before.                              *)
(*                                                                         *)
(* A "wait" polls a status register until its low bit is 0; a "raise" is   *)
(* an exception of the client itself.  Characters are <<kind, code>>:      *)
(* Latin-1, a pseudographic (counted from 0), or neither.                  *)
(***************************************************************************)
EXTENDS Device

CONSTANTS
  MAX_READ,     \* registers of one FC03 of a stream, 125 in the code
  DUMP_READ,    \* registers of one FC03 of a dump, 125 in the code
  OverlayLimit  \* bytes of an overlay that api_serv_upload takes

ASSUME StreamAssumption ==
  FRAME_PIXELS \in Nat \ {0} /\ MAX_READ \in Nat \ {0} /\ DUMP_READ \in Nat \ {0}

Raise == [fn |-> "raise", addr |-> 0, count |-> 1, value |-> 0]
ReadHolding(a, n) == IF n \in 1..125 THEN [fn |-> "read", addr |-> a, count |-> n, value |-> 0]
                     ELSE Raise
ReadReg(a) == ReadHolding(a, 1)
WriteSingle(a, v) == [fn |-> "write", addr |-> a, count |-> 1, value |-> v]
WaitIdle(a) == [fn |-> "wait", addr |-> a, count |-> 1, value |-> 0]

Answer(got, i) == IF i \in DOMAIN got THEN got[i][1] ELSE {}

\* n registers in reads of at most max, walking the addresses or a stream.
Chunks(n, max) == [i \in 1..(n + max - 1) \div max |-> IF i * max <= n THEN max ELSE n % max]
ReadWalk(a, n, max) ==
  [i \in 1..Len(Chunks(n, max)) |-> ReadHolding(a + (i - 1) * max, Chunks(n, max)[i])]
ReadStream(a, n) ==
  [i \in 1..Len(Chunks(n, MAX_READ)) |-> ReadHolding(a, Chunks(n, MAX_READ)[i])]

read_health == <<ReadHolding(\hF9, 1)>>
serv_mcu_reset == <<WriteSingle(REG_MCU_RESET, 1)>>
reset_to_defaults == <<WriteSingle(REG_REINIT, 1)>>
dump_registers == ReadWalk(0, CAM_REG_MAX + 1, DUMP_READ)

serv_boot_load(words) ==
  serv_mcu_reset \o <<WriteSingle(REG_BOOT_LEN, Len(words))>>
    \o FlattenSeq([i \in 1..Len(words) |->
                     <<WaitIdle(REG_BOOT_STATUS), WriteSingle(REG_BOOT_DATA, words[i])>>])

-----------------------------------------------------------------------------
(* Text overlay *)

\* webapp/osd_charset.py
Chars == {"latin", "pseudo", "other"} \X Nat
osd_byte(ch) == CASE ch[1] = "pseudo" -> 128 + ch[2]
                  [] ch[1] = "latin"  -> ch[2]
                  [] OTHER            -> 63
osd_char(b) == IF b \in 128..159 THEN <<"pseudo", b - 128>>
               ELSE <<"latin", IF b < 32 THEN 32 ELSE b>>

OnGrid(row, col) == row \in 0..OSD_ROWS-1 /\ col \in 0..OSD_COLS-1

osd_enabled == <<ReadHolding(REG_OSD_CTRL, 1)>>
osd_set_enabled(on) == <<WriteSingle(REG_OSD_CTRL, IF on THEN 1 ELSE 0)>>
osd_clear == <<WriteSingle(REG_OSD_CTRL, 2)>>

osd_write_text(row, col, text) ==
  IF ~ OnGrid(row, col) THEN <<Raise>>
  ELSE <<WriteSingle(REG_OSD_ADDR, row * OSD_COLS + col)>>
         \o [i \in 1..Len(text) |-> WriteSingle(REG_OSD_DATA, osd_byte(text[i]))]

osd_read_cells(row, col, count) ==
  IF ~ OnGrid(row, col) THEN <<Raise>>
  ELSE <<WriteSingle(REG_OSD_ADDR, row * OSD_COLS + col)>>
         \o [i \in 1..count |-> ReadReg(REG_OSD_DATA)]

osd_read_text == <<WriteSingle(REG_OSD_ADDR, 0)>> \o ReadStream(OSD_STREAM_BASE, OSD_CELLS)

-----------------------------------------------------------------------------
(* Frame grab *)

psram_read(a) ==
  <<WriteSingle(REG_GRAB_ADDR_LO, a % ADDR_LO_SPAN),
    WriteSingle(REG_GRAB_ADDR_HI, a \div ADDR_LO_SPAN),
    WriteSingle(REG_GRAB, 2), WaitIdle(REG_GRAB),
    ReadHolding(REG_GRAB_DATA_HI, 1), ReadHolding(REG_GRAB_DATA_LO, 1)>>

\* Mutant: the stream is not rewound.
grab_frameOn == <<WriteSingle(REG_GRAB, 1), WaitIdle(REG_GRAB), ReadReg(REG_GRAB)>>
                  \o ReadStream(STREAM_BASE, FRAME_PIXELS)

grab_frame ==
  <<WriteSingle(REG_GRAB, 1), WaitIdle(REG_GRAB), WriteSingle(REG_STREAM, 1)>>
    \o ReadStream(STREAM_BASE, FRAME_PIXELS)

\* The pixels grab_frame has so far.
Pixels(got) == FlattenSeq(SubSeq(got, 4, Len(got)))

-----------------------------------------------------------------------------
(* One operation on the line, with pymodbus sending it again while no      *)
(* answer comes: it may be executed more often than it is answered.        *)

CONSTANT Resends   \* how often pymodbus sends again

ASSUME ResendAssumption == Resends \in Nat

\* After n executions of which the last was answered.
Answered(d, op, n) ==
  IF op.fn = "wait" THEN <<<<Status(d, op.addr)>>, d>> ELSE Execute(After(d, op, n - 1), op)
=============================================================================
