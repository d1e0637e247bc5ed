---------------------------- MODULE Bootloader ----------------------------
(***************************************************************************)
(* The programs of the SERV core: serv_soc/bootloader.S, and the overlays  *)
(* it runs, by what they do with the mailbox: those of Returning jump back *)
(* to the bootloader when they are done (osd_hello), the one of            *)
(* Calculating serves commands for ever (calc.c), the others park.  A step *)
(* is one bus access, or a jump; polling that sees nothing is no step.     *)
(* A RAM that holds no image parks: what it would really do is unknown.    *)
(***************************************************************************)
EXTENDS Mailbox

CONSTANTS Returning, Calculating

ASSUME KindAssumption ==
  Returning \subseteq Overlays /\ Calculating \subseteq Overlays \ Returning

VARIABLES
  pc,
  t1, t3,      \* the length and the number of words received
  ram,         \* the overlay's RAM
  cmd,         \* calc: the words of the command received so far
  seq,         \* calc: the low byte of its count of commands
  cells        \* calc: the result on the OSD, stood for by the command

mcuVars == <<pc, t1, t3, ram, cmd, seq, cells>>

\* The overlay that is in the RAM, if the words there are one.
Installed(o) == t1 = Size[o] /\ \A i \in 1 .. Size[o] : ram[i] = Word(o, i)

Running(Some) == pc = "overlay" /\ \E o \in Some : Installed(o)

McuInit ==
  /\ pc = "wait_start" /\ t1 = 0 /\ t3 = 0
  /\ ram = [i \in 1 .. RamWords |-> NoWord]
  /\ cmd = <<>> /\ seq = 0 /\ cells = <<>>

McuTypeOK ==
  /\ pc \in {"wait_start", "read_len", "copy_loop", "wait_word", "read_word", "run", "overlay",
             "calc_wait", "calc_read", "calc_show", "calc_beat"}
  /\ t1 \in 0 .. RamWords /\ t3 \in 0 .. t1 /\ ram \in [1 .. RamWords -> Words]
  /\ cmd \in Seq(Words) /\ Len(cmd) <= CommandWords
  /\ seq \in 0 .. Beats - 1 /\ cells \in Seq(Words)

\* The core's reset: the bootloader starts again, RAM and mailbox stay.
McuReset ==
  /\ pc' = "wait_start" /\ cmd' = <<>> /\ seq' = 0
  /\ UNCHANGED <<t1, t3, ram, cells, mailboxVars>>

-----------------------------------------------------------------------------
(* The bootloader *)

WaitStart ==
  /\ pc = "wait_start" /\ boot_start /\ pc' = "read_len"
  /\ UNCHANGED <<t1, t3, ram, cmd, seq, cells, mailboxVars>>

ReadLength ==
  /\ pc = "read_len" /\ pc' = "copy_loop"
  /\ t1' = boot_len /\ t3' = 0 /\ ReadLen
  /\ UNCHANGED <<ram, cmd, seq, cells>>

\* The count is compared after the wait (mutant).
CopyLoopLate ==
  /\ pc = "copy_loop"
  /\ pc' = IF t3 = t1 - 1 THEN "run" ELSE "wait_word"
  /\ UNCHANGED <<t1, t3, ram, cmd, seq, cells, mailboxVars>>

CopyLoop ==
  /\ pc = "copy_loop"
  /\ pc' = IF t3 = t1 THEN "run" ELSE "wait_word"
  /\ UNCHANGED <<t1, t3, ram, cmd, seq, cells, mailboxVars>>

WaitWord ==
  /\ pc = "wait_word" /\ boot_pending /\ pc' = "read_word"
  /\ UNCHANGED <<t1, t3, ram, cmd, seq, cells, mailboxVars>>

ReadWord ==
  /\ pc = "read_word" /\ pc' = "copy_loop"
  /\ ReadData
  /\ ram' = [ram EXCEPT ![t3 + 1] = boot_data] /\ t3' = t3 + 1
  /\ UNCHANGED <<t1, cmd, seq, cells>>

Run ==
  /\ pc = "run" /\ pc' = "overlay"
  /\ UNCHANGED <<t1, t3, ram, cmd, seq, cells, mailboxVars>>

-----------------------------------------------------------------------------
(* The overlays *)

Return ==
  /\ Running(Returning) /\ pc' = "wait_start"
  /\ UNCHANGED <<t1, t3, ram, cmd, seq, cells, mailboxVars>>

StartCalc ==
  /\ Running(Calculating) /\ pc' = "calc_wait" /\ cmd' = <<>> /\ seq' = 0
  /\ UNCHANGED <<t1, t3, ram, cells, mailboxVars>>

CalcWait ==
  /\ pc = "calc_wait" /\ boot_pending /\ pc' = "calc_read"
  /\ UNCHANGED <<t1, t3, ram, cmd, seq, cells, mailboxVars>>

CalcRead ==
  /\ pc = "calc_read"
  /\ ReadData
  /\ cmd' = Append(cmd, boot_data)
  /\ pc' = IF Len(cmd) + 1 = CommandWords THEN "calc_show" ELSE "calc_wait"
  /\ UNCHANGED <<t1, t3, ram, seq, cells>>

\* The done signal comes before the result (mutant).
CalcShowLate ==
  /\ pc = "calc_show" /\ pc' = "calc_beat"
  /\ heartbeat' = (seq + 1) % Beats
  /\ UNCHANGED <<boot_len, boot_data, boot_pending, boot_start, t1, t3, ram, cmd, seq, cells>>

CalcShow ==
  /\ pc = "calc_show" /\ pc' = "calc_beat"
  /\ cells' = cmd /\ cmd' = <<>>
  /\ UNCHANGED <<t1, t3, ram, seq, mailboxVars>>

CalcBeat ==
  /\ pc = "calc_beat" /\ pc' = "calc_wait"
  /\ seq' = (seq + 1) % Beats /\ WriteHeartbeat(seq')
  /\ UNCHANGED <<t1, t3, ram, cmd, cells>>

Boot == WaitStart \/ ReadLength \/ CopyLoop \/ WaitWord \/ ReadWord \/ Run
Overlay == Return \/ StartCalc \/ CalcWait \/ CalcRead \/ CalcShow \/ CalcBeat

Mcu == Boot \/ Overlay
=============================================================================
