------------------------------ MODULE Mailbox ------------------------------
(***************************************************************************)
(* The registers of src/modbus/wb_sysregs.sv through which the host hands  *)
(* words to the SERV core: the one-word mailbox of the bootloader and the  *)
(* heartbeat.  The core's reset (0xE2) leaves all of them alone.  One      *)
(* operator is one bus access; the arbiter lets them through one by one.   *)
(***************************************************************************)
EXTENDS Integers, Sequences

CONSTANTS
  Overlays,       \* the firmware images
  Commands,       \* the operations asked of the calc overlay
  Size,           \* words of an image
  CommandWords,   \* words of a command, 5 in the code
  Beats,          \* values of the heartbeat's low byte, 256 in the code
  RamWords,       \* room for an image
  NoWord          \* what the mailbox and the RAM hold before the first word

\* An image holds one instruction of RV32I or more, and fits.
ASSUME SizeAssumption == RamWords \in Nat /\ Size \in [Overlays -> 2 .. RamWords]
ASSUME CommandAssumption == CommandWords \in Nat \ {0} /\ Beats \in Nat \ {0, 1}
ASSUME JobAssumption == Overlays \cap Commands = {}

VARIABLES boot_len, boot_data, boot_pending, boot_start, heartbeat

mailboxVars == <<boot_len, boot_data, boot_pending, boot_start, heartbeat>>

Jobs == Overlays \cup Commands

Length(job) == IF job \in Overlays THEN Size[job] ELSE CommandWords

\* Word i of an image or a command.
Word(job, i) == <<job, i>>

Words == {NoWord} \cup UNION {{Word(job, i) : i \in 1 .. Length(job)} : job \in Jobs}

MailboxReset ==
  /\ boot_len = 0 /\ boot_data = NoWord /\ heartbeat = 0
  /\ boot_pending = FALSE /\ boot_start = FALSE

WriteLen(n) ==
  /\ boot_len' = n /\ boot_start' = TRUE
  /\ UNCHANGED <<boot_data, boot_pending, heartbeat>>

\* The core's read of the length consumes the start.
ReadLen ==
  /\ boot_start' = FALSE
  /\ UNCHANGED <<boot_len, boot_data, boot_pending, heartbeat>>

WriteData(word) ==
  /\ boot_data' = word /\ boot_pending' = TRUE
  /\ UNCHANGED <<boot_len, boot_start, heartbeat>>

\* The core's read of the word consumes it.
ReadData ==
  /\ boot_pending' = FALSE
  /\ UNCHANGED <<boot_len, boot_data, boot_start, heartbeat>>

WriteHeartbeat(beat) ==
  /\ heartbeat' = beat
  /\ UNCHANGED <<boot_len, boot_data, boot_pending, boot_start>>

MailboxTypeOK ==
  /\ boot_len \in 0 .. RamWords /\ boot_data \in Words /\ heartbeat \in 0 .. Beats - 1
  /\ boot_pending \in BOOLEAN /\ boot_start \in BOOLEAN
=============================================================================
