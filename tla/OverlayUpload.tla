---------------------------- MODULE OverlayUpload ----------------------------
(***************************************************************************)
(* The host (webapp/modbus_client.py) uploads overlays to the SERV core    *)
(* and asks the calc overlay for results, through the mailbox.  A step of  *)
(* the host is one register access; the core runs freely between two.      *)
(* When the answer to an access is lost, the access is made again          *)
(* (retries, modbus_client.py:128): the core's side sees it twice, or more *)
(* often, and runs freely in between.  A request that does not arrive is   *)
(* no step.                                                                *)
(*                                                                         *)
(* Assumed of time: within the ten milliseconds the host sleeps after a    *)
(* reset, the reset arrives and the bootloader gets to where it waits, and *)
(* a program that is going to take the next word, or to finish a           *)
(* calculation, does so before the two seconds of a timeout.  An overlay   *)
(* that is to return may take longer than that.                            *)
(***************************************************************************)
EXTENDS Bootloader

CONSTANTS
  NoJob,
  Slips      \* bound: calls made although the core is not ready for them

ASSUME NoJobAssumption == NoJob \notin Jobs /\ Slips \in Nat

VARIABLES
  hpc,            \* where the host is in serv_boot_load, serv_calc or serv_mcu_reset
  job,            \* the image or the command it is busy with, or was last
  reset_first,
  sent,           \* words written so far
  fit,            \* history: the call began with the core ready for it
  slips,          \* calls so far that did not
  repeats,        \* history: repeated accesses of the call that changed something
  outcome,        \* "running", or how the call ended
  answer,         \* what serv_calc returned
  resetting       \* the reset is on its way to the core

hostVars == <<hpc, job, reset_first, sent, outcome, answer, fit, slips, repeats>>
vars == <<mailboxVars, mcuVars, hostVars, resetting>>

\* The value of the heartbeat from which serv_calc sees it change.
Sentinel == Beats - 1

-----------------------------------------------------------------------------
(* The operator *)

\* The core waits for the host, or runs an overlay: calls are milliseconds apart.
Settled ==
  \/ pc = "overlay" /\ ~ Running(Calculating)
  \/ pc = "wait_start" /\ ~ boot_start
  \/ pc \in {"wait_word", "calc_wait"} /\ ~ boot_pending

\* BOOT_STATUS reads 0.
Rest == ~ boot_pending /\ ~ boot_start

FitToLoad(first) == Rest /\ (first \/ pc = "wait_start" \/ Running(Returning))

FitToAsk == Rest /\ pc = "calc_wait" /\ cmd = <<>>

\* Some calls are made although the core is not ready for them.
Call(fitting) ==
  /\ fit' = fitting
  /\ \/ fitting /\ slips' = slips
     \/ ~ fitting /\ Settled /\ slips < Slips /\ slips' = slips + 1

Begin(what, first, at) ==
  /\ hpc = "idle" /\ ~ resetting /\ hpc' = at
  /\ job' = what /\ reset_first' = first /\ sent' = 0
  /\ outcome' = "running" /\ answer' = <<>> /\ repeats' = 0
  /\ UNCHANGED <<mailboxVars, mcuVars, resetting>>

Load(o, first) ==
  Call(FitToLoad(first)) /\ Begin(o, first, IF first THEN "reset" ELSE "len")

Ask(c) == Call(FitToAsk) /\ Begin(c, FALSE, "sentinel")

Restart == Call(Rest) /\ Begin(NoJob, TRUE, "reset")

-----------------------------------------------------------------------------
(* The host *)

Goto(at) == hpc' = at /\ UNCHANGED <<job, reset_first, sent, outcome, answer, fit, slips, repeats>>

Finish(how) ==
  hpc' = "idle" /\ outcome' = how /\ UNCHANGED <<job, reset_first, sent, fit, slips>>

\* What the host does when word n is acknowledged.
AfterWord(n) ==
  LET last == n = Length(job)
  IN  /\ hpc' = IF ~ last THEN "poll" ELSE IF job \in Overlays THEN "idle" ELSE "beat"
      /\ outcome' = IF last /\ job \in Overlays THEN "ok" ELSE outcome

WriteReset ==
  /\ hpc = "reset" /\ resetting' = TRUE
  /\ IF job = NoJob THEN Finish("ok") /\ UNCHANGED <<answer, repeats>> ELSE Goto("sleep")
  /\ UNCHANGED <<mailboxVars, mcuVars>>

\* The host does not sleep (mutant).
WakeEarly ==
  /\ hpc = "sleep" /\ Goto("len")
  /\ UNCHANGED <<mailboxVars, mcuVars, resetting>>

Wake ==
  /\ hpc = "sleep" /\ ~ resetting /\ Settled /\ Goto("len")
  /\ UNCHANGED <<mailboxVars, mcuVars, resetting>>

WriteBootLen ==
  /\ hpc \in {"len", "relen"} /\ WriteLen(Size[job]) /\ Goto("poll")
  /\ UNCHANGED <<mcuVars, resetting>>

\* The host does not wait for the slot (mutant).
SeeEmptyNot ==
  /\ hpc = "poll" /\ Goto("data")
  /\ UNCHANGED <<mailboxVars, mcuVars, resetting>>

SeeEmpty ==
  /\ hpc = "poll" /\ ~ boot_pending /\ Goto("data")
  /\ UNCHANGED <<mailboxVars, mcuVars, resetting>>

SendNext ==
  /\ hpc = "data" /\ WriteData(Word(job, sent + 1)) /\ sent' = sent + 1
  /\ UNCHANGED repeats

\* A word that finds the slot still full of itself changes nothing.
SendAgain ==
  /\ hpc = "again" /\ WriteData(Word(job, sent)) /\ sent' = sent
  /\ repeats' = IF boot_pending THEN repeats ELSE repeats + 1

WriteWord ==
  /\ SendNext \/ SendAgain
  /\ AfterWord(sent')
  /\ UNCHANGED <<job, reset_first, answer, fit, slips, mcuVars, resetting>>

WriteSentinel ==
  /\ hpc = "sentinel" /\ WriteHeartbeat(Sentinel) /\ Goto("poll")
  /\ UNCHANGED <<mcuVars, resetting>>

SeeBeat ==
  /\ hpc = "beat" /\ heartbeat # Sentinel /\ Goto("cells")
  /\ UNCHANGED <<mailboxVars, mcuVars, resetting>>

ReadCells ==
  /\ hpc = "cells" /\ answer' = cells /\ Finish("ok")
  /\ UNCHANGED <<repeats, mailboxVars, mcuVars, resetting>>

\* The core is going to take the word that is in the mailbox.
Draining ==
  \/ pc \in {"read_len", "copy_loop", "wait_word", "read_word"}
  \/ pc = "wait_start" /\ boot_start
  \/ pc \in {"calc_wait", "calc_read", "calc_show", "calc_beat"}
  \/ Running(Calculating)

PollTimeout ==
  /\ hpc = "poll" /\ boot_pending /\ ~ Draining /\ ~ resetting
  /\ Finish("timeout") /\ UNCHANGED <<answer, repeats, mailboxVars, mcuVars, resetting>>

BeatTimeout ==
  /\ hpc = "beat" /\ heartbeat = Sentinel
  /\ pc \notin {"calc_read", "calc_show", "calc_beat"}
  /\ ~ (pc = "calc_wait" /\ boot_pending)
  /\ Finish("timeout") /\ UNCHANGED <<answer, repeats, mailboxVars, mcuVars, resetting>>

\* An exception: the port is lost, the operator interrupts.
Abort ==
  /\ hpc # "idle"
  /\ Finish("aborted") /\ UNCHANGED <<answer, repeats, mailboxVars, mcuVars, resetting>>

Host ==
  \/ WriteReset \/ Wake \/ WriteBootLen \/ SeeEmpty \/ WriteWord
  \/ WriteSentinel \/ SeeBeat \/ ReadCells \/ PollTimeout \/ BeatTimeout

-----------------------------------------------------------------------------
(* Answers that are lost: the host makes the access again *)

LoseReset ==
  /\ hpc = "reset" /\ resetting' = TRUE
  /\ UNCHANGED <<mailboxVars, mcuVars, hostVars>>

LoseLen ==
  /\ hpc \in {"len", "relen"} /\ WriteLen(Size[job]) /\ Goto("relen")
  /\ UNCHANGED <<mcuVars, resetting>>

LoseWord ==
  /\ SendNext \/ SendAgain
  /\ hpc' = "again"
  /\ UNCHANGED <<job, reset_first, outcome, answer, fit, slips, mcuVars, resetting>>

LoseSentinel ==
  /\ hpc = "sentinel" /\ WriteHeartbeat(Sentinel)
  /\ UNCHANGED <<hostVars, mcuVars, resetting>>

\* The cursor has moved on when a cell is read again: the answer lacks that cell.
LoseCell ==
  /\ hpc = "cells" /\ answer' = <<>> /\ repeats' = repeats + 1 /\ Finish("ok")
  /\ UNCHANGED <<mailboxVars, mcuVars, resetting>>

Line == LoseReset \/ LoseLen \/ LoseWord \/ LoseSentinel \/ LoseCell

-----------------------------------------------------------------------------
Operator ==
  \/ \E o \in Overlays, first \in BOOLEAN : Load(o, first)
  \/ \E c \in Commands : Ask(c)
  \/ Restart
  \/ Abort

-----------------------------------------------------------------------------
McuStep == Mcu /\ UNCHANGED <<hostVars, resetting>>

ResetArrives ==
  /\ resetting /\ resetting' = FALSE
  /\ McuReset
  /\ UNCHANGED hostVars

Init ==
  /\ MailboxReset /\ McuInit
  /\ hpc = "idle" /\ job = NoJob /\ reset_first = FALSE /\ sent = 0
  /\ outcome = "ok" /\ answer = <<>> /\ resetting = FALSE
  /\ fit = TRUE /\ slips = 0 /\ repeats = 0

Next == Operator \/ Host \/ Line \/ McuStep \/ ResetArrives

Spec == Init /\ [][Next]_vars

\* The host's call and the core's program run on; the operator need not, and the
\* line does not lose every answer.
FairSpec == Spec /\ WF_vars(Host) /\ WF_vars(McuStep) /\ WF_vars(ResetArrives)

-----------------------------------------------------------------------------
HostTypeOK ==
  /\ MailboxTypeOK /\ McuTypeOK
  /\ hpc \in {"idle", "reset", "sleep", "len", "relen", "poll", "data", "again", "sentinel",
             "beat", "cells"}
  /\ job \in Jobs \cup {NoJob} /\ reset_first \in BOOLEAN /\ sent \in Nat
  /\ outcome \in {"running", "ok", "timeout", "aborted"}
  /\ answer \in Seq(Words) /\ resetting \in BOOLEAN
  /\ fit \in BOOLEAN /\ slips \in 0 .. Slips /\ repeats \in Nat

Loaded == job \in Overlays /\ outcome = "ok"

\* The call began with the core ready for it, and repeated no access to effect.
Plain == fit /\ repeats = 0

(***************************************************************************)
(* When serv_boot_load has returned and the core runs an overlay, the      *)
(* image in the RAM is the one that was sent, word for word, whatever      *)
(* happened before: aborted or timed-out calls, resets at any moment,      *)
(* calls nobody should have made.  The load itself began with an empty     *)
(* mailbox, and of the accesses it made twice none was a word the core had *)
(* taken already: that word the core takes twice.                          *)
(***************************************************************************)
InstalledIsSent == Loaded /\ Plain /\ pc = "overlay" => Installed(job)

(***************************************************************************)
(* The docstring of serv_boot_load: "the MCU is reset back into the        *)
(* bootloader before the upload, so loading works regardless of what the   *)
(* MCU was running -- including over an overlay that parks".  (The load    *)
(* repeats no word the core has taken already.)                            *)
(***************************************************************************)
LoadsOverAnything ==
  Loaded /\ reset_first /\ repeats = 0 /\ pc = "overlay" => Installed(job)

(***************************************************************************)
(* A load that resets the core first never gives up: the bootloader takes  *)
(* every word, if it began with an empty mailbox and no word the core had  *)
(* taken already was repeated.                                             *)
(***************************************************************************)
ResetLoadDrains == job \in Overlays /\ reset_first /\ Plain => outcome # "timeout"

(***************************************************************************)
(* What serv_calc returns is the result of the command it sent, not of an  *)
(* earlier one that it took the done signal of, if it began with calc at   *)
(* rest and repeated no word or cell that had been taken already.          *)
(***************************************************************************)
CalcOwnAnswer ==
  job \in Commands /\ outcome = "ok" /\ Plain
    => answer = [i \in 1 .. CommandWords |-> Word(job, i)]

(***************************************************************************)
(* serv_calc: the overlay "bumps the heartbeat as a done signal", for      *)
(* which the host waits; so a command the overlay has served does not end  *)
(* in a timeout.                                                           *)
(***************************************************************************)
CalcCompletes == job \in Commands /\ Plain => outcome # "timeout"

(***************************************************************************)
(* An image that serv_boot_load begins to send after a reset of a core     *)
(* with an empty mailbox gets to run, unless the host is interrupted, the  *)
(* core is reset again or a word is taken twice.                           *)
(***************************************************************************)
LoadRuns ==
  \A o \in Overlays :
    hpc = "len" /\ job = o /\ reset_first /\ fit
      ~> (pc = "overlay" /\ Installed(o)) \/ outcome = "aborted" \/ hpc = "reset" \/ repeats > 0
=============================================================================
