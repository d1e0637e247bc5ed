------------------------- MODULE OverlayUpload_proofs -------------------------
(***************************************************************************)
(* Proofs about OverlayUpload, for any overlays, images and commands: the  *)
(* image that runs is the one that was sent, and a load that resets the    *)
(* core first never times out, if the call began with the core ready for   *)
(* it and repeated nothing to effect, whatever other calls did.            *)
(***************************************************************************)
EXTENDS OverlayUpload, TLAPS

\* Words of the image o that have been sent and not yet received.
InSlot == IF boot_pending THEN 1 ELSE 0

Received(o) == \A i \in 1 .. t3 : ram[i] = Word(o, i)

\* The host is past BOOT_LEN and has not failed.
Sending == job \in Overlays /\ (hpc \in {"relen", "poll", "data", "again"} \/ outcome = "ok")

\* The bootloader has not yet seen the start.
Announced(o) ==
  /\ boot_start /\ boot_len = Size[o] /\ sent = InSlot
  /\ \/ pc \in {"wait_start", "read_len"}
     \/ ~ reset_first /\ Running(Returning)

\* The bootloader receives the image.
Copying(o) ==
  /\ t1 = Size[o] /\ t3 <= t1 /\ Received(o)
  /\ sent = t3 + InSlot
  /\ \/ pc = "copy_loop"
     \/ pc = "wait_word" /\ t3 < t1
     \/ pc = "read_word" /\ t3 < t1 /\ boot_pending

\* All of the image is there.
Complete(o) ==
  /\ ~ boot_pending /\ sent = Size[o] /\ Installed(o)
  /\ pc \notin {"copy_loop", "wait_word", "read_word"}

\* A BOOT_LEN that was written again has started the bootloader once more.
Restarted(o) ==
  /\ ~ boot_pending /\ sent = Size[o] /\ t1 = Size[o] /\ t3 = 0
  /\ pc \in {"copy_loop", "wait_word"}

Underway(o) == Announced(o) \/ Copying(o) \/ Complete(o) \/ Restarted(o)

\* Where the host is, and what it may have begun with.
HostInv ==
  /\ job \in Jobs \cup {NoJob} /\ sent \in Nat /\ reset_first \in BOOLEAN
  /\ boot_pending \in BOOLEAN /\ boot_start \in BOOLEAN /\ resetting \in BOOLEAN
  /\ fit \in BOOLEAN /\ repeats \in Nat
  /\ t3 \in Nat /\ ram = [i \in 1 .. RamWords |-> ram[i]]
  /\ hpc \in {"idle", "reset", "sleep", "len", "relen", "poll", "data", "again", "sentinel",
             "beat", "cells"}
  /\ (outcome = "running") <=> (hpc # "idle")
  /\ hpc \in {"sentinel", "beat", "cells"} => job \in Commands
  /\ hpc = "reset" => job \in Overlays \cup {NoJob} /\ reset_first
  /\ hpc = "sleep" => job \in Overlays /\ reset_first
  /\ hpc \in {"len", "relen"} => job \in Overlays
  /\ hpc \in {"reset", "sleep", "len", "relen", "sentinel"} => sent = 0
  /\ hpc \in {"poll", "data"} => job \in Jobs /\ sent < Length(job)
  /\ hpc = "again" => job \in Jobs /\ 0 < sent /\ sent <= Length(job)
  /\ pc = "read_len" => boot_start

\* The core while the host resets it, and when the host is about to start.
ResetInv ==
  fit =>
    /\ hpc \in {"reset", "sleep"} => Rest
    /\ hpc = "sleep" => resetting \/ pc = "wait_start"
    /\ hpc = "len" =>
         /\ Rest /\ ~ resetting
         /\ \/ pc = "wait_start"
            \/ ~ reset_first /\ Running(Returning)

\* The core while the host sends, and after it has sent.
SendInv ==
  Sending /\ Plain =>
    /\ ~ resetting
    /\ outcome = "ok" => sent = Size[job]
    /\ boot_pending => boot_data = Word(job, sent)
    /\ boot_start => boot_len = Size[job]
    /\ hpc \in {"relen", "data"} => ~ boot_pending
    /\ Underway(job)

UploadInv == HostInv /\ ResetInv /\ SendInv /\ ResetLoadDrains

-----------------------------------------------------------------------------
(***************************************************************************)
(* The RAM holds one image at a time: a word knows where it comes from.    *)
(***************************************************************************)
LEMMA OneImage ==
  ASSUME NEW o \in Overlays, NEW p \in Overlays, Installed(o), Installed(p)
  PROVE  o = p
<1>1. ram[1] = <<o, 1>> /\ ram[1] = <<p, 1>>
  BY SizeAssumption DEF Installed, Word
<1> QED
  BY <1>1

LEMMA UploadMcu ==
  ASSUME UploadInv, McuStep PROVE UploadInv'
<1> USE SizeAssumption, CommandAssumption, JobAssumption, KindAssumption, NoJobAssumption
<1>1. /\ UNCHANGED <<job, hpc, reset_first, sent, outcome, fit, repeats, resetting>>
      /\ UNCHANGED <<boot_len, boot_data>>
      /\ boot_pending' \in BOOLEAN /\ (boot_pending' => boot_pending)
      /\ boot_start' \in BOOLEAN /\ (boot_start' => boot_start)
  <2>1. UNCHANGED <<job, hpc, reset_first, sent, outcome, fit, repeats, resetting>>
    BY DEF McuStep, hostVars
  <2>2. /\ UNCHANGED <<boot_len, boot_data>>
        /\ boot_pending' = boot_pending \/ boot_pending' = FALSE
        /\ boot_start' = boot_start \/ boot_start' = FALSE
    <3>1. CASE Boot
      BY <3>1 DEF Boot, WaitStart, ReadLength, CopyLoop, WaitWord, ReadWord, Run, ReadLen,
                  ReadData, mailboxVars
    <3>2. CASE Overlay
      BY <3>2 DEF Overlay, Return, StartCalc, CalcWait, CalcRead, CalcShow, CalcBeat, ReadData,
                  WriteHeartbeat, mailboxVars
    <3> QED
      BY <3>1, <3>2 DEF McuStep, Mcu
  <2>3. boot_pending \in BOOLEAN /\ boot_start \in BOOLEAN
    BY DEF UploadInv, HostInv
  <2>4. boot_pending' \in BOOLEAN /\ boot_start' \in BOOLEAN
    BY <2>2, <2>3
  <2>5. (boot_pending' => boot_pending) /\ (boot_start' => boot_start)
    BY <2>2, <2>3
  <2> QED
    BY <2>1, <2>2, <2>4, <2>5
<1>2. t3' \in Nat /\ ram' = [i \in 1 .. RamWords |-> ram'[i]] /\ (pc = "read_len" => boot_start)'
  <2> USE DEF UploadInv, HostInv, mailboxVars
  <2>1. CASE Boot
    BY <2>1 DEF Boot, WaitStart, ReadLength, CopyLoop, WaitWord, ReadWord, Run, ReadLen, ReadData
  <2>2. CASE Overlay
    BY <2>2 DEF Overlay, Return, StartCalc, CalcWait, CalcRead, CalcShow, CalcBeat, ReadData,
                WriteHeartbeat
  <2> QED
    BY <2>1, <2>2 DEF McuStep, Mcu
<1>3. /\ pc = "wait_start" /\ ~ boot_start => pc' = "wait_start"
      /\ Running(Returning) => pc' = "wait_start"
  <2>1. Running(Returning) => pc = "overlay" /\ ~ Running(Calculating)
    BY OneImage DEF Running
  <2>2. Running(Calculating) => pc = "overlay"
    BY DEF Running
  <2>3. pc = "overlay" /\ ~ Running(Calculating) => pc' = "wait_start"
    BY DEF McuStep, Mcu, Boot, Overlay, WaitStart, ReadLength, CopyLoop, WaitWord, ReadWord, Run,
           Return, StartCalc, CalcWait, CalcRead, CalcShow, CalcBeat
  <2>4. pc = "wait_start" /\ boot_start = FALSE => FALSE
    BY <2>2 DEF McuStep, Mcu, Boot, Overlay, WaitStart, ReadLength, CopyLoop, WaitWord, ReadWord,
                Run, Return, StartCalc, CalcWait, CalcRead, CalcShow, CalcBeat, Running
  <2> QED
    BY <2>1, <2>3, <2>4 DEF UploadInv, HostInv
<1>4. ASSUME Sending, Plain PROVE Underway(job)'
  <2>1. /\ job \in Overlays /\ job \in Jobs /\ Size[job] \in 2 .. RamWords /\ Length(job) = Size[job]
        /\ Underway(job) /\ sent \in Nat /\ t3 \in Nat /\ boot_pending \in BOOLEAN
        /\ sent <= Size[job]
        /\ boot_pending => boot_data = Word(job, sent)
        /\ boot_start => boot_len = Size[job]
        /\ pc = "read_len" => boot_start
    BY <1>4 DEF UploadInv, HostInv, SendInv, Sending, Jobs, Length
  <2>2. job' = job /\ sent' = sent /\ reset_first' = reset_first
    BY <1>1
  <2>3. CASE WaitStart
    <3>1. /\ pc = "wait_start" /\ pc' = "read_len"
          /\ UNCHANGED <<t1, t3, ram, boot_len, boot_data, boot_pending, boot_start>>
      BY <2>3 DEF WaitStart, mailboxVars
    <3>2. Announced(job) \/ Complete(job)
      BY <2>1, <3>1 DEF Underway, Copying, Restarted
    <3>3. Announced(job) => Announced(job)'
      BY <2>2, <3>1 DEF Announced, InSlot, Running
    <3>4. Complete(job) => Complete(job)'
      BY <2>2, <3>1 DEF Complete, Installed
    <3> QED
      BY <3>2, <3>3, <3>4 DEF Underway
  <2>4. CASE ReadLength
    <3>1. /\ pc = "read_len" /\ pc' = "copy_loop" /\ t1' = boot_len /\ t3' = 0
          /\ UNCHANGED <<ram, boot_len, boot_data, boot_pending>>
      BY <2>4 DEF ReadLength, ReadLen
    <3>2. Announced(job) \/ Complete(job)
      BY <2>1, <3>1 DEF Underway, Copying, Restarted
    <3>3. boot_len = Size[job] /\ t1' = Size[job]
      BY <2>1, <3>1
    <3>4. Announced(job) => Copying(job)'
      BY <2>1, <2>2, <3>1, <3>3 DEF Announced, Copying, Received, InSlot
    <3>5. Complete(job) => Restarted(job)'
      BY <2>2, <3>1, <3>3 DEF Complete, Restarted
    <3> QED
      BY <3>2, <3>4, <3>5 DEF Underway
  <2>5. CASE CopyLoop
    <3>1. /\ pc = "copy_loop" /\ pc' = (IF t3 = t1 THEN "run" ELSE "wait_word")
          /\ UNCHANGED <<t1, t3, ram, boot_len, boot_data, boot_pending>>
      BY <2>5 DEF CopyLoop, mailboxVars
    <3>2. Copying(job) \/ Restarted(job)
      BY <2>1, <3>1 DEF Underway, Announced, Complete, Running
    <3>3. Restarted(job) => Restarted(job)'
      BY <2>1, <2>2, <3>1 DEF Restarted
    <3>4. ASSUME Copying(job), t3 # t1 PROVE Copying(job)'
      BY <2>1, <2>2, <3>1, <3>4 DEF Copying, Received, InSlot
    <3>5. ASSUME Copying(job), t3 = t1 PROVE Complete(job)'
      <4>1. sent = Size[job] /\ ~ boot_pending
        BY <2>1, <3>5 DEF Copying, InSlot
      <4>2. Installed(job)
        BY <3>5 DEF Copying, Received, Installed
      <4> QED
        BY <2>2, <3>1, <3>5, <4>1, <4>2 DEF Complete, Installed
    <3> QED
      BY <3>2, <3>3, <3>4, <3>5 DEF Underway
  <2>6. CASE WaitWord
    <3>1. /\ pc = "wait_word" /\ boot_pending /\ pc' = "read_word"
          /\ UNCHANGED <<t1, t3, ram, boot_len, boot_data, boot_pending>>
      BY <2>6 DEF WaitWord, mailboxVars
    <3>2. Copying(job)
      BY <2>1, <3>1 DEF Underway, Announced, Complete, Restarted, Running
    <3>3. Copying(job)'
      BY <2>2, <3>1, <3>2 DEF Copying, Received, InSlot
    <3> QED
      BY <3>3 DEF Underway
  <2>7. CASE ReadWord
    <3>1. /\ pc = "read_word" /\ pc' = "copy_loop" /\ t1' = t1 /\ t3' = t3 + 1
          /\ boot_pending' = FALSE /\ ram' = [ram EXCEPT ![t3 + 1] = boot_data]
      BY <2>7 DEF ReadWord, ReadData
    <3>2. Copying(job) /\ boot_pending /\ t3 < t1
      BY <2>1, <3>1 DEF Underway, Announced, Copying, Complete, Restarted, Running
    <3>3. sent = t3 + 1 /\ t1 = Size[job] /\ boot_data = Word(job, t3 + 1)
      BY <2>1, <3>2 DEF Copying, InSlot
    <3>4. Received(job)'
      <4>1. ASSUME NEW i \in 1 .. t3 + 1 PROVE ram'[i] = Word(job, i)
        <5>1. i \in 1 .. RamWords /\ ram = [k \in 1 .. RamWords |-> ram[k]]
          BY <2>1, <3>2, <3>3 DEF UploadInv, HostInv
        <5>2. CASE i = t3 + 1
          BY <3>1, <3>3, <5>1, <5>2
        <5>3. CASE i \in 1 .. t3
          <6>1. i # t3 + 1
            BY <2>1, <5>3
          <6>2. ram'[i] = ram[i]
            BY <3>1, <5>1, <6>1
          <6> QED
            BY <3>2, <5>3, <6>2 DEF Copying, Received
        <5> QED
          BY <2>1, <5>2, <5>3
      <4> QED
        BY <2>2, <3>1, <4>1 DEF Received, Word
    <3>5. Copying(job)'
      BY <2>1, <2>2, <3>1, <3>2, <3>3, <3>4 DEF Copying, InSlot
    <3> QED
      BY <3>5 DEF Underway
  <2>8. CASE Run
    BY <2>1, <2>2, <2>8 DEF Run, mailboxVars, Underway, Announced, Copying, Complete, Restarted,
                            Running, Installed
  <2>9. CASE Return
    <3>1. /\ pc = "overlay" /\ pc' = "wait_start"
          /\ UNCHANGED <<t1, t3, ram, boot_len, boot_data, boot_pending, boot_start>>
      BY <2>9 DEF Return, Running, mailboxVars
    <3>2. Announced(job) \/ Complete(job)
      BY <2>1, <3>1 DEF Underway, Copying, Restarted
    <3>3. Announced(job) => Announced(job)'
      BY <2>2, <3>1 DEF Announced, InSlot
    <3>4. Complete(job) => Complete(job)'
      BY <2>2, <3>1 DEF Complete, Installed
    <3> QED
      BY <3>2, <3>3, <3>4 DEF Underway
  <2>10. CASE StartCalc \/ CalcWait \/ CalcRead \/ CalcShow \/ CalcBeat
    <3>1. /\ pc \in {"overlay", "calc_wait", "calc_read", "calc_show", "calc_beat"}
          /\ pc' \in {"calc_wait", "calc_read", "calc_show", "calc_beat"}
          /\ UNCHANGED <<t1, ram>>
      BY <2>10 DEF StartCalc, CalcWait, CalcRead, CalcShow, CalcBeat, Running
    <3>2. ~ Running(Returning)
      BY <1>3, <3>1
    <3>3. Complete(job)
      BY <2>1, <3>1, <3>2 DEF Underway, Announced, Copying, Restarted
    <3>4. Complete(job)'
      BY <1>1, <2>2, <3>1, <3>3 DEF Complete, Installed
    <3> QED
      BY <3>4 DEF Underway
  <2> QED
    BY <2>3, <2>4, <2>5, <2>6, <2>7, <2>8, <2>9, <2>10 DEF McuStep, Mcu, Boot, Overlay
<1>5. HostInv'
  BY <1>1, <1>2 DEF UploadInv, HostInv
<1>6. ResetInv' /\ ResetLoadDrains'
  BY <1>1, <1>3 DEF UploadInv, HostInv, ResetInv, ResetLoadDrains, Rest, Plain
<1>7. SendInv'
  BY <1>1, <1>4 DEF UploadInv, HostInv, SendInv, Sending, Plain
<1> QED
  BY <1>5, <1>6, <1>7 DEF UploadInv

\* What becomes of an upload is up to the mailbox and the core.
LEMMA UnderwayKept ==
  ASSUME NEW o, Underway(o), UNCHANGED <<mailboxVars, mcuVars, sent, reset_first>>
  PROVE  Underway(o)'
BY DEF Underway, Announced, Copying, Complete, Restarted, Received, InSlot, Running, Installed,
       mailboxVars, mcuVars

LEMMA UploadOperator ==
  ASSUME UploadInv, Operator PROVE UploadInv'
<1> USE SizeAssumption, CommandAssumption, JobAssumption, KindAssumption, NoJobAssumption
<1> USE DEF UploadInv, HostInv, ResetInv, SendInv, ResetLoadDrains, Sending, Rest, Jobs, Length,
        Plain, mailboxVars, mcuVars, hostVars
<1>1. ASSUME NEW o \in Overlays, NEW first \in BOOLEAN, Load(o, first) PROVE UploadInv'
  BY <1>1 DEF Load, Begin, Call, FitToLoad, Running, Installed
<1>2. ASSUME NEW c \in Commands, Ask(c) PROVE UploadInv'
  BY <1>2 DEF Ask, Begin, Call, FitToAsk
<1>3. ASSUME Restart PROVE UploadInv'
  BY <1>3 DEF Restart, Begin, Call
<1>4. ASSUME Abort PROVE UploadInv'
  BY <1>4 DEF Abort, Finish
<1> QED
  BY <1>1, <1>2, <1>3, <1>4 DEF Operator

LEMMA UploadWord ==
  ASSUME UploadInv, WriteWord \/ LoseWord PROVE UploadInv'
<1> USE SizeAssumption, CommandAssumption, JobAssumption, NoJobAssumption
<1>1. /\ job \in Jobs /\ Length(job) \in Nat /\ outcome = "running"
      /\ sent \in Nat /\ sent' \in Nat /\ 0 < sent' /\ sent' <= Length(job)
  BY DEF UploadInv, HostInv, WriteWord, LoseWord, SendNext, SendAgain, Jobs, Length
<1>2. /\ boot_data' = Word(job, sent') /\ boot_pending' = TRUE
      /\ UNCHANGED <<job, reset_first, fit, boot_start, boot_len, mcuVars, resetting>>
  BY DEF WriteWord, LoseWord, SendNext, SendAgain, WriteData
<1>3. /\ hpc' \in {"again", "poll", "idle", "beat"}
      /\ hpc' = "poll" => sent' < Length(job)
      /\ hpc' = "beat" => job \in Commands
      /\ hpc' = "idle" => job \in Overlays /\ sent' = Length(job) /\ outcome' = "ok"
      /\ hpc' # "idle" => outcome' = outcome
  <2>1. CASE LoseWord
    BY <2>1 DEF LoseWord
  <2>2. CASE WriteWord
    <3>1. AfterWord(sent')
      BY <2>2 DEF WriteWord
    <3>2. CASE sent' = Length(job) /\ job \in Overlays
      BY <3>1, <3>2 DEF AfterWord
    <3>3. CASE sent' = Length(job) /\ job \notin Overlays
      BY <1>1, <3>1, <3>3 DEF AfterWord, Jobs
    <3>4. CASE sent' # Length(job)
      BY <1>1, <3>1, <3>4 DEF AfterWord
    <3> QED
      BY <3>2, <3>3, <3>4
  <2> QED
    BY <2>1, <2>2
<1>4. repeats \in Nat /\ repeats' \in Nat
  BY DEF UploadInv, HostInv, WriteWord, LoseWord, SendNext, SendAgain
<1>5. HostInv'
  BY <1>1, <1>2, <1>3, <1>4 DEF UploadInv, HostInv, mcuVars
<1>6. ResetInv'
  BY <1>3 DEF ResetInv
<1>7. ResetLoadDrains'
  BY <1>1, <1>3 DEF ResetLoadDrains
<1>8. ASSUME job \in Overlays, Plain' PROVE SendInv'
  <2>1. Running(Returning)' = Running(Returning)
    BY <1>2 DEF Running, Installed, mcuVars
  <2>2. Length(job) = Size[job] /\ Size[job] \in Nat
    BY <1>8 DEF Length
  <2>3. ASSUME Underway(job)', ~ resetting, boot_start => boot_len = Size[job]
        PROVE  SendInv'
    <3>1. /\ ~ resetting' /\ (outcome' = "ok" => sent' = Size[job'])
          /\ boot_data' = Word(job', sent') /\ (boot_start' => boot_len' = Size[job'])
          /\ hpc' \notin {"relen", "data"} /\ Underway(job)'
      BY <1>1, <1>2, <1>3, <2>2, <2>3
    <3> QED
      BY <3>1 DEF SendInv
  <2>4. CASE SendNext
    <3>1. hpc = "data" /\ sent' = sent + 1 /\ Plain /\ Sending /\ sent < Length(job)
      BY <1>2, <1>8, <2>4 DEF SendNext, Plain, Sending, UploadInv, HostInv
    <3>2. /\ boot_pending = FALSE /\ ~ resetting /\ (boot_start => boot_len = Size[job])
          /\ Underway(job)
      BY <3>1 DEF UploadInv, HostInv, SendInv
    <3>3. CASE Announced(job)
      <4>1. Announced(job)'
        BY <1>2, <2>1, <3>1, <3>2, <3>3 DEF Announced, InSlot, mcuVars
      <4> QED
        BY <2>3, <3>2, <4>1 DEF Underway
    <3>4. CASE Copying(job)
      <4>1. t1' = t1 /\ t3' = t3 /\ ram' = ram /\ pc' = pc /\ job' = job
        BY <1>2 DEF mcuVars
      <4>2. sent = t3 + 0 /\ sent' = t3' + InSlot' /\ pc # "read_word"
        BY <1>1, <1>2, <3>1, <3>2, <3>4, <4>1 DEF Copying, InSlot, UploadInv, HostInv
      <4>3. Received(job)'
        BY <3>4, <4>1 DEF Copying, Received
      <4>4. Copying(job)'
        BY <3>4, <4>1, <4>2, <4>3 DEF Copying
      <4> QED
        BY <2>3, <3>2, <4>4 DEF Underway
    <3>5. ~ Complete(job) /\ ~ Restarted(job)
      BY <1>1, <2>2, <3>1 DEF Complete, Restarted
    <3> QED
      BY <3>2, <3>3, <3>4, <3>5 DEF Underway
  <2>5. CASE SendAgain
    <3>1. hpc = "again" /\ sent' = sent /\ boot_pending = TRUE /\ Plain /\ Sending
      BY <1>2, <1>4, <1>8, <2>5 DEF SendAgain, Plain, Sending, UploadInv, HostInv
    <3>2. ~ resetting /\ (boot_start => boot_len = Size[job]) /\ Underway(job)
      BY <3>1 DEF UploadInv, SendInv
    <3>3. UNCHANGED <<mailboxVars, mcuVars, sent, reset_first, job>>
      <4>1. boot_data' = boot_data
        BY <1>2, <3>1 DEF UploadInv, SendInv
      <4>2. heartbeat' = heartbeat
        BY <2>5 DEF SendAgain, WriteData
      <4> QED
        BY <1>2, <3>1, <4>1, <4>2 DEF mailboxVars
    <3>4. Underway(job)'
      BY <3>2, <3>3, UnderwayKept
    <3> QED
      BY <2>3, <3>2, <3>4
  <2> QED
    BY <2>4, <2>5 DEF WriteWord, LoseWord
<1>9. SendInv'
  BY <1>2, <1>8 DEF SendInv, Sending
<1> QED
  BY <1>5, <1>6, <1>7, <1>9 DEF UploadInv

LEMMA UploadStep ==
  ASSUME UploadInv, [Next]_vars PROVE UploadInv'
<1> USE SizeAssumption, CommandAssumption, JobAssumption, KindAssumption, NoJobAssumption
<1> USE DEF UploadInv, HostInv, ResetInv, SendInv, ResetLoadDrains, Sending, Rest, Jobs, Length,
        Plain, mailboxVars, mcuVars, hostVars
<1>1. ASSUME WriteReset PROVE UploadInv'
  BY <1>1 DEF WriteReset, Goto, Finish
<1>2. ASSUME LoseReset PROVE UploadInv'
  BY <1>2 DEF LoseReset
<1>3. ASSUME Wake PROVE UploadInv'
  BY <1>3 DEF Wake, Goto, Finish
<1>4. ASSUME WriteBootLen \/ LoseLen PROVE UploadInv'
  <2>1. /\ job \in Overlays /\ sent = 0 /\ outcome = "running" /\ hpc' \in {"relen", "poll"}
        /\ boot_len' = Size[job] /\ boot_start' = TRUE
        /\ UNCHANGED <<boot_data, boot_pending, job, reset_first, sent, outcome, answer, fit,
                       slips, repeats, mcuVars, resetting>>
    BY <1>4 DEF WriteBootLen, LoseLen, WriteLen, Goto
  <2>2. Size[job] \in Nat /\ 0 < Size[job]
    BY <2>1
  <2>3. HostInv'
    BY <2>1, <2>2
  <2>4. ResetInv' /\ ResetLoadDrains'
    BY <2>1
  <2>5. ASSUME Plain PROVE SendInv'
    <3>1. boot_pending = FALSE /\ ~ resetting
      BY <1>4, <2>1, <2>5 DEF WriteBootLen, LoseLen
    <3>2. Running(Returning)' = Running(Returning)
      BY <2>1 DEF Running, Installed
    <3>3. ASSUME hpc = "len" PROVE Underway(job)'
      <4>1. pc = "wait_start" \/ (~ reset_first /\ Running(Returning))
        BY <2>5, <3>3
      <4> QED
        BY <2>1, <3>1, <3>2, <4>1 DEF Announced, InSlot, Underway
    <3>4. ASSUME hpc = "relen" PROVE Underway(job)'
      <4>1. Underway(job)
        BY <2>1, <2>5, <3>4
      <4>2. CASE Announced(job)
        BY <2>1, <3>2, <4>2 DEF Announced, InSlot, Underway
      <4>3. CASE Copying(job)
        BY <2>1, <4>3 DEF Copying, Received, InSlot, Underway
      <4> QED
        BY <2>1, <2>2, <4>1, <4>2, <4>3 DEF Underway, Complete, Restarted
    <3>5. Underway(job)'
      BY <1>4, <3>3, <3>4 DEF WriteBootLen, LoseLen
    <3> HIDE DEF Sending
    <3> QED
      BY <2>1, <3>1, <3>5
  <2> QED
    BY <2>1, <2>3, <2>4, <2>5
<1>5. ASSUME SeeEmpty PROVE UploadInv'
  <2>1. UNCHANGED <<mailboxVars, mcuVars, sent, reset_first, job>>
    BY <1>5 DEF SeeEmpty, Goto
  <2>2. ASSUME Underway(job) PROVE Underway(job)'
    BY <2>1, <2>2, UnderwayKept
  <2> QED
    BY <1>5, <2>2 DEF SeeEmpty, Goto
<1>6. ASSUME WriteWord \/ LoseWord PROVE UploadInv'
  BY <1>6, UploadWord
<1>7. ASSUME WriteSentinel \/ LoseSentinel PROVE UploadInv'
  BY <1>7 DEF WriteSentinel, LoseSentinel, Goto, Finish, WriteHeartbeat, Sentinel
<1>8. ASSUME SeeBeat PROVE UploadInv'
  BY <1>8 DEF SeeBeat, Goto, Finish
<1>9. ASSUME ReadCells \/ LoseCell PROVE UploadInv'
  BY <1>9 DEF ReadCells, LoseCell, Goto, Finish
<1>10. ASSUME PollTimeout PROVE UploadInv'
  <2>1. ~ (job \in Overlays /\ reset_first /\ Plain)
    BY <1>10 DEF PollTimeout, Draining, Underway, Announced, Copying, Complete, Restarted
  <2> QED
    BY <1>10, <2>1 DEF PollTimeout, Finish
<1>11. ASSUME BeatTimeout PROVE UploadInv'
  BY <1>11 DEF BeatTimeout, Goto, Finish
<1>12. ASSUME ResetArrives PROVE UploadInv'
  <2>1. /\ resetting /\ resetting' = FALSE /\ pc' = "wait_start"
        /\ UNCHANGED <<hostVars, mailboxVars, t1, t3, ram, cells>>
    BY <1>12 DEF ResetArrives, McuReset
  <2>2. HostInv' /\ ResetLoadDrains'
    <3>1. ram' = [i \in 1 .. RamWords |-> ram'[i]] /\ t3' \in Nat
      BY <2>1
    <3>2. /\ boot_pending' \in BOOLEAN /\ boot_start' \in BOOLEAN /\ resetting' \in BOOLEAN
          /\ pc' # "read_len"
      BY <2>1
    <3> QED
      BY <2>1, <3>1, <3>2
  <2>3. ResetInv'
    BY <2>1
  <2>4. ~ Sending \/ ~ Plain
    BY <2>1
  <2>5. SendInv'
    BY <2>1, <2>4
  <2> QED
    BY <2>2, <2>3, <2>5
<1>13. ASSUME UNCHANGED vars PROVE UploadInv'
  <2>1. UNCHANGED <<mailboxVars, mcuVars, sent, reset_first, job>>
    BY <1>13 DEF vars
  <2>2. ASSUME Underway(job) PROVE Underway(job)'
    BY <2>1, <2>2, UnderwayKept
  <2>3. Running(Returning)' = Running(Returning)
    BY <1>13 DEF vars, Running, Installed
  <2> QED
    BY <1>13, <2>2, <2>3 DEF vars
<1> QED
  BY <1>1, <1>2, <1>3, <1>4, <1>5, <1>6, <1>7, <1>8, <1>9, <1>10, <1>11, <1>12, <1>13,
     UploadOperator, UploadMcu
  DEF Next, Host, Line

-----------------------------------------------------------------------------
LEMMA UploadInit == Init => UploadInv
<1> SUFFICES ASSUME Init PROVE UploadInv
  OBVIOUS
<1>1. ram = [i \in 1 .. RamWords |-> ram[i]]
  BY DEF Init, McuInit
<1>2. HostInv
  BY <1>1 DEF Init, MailboxReset, McuInit, HostInv
<1>3. ResetInv /\ SendInv /\ ResetLoadDrains
  BY NoJobAssumption DEF Init, ResetInv, SendInv, ResetLoadDrains, Sending, Jobs
<1> QED
  BY <1>2, <1>3 DEF UploadInv

LEMMA UploadInvariant == Spec => []UploadInv
<1>1. UploadInv /\ [Next]_vars => UploadInv'
  BY UploadStep
<1> QED
  BY UploadInit, <1>1, PTL DEF Spec

(***************************************************************************)
(* When serv_boot_load has returned and the core runs an overlay, it runs  *)
(* the image that was sent, for any number of answers lost and any calls   *)
(* before: only a word that this load sent again after the core had taken  *)
(* it, or a word that lay in the mailbox when the load began, spoils it.   *)
(***************************************************************************)
THEOREM SentIsInstalled == Spec => []InstalledIsSent
<1>1. ASSUME UploadInv PROVE InstalledIsSent
  <2> SUFFICES ASSUME Loaded, Plain, pc = "overlay" PROVE Installed(job)
    BY DEF InstalledIsSent
  <2>1. sent = Size[job] /\ Underway(job)
    BY <1>1 DEF UploadInv, SendInv, Sending, Loaded
  <2>2. ~ Announced(job)
    BY <2>1, SizeAssumption DEF Announced, InSlot, Loaded
  <2>3. ~ Copying(job) /\ ~ Restarted(job)
    BY DEF Copying, Restarted
  <2> QED
    BY <2>1, <2>2, <2>3 DEF Underway, Complete
<1> QED
  BY UploadInvariant, <1>1, PTL

(***************************************************************************)
(* A load that resets the core first does not time out, if it began with   *)
(* an empty mailbox and sent no word again that the core had taken.        *)
(***************************************************************************)
THEOREM ResetLoadFinishes == Spec => []ResetLoadDrains
<1> QED
  BY UploadInvariant, PTL DEF UploadInv

-----------------------------------------------------------------------------
(* Types, whatever the operator does *)

\* The bootloader and calc only take a word they have room for.
RoomInv ==
  /\ pc \in {"wait_word", "read_word"} => t3 < t1
  /\ pc \in {"calc_wait", "calc_read", "calc_beat"} => Len(cmd) < CommandWords

\* The host only sends words there are.
WordsInv ==
  /\ hpc = "reset" => job \in Overlays \cup {NoJob} /\ sent = 0
  /\ hpc \in {"sleep", "len", "relen"} => job \in Overlays /\ sent = 0
  /\ hpc = "sentinel" => job \in Commands /\ sent = 0
  /\ hpc \in {"poll", "data"} => job \in Jobs /\ sent < Length(job)
  /\ hpc = "again" => job \in Jobs /\ 0 < sent /\ sent <= Length(job)

TypedInv == HostTypeOK /\ RoomInv /\ WordsInv

LEMMA Lengths ==
  ASSUME NEW j \in Jobs
  PROVE  /\ Length(j) \in Nat /\ 0 < Length(j)
         /\ \A i \in 1 .. Length(j) : Word(j, i) \in Words
<1>1. Length(j) \in Nat /\ 0 < Length(j)
  BY SizeAssumption, CommandAssumption DEF Length, Jobs
<1> QED BY <1>1 DEF Words

LEMMA TypedHost ==
  ASSUME TypedInv, Host \/ Line PROVE TypedInv'
<1> USE SizeAssumption, CommandAssumption, Lengths
<1> USE DEF TypedInv, HostTypeOK, RoomInv, WordsInv, MailboxTypeOK, McuTypeOK,
        mailboxVars, mcuVars, Goto, Finish
<1>1. CASE WriteReset \/ LoseReset
  <2>1. CASE WriteReset BY <2>1 DEF WriteReset
  <2>2. CASE LoseReset BY <2>2 DEF LoseReset, hostVars
  <2> QED BY <1>1, <2>1, <2>2
<1>2. CASE Wake
  <2>1. UNCHANGED <<mailboxVars, mcuVars, resetting, job, sent>> /\ hpc' = "len" /\ hpc = "sleep"
    BY <1>2 DEF Wake
  <2> QED BY <1>2, <2>1 DEF Wake
<1>3. CASE WriteBootLen \/ LoseLen
  <2>1. /\ job \in Overlays /\ job \in Jobs /\ sent = 0
        /\ hpc' \in {"relen", "poll"} /\ boot_len' = Size[job] /\ boot_start' = TRUE
        /\ UNCHANGED <<boot_data, boot_pending, heartbeat, job, reset_first, sent, outcome,
                       answer, fit, slips, repeats, mcuVars, resetting>>
    BY <1>3 DEF WriteBootLen, LoseLen, WriteLen, Jobs
  <2>2. boot_len' \in 0 .. RamWords /\ 0 < Length(job)
    BY <2>1
  <2>3. HostTypeOK'
    BY <2>1, <2>2
  <2>4. RoomInv' /\ WordsInv'
    BY <2>1, <2>2
  <2> QED BY <2>3, <2>4
<1>4. CASE SeeEmpty BY <1>4 DEF SeeEmpty
<1>5. CASE WriteWord \/ LoseWord
  <2>1. /\ job \in Jobs /\ Length(job) \in Nat /\ sent \in Nat
        /\ sent' \in 1 .. Length(job) /\ repeats' \in Nat
    BY <1>5 DEF WriteWord, LoseWord, SendNext, SendAgain
  <2>2. boot_data' = Word(job, sent') /\ boot_pending' = TRUE
    BY <1>5 DEF WriteWord, LoseWord, SendNext, SendAgain, WriteData
  <2>3. UNCHANGED <<boot_len, boot_start, heartbeat, job, reset_first, answer, fit, slips, mcuVars,
                   resetting>>
    BY <1>5 DEF WriteWord, LoseWord, SendNext, SendAgain, WriteData
  <2>4. /\ hpc' \in {"again", "poll", "idle", "beat"} /\ outcome' \in {outcome, "ok"}
        /\ hpc' = "poll" => sent' # Length(job)
    BY <1>5, <2>3 DEF WriteWord, LoseWord, AfterWord
  <2>5. Word(job, sent') \in Words
    BY <2>1
  <2>6. HostTypeOK'
    BY <2>1, <2>2, <2>3, <2>4, <2>5
  <2>7. RoomInv' /\ WordsInv'
    BY <2>1, <2>3, <2>4
  <2> QED BY <2>6, <2>7
<1>6. CASE WriteSentinel \/ LoseSentinel
  <2>1. job \in Jobs /\ 0 < Length(job) /\ Sentinel \in 0 .. Beats - 1
    BY <1>6 DEF WriteSentinel, LoseSentinel, Jobs, Sentinel
  <2>2. CASE WriteSentinel BY <2>1, <2>2 DEF WriteSentinel, WriteHeartbeat
  <2>3. CASE LoseSentinel BY <2>1, <2>3 DEF LoseSentinel, WriteHeartbeat, hostVars
  <2> QED BY <1>6, <2>2, <2>3
<1>7. CASE SeeBeat BY <1>7 DEF SeeBeat
<1>8. CASE ReadCells BY <1>8 DEF ReadCells
<1>11. CASE LoseCell
  <2>1. answer' \in Seq(Words) /\ repeats' \in Nat
    BY <1>11 DEF LoseCell
  <2> QED BY <1>11, <2>1 DEF LoseCell
<1>9. CASE PollTimeout BY <1>9 DEF PollTimeout
<1>10. CASE BeatTimeout BY <1>10 DEF BeatTimeout
<1> QED
  BY <1>1, <1>2, <1>3, <1>4, <1>5, <1>6, <1>7, <1>8, <1>9, <1>10, <1>11 DEF Host, Line

LEMMA TypedMcu ==
  ASSUME TypedInv, McuStep PROVE TypedInv'
<1> USE SizeAssumption, CommandAssumption
<1> USE DEF TypedInv, HostTypeOK, RoomInv, WordsInv, MailboxTypeOK, McuTypeOK,
        mailboxVars, hostVars, McuStep
<1>1. CASE WaitStart BY <1>1 DEF WaitStart
<1>2. CASE ReadLength
  <2>1. t1' \in 0 .. RamWords /\ t3' \in 0 .. t1'
    BY <1>2 DEF ReadLength
  <2>2. MailboxTypeOK' /\ McuTypeOK'
    BY <1>2, <2>1 DEF ReadLength, ReadLen
  <2>3. RoomInv' /\ WordsInv'
    BY <1>2 DEF ReadLength
  <2> QED BY <2>2, <2>3
<1>3. CASE CopyLoop BY <1>3 DEF CopyLoop
<1>4. CASE WaitWord BY <1>4 DEF WaitWord
<1>5. CASE ReadWord
  <2>1. t3' \in 0 .. t1 /\ t1' = t1
    BY <1>5 DEF ReadWord
  <2>2. ram' \in [1 .. RamWords -> Words]
    BY <1>5 DEF ReadWord
  <2>3. MailboxTypeOK' /\ McuTypeOK'
    BY <1>5, <2>1, <2>2 DEF ReadWord, ReadData
  <2>4. RoomInv' /\ WordsInv'
    BY <1>5 DEF ReadWord
  <2> QED BY <2>3, <2>4
<1>6. CASE Run BY <1>6 DEF Run
<1>7. CASE Return BY <1>7 DEF Return
<1>8. CASE StartCalc BY <1>8 DEF StartCalc
<1>9. CASE CalcWait BY <1>9 DEF CalcWait
<1>10. CASE CalcRead
  <2>1. cmd' \in Seq(Words) /\ Len(cmd') = Len(cmd) + 1
    BY <1>10 DEF CalcRead
  <2>2. pc' = (IF Len(cmd') = CommandWords THEN "calc_show" ELSE "calc_wait")
    BY <1>10, <2>1 DEF CalcRead
  <2>3. Len(cmd') <= CommandWords /\ RoomInv'
    BY <1>10, <2>1, <2>2 DEF CalcRead
  <2>4. HostTypeOK'
    BY <1>10, <2>1, <2>2, <2>3 DEF CalcRead, ReadData
  <2>5. WordsInv'
    BY <1>10 DEF CalcRead
  <2> QED BY <2>3, <2>4, <2>5
<1>11. CASE CalcShow BY <1>11 DEF CalcShow
<1>12. CASE CalcBeat
  <2>1. seq' \in 0 .. Beats - 1
    BY <1>12 DEF CalcBeat
  <2>2. cmd' = cmd /\ Len(cmd) < CommandWords
    BY <1>12 DEF CalcBeat
  <2> QED BY <1>12, <2>1, <2>2 DEF CalcBeat, WriteHeartbeat
<1> QED
  BY <1>1, <1>2, <1>3, <1>4, <1>5, <1>6, <1>7, <1>8, <1>9, <1>10, <1>11, <1>12
  DEF Mcu, Boot, Overlay

LEMMA TypedStep == TypedInv /\ [Next]_vars => TypedInv'
<1> SUFFICES ASSUME TypedInv, [Next]_vars PROVE TypedInv'
  OBVIOUS
<1> USE DEF TypedInv, HostTypeOK, RoomInv, WordsInv, MailboxTypeOK, McuTypeOK,
        mailboxVars, mcuVars, hostVars
<1>0. <<>> \in Seq(Words) /\ Len(<<>>) = 0
  OBVIOUS
<1>1. ASSUME NEW o \in Overlays, NEW first \in BOOLEAN, Load(o, first) PROVE TypedInv'
  <2>1. fit' \in BOOLEAN /\ slips' \in 0 .. Slips
    BY <1>1, NoJobAssumption DEF Load, Call, FitToLoad, Rest, Running
  <2> QED BY <1>1, <2>1 DEF Load, Begin, Jobs
<1>2. ASSUME NEW c \in Commands, Ask(c) PROVE TypedInv'
  <2>1. c \in Jobs /\ job' = c /\ sent' = 0 /\ hpc' = "sentinel" /\ answer' = <<>>
    BY <1>2 DEF Ask, Begin, Jobs
  <2>2. MailboxTypeOK' /\ McuTypeOK' /\ RoomInv'
    BY <1>2 DEF Ask, Begin
  <2>3. answer' \in Seq(Words)
    BY <1>0, <2>1
  <2>4. reset_first' = FALSE /\ outcome' = "running" /\ resetting' = resetting
    BY <1>2 DEF Ask, Begin
  <2>5. WordsInv'
    BY <1>2, <2>1
  <2>6. fit' \in BOOLEAN /\ slips' \in 0 .. Slips /\ repeats' \in Nat
    BY <1>2, NoJobAssumption DEF Ask, Call, FitToAsk, Rest, Begin
  <2> QED BY <2>1, <2>2, <2>3, <2>4, <2>5, <2>6
<1>3. CASE Restart
  <2>1. fit' \in BOOLEAN /\ slips' \in 0 .. Slips
    BY <1>3, NoJobAssumption DEF Restart, Call, Rest
  <2> QED BY <1>3, <2>1 DEF Restart, Begin
<1>4. CASE Abort BY <1>4 DEF Abort, Finish
<1>5. CASE Host \/ Line BY <1>5, TypedHost
<1>6. CASE McuStep BY <1>6, TypedMcu
<1>7. CASE ResetArrives
  <2> USE <1>7 DEF ResetArrives, McuReset
  <2>1. MailboxTypeOK' /\ McuTypeOK'
    BY <1>0, CommandAssumption
  <2>2. RoomInv' /\ WordsInv'
    OBVIOUS
  <2> QED BY <2>1, <2>2
<1>8. CASE UNCHANGED vars BY <1>8 DEF vars
<1> QED
  BY <1>1, <1>2, <1>3, <1>4, <1>5, <1>6, <1>7, <1>8 DEF Next, Operator

LEMMA TypedInit == Init => TypedInv
<1> SUFFICES ASSUME Init PROVE TypedInv
  OBVIOUS
<1> USE SizeAssumption, CommandAssumption DEF Init, MailboxReset, McuInit
<1>1. NoWord \in Words /\ <<>> \in Seq(Words) /\ Len(<<>>) = 0
  BY DEF Words
<1>2. MailboxTypeOK
  <2>1. 0 \in 0 .. RamWords /\ 0 \in 0 .. Beats - 1
    OBVIOUS
  <2> QED BY <1>1, <2>1 DEF MailboxTypeOK
<1>3. McuTypeOK
  BY <1>1 DEF McuTypeOK
<1>4. HostTypeOK
  <2>1. 0 \in 0 .. Slips
    BY NoJobAssumption
  <2> QED BY <1>1, <1>2, <1>3, <2>1 DEF HostTypeOK
<1>5. RoomInv /\ WordsInv
  BY DEF RoomInv, WordsInv
<1> QED BY <1>4, <1>5 DEF TypedInv

(***************************************************************************)
(* Every variable keeps its type, with any operator.  In particular the    *)
(* bootloader never copies a word past the length it was given, nor past   *)
(* the RAM, however calls and resets cut into each other.                  *)
(***************************************************************************)
THEOREM UploadTypeCorrect == Spec => []HostTypeOK
<1>1. TypedInv => HostTypeOK
  BY DEF TypedInv
<1> QED
  BY <1>1, TypedInit, TypedStep, PTL DEF Spec

-----------------------------------------------------------------------------
(* The answer of calc *)

\* The words of a command, which stand for its result.
Result(c) == [i \in 1 .. CommandWords |-> Word(c, i)]

Collected(n) == Len(cmd) = n /\ \A i \in 1 .. n : cmd[i] = Word(job, i)

\* calc waits for the next word of the command, or takes it.
Collecting ==
  /\ Collected(sent - InSlot)
  /\ boot_pending => boot_data = Word(job, sent)
  /\ pc = "calc_wait" \/ (pc = "calc_read" /\ boot_pending)

Shown == cmd = <<>> /\ ~ boot_pending /\ cells = Result(job)

\* The heartbeat is what the host set it to until the result is on the screen.
\* Words are still to be sent, or all are.
Early == hpc \in {"poll", "data"} \/ (hpc = "again" /\ sent < CommandWords)
Late == hpc = "beat" \/ (hpc = "again" /\ sent = CommandWords)

Asking ==
  /\ ~ resetting /\ ~ boot_start
  /\ hpc \in {"sentinel", "poll", "data", "again", "beat", "cells"}
  /\ hpc \in {"sentinel", "data"} => ~ boot_pending
  /\ hpc = "sentinel" \/ Early => Collecting
  /\ Early => heartbeat = Sentinel
  /\ Late =>
       \/ /\ sent = CommandWords /\ heartbeat = Sentinel
          /\ \/ Collecting /\ boot_pending
             \/ pc = "calc_show" /\ Collected(CommandWords) /\ ~ boot_pending
             \/ pc = "calc_beat" /\ Shown
       \/ pc = "calc_wait" /\ Shown
  /\ hpc = "cells" => pc = "calc_wait" /\ Shown

AskInv ==
  /\ hpc # "idle" => outcome = "running"
  /\ job \in Commands /\ Plain /\ outcome = "running" => Asking
  /\ job \in Commands /\ Plain /\ outcome = "ok" => answer = Result(job)

LEMMA AskOperator ==
  ASSUME TypedInv, AskInv, Operator PROVE AskInv'
<1>1. ASSUME NEW o \in Overlays, NEW first \in BOOLEAN, Load(o, first) PROVE AskInv'
  BY <1>1, JobAssumption DEF Load, Begin, AskInv
<1>2. ASSUME NEW c \in Commands, Ask(c) PROVE AskInv'
  <2>0. CASE ~ FitToAsk
    BY <1>2, <2>0 DEF Ask, Call, Begin, AskInv, Plain
  <2>1. FitToAsk =>
        /\ Rest /\ pc = "calc_wait" /\ cmd = <<>> /\ ~ resetting
        /\ job' = c /\ sent' = 0 /\ hpc' = "sentinel" /\ outcome' = "running"
        /\ UNCHANGED <<mailboxVars, mcuVars, resetting>>
    BY <1>2 DEF Ask, Call, FitToAsk, Begin
  <2>2. CASE FitToAsk
    <3>1. /\ cmd' = <<>> /\ pc' = "calc_wait" /\ boot_pending' = FALSE
          /\ sent' - 0 = 0 /\ Len(cmd') = 0
      BY <2>1, <2>2 DEF Rest, mailboxVars, mcuVars, TypedInv, HostTypeOK, MailboxTypeOK
    <3>2. Collecting'
      BY <3>1 DEF Collecting, Collected, InSlot
    <3> QED
      BY <2>1, <2>2, <3>2 DEF AskInv, Asking, Early, Late, Rest, mailboxVars
  <2> QED
    BY <2>0, <2>2
<1>3. ASSUME Restart PROVE AskInv'
  BY <1>3, NoJobAssumption DEF Restart, Begin, AskInv, Jobs
<1>4. ASSUME Abort PROVE AskInv'
  BY <1>4 DEF Abort, Finish, AskInv
<1> QED
  BY <1>1, <1>2, <1>3, <1>4 DEF Operator

LEMMA AskHost ==
  ASSUME TypedInv, AskInv, Host \/ Line PROVE AskInv'
<1>1. /\ job' = job /\ fit' = fit /\ repeats \in Nat
      /\ repeats' = 0 => repeats = 0
      /\ hpc' # "idle" => outcome' = outcome /\ hpc # "idle"
  <2>1. repeats \in Nat /\ (repeats' = repeats \/ repeats' = repeats + 1)
    BY DEF Host, Line, WriteReset, Wake, WriteBootLen, SeeEmpty, WriteWord, WriteSentinel, SeeBeat,
           ReadCells, PollTimeout, BeatTimeout, LoseReset, LoseLen, LoseWord, LoseSentinel,
           LoseCell, SendNext, SendAgain, Goto, hostVars, TypedInv, HostTypeOK
  <2>2. job' = job /\ fit' = fit /\ (hpc' # "idle" => outcome' = outcome /\ hpc # "idle")
    BY DEF Host, Line, WriteReset, Wake, WriteBootLen, SeeEmpty, WriteWord, WriteSentinel, SeeBeat,
           ReadCells, PollTimeout, BeatTimeout, LoseReset, LoseLen, LoseWord, LoseSentinel,
           LoseCell, SendNext, SendAgain, AfterWord, Goto, Finish, hostVars
  <2> QED
    BY <2>1, <2>2
<1> SUFFICES ASSUME job \in Commands, Plain, Plain' PROVE AskInv'
  BY <1>1 DEF AskInv, Plain
<1>2. /\ job \notin Overlays /\ job # NoJob
      /\ Length(job) = CommandWords /\ CommandWords \in Nat \ {0}
      /\ sent \in Nat /\ cmd \in Seq(Words) /\ boot_pending \in BOOLEAN
  BY JobAssumption, NoJobAssumption, CommandAssumption
  DEF Jobs, Length, TypedInv, HostTypeOK, MailboxTypeOK, McuTypeOK
<1>3. CASE SeeEmpty
  BY <1>3 DEF SeeEmpty, Goto, AskInv, Asking, Early, Late, Collecting, Collected, InSlot, Shown,
              mailboxVars, mcuVars
<1>4. CASE WriteWord \/ LoseWord
  <2>1. /\ outcome' = outcome
        /\ hpc' \in {"again", IF sent' = CommandWords THEN "beat" ELSE "poll"}
        /\ boot_data' = Word(job, sent') /\ boot_pending' = TRUE
        /\ UNCHANGED <<job, boot_start, resetting, cmd, pc, heartbeat, answer>>
    BY <1>2, <1>4 DEF WriteWord, LoseWord, SendNext, SendAgain, AfterWord, WriteData, mcuVars
  <2>2. Asking /\ hpc \in {"data", "again"} /\ outcome = "running"
    BY <1>4 DEF WriteWord, LoseWord, SendNext, SendAgain, AskInv
  <2>3. ASSUME Collecting', heartbeat = Sentinel, sent' <= CommandWords, sent' \in Nat
        PROVE  AskInv'
    BY <1>2, <2>1, <2>2, <2>3 DEF AskInv, Asking, Early, Late
  <2>4. CASE SendNext
    <3>1. /\ sent' = sent + 1 /\ sent < CommandWords /\ hpc = "data" /\ boot_pending = FALSE
          /\ Collecting /\ heartbeat = Sentinel
      BY <1>2, <2>2, <2>4 DEF SendNext, Asking, Early, TypedInv, WordsInv
    <3>2. Collecting'
      BY <1>2, <2>1, <3>1 DEF Collecting, Collected, InSlot
    <3> QED
      BY <1>2, <2>3, <3>1, <3>2
  <2>5. CASE SendAgain
    <3>1. sent' = sent /\ sent <= CommandWords /\ hpc = "again" /\ boot_pending = TRUE
      BY <1>1, <1>2, <2>5 DEF SendAgain, Plain, TypedInv, WordsInv
    <3>2. Collecting /\ heartbeat = Sentinel
      BY <1>2, <2>2, <3>1 DEF Asking, Early, Late, Shown
    <3>3. Collecting'
      BY <2>1, <3>1, <3>2 DEF Collecting, Collected, InSlot
    <3> QED
      BY <1>2, <2>3, <3>1, <3>2, <3>3
  <2> QED
    BY <1>4, <2>4, <2>5 DEF WriteWord, LoseWord
<1>5. CASE WriteSentinel
  BY <1>5 DEF WriteSentinel, WriteHeartbeat, Goto, AskInv, Asking, Early, Late, Collecting,
              Collected, InSlot, mcuVars
<1>6. CASE LoseSentinel
  BY <1>6 DEF LoseSentinel, WriteHeartbeat, AskInv, Asking, Early, Late, Collecting,
              Collected, InSlot, mcuVars, hostVars
<1>7. CASE SeeBeat
  BY <1>7 DEF SeeBeat, Goto, AskInv, Asking, Early, Late, Shown, mailboxVars, mcuVars
<1>8. CASE ReadCells
  BY <1>8 DEF ReadCells, Finish, AskInv, Asking, Shown, TypedInv, HostTypeOK
<1>9. CASE PollTimeout
  BY <1>9 DEF PollTimeout, Finish, AskInv
<1>10. CASE BeatTimeout
  BY <1>10 DEF BeatTimeout, Finish, AskInv
<1>11. ~ LoseCell
  BY <1>1 DEF LoseCell, Plain
<1>12. ~ WriteReset /\ ~ Wake /\ ~ WriteBootLen /\ ~ LoseReset /\ ~ LoseLen
  BY <1>2 DEF WriteReset, Wake, WriteBootLen, LoseReset, LoseLen, TypedInv, WordsInv
<1> QED
  BY <1>3, <1>4, <1>5, <1>6, <1>7, <1>8, <1>9, <1>10, <1>11, <1>12 DEF Host, Line

LEMMA AskMcu ==
  ASSUME TypedInv, AskInv, McuStep PROVE AskInv'
<1> SUFFICES ASSUME job \in Commands, Plain, outcome = "running" PROVE AskInv'
  BY DEF AskInv, Plain, McuStep, hostVars
<1>1. Asking /\ UNCHANGED <<hostVars, resetting>>
  BY DEF AskInv, McuStep
<1>2. /\ CommandWords \in Nat \ {0} /\ Length(job) = CommandWords
      /\ sent \in Nat /\ cmd \in Seq(Words) /\ boot_pending \in BOOLEAN /\ boot_data \in Words
      /\ pc \in {"calc_wait", "calc_read", "calc_beat"} => Len(cmd) < CommandWords
      /\ hpc \in {"poll", "data"} => sent < CommandWords
      /\ hpc = "again" => sent <= CommandWords
  BY JobAssumption, CommandAssumption
  DEF Jobs, Length, TypedInv, HostTypeOK, RoomInv, WordsInv, MailboxTypeOK, McuTypeOK
<1>3. pc \in {"calc_wait", "calc_read", "calc_show", "calc_beat"}
  BY <1>1, <1>2 DEF Asking, Early, Late, Collecting
<1>4. CASE CalcWait
  <2>1. /\ pc = "calc_wait" /\ pc' = "calc_read" /\ boot_pending
        /\ UNCHANGED <<cmd, cells, mailboxVars, hostVars, resetting>>
    BY <1>1, <1>4 DEF CalcWait
  <2>2. Collecting => Collecting'
    BY <2>1 DEF Collecting, Collected, InSlot, hostVars, mailboxVars
  <2>3. ~ Shown
    BY <2>1 DEF Shown
  <2>4. Early' = Early /\ Late' = Late
    BY <2>1 DEF Early, Late, hostVars
  <2>5. Asking'
    BY <1>1, <2>1, <2>2, <2>3, <2>4 DEF Asking, hostVars, mailboxVars
  <2> QED
    BY <2>1, <2>5 DEF AskInv, hostVars
<1>5. CASE CalcRead
  <2>1. /\ hpc \in {"poll", "again", "beat"} /\ Collecting /\ boot_pending /\ pc = "calc_read"
        /\ heartbeat = Sentinel /\ (Late => sent = CommandWords) /\ (Early \/ Late)
    BY <1>1, <1>2, <1>5 DEF CalcRead, Asking, Early, Late, Collecting
  <2>2. /\ Len(cmd) = sent - 1 /\ boot_data = Word(job, sent)
        /\ \A i \in 1 .. sent - 1 : cmd[i] = Word(job, i)
    BY <2>1 DEF Collecting, Collected, InSlot
  <2>3. /\ cmd' = Append(cmd, boot_data) /\ boot_pending' = FALSE
        /\ pc' = IF Len(cmd) + 1 = CommandWords THEN "calc_show" ELSE "calc_wait"
        /\ UNCHANGED <<boot_start, heartbeat, job, hpc, sent, outcome, answer, resetting>>
    BY <1>1, <1>5 DEF CalcRead, ReadData, hostVars
  <2>4. Collected(sent)'
    <3>1. Len(cmd') = sent /\ \A i \in 1 .. sent : cmd'[i] = Word(job, i)
      BY <1>2, <2>2, <2>3
    <3> QED
      BY <2>3, <3>1 DEF Collected, Word
  <2>5. Early => sent < CommandWords
    BY <1>2, <2>1 DEF Early
  <2>6. Early => Collecting'
    BY <1>2, <2>2, <2>3, <2>4, <2>5 DEF Collecting, Collected, InSlot
  <2>7. Late => pc' = "calc_show" /\ Collected(CommandWords)' /\ sent = CommandWords
    BY <1>2, <2>1, <2>2, <2>3, <2>4 DEF Collected
  <2>8. Early' = Early /\ Late' = Late /\ hpc' \in {"poll", "again", "beat"}
    BY <2>1, <2>3 DEF Early, Late
  <2>9. Asking'
    BY <1>1, <2>1, <2>3, <2>6, <2>7, <2>8 DEF Asking, Sentinel
  <2> QED
    BY <2>3, <2>9 DEF AskInv
<1>6. CASE CalcShow
  <2>1. /\ Late /\ hpc \in {"again", "beat"} /\ sent = CommandWords /\ heartbeat = Sentinel
        /\ Collected(CommandWords) /\ ~ boot_pending
    BY <1>1, <1>2, <1>6 DEF CalcShow, Asking, Early, Late, Collecting
  <2>2. cmd = Result(job)
    BY <1>2, <2>1 DEF Collected, Result
  <2>3. /\ pc' = "calc_beat" /\ cells' = cmd /\ cmd' = <<>>
        /\ UNCHANGED <<mailboxVars, hostVars, resetting>>
    BY <1>1, <1>6 DEF CalcShow
  <2>4. Shown'
    BY <2>1, <2>2, <2>3 DEF Shown, Result, Word, mailboxVars, hostVars
  <2>5. ~ Early' /\ heartbeat' = heartbeat
    BY <1>2, <2>1, <2>3 DEF Early, mailboxVars, hostVars
  <2> QED
    BY <1>1, <2>1, <2>3, <2>4, <2>5 DEF AskInv, Asking, Sentinel, mailboxVars, hostVars
<1>7. CASE CalcBeat
  <2>1. /\ pc = "calc_beat" /\ pc' = "calc_wait"
        /\ UNCHANGED <<cmd, cells, boot_pending, boot_start, boot_data, hostVars, resetting>>
    BY <1>1, <1>7 DEF CalcBeat, WriteHeartbeat
  <2>2. ~ Early /\ Late /\ Shown /\ hpc \in {"again", "beat"}
    BY <1>1, <1>2, <2>1 DEF Asking, Early, Late, Collecting
  <2>3. Shown' /\ ~ Early' /\ hpc' = hpc
    BY <2>1, <2>2 DEF Shown, Result, Early, hostVars
  <2> QED
    BY <1>1, <2>1, <2>2, <2>3 DEF AskInv, Asking, hostVars
<1>8. ~ Boot /\ ~ Return /\ ~ StartCalc
  BY <1>3 DEF Boot, WaitStart, ReadLength, CopyLoop, WaitWord, ReadWord, Run, Return, StartCalc,
              Running
<1> QED
  BY <1>4, <1>5, <1>6, <1>7, <1>8 DEF McuStep, Mcu, Overlay

LEMMA AskStep == TypedInv /\ AskInv /\ [Next]_vars => AskInv'
<1> SUFFICES ASSUME TypedInv, AskInv, [Next]_vars PROVE AskInv'
  OBVIOUS
<1>1. CASE ResetArrives
  BY <1>1 DEF ResetArrives, hostVars, AskInv, Plain, Asking
<1>2. CASE UNCHANGED vars
  <2>1. Asking => Asking'
    BY <1>2 DEF vars, mailboxVars, mcuVars, hostVars, Asking, Early, Late, Collecting, Collected,
                InSlot, Shown, Result
  <2> QED
    BY <1>2, <2>1 DEF vars, hostVars, AskInv, Plain, Result
<1> QED
  BY <1>1, <1>2, AskOperator, AskHost, AskMcu DEF Next

(***************************************************************************)
(* serv_calc returns the result of the command it sent, if calc was at     *)
(* rest when it began and nothing it repeated took effect twice: no done   *)
(* signal of an earlier command reaches it.                                *)
(***************************************************************************)
THEOREM AnswerOfOwnCommand == Spec => []CalcOwnAnswer
<1>1. Init => TypedInv /\ AskInv
  BY TypedInit, NoJobAssumption DEF Init, AskInv, Jobs
<1>2. TypedInv /\ AskInv /\ [Next]_vars => TypedInv' /\ AskInv'
  BY TypedStep, AskStep
<1>3. AskInv => CalcOwnAnswer
  BY DEF AskInv, CalcOwnAnswer, Result
<1> QED
  BY <1>1, <1>2, <1>3, PTL DEF Spec

=============================================================================
