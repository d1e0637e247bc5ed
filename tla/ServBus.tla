------------------------------- MODULE ServBus -------------------------------
(***************************************************************************)
(* The register bus of src/camera_control.v with its two masters: the      *)
(* Modbus slave on sys_clk and the SERV core on mcu_clk, which reaches the *)
(* bus through serv_wb_cdc; and the host's reset of the SERV core.         *)
(*                                                                         *)
(* A step is a tick of one clock.  Outside are the program SERV runs (any  *)
(* sequence of accesses), the Modbus host (any sequence of accesses, with  *)
(* the idle cycle between two that its state machine has) and the slaves:  *)
(* those of FastRegs answer in the cycle of the request, as wb_sysregs     *)
(* does, those of SlowRegs at some later time, as wb_sccb and wb_grab do.  *)
(* The data of a register is stood for by the register's address.          *)
(***************************************************************************)
EXTENDS BeArbiter

CONSTANTS
  FastRegs, SlowRegs,
  MCU_RESET,     \* the register 0xE2, a fast one
  None,          \* no access
  HoldTicks      \* the value of serv_rst_cnt at which SERV's reset ends, 15 in the code

Addrs == FastRegs \cup SlowRegs

ASSUME RegAssumption ==
  /\ FastRegs \cap SlowRegs = {}
  /\ MCU_RESET \in FastRegs /\ None \notin Addrs
  /\ HoldTicks \in Nat

VARIABLES
  \* serv_wb_cdc
  ustate, req_level, s_ack, s_rdt, sync_done,
  vstate, m_req, m_addr, done_sys, rdt_hold, sync_req,
  \* mcu_clk: the access SERV makes, or None, and its reset
  serv, serv_rst, serv_rst_cnt,
  reset_sync,    \* stages of the reset's pulse synchronizer
  \* sys_clk: the access the host makes, or None, the slow slave, the reset pulse
  host, slave, slave_dat, mcu_reset, reset_level,
  ticks,         \* of mcu_clk since the last one of sys_clk
  \* history
  served,        \* times SERV's access has been answered on the bus, up to 2
  waited,        \* the host's access was on the bus when SERV's request got there
  torn           \* a reset cut an access, of which something is still left

Cdc == INSTANCE ServCdc WITH ResetAddr <- MCU_RESET

cdcMcuVars == <<ustate, req_level, s_ack, s_rdt, sync_done>>
cdcSysVars == <<vstate, m_req, m_addr, done_sys, rdt_hold, sync_req>>
servVars == <<serv, serv_rst, serv_rst_cnt, reset_sync>>
busVars == <<host, slave, slave_dat, mcu_reset, reset_level, busy, owner>>
vars == <<cdcMcuVars, cdcSysVars, servVars, busVars, ticks, served, waited, torn>>

-----------------------------------------------------------------------------
(* The bus in a cycle of sys_clk *)

req == [m \in Masters |-> IF m = 0 THEN host # None ELSE m_req]

be_addr == IF cur(req) = 1 THEN m_addr ELSE host

be_ready == be_req(req) /\ (be_addr \in FastRegs \/ slave = "resp")

be_rdata == IF be_addr \in FastRegs THEN be_addr ELSE slave_dat

\* A slow slave takes the request, works on it, and answers for one cycle.
Slave(done) ==
  /\ slave' = CASE slave = "idle" -> IF be_req(req) /\ be_addr \in SlowRegs THEN "run" ELSE "idle"
                [] slave = "run" -> IF done THEN "resp" ELSE "run"
                [] slave = "resp" -> "idle"
  /\ slave_dat' = IF slave = "run" /\ done THEN be_addr ELSE slave_dat

\* The host asks for a reset only when the last one has arrived: its frames
\* are a hundred microseconds apart.
HostMayAsk(a) == a = MCU_RESET => ~ mcu_reset /\ \A i \in 1 .. 3 : reset_sync[i] = reset_level

Host(next) ==
  host' = IF host = None THEN next
          ELSE IF m_ready(0, req, be_ready) THEN None
          ELSE host

\* wb_sysregs: the pulse, and the level that carries it to mcu_clk.  A write of
\* either master makes the pulse; assumed: no program of the core resets itself.
ResetPulse ==
  /\ mcu_reset' = (m_ready(0, req, be_ready) /\ host = MCU_RESET)
  /\ reset_level' = (reset_level # mcu_reset)

\* Nothing is left of an earlier access, and none has answered the present one.
Clean == Cdc!Quiet /\ (serv # None => served = 0)

SysTick ==
  /\ ticks >= 1 /\ ticks' = 0
  /\ \E done \in IF slave = "run" THEN BOOLEAN ELSE {FALSE} : Slave(done)
  /\ \E a \in IF host = None THEN {None} \cup {b \in Addrs : HostMayAsk(b)} ELSE {None} : Host(a)
  /\ ResetPulse
  /\ Clock(req, be_ready)
  /\ \E fields \in IF serv = None THEN Addrs ELSE {serv} :
       Cdc!SysTick(fields, m_ready(1, req, be_ready), be_rdata)
  /\ served' = IF m_ready(1, req, be_ready) /\ served < 2 THEN served + 1 ELSE served
  /\ waited' = (host' # None /\ IF m_req' /\ ~ m_req THEN TRUE ELSE waited)
  /\ UNCHANGED <<cdcMcuVars, servVars>>
  /\ torn' = (torn /\ ~ Clean')

-----------------------------------------------------------------------------
(* A tick of mcu_clk *)

mcu_reset_pulse == reset_sync[3] # reset_sync[2]

\* The hold counter is restarted by the pulse and holds the core until it is full.
ResetHold ==
  /\ reset_sync' = [reset_sync EXCEPT ![1] = reset_level, ![2] = reset_sync[1], ![3] = reset_sync[2]]
  /\ serv_rst_cnt' = IF mcu_reset_pulse THEN 0
                     ELSE IF serv_rst_cnt < HoldTicks THEN serv_rst_cnt + 1 ELSE serv_rst_cnt
  /\ serv_rst' = (mcu_reset_pulse \/ serv_rst_cnt < HoldTicks)

\* An access is held until its acknowledgement; a reset drops it.
Access(next) ==
  serv' = IF serv_rst' THEN None
          ELSE IF serv = None THEN next
          ELSE IF s_ack THEN None
          ELSE serv

McuTick ==
  /\ ticks < 2 /\ ticks' = ticks + 1
  /\ ResetHold
  /\ \E a \in IF serv = None THEN {None} \cup Addrs ELSE {None} : Access(a)
  /\ Cdc!McuTick(serv_rst \/ serv_rst', serv # None)
  /\ served' = IF serv = None THEN 0 ELSE served
  /\ UNCHANGED <<cdcSysVars, busVars, waited>>
  /\ torn' = ((torn \/ mcu_reset_pulse) /\ ~ Clean')

-----------------------------------------------------------------------------
Init ==
  /\ Cdc!Reset /\ Reset
  /\ serv = None /\ serv_rst = TRUE /\ serv_rst_cnt = 0
  /\ reset_sync = [i \in 1 .. 3 |-> FALSE]
  /\ host = None /\ slave = "idle" /\ slave_dat = MCU_RESET
  /\ mcu_reset = FALSE /\ reset_level = FALSE
  /\ ticks = 0 /\ served = 0 /\ waited = FALSE /\ torn = FALSE

Next == SysTick \/ McuTick

Spec == Init /\ [][Next]_vars

\* Both clocks run: each tick makes room for the other one.
FairSpec == Spec /\ WF_vars(Next)

-----------------------------------------------------------------------------
BusTypeOK ==
  /\ TypeOK /\ Cdc!TypeOK
  /\ serv \in Addrs \cup {None} /\ serv_rst \in BOOLEAN /\ serv_rst_cnt \in 0 .. HoldTicks
  /\ reset_sync \in [1 .. 3 -> BOOLEAN]
  /\ host \in Addrs \cup {None} /\ slave \in {"idle", "run", "resp"} /\ slave_dat \in Addrs
  /\ mcu_reset \in BOOLEAN /\ reset_level \in BOOLEAN
  /\ ticks \in 0 .. 2 /\ served \in 0 .. 2 /\ waited \in BOOLEAN /\ torn \in BOOLEAN

\* What SERV is acknowledged is its own access, done once.
OwnAnswerToServ == s_ack => serv # None /\ s_rdt = serv /\ served = 1

(***************************************************************************)
(* Every acknowledgement SERV gets is the answer to the access it is       *)
(* making, which has been done on the bus exactly once; the only exception *)
(* is the time after a reset of the core, until the access the reset cut   *)
(* has drained through the crossing.                                       *)
(***************************************************************************)
AnsweredOnce == torn \/ OwnAnswerToServ

(***************************************************************************)
(* "A full return-to-zero on both sides ensures one transaction completes  *)
(* before the next" (serv_wb_cdc.v), without the exception.                *)
(***************************************************************************)
OneTransaction == OwnAnswerToServ

(***************************************************************************)
(* A slave that holds its answer back sees one master's request, unchanged,*)
(* until it has answered: neither the other master nor a reset of SERV     *)
(* takes the bus away in the middle of an access.                          *)
(***************************************************************************)
RequestHeld ==
  [][be_req(req) /\ ~ be_ready => be_req(req)' /\ be_addr' = be_addr]_vars

(***************************************************************************)
(* The host has priority: a request of SERV that reaches the bus after the *)
(* host's, or with it, is not answered before it, however long the host's  *)
(* slave takes.                                                            *)
(***************************************************************************)
HostFirst == waited => ~ m_ready(1, req, be_ready)

\* The slow slaves answer sooner or later.
SlavesAnswer == []<>(slave # "run")

(***************************************************************************)
(* While the slaves answer, an access of SERV does not wait for ever, even *)
(* if the host, which has priority, never stops asking.                    *)
(***************************************************************************)
ServServed == SlavesAnswer => (serv # None ~> serv = None)
=============================================================================
