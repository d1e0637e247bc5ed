------------------------------- MODULE ServCdc -------------------------------
(***************************************************************************)
(* src/serv/serv_wb_cdc.v: SERV's bus handshake carried from mcu_clk to    *)
(* sys_clk and back.  Only the two qualifiers req_level and done_sys pass  *)
(* through synchronizers; the fields of the request (here its address) and *)
(* the data of the answer are read across the boundary while their         *)
(* qualifier says that they are stable.                                    *)
(***************************************************************************)
EXTENDS Integers

CONSTANTS
  Addrs,           \* the registers of the bus
  ResetAddr        \* stands for the reset value of the data registers

VARIABLES
  ustate, req_level, s_ack, s_rdt,           \* mcu_clk
  sync_done,                                 \* the two stages of sync_done
  vstate, m_req, m_addr, done_sys, rdt_hold, \* sys_clk
  sync_req                                   \* the two stages of sync_req

Stages == [1 .. 2 -> BOOLEAN]

\* CDC_Bit_Synchronizer: a bit enters at stage 1 and leaves at stage 2.
Shift(stages, bit) == [stages EXCEPT ![1] = bit, ![2] = stages[1]]

req_sys == sync_req[2]
done_mcu == sync_done[2]

Reset ==
  /\ ustate = "U_IDLE" /\ req_level = FALSE /\ s_ack = FALSE /\ s_rdt = ResetAddr
  /\ vstate = "V_IDLE" /\ m_req = FALSE /\ m_addr = ResetAddr
  /\ done_sys = FALSE /\ rdt_hold = ResetAddr
  /\ sync_req = [i \in 1 .. 2 |-> FALSE] /\ sync_done = [i \in 1 .. 2 |-> FALSE]

-----------------------------------------------------------------------------
(* mcu_clk: the side of SERV *)

Idle(s_stb) ==
  /\ ustate = "U_IDLE"
  /\ s_ack' = FALSE
  /\ req_level' = s_stb
  /\ ustate' = IF s_stb THEN "U_REQ" ELSE "U_IDLE"
  /\ UNCHANGED s_rdt

\* The request is a pulse (mutant).
WaitDonePulse ==
  /\ ustate = "U_REQ"
  /\ s_ack' = done_mcu
  /\ req_level' = FALSE
  /\ ustate' = IF done_mcu THEN "U_ACK" ELSE "U_REQ"
  /\ s_rdt' = IF done_mcu THEN rdt_hold ELSE s_rdt

WaitDone ==
  /\ ustate = "U_REQ"
  /\ s_ack' = done_mcu
  /\ req_level' = ~ done_mcu
  /\ ustate' = IF done_mcu THEN "U_ACK" ELSE "U_REQ"
  /\ s_rdt' = IF done_mcu THEN rdt_hold ELSE s_rdt

\* The next request does not wait for the return to zero (mutant).
WaitReturnNot ==
  /\ ustate = "U_ACK"
  /\ s_ack' = FALSE
  /\ ustate' = "U_IDLE"
  /\ UNCHANGED <<req_level, s_rdt>>

WaitReturn ==
  /\ ustate = "U_ACK"
  /\ s_ack' = FALSE
  /\ ustate' = IF done_mcu THEN "U_ACK" ELSE "U_IDLE"
  /\ UNCHANGED <<req_level, s_rdt>>

\* The synchronizer is outside the reset.
McuReset ==
  /\ ustate' = "U_IDLE" /\ req_level' = FALSE /\ s_ack' = FALSE
  /\ s_rdt' = ResetAddr

McuTick(reset, s_stb) ==
  /\ IF reset THEN McuReset ELSE Idle(s_stb) \/ WaitDone \/ WaitReturn
  /\ sync_done' = Shift(sync_done, done_sys)

-----------------------------------------------------------------------------
(* sys_clk: the side of the bus *)

\* The fields of the request are sampled: without a request anything may be
\* on SERV's wires.
Sample(fields) ==
  /\ vstate = "V_IDLE"
  /\ m_req' = req_sys
  /\ m_addr' = IF req_sys THEN fields ELSE m_addr
  /\ vstate' = IF req_sys THEN "V_RUN" ELSE "V_IDLE"
  /\ UNCHANGED <<done_sys, rdt_hold>>

Run(m_ready, m_rdata) ==
  /\ vstate = "V_RUN"
  /\ m_req' = ~ m_ready
  /\ done_sys' = m_ready
  /\ rdt_hold' = IF m_ready THEN m_rdata ELSE rdt_hold
  /\ vstate' = IF m_ready THEN "V_DONE" ELSE "V_RUN"
  /\ UNCHANGED m_addr

Release ==
  /\ vstate = "V_DONE"
  /\ done_sys' = req_sys
  /\ vstate' = IF req_sys THEN "V_DONE" ELSE "V_IDLE"
  /\ UNCHANGED <<m_req, m_addr, rdt_hold>>

SysTick(fields, m_ready, m_rdata) ==
  /\ Sample(fields) \/ Run(m_ready, m_rdata) \/ Release
  /\ sync_req' = Shift(sync_req, req_level)

\* Nothing of an access is left on either side or between them.
Quiet ==
  /\ ustate = "U_IDLE" /\ vstate = "V_IDLE"
  /\ ~ (req_level \/ sync_req[1] \/ sync_req[2])
  /\ ~ (done_sys \/ sync_done[1] \/ sync_done[2])

TypeOK ==
  /\ ustate \in {"U_IDLE", "U_REQ", "U_ACK"} /\ req_level \in BOOLEAN
  /\ s_ack \in BOOLEAN /\ s_rdt \in Addrs /\ sync_done \in Stages
  /\ vstate \in {"V_IDLE", "V_RUN", "V_DONE"} /\ m_req \in BOOLEAN
  /\ m_addr \in Addrs /\ done_sys \in BOOLEAN /\ rdt_hold \in Addrs /\ sync_req \in Stages
=============================================================================
