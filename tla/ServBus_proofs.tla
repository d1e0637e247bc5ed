--------------------------- MODULE ServBus_proofs ---------------------------
(***************************************************************************)
(* Proofs about ServBus, for any registers and any length of the reset     *)
(* hold.  The inductive invariant has three parts: GrantInv, who may be    *)
(* locked in on the bus and what the slow slave works on; ResetInv, the    *)
(* core under reset; and Handshake, the four phases of the clock crossing  *)
(* with what the synchronizers may hold in each.                           *)
(***************************************************************************)
EXTENDS ServBus, TLAPS

-----------------------------------------------------------------------------
(* The bus *)

GrantInv ==
  /\ m_req <=> vstate = "V_RUN"
  /\ busy /\ owner = 0 => host # None
  /\ busy /\ owner = 1 => m_req
  /\ slave # "idle" => busy /\ be_addr \in SlowRegs
  /\ slave = "resp" => slave_dat = be_addr

\* Who waits behind the host does not own the bus.
PriorityInv == waited => host # None /\ ~ (busy /\ owner = 1)

-----------------------------------------------------------------------------
(* The core's reset *)

ResetInv ==
  /\ serv_rst_cnt < HoldTicks => serv_rst
  /\ serv_rst => serv = None /\ ustate = "U_IDLE"
  /\ s_ack => ustate = "U_ACK"

-----------------------------------------------------------------------------
(* The crossing.  In each phase the two levels are where they are headed, or *)
(* on the way: a synchronizer's stages are TRUE up to a point, or from it on.*)

AtIdle == ustate = "U_IDLE" => Clean

AtRequest ==
  ustate = "U_REQ" =>
    /\ serv # None /\ req_level
    /\ sync_req[2] => sync_req[1]
    /\ sync_done[2] => sync_done[1]
    /\ sync_done[1] => done_sys
    /\ vstate = "V_IDLE" => ~ done_sys /\ served = 0
    /\ vstate = "V_RUN" => ~ done_sys /\ sync_req[2] /\ m_addr = serv /\ served = 0
    /\ vstate = "V_DONE" => done_sys /\ sync_req[2] /\ rdt_hold = serv /\ served = 1

AtAnswer ==
  ustate = "U_ACK" =>
    /\ ~ req_level /\ vstate # "V_RUN"
    /\ sync_req[1] => sync_req[2]
    /\ vstate = "V_DONE" => done_sys /\ sync_done[1] /\ sync_done[2]
    /\ vstate = "V_IDLE" => ~ done_sys /\ ~ sync_req[2] /\ (sync_done[1] => sync_done[2])
    /\ s_ack => serv # None /\ s_rdt = serv /\ served = 1
    /\ ~ s_ack => (serv # None => served = 0)

Handshake == ~ torn => AtIdle /\ AtRequest /\ AtAnswer

BusInv == BusTypeOK /\ GrantInv /\ PriorityInv /\ ResetInv /\ Handshake

-----------------------------------------------------------------------------
\* What the wires of the bus are, in terms of its registers.
Wires ==
  /\ cur(req) \in {0, 1}
  /\ busy => cur(req) = owner
  /\ ~ busy => (cur(req) = 1 <=> host = None /\ m_req)
  /\ be_req(req) <=> IF cur(req) = 1 THEN m_req ELSE host # None
  /\ be_addr = IF cur(req) = 1 THEN m_addr ELSE host
  /\ be_ready <=> be_req(req) /\ (be_addr \in FastRegs \/ slave = "resp")
  /\ \A m \in {0, 1} : m_ready(m, req, be_ready) <=> cur(req) = m /\ be_ready

LEMMA WiresAre == BusTypeOK => Wires
<1> SUFFICES ASSUME BusTypeOK PROVE Wires
  OBVIOUS
<1>1. /\ req[0] <=> host # None
      /\ req[1] <=> m_req
  <2>1. req[0] = (host # None) BY DEF req, Masters
  <2>2. req[1] = m_req BY DEF req, Masters
  <2> QED BY <2>1, <2>2
<1>2. owner \in {0, 1} /\ busy \in BOOLEAN
  BY DEF BusTypeOK, TypeOK, Masters
<1>3. cur(req) = IF busy THEN owner ELSE IF host = None /\ m_req THEN 1 ELSE 0
  BY <1>1 DEF cur, sel1_free
<1>4. cur(req) \in {0, 1}
  BY <1>2, <1>3
<1>5. be_req(req) <=> IF cur(req) = 1 THEN m_req ELSE host # None
  BY <1>1, <1>4 DEF be_req
<1>6. be_ready <=> be_req(req) /\ (be_addr \in FastRegs \/ slave = "resp")
  BY DEF be_ready
<1>7. \A m \in {0, 1} : m_ready(m, req, be_ready) <=> cur(req) = m /\ be_ready
  BY <1>6 DEF m_ready
<1> QED BY <1>2, <1>3, <1>4, <1>5, <1>6, <1>7 DEF Wires, be_addr

\* The same after a step.
LEMMA WiresNext == (BusTypeOK => Wires)'
  BY WiresAre, PTL

-----------------------------------------------------------------------------
(* Types *)

LEMMA TypeInit == Init => BusTypeOK
<1> SUFFICES ASSUME Init PROVE BusTypeOK
  OBVIOUS
<1>1. MCU_RESET \in Addrs /\ 0 \in 0 .. HoldTicks
  BY RegAssumption DEF Addrs
<1>2. TypeOK
  BY DEF Init, Reset, TypeOK
<1>3. sync_req \in Cdc!Stages /\ sync_done \in Cdc!Stages /\ reset_sync \in [1 .. 3 -> BOOLEAN]
  BY DEF Init, Cdc!Reset, Cdc!Stages
<1>4. Cdc!TypeOK
  BY <1>1, <1>3 DEF Init, Cdc!Reset, Cdc!TypeOK
<1>5. /\ serv_rst \in BOOLEAN /\ mcu_reset \in BOOLEAN /\ reset_level \in BOOLEAN
      /\ waited \in BOOLEAN /\ torn \in BOOLEAN
  BY DEF Init
<1>6. /\ serv \in Addrs \cup {None} /\ host \in Addrs \cup {None} /\ slave_dat \in Addrs
      /\ serv_rst_cnt \in 0 .. HoldTicks /\ ticks \in 0 .. 2 /\ served \in 0 .. 2
      /\ slave \in {"idle", "run", "resp"}
  BY <1>1 DEF Init
<1> QED BY <1>2, <1>3, <1>4, <1>5, <1>6 DEF BusTypeOK

LEMMA Shifts ==
  ASSUME NEW stages \in Cdc!Stages, NEW bit \in BOOLEAN
  PROVE  /\ Cdc!Shift(stages, bit) \in Cdc!Stages
         /\ Cdc!Shift(stages, bit)[1] = bit /\ Cdc!Shift(stages, bit)[2] = stages[1]
  BY DEF Cdc!Shift, Cdc!Stages

\* What a tick of sys_clk does in the crossing.
LEMMA CrossingSys ==
  ASSUME BusTypeOK, Wires, SysTick
  PROVE  \E fields \in Addrs :
           /\ serv # None => fields = serv
           /\ Cdc!SysTick(fields, cur(req) = 1 /\ be_ready, be_rdata)
<1>1. m_ready(1, req, be_ready) = (cur(req) = 1 /\ be_ready)
  BY DEF Wires, m_ready
<1>2. CASE serv = None BY <1>1, <1>2 DEF SysTick
<1>3. CASE serv # None BY <1>1, <1>3 DEF SysTick, BusTypeOK
<1> QED BY <1>2, <1>3

LEMMA TypeSys == BusTypeOK /\ GrantInv /\ SysTick => BusTypeOK'
<1> SUFFICES ASSUME BusTypeOK, GrantInv, SysTick PROVE BusTypeOK'
  OBVIOUS
<1>1. Wires BY WiresAre
<1>2. PICK fields \in Addrs : Cdc!SysTick(fields, cur(req) = 1 /\ be_ready, be_rdata)
  BY <1>1, CrossingSys
<1>3. /\ be_req(req) => be_addr \in Addrs
      /\ slave # "idle" => be_addr \in Addrs
      /\ be_ready \in BOOLEAN
  BY <1>1 DEF Wires, BusTypeOK, Cdc!TypeOK, GrantInv, Addrs, be_ready
<1>4. be_rdata \in Addrs
  BY DEF be_rdata, Addrs, BusTypeOK
<1>5. TypeOK'
  BY <1>1 DEF SysTick, Clock, BusTypeOK, TypeOK, Wires, Masters
<1>6. slave' \in {"idle", "run", "resp"} /\ slave_dat' \in Addrs
  BY <1>3 DEF SysTick, Slave, BusTypeOK
<1>7. Cdc!TypeOK'
  <2>1. sync_req' \in Cdc!Stages
    BY <1>2, Shifts DEF Cdc!SysTick, BusTypeOK, Cdc!TypeOK
  <2>2. /\ vstate' \in {"V_IDLE", "V_RUN", "V_DONE"} /\ m_req' \in BOOLEAN
        /\ m_addr' \in Addrs /\ done_sys' \in BOOLEAN /\ rdt_hold' \in Addrs
    <3>1. sync_req[2] \in BOOLEAN
      BY DEF BusTypeOK, Cdc!TypeOK, Cdc!Stages
    <3>2. CASE Cdc!Sample(fields)
      BY <3>1, <3>2 DEF Cdc!Sample, Cdc!req_sys, BusTypeOK, Cdc!TypeOK
    <3>3. CASE Cdc!Run(cur(req) = 1 /\ be_ready, be_rdata)
      BY <1>3, <1>4, <3>3 DEF Cdc!Run, BusTypeOK, Cdc!TypeOK
    <3>4. CASE Cdc!Release
      BY <3>1, <3>4 DEF Cdc!Release, Cdc!req_sys, BusTypeOK, Cdc!TypeOK
    <3> QED BY <1>2, <3>2, <3>3, <3>4 DEF Cdc!SysTick
  <2> QED BY <2>1, <2>2 DEF SysTick, cdcMcuVars, BusTypeOK, Cdc!TypeOK
<1>8. host' \in Addrs \cup {None}
  BY DEF SysTick, Host, BusTypeOK
<1>9. mcu_reset' \in BOOLEAN /\ reset_level' \in BOOLEAN
  BY DEF SysTick, ResetPulse
<1>10. served' \in 0 .. 2
  BY DEF SysTick, BusTypeOK
<1>11. waited' \in BOOLEAN /\ torn' \in BOOLEAN
  BY DEF SysTick
<1> QED BY <1>5, <1>6, <1>7, <1>8, <1>9, <1>10, <1>11 DEF SysTick, servVars, BusTypeOK

LEMMA TypeMcu == BusTypeOK /\ McuTick => BusTypeOK'
<1> SUFFICES ASSUME BusTypeOK, McuTick PROVE BusTypeOK'
  OBVIOUS
<1>1. PICK a \in Addrs \cup {None} : Access(a)
  BY DEF McuTick
<1>2. Cdc!TypeOK'
  <2> DEFINE reset == serv_rst \/ serv_rst'
             s_stb == serv # None
  <2>1. Cdc!McuTick(reset, s_stb)
    BY DEF McuTick
  <2>2. sync_done' \in Cdc!Stages
    BY <2>1, Shifts DEF Cdc!McuTick, BusTypeOK, Cdc!TypeOK
  <2>3. sync_done[2] \in BOOLEAN
    BY DEF BusTypeOK, Cdc!TypeOK, Cdc!Stages
  <2>4. /\ ustate' \in {"U_IDLE", "U_REQ", "U_ACK"} /\ req_level' \in BOOLEAN
        /\ s_ack' \in BOOLEAN /\ s_rdt' \in Addrs
    <3>1. CASE Cdc!McuReset
      BY <3>1, RegAssumption DEF Cdc!McuReset, Addrs
    <3>2. CASE Cdc!Idle(s_stb)
      BY <3>2 DEF Cdc!Idle, BusTypeOK, Cdc!TypeOK
    <3>3. CASE Cdc!WaitDone
      BY <2>3, <3>3 DEF Cdc!WaitDone, Cdc!done_mcu, BusTypeOK, Cdc!TypeOK
    <3>4. CASE Cdc!WaitReturn
      BY <3>4 DEF Cdc!WaitReturn, BusTypeOK, Cdc!TypeOK
    <3> QED BY <2>1, <3>1, <3>2, <3>3, <3>4 DEF Cdc!McuTick
  <2> QED BY <2>2, <2>4 DEF McuTick, cdcSysVars, BusTypeOK, Cdc!TypeOK
<1>3. reset_sync' \in [1 .. 3 -> BOOLEAN]
  BY DEF McuTick, ResetHold, BusTypeOK
<1>4. serv_rst_cnt' \in 0 .. HoldTicks
  BY RegAssumption DEF McuTick, ResetHold, BusTypeOK
<1>5. serv_rst' \in BOOLEAN /\ torn' \in BOOLEAN
  BY DEF McuTick, ResetHold
<1>6. serv' \in Addrs \cup {None}
  BY <1>1 DEF Access, BusTypeOK
<1>7. ticks' \in 0 .. 2 /\ served' \in 0 .. 2
  BY DEF McuTick, BusTypeOK
<1> QED BY <1>2, <1>3, <1>4, <1>5, <1>6, <1>7 DEF McuTick, busVars, BusTypeOK, TypeOK

-----------------------------------------------------------------------------
(* The bus *)

\* A request that is not answered in a tick of sys_clk stays on the bus.
LEMMA Locks ==
  ASSUME BusTypeOK, GrantInv, SysTick, be_req(req), ~ be_ready
  PROVE  busy' /\ owner' = cur(req) /\ be_req(req)' /\ be_addr' = be_addr
<1>1. Wires BY WiresAre
<1>2. Wires' BY WiresNext, TypeSys
<1>3. busy' /\ owner' = cur(req)
  <2>1. req[0] \/ req[1]
    BY <1>1 DEF Wires, be_req
  <2> QED BY <1>1, <2>1 DEF SysTick, Clock, Wires
<1>4. CASE cur(req) = 0
  <2>1. host # None /\ ~ m_ready(0, req, be_ready)
    BY <1>1, <1>4 DEF Wires
  <2>2. host' = host
    BY <2>1 DEF SysTick, Host
  <2> QED BY <1>1, <1>2, <1>3, <1>4, <2>2 DEF Wires
<1>5. CASE cur(req) = 1
  <2>1. m_req /\ vstate = "V_RUN"
    BY <1>1, <1>5 DEF Wires, GrantInv
  <2>2. m_req' /\ m_addr' = m_addr
    BY <1>1, <2>1, CrossingSys DEF Cdc!SysTick, Cdc!Sample, Cdc!Run, Cdc!Release
  <2> QED BY <1>1, <1>2, <1>3, <1>5, <2>2 DEF Wires
<1> QED BY <1>1, <1>4, <1>5 DEF Wires

\* The bus is locked for a request without an answer only.
LEMMA Stays ==
  ASSUME BusTypeOK, GrantInv, SysTick, busy'
  PROVE  be_req(req) /\ ~ be_ready
<1>1. Wires BY WiresAre
<1>2. ~ be_ready
  BY DEF SysTick, Clock
<1>3. busy \/ req[0] \/ req[1]
  BY DEF SysTick, Clock
<1>4. CASE busy
  <2>1. owner \in {0, 1} BY DEF BusTypeOK, TypeOK, Masters
  <2> QED BY <1>1, <1>2, <1>4, <2>1 DEF Wires, GrantInv
<1>5. CASE ~ busy
  <2>1. host # None \/ m_req
    <3>1. req[0] = (host # None) /\ req[1] = m_req BY DEF req, Masters
    <3> QED BY <1>3, <1>5, <3>1
  <2> QED BY <1>1, <1>2, <1>5, <2>1 DEF Wires
<1> QED BY <1>4, <1>5

LEMMA GrantSys == BusTypeOK /\ GrantInv /\ SysTick => GrantInv'
<1> SUFFICES ASSUME BusTypeOK, GrantInv, SysTick PROVE GrantInv'
  OBVIOUS
<1>1. Wires BY WiresAre
<1>2. Wires' BY WiresNext, TypeSys
<1>3. (m_req <=> vstate = "V_RUN")'
  <2>1. PICK fields \in Addrs : Cdc!SysTick(fields, cur(req) = 1 /\ be_ready, be_rdata)
    BY <1>1, CrossingSys
  <2>2. CASE Cdc!Sample(fields)
    <3>1. CASE Cdc!req_sys BY <2>2, <3>1 DEF Cdc!Sample
    <3>2. CASE ~ Cdc!req_sys BY <2>2, <3>2 DEF Cdc!Sample
    <3> QED BY <3>1, <3>2
  <2>3. CASE Cdc!Run(cur(req) = 1 /\ be_ready, be_rdata)
    <3>1. CASE cur(req) = 1 /\ be_ready BY <2>3, <3>1 DEF Cdc!Run
    <3>2. CASE ~ (cur(req) = 1 /\ be_ready) BY <2>3, <3>2 DEF Cdc!Run
    <3> QED BY <3>1, <3>2
  <2>4. CASE Cdc!Release
    BY <2>4 DEF Cdc!Release, GrantInv
  <2> QED BY <2>1, <2>2, <2>3, <2>4 DEF Cdc!SysTick
<1>4. busy' => be_req(req) /\ ~ be_ready
  BY Stays
<1>5. (busy /\ owner = 0 => host # None)' /\ (busy /\ owner = 1 => m_req)'
  BY <1>2, <1>4, Locks DEF Wires
<1>6. (slave # "idle" => busy /\ be_addr \in SlowRegs)'
  <2>1. slave' # "idle" => be_req(req) /\ be_addr \in SlowRegs /\ ~ be_ready
    <3>1. CASE slave = "idle"
      BY <1>1, <3>1, RegAssumption DEF SysTick, Slave, Wires
    <3>2. CASE slave = "run"
      BY <1>1, <3>2, RegAssumption DEF SysTick, Slave, Wires, GrantInv
    <3>3. CASE slave = "resp"
      BY <3>3 DEF SysTick, Slave
    <3> QED BY <3>1, <3>2, <3>3 DEF BusTypeOK
  <2> QED BY <2>1, Locks
<1>7. (slave = "resp" => slave_dat = be_addr)'
  <2> SUFFICES ASSUME slave' = "resp" PROVE slave_dat' = be_addr'
    OBVIOUS
  <2>1. slave = "run" /\ slave_dat' = be_addr
    BY DEF SysTick, Slave, BusTypeOK
  <2>2. be_req(req) /\ ~ be_ready
    BY <1>1, <2>1, RegAssumption DEF Wires, GrantInv
  <2> QED BY <2>1, <2>2, Locks
<1> QED BY <1>3, <1>5, <1>6, <1>7 DEF GrantInv

LEMMA PrioritySys == BusTypeOK /\ GrantInv /\ PriorityInv /\ SysTick => PriorityInv'
<1> SUFFICES ASSUME BusTypeOK, GrantInv, PriorityInv, SysTick, waited'
             PROVE  host' # None /\ ~ (busy' /\ owner' = 1)
  BY DEF PriorityInv
<1>1. Wires BY WiresAre
<1>2. host' # None
  BY DEF SysTick
<1>3. ASSUME busy', owner' = 1 PROVE FALSE
  <2>1. be_req(req) /\ ~ be_ready
    BY <1>3, Stays
  <2>2. cur(req) = 1
    BY <1>3, <2>1, Locks
  <2>3. m_req /\ waited
    BY <1>1, <2>1, <2>2 DEF Wires, SysTick
  <2> QED BY <1>1, <2>2, <2>3 DEF Wires, PriorityInv
<1> QED BY <1>2, <1>3

-----------------------------------------------------------------------------
(* The reset *)

LEMMA ResetMcu == BusTypeOK /\ ResetInv /\ McuTick => ResetInv'
<1> SUFFICES ASSUME BusTypeOK, ResetInv, McuTick PROVE ResetInv'
  OBVIOUS
<1>1. (serv_rst_cnt < HoldTicks => serv_rst)'
  BY RegAssumption DEF McuTick, ResetHold, BusTypeOK
<1>2. (serv_rst => serv = None /\ ustate = "U_IDLE")'
  BY DEF McuTick, Access, Cdc!McuTick, Cdc!McuReset
<1>3. (s_ack => ustate = "U_ACK")'
  BY DEF McuTick, Cdc!McuTick, Cdc!McuReset, Cdc!Idle, Cdc!WaitDone, Cdc!WaitReturn
<1> QED BY <1>1, <1>2, <1>3 DEF ResetInv

-----------------------------------------------------------------------------
(* The crossing *)

\* A reset of the core, or a clean crossing, leaves it at rest.
LEMMA CleanIsRest == Clean => AtIdle /\ AtRequest /\ AtAnswer
  BY DEF Clean, Cdc!Quiet, AtIdle, AtRequest, AtAnswer

LEMMA HandshakeMcu ==
  BusTypeOK /\ ResetInv /\ Handshake /\ McuTick => Handshake'
<1> SUFFICES ASSUME BusTypeOK, ResetInv, Handshake, McuTick, ~ torn', ~ Clean'
             PROVE  AtIdle' /\ AtRequest' /\ AtAnswer'
  <2>1. (Clean => AtIdle /\ AtRequest /\ AtAnswer)' BY CleanIsRest, PTL
  <2> QED BY <2>1 DEF Handshake
<1> DEFINE reset == serv_rst \/ serv_rst'
           s_stb == serv # None
<1>1. Cdc!McuTick(reset, s_stb)
  BY DEF McuTick
<1>2. ~ torn /\ ~ mcu_reset_pulse
  BY DEF McuTick
<1>3. AtIdle /\ AtRequest /\ AtAnswer
  BY <1>2 DEF Handshake
<1>4. /\ sync_done'[1] = done_sys /\ sync_done'[2] = sync_done[1]
      /\ sync_req' = sync_req /\ vstate' = vstate /\ done_sys' = done_sys
      /\ m_addr' = m_addr /\ rdt_hold' = rdt_hold
  <2>1. sync_done' = Cdc!Shift(sync_done, done_sys)
    BY <1>1 DEF Cdc!McuTick
  <2>2. sync_done \in Cdc!Stages /\ done_sys \in BOOLEAN
    BY DEF BusTypeOK, Cdc!TypeOK
  <2> QED BY <2>1, <2>2, Shifts DEF McuTick, cdcSysVars
<1>5. /\ served' = IF serv = None THEN 0 ELSE served
      /\ \E a \in Addrs \cup {None} :
           serv' = IF serv_rst' THEN None ELSE IF serv = None THEN a
                   ELSE IF s_ack THEN None ELSE serv
  BY DEF McuTick, Access
<1>6. CASE reset
  <2>1. serv_rst
    BY <1>2, <1>6 DEF McuTick, ResetHold, ResetInv
  <2>2. serv = None /\ Clean
    BY <1>3, <2>1 DEF ResetInv, AtIdle
  <2>3. ustate' = "U_IDLE" /\ ~ req_level'
    BY <1>1, <1>6 DEF Cdc!McuTick, Cdc!McuReset
  <2>4. Clean'
    BY <1>4, <1>5, <2>2, <2>3 DEF Clean, Cdc!Quiet
  <2> QED BY <2>4
<1>7. CASE ~ reset /\ ustate = "U_IDLE"
  <2>1. Clean /\ ~ s_ack
    BY <1>3, <1>7 DEF AtIdle, ResetInv
  <2>2. req_level' = s_stb /\ ustate' = IF s_stb THEN "U_REQ" ELSE "U_IDLE"
    BY <1>1, <1>7 DEF Cdc!McuTick, Cdc!Idle, Cdc!WaitDone, Cdc!WaitReturn
  <2>3. CASE serv = None
    <3>1. Clean'
      BY <1>4, <1>5, <2>1, <2>2, <2>3 DEF Clean, Cdc!Quiet
    <3> QED BY <3>1
  <2>4. CASE serv # None
    <3>1. serv' = serv /\ served' = 0 /\ req_level' /\ ustate' = "U_REQ"
      BY <1>5, <1>7, <2>1, <2>2, <2>4 DEF Clean
    <3>2. vstate' = "V_IDLE" /\ ~ done_sys' /\ ~ sync_req'[2] /\ ~ sync_done'[1] /\ ~ sync_done'[2]
      BY <1>4, <2>1 DEF Clean, Cdc!Quiet
    <3> QED BY <2>4, <3>1, <3>2 DEF AtIdle, AtRequest, AtAnswer
  <2> QED BY <2>3, <2>4
<1>8. CASE ~ reset /\ ustate = "U_REQ"
  <2>1. serv' = serv /\ served' = served /\ ~ s_ack
    BY <1>3, <1>5, <1>8 DEF AtRequest, ResetInv
  <2>2. CASE sync_done[2]
    <3>1. /\ ustate' = "U_ACK" /\ ~ req_level' /\ s_ack' /\ s_rdt' = rdt_hold
      BY <1>1, <1>8, <2>2
      DEF Cdc!McuTick, Cdc!Idle, Cdc!WaitDone, Cdc!WaitReturn, Cdc!done_mcu
    <3>2. vstate = "V_DONE" /\ sync_done[1] /\ done_sys
      BY <1>3, <1>8, <2>2 DEF AtRequest, BusTypeOK, Cdc!TypeOK
    <3> QED BY <1>3, <1>4, <1>8, <2>1, <3>1, <3>2 DEF AtIdle, AtRequest, AtAnswer
  <2>3. CASE ~ sync_done[2]
    <3>1. ustate' = "U_REQ" /\ req_level'
      BY <1>1, <1>8, <2>3
      DEF Cdc!McuTick, Cdc!Idle, Cdc!WaitDone, Cdc!WaitReturn, Cdc!done_mcu
    <3> QED BY <1>3, <1>4, <1>8, <2>1, <3>1 DEF AtIdle, AtRequest, AtAnswer
  <2> QED BY <2>2, <2>3
<1>9. CASE ~ reset /\ ustate = "U_ACK"
  <2>1. ~ s_ack' /\ req_level' = req_level /\ ustate' = IF sync_done[2] THEN "U_ACK" ELSE "U_IDLE"
    BY <1>1, <1>9
    DEF Cdc!McuTick, Cdc!Idle, Cdc!WaitDone, Cdc!WaitReturn, Cdc!done_mcu
  <2>2. serv' # None => served' = 0
    BY <1>3, <1>5, <1>9 DEF AtAnswer
  <2>3. CASE sync_done[2]
    BY <1>3, <1>4, <1>9, <2>1, <2>2, <2>3 DEF AtIdle, AtRequest, AtAnswer
  <2>4. CASE ~ sync_done[2]
    <3>1. /\ vstate = "V_IDLE" /\ ~ done_sys /\ ~ sync_done[1]
          /\ ~ req_level /\ ~ sync_req[1] /\ ~ sync_req[2]
      BY <1>3, <1>9, <2>4 DEF AtAnswer, BusTypeOK, Cdc!TypeOK
    <3>2. Clean'
      BY <1>4, <2>1, <2>2, <2>4, <3>1 DEF Clean, Cdc!Quiet
    <3> QED BY <3>2
  <2> QED BY <2>3, <2>4
<1> QED BY <1>6, <1>7, <1>8, <1>9 DEF BusTypeOK, Cdc!TypeOK

LEMMA HandshakeSys ==
  BusTypeOK /\ GrantInv /\ ResetInv /\ Handshake /\ SysTick => Handshake'
<1> SUFFICES ASSUME BusTypeOK, GrantInv, ResetInv, Handshake, SysTick, ~ torn', ~ Clean'
             PROVE  AtIdle' /\ AtRequest' /\ AtAnswer'
  <2>1. (Clean => AtIdle /\ AtRequest /\ AtAnswer)' BY CleanIsRest, PTL
  <2> QED BY <2>1 DEF Handshake
<1> DEFINE answered == cur(req) = 1 /\ be_ready
<1>1. Wires BY WiresAre
<1>2. PICK fields \in Addrs :
        (serv # None => fields = serv) /\ Cdc!SysTick(fields, answered, be_rdata)
  BY <1>1, CrossingSys
<1>3. AtIdle /\ AtRequest /\ AtAnswer
  BY DEF Handshake, SysTick
<1>4. /\ sync_req'[1] = req_level /\ sync_req'[2] = sync_req[1]
      /\ sync_done' = sync_done /\ ustate' = ustate /\ req_level' = req_level
      /\ s_ack' = s_ack /\ s_rdt' = s_rdt /\ serv' = serv
  <2>1. sync_req' = Cdc!Shift(sync_req, req_level)
    BY <1>2 DEF Cdc!SysTick
  <2>2. sync_req \in Cdc!Stages /\ req_level \in BOOLEAN
    BY DEF BusTypeOK, Cdc!TypeOK
  <2> QED BY <2>1, <2>2, Shifts DEF SysTick, cdcMcuVars, servVars
<1>5. answered => m_req /\ vstate = "V_RUN" /\ be_rdata = m_addr
  BY <1>1 DEF Wires, GrantInv, be_rdata
<1>6. served' = IF answered /\ served < 2 THEN served + 1 ELSE served
  BY <1>1 DEF SysTick, Wires, m_ready
<1>7. CASE ustate = "U_IDLE"
  <2>1. Clean
    BY <1>3, <1>7 DEF AtIdle
  <2>2. vstate' = "V_IDLE" /\ ~ done_sys' /\ served' = served
    BY <1>2, <1>5, <1>6, <2>1
    DEF Clean, Cdc!Quiet, Cdc!SysTick, Cdc!Sample, Cdc!Run, Cdc!Release, Cdc!req_sys
  <2>3. Clean'
    BY <1>4, <1>7, <2>1, <2>2 DEF Clean, Cdc!Quiet
  <2> QED BY <2>3
<1>8. CASE ustate = "U_REQ"
  <2>1. CASE vstate = "V_IDLE"
    <3>1. served' = served /\ ~ done_sys' /\ ~ done_sys /\ served = 0
      BY <1>2, <1>3, <1>5, <1>6, <1>8, <2>1
      DEF AtRequest, Cdc!SysTick, Cdc!Sample, Cdc!Run, Cdc!Release
    <3>2. CASE sync_req[2]
      <4>1. vstate' = "V_RUN" /\ m_addr' = serv
        BY <1>2, <1>3, <1>8, <2>1, <3>2
        DEF AtRequest, Cdc!SysTick, Cdc!Sample, Cdc!Run, Cdc!Release, Cdc!req_sys
      <4> QED BY <1>3, <1>4, <1>8, <2>1, <3>1, <3>2, <4>1 DEF AtIdle, AtRequest, AtAnswer
    <3>3. CASE ~ sync_req[2]
      <4>1. vstate' = "V_IDLE"
        BY <1>2, <2>1, <3>3 DEF Cdc!SysTick, Cdc!Sample, Cdc!Run, Cdc!Release, Cdc!req_sys
      <4> QED BY <1>3, <1>4, <1>8, <2>1, <3>1, <3>3, <4>1 DEF AtIdle, AtRequest, AtAnswer
    <3> QED BY <3>2, <3>3
  <2>2. CASE vstate = "V_RUN"
    <3>1. /\ ~ done_sys /\ sync_req[1] /\ sync_req[2] /\ m_addr = serv /\ served = 0
          /\ ~ sync_done[1] /\ ~ sync_done[2]
      BY <1>3, <1>8, <2>2 DEF AtRequest
    <3>2. CASE answered
      <4>1. vstate' = "V_DONE" /\ done_sys' /\ rdt_hold' = serv /\ served' = 1
        <5>1. Cdc!Run(answered, be_rdata)
          BY <1>2, <2>2 DEF Cdc!SysTick, Cdc!Sample, Cdc!Release
        <5>2. vstate' = "V_DONE" /\ done_sys' /\ rdt_hold' = be_rdata
          BY <3>2, <5>1 DEF Cdc!Run
        <5>3. served' = 1
          BY <1>6, <3>1, <3>2
        <5> QED BY <1>5, <3>1, <3>2, <5>2, <5>3
      <4> QED BY <1>3, <1>4, <1>8, <3>1, <4>1 DEF AtIdle, AtRequest, AtAnswer
    <3>3. CASE ~ answered
      <4>1. vstate' = "V_RUN" /\ ~ done_sys' /\ m_addr' = serv /\ served' = 0
        BY <1>2, <1>6, <2>2, <3>1, <3>3
        DEF Cdc!SysTick, Cdc!Sample, Cdc!Run, Cdc!Release
      <4> QED BY <1>3, <1>4, <1>8, <3>1, <4>1 DEF AtIdle, AtRequest, AtAnswer
    <3> QED BY <3>2, <3>3
  <2>3. CASE vstate = "V_DONE"
    <3>1. done_sys /\ sync_req[1] /\ sync_req[2] /\ rdt_hold = serv /\ served = 1
      BY <1>3, <1>8, <2>3 DEF AtRequest
    <3>2. vstate' = "V_DONE" /\ done_sys' /\ rdt_hold' = serv /\ served' = 1
      BY <1>2, <1>5, <1>6, <2>3, <3>1
      DEF Cdc!SysTick, Cdc!Sample, Cdc!Run, Cdc!Release, Cdc!req_sys
    <3> QED BY <1>3, <1>4, <1>8, <3>1, <3>2 DEF AtIdle, AtRequest, AtAnswer
  <2> QED BY <2>1, <2>2, <2>3 DEF BusTypeOK, Cdc!TypeOK
<1>9. CASE ustate = "U_ACK"
  <2>1. ~ req_level /\ vstate # "V_RUN" /\ (sync_req[1] => sync_req[2]) /\ served' = served
    BY <1>3, <1>5, <1>6, <1>9 DEF AtAnswer
  <2>2. CASE vstate = "V_DONE" /\ sync_req[2]
    <3>1. vstate' = "V_DONE" /\ done_sys'
      BY <1>2, <2>2 DEF Cdc!SysTick, Cdc!Sample, Cdc!Run, Cdc!Release, Cdc!req_sys
    <3> QED BY <1>3, <1>4, <1>9, <2>1, <2>2, <3>1 DEF AtIdle, AtRequest, AtAnswer
  <2>3. CASE ~ sync_req[2]
    <3>1. vstate' = "V_IDLE" /\ ~ done_sys'
      BY <1>2, <1>3, <1>9, <2>1, <2>3
      DEF AtAnswer, Cdc!SysTick, Cdc!Sample, Cdc!Run, Cdc!Release, Cdc!req_sys
    <3> QED BY <1>3, <1>4, <1>9, <2>1, <2>3, <3>1 DEF AtIdle, AtRequest, AtAnswer, BusTypeOK, Cdc!TypeOK
  <2> QED BY <1>3, <1>9, <2>1, <2>2, <2>3 DEF AtAnswer, BusTypeOK, Cdc!TypeOK
<1> QED BY <1>7, <1>8, <1>9 DEF BusTypeOK, Cdc!TypeOK

-----------------------------------------------------------------------------
LEMMA BusInit == Init => BusInv
<1> SUFFICES ASSUME Init PROVE BusInv
  OBVIOUS
<1>1. BusTypeOK BY TypeInit
<1>2. GrantInv BY DEF Init, Reset, Cdc!Reset, GrantInv
<1>3. PriorityInv BY DEF Init, PriorityInv
<1>4. ResetInv BY DEF Init, Cdc!Reset, ResetInv
<1>5. Clean BY DEF Init, Cdc!Reset, Clean, Cdc!Quiet
<1> QED BY <1>1, <1>2, <1>3, <1>4, <1>5, CleanIsRest DEF BusInv, Handshake

LEMMA BusStep == BusInv /\ [Next]_vars => BusInv'
<1> SUFFICES ASSUME BusInv, [Next]_vars PROVE BusInv'
  OBVIOUS
<1>1. CASE SysTick
  <2>1. ResetInv'
    BY <1>1 DEF BusInv, ResetInv, SysTick, cdcMcuVars, servVars
  <2> QED BY <1>1, <2>1, TypeSys, GrantSys, PrioritySys, HandshakeSys DEF BusInv
<1>2. CASE McuTick
  <2>1. GrantInv' /\ PriorityInv'
    BY <1>2 DEF BusInv, GrantInv, PriorityInv, McuTick, busVars, cdcSysVars,
                be_addr, cur, sel1_free, req
  <2> QED BY <1>2, <2>1, TypeMcu, ResetMcu, HandshakeMcu DEF BusInv
<1>3. CASE UNCHANGED vars
  <2>1. BusTypeOK'
    BY <1>3 DEF BusInv, BusTypeOK, TypeOK, Cdc!TypeOK, vars, cdcMcuVars, cdcSysVars, servVars, busVars
  <2>2. GrantInv' /\ PriorityInv' /\ ResetInv'
    BY <1>3 DEF BusInv, GrantInv, PriorityInv, ResetInv, vars, cdcMcuVars, cdcSysVars, servVars,
                busVars, be_addr, cur, sel1_free, req
  <2>3. Handshake'
    BY <1>3 DEF BusInv, Handshake, AtIdle, AtRequest, AtAnswer, Clean, Cdc!Quiet, vars, cdcMcuVars,
                cdcSysVars, servVars
  <2> QED BY <2>1, <2>2, <2>3 DEF BusInv
<1> QED BY <1>1, <1>2, <1>3 DEF Next

LEMMA BusInvariant == Spec => []BusInv
  BY BusInit, BusStep, PTL DEF Spec

(***************************************************************************)
(* Every register of the bus and of the crossing keeps its type.           *)
(***************************************************************************)
THEOREM BusTypeCorrect == Spec => []BusTypeOK
<1>1. BusInv => BusTypeOK BY DEF BusInv
<1> QED BY <1>1, BusInvariant, PTL

(***************************************************************************)
(* Outside the drain after a reset of the core, what serv_wb_cdc           *)
(* acknowledges is the access SERV is making, done on the bus once.        *)
(***************************************************************************)
THEOREM ServAnsweredOnce == Spec => []AnsweredOnce
<1>1. BusInv => AnsweredOnce
  BY DEF BusInv, ResetInv, Handshake, AtAnswer, AnsweredOnce, OwnAnswerToServ
<1> QED BY <1>1, BusInvariant, PTL

(***************************************************************************)
(* be_arbiter keeps a request that waits for its slave on the bus, whatever *)
(* the other master or a reset of SERV does.                               *)
(***************************************************************************)
THEOREM RequestsHeld == Spec => RequestHeld
<1>1. BusInv /\ [Next]_vars
        => [be_req(req) /\ ~ be_ready => be_req(req)' /\ be_addr' = be_addr]_vars
  <2> SUFFICES ASSUME BusInv, Next, be_req(req), ~ be_ready
               PROVE  be_req(req)' /\ be_addr' = be_addr
    OBVIOUS
  <2>1. CASE SysTick BY <2>1, Locks DEF BusInv
  <2>2. CASE McuTick
    BY <2>2 DEF McuTick, busVars, cdcSysVars, be_req, be_addr, cur, sel1_free, req
  <2> QED BY <2>1, <2>2 DEF Next
<1> QED BY <1>1, BusInvariant, PTL DEF Spec, RequestHeld

(***************************************************************************)
(* be_arbiter answers no request of SERV that reached the bus behind a     *)
(* request of the host before the host's.                                  *)
(***************************************************************************)
THEOREM HostGoesFirst == Spec => []HostFirst
<1>1. BusInv => HostFirst
  <2> SUFFICES ASSUME BusInv, waited PROVE ~ m_ready(1, req, be_ready)
    BY DEF HostFirst
  <2>1. Wires BY WiresAre DEF BusInv
  <2> QED BY <2>1 DEF Wires, BusInv, PriorityInv
<1> QED BY <1>1, BusInvariant, PTL
=============================================================================
