------------------------------ MODULE BeArbiter ------------------------------
(***************************************************************************)
(* src/modbus/be_arbiter.v: two masters of the register bus, the Modbus    *)
(* host (0, which wins ties) and the SERV core behind its clock crossing   *)
(* (1).  An access that is not answered in its first cycle locks its       *)
(* master in until the answer.  The wires are operators of the requests    *)
(* req \in [Masters -> BOOLEAN] of the cycle.                              *)
(***************************************************************************)
EXTENDS Integers

VARIABLES busy, owner

Masters == {0, 1}

\* SERV wins ties (mutant).
sel1_freeServ(req) == req[1]

sel1_free(req) == ~ req[0] /\ req[1]

\* No lock: every cycle is arbitrated afresh (mutant).
curUnlocked(req) == IF sel1_free(req) THEN 1 ELSE 0

cur(req) == IF busy THEN owner ELSE IF sel1_free(req) THEN 1 ELSE 0

be_req(req) == req[cur(req)]

m_ready(m, req, be_ready) == cur(req) = m /\ be_req(req) /\ be_ready

\* owner is not reset.
Reset == busy = FALSE /\ owner \in Masters

Clock(req, be_ready) ==
  LET locks == ~ busy /\ (req[0] \/ req[1]) /\ ~ be_ready
  IN  /\ busy' = (locks \/ (busy /\ ~ be_ready))
      /\ owner' = IF locks THEN cur(req) ELSE owner

TypeOK == busy \in BOOLEAN /\ owner \in Masters
=============================================================================
