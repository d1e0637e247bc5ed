--------------------------- MODULE BusArbitration ---------------------------
(***************************************************************************)
(* The shared arbiter with the four requesters video_controller attaches   *)
(* to it: the upload and download sides of the buffer bookkeeping (lanes 0 *)
(* and 1) and the write and read bursts (lanes 2 and 3).  Every requester  *)
(* raises its request at a time of its own, keeps it up until it sees its  *)
(* grant, and lowers it when it is done.                                   *)
(***************************************************************************)
EXTENDS Arbiter

CONSTANTS  \* caps of the history counters, above any value they reach
  MaxBypass,
  MaxIdle

ASSUME CapAssumption == MaxBypass \in Nat \ {0} /\ MaxIdle \in Nat \ {0}

VARIABLES
  shared_req,     \* lanes whose request is high
  bypass,         \* grants given to others since a lane began to wait (history)
  idle            \* cycles the bus has been idle while a lane waits (history)

vars == <<grant_state, grant, shared_req, bypass, idle>>

\* Grants that begin with this clock edge.
Begun == grant' \ grant

Waiting(lane) == lane \in shared_req /\ lane \notin grant

Count(lane) ==
  LET n == bypass[lane] + Cardinality(Begun \ {lane})
  IN  IF lane \in shared_req /\ lane \notin grant'
        THEN IF n > MaxBypass THEN MaxBypass ELSE n
        ELSE 0

IdleCount == IF idle < MaxIdle THEN idle + 1 ELSE idle

Init ==
  /\ Reset
  /\ shared_req = {}
  /\ bypass = [l \in Lanes |-> 0]
  /\ idle = 0

\* A clock edge: some idle lanes raise their request, some granted ones lower it.
Next ==
  /\ Clock(shared_req)
  /\ \E up \in SUBSET (Lanes \ shared_req), down \in SUBSET (shared_req \cap grant) :
       shared_req' = (shared_req \cup up) \ down
  /\ bypass' = [l \in Lanes |-> Count(l)]
  /\ idle' = IF grant = {} /\ shared_req # {} THEN IdleCount ELSE 0

\* The owner of a lane gives it back some time after its grant.
Release(lane) == Next /\ lane \in shared_req \cap grant /\ lane \notin shared_req'

Spec == Init /\ [][Next]_vars

FairSpec ==
  /\ Spec
  /\ WF_vars(Next)
  /\ \A l \in Lanes : WF_vars(Release(l))

-----------------------------------------------------------------------------
TypeInv ==
  /\ TypeOK
  /\ shared_req \subseteq Lanes
  /\ bypass \in [Lanes -> 0 .. MaxBypass]
  /\ idle \in 0 .. MaxIdle

(***************************************************************************)
(* A registered grant is always backed by the state of the nodes on the    *)
(* lane's path.  This is the inductive form of exclusion: two granted      *)
(* lanes would need one node in two states.                                *)
(***************************************************************************)
GrantBacked ==
  \A l \in grant : /\ grant_state[LeafOf(l)] = InputOf(l)
                   /\ grant_state["root"] = SideOf(LeafOf(l))

(***************************************************************************)
(* Mutual exclusion, also in the middle of a hand-over: at most one lane   *)
(* is granted, the property arbiter.v asserts under FORMAL.  The PSRAM bus *)
(* and the buffer table have no other protection.                          *)
(***************************************************************************)
OneHot == \A l, m \in grant : l = m

(***************************************************************************)
(* No preemption: a lane that is granted and still requests is granted in  *)
(* the next cycle too, whatever the other lanes ask for.  The uploader     *)
(* counts its burst out without looking at write_ack again, so a grant     *)
(* withdrawn early would put two bursts on the bus.                        *)
(***************************************************************************)
NoPreemption == [][\A l \in grant \cap shared_req : l \in grant']_vars

(***************************************************************************)
(* A lane that waits sees at most four grants given to the other three     *)
(* lanes before its own: the tree is round-robin although each node        *)
(* prefers its input 0.                                                    *)
(***************************************************************************)
BoundedBypass == \A l \in Lanes : bypass[l] <= 4

(***************************************************************************)
(* A hand-over takes "up to three clocks" (arbiter.v): the last owner is   *)
(* still granted in the first of them, so the bus is idle for at most two  *)
(* cycles in a row while a lane waits.                                     *)
(***************************************************************************)
HandOver == idle <= 2

(***************************************************************************)
(* No starvation: if every owner gives the bus back, every request is      *)
(* granted.  Neither side of the frame ring can lock the other one out.    *)
(***************************************************************************)
NoStarvation == \A l \in Lanes : (l \in shared_req) ~> (l \in grant)

=============================================================================
