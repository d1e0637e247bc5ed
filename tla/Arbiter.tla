------------------------------- MODULE Arbiter -------------------------------
(***************************************************************************)
(* The four-lane instance of src/arbiter.v that video_controller uses to   *)
(* share the PSRAM command bus and the frame-buffer bookkeeping: a tree of *)
(* three two-input round-robin nodes behind registered grants.             *)
(*                                                                         *)
(*      lanes 0, 1 -> node "buffer" --+                                    *)
(*                                    +--> node "root"                     *)
(*      lanes 2, 3 -> node "data"   --+                                    *)
(*                                                                         *)
(* A node's grant_state is 0 or 1, the input it serves.  Request and grant *)
(* vectors are the sets of their high lanes.  The arbiter is built with    *)
(* enable tied to 1, and nothing reads its select and valid outputs.       *)
(***************************************************************************)
EXTENDS Naturals, FiniteSets

VARIABLES
  grant_state,  \* the state register of each node
  grant         \* the registered grant outputs

Lanes == 0 .. 3

Leaves == {"buffer", "data"}

Nodes == Leaves \cup {"root"}

\* The leaf a lane hangs from, and which of the leaf's two inputs it is.
LeafOf(lane) == IF lane < 2 THEN "buffer" ELSE "data"

InputOf(lane) == lane % 2

LaneAt(leaf, input) == IF leaf = "buffer" THEN input ELSE input + 2

\* The root's input a leaf is wired to.
SideOf(leaf) == IF leaf = "buffer" THEN 0 ELSE 1

\* Mutant: valid is the plain OR of the requests, and so is not dropped when
\* the node turns back to input 0.
NodeValidSticky(node, req0, req1) == req0 \/ req1

\* Mutant: valid follows the state of the node only.
NodeValidLate(node, req0, req1) ==
  (req0 /\ grant_state[node] = 0) \/ (req1 /\ grant_state[node] = 1)

\* A node's valid output: high while an input requests, except for the cycle
\* in which the node turns from input 1 back to input 0.
NodeValid(node, req0, req1) == (req0 /\ grant_state[node] = 0) \/ req1

LeafValid(leaf, req) ==
  NodeValid(leaf, LaneAt(leaf, 0) \in req, LaneAt(leaf, 1) \in req)

\* Mutant: input 0 preempts input 1.
NextStatePreempting(node, req0, req1) == IF req1 /\ ~req0 THEN 1 ELSE 0

\* Mutant: input 1 is preferred when both ask, and never left while it asks.
NextStateBiased(node, req0, req1) == IF req1 THEN 1 ELSE 0

\* A node's next_state: serve input 1 if it asks alone or is being served.
NextState(node, req0, req1) ==
  IF req1 /\ (~req0 \/ grant_state[node] = 1) THEN 1 ELSE 0

\* Mutant: the grant is masked by the leaf's enable only.
GrantedLeafOnly(lane, req) ==
  lane \in req /\ grant_state[LeafOf(lane)] = InputOf(lane)

\* The grant that reaches a lane through the enables of its leaf and the root.
Granted(lane, req) ==
  LET leaf == LeafOf(lane)
  IN  /\ lane \in req
      /\ grant_state[leaf] = InputOf(lane)
      /\ LeafValid(leaf, req)
      /\ grant_state["root"] = SideOf(leaf)

Reset ==
  /\ grant_state = [n \in Nodes |-> 0]
  /\ grant = {}

Clock(req) ==
  /\ grant' = {l \in Lanes : Granted(l, req)}
  /\ grant_state' = [n \in Nodes |->
       IF n = "root"
         THEN NextState(n, LeafValid("buffer", req), LeafValid("data", req))
         ELSE NextState(n, LaneAt(n, 0) \in req, LaneAt(n, 1) \in req)]

-----------------------------------------------------------------------------

TypeOK ==
  /\ grant_state \in [Nodes -> 0 .. 1]
  /\ grant \subseteq Lanes

=============================================================================
