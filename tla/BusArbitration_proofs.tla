----------------------- MODULE BusArbitration_proofs -----------------------
(***************************************************************************)
(* Proofs about BusArbitration: exclusion and the absence of preemption,   *)
(* for requesters that come and go in any order.  The inductive invariant  *)
(* is GrantBacked: a registered grant agrees with the state of both nodes  *)
(* on its lane's path.  The two bounds on waiting follow: how long the bus *)
(* may be idle, and how many grants others may be given, which falls with  *)
(* a measure of the grants that are still ahead of the waiting lane.       *)
(***************************************************************************)
EXTENDS BusArbitration, FiniteSetTheorems, TLAPS

ArbiterInv == TypeInv /\ GrantBacked

\* A lane is known by its place in the tree.
LEMMA Places ==
  ASSUME NEW l \in Lanes
  PROVE  /\ LeafOf(l) \in Leaves /\ InputOf(l) \in 0 .. 1 /\ SideOf(LeafOf(l)) \in 0 .. 1
         /\ LaneAt(LeafOf(l), InputOf(l)) = l
         /\ SideOf(LeafOf(l)) = IF LeafOf(l) = "buffer" THEN 0 ELSE 1
<1>1. CASE l = 0 BY <1>1 DEF LeafOf, InputOf, SideOf, LaneAt, Leaves
<1>2. CASE l = 1 BY <1>2 DEF LeafOf, InputOf, SideOf, LaneAt, Leaves
<1>3. CASE l = 2 BY <1>3 DEF LeafOf, InputOf, SideOf, LaneAt, Leaves
<1>4. CASE l = 3 BY <1>4 DEF LeafOf, InputOf, SideOf, LaneAt, Leaves
<1> QED BY <1>1, <1>2, <1>3, <1>4 DEF Lanes

\* A leaf that points to a lane is valid when that lane requests.
LEMMA PointedLeafValid ==
  ASSUME NEW l \in Lanes, NEW req, l \in req, grant_state[LeafOf(l)] = InputOf(l)
  PROVE  LeafValid(LeafOf(l), req)
<1>1. CASE InputOf(l) = 0 BY <1>1, Places DEF LeafValid, NodeValid
<1>2. CASE InputOf(l) = 1 BY <1>2, Places DEF LeafValid, NodeValid
<1> QED BY <1>1, <1>2, Places

(***************************************************************************)
(* Nodes stay on the path of a lane that is being granted: each of the two *)
(* serves an input that requests, and turns away from none such.           *)
(***************************************************************************)
LEMMA PathHeld ==
  ASSUME TypeOK, NEW req, NEW l \in Lanes, Granted(l, req), Clock(req)
  PROVE  grant_state'[LeafOf(l)] = InputOf(l) /\ grant_state'["root"] = SideOf(LeafOf(l))
<1> DEFINE leaf == LeafOf(l)
<1>1. /\ l \in req /\ grant_state[leaf] = InputOf(l) /\ LeafValid(leaf, req)
      /\ grant_state["root"] = SideOf(leaf)
  BY DEF Granted
<1>2. /\ leaf \in Nodes /\ "root" \in Nodes /\ leaf # "root"
      /\ leaf = "buffer" \/ leaf = "data"
  BY Places DEF Nodes, Leaves
<1>3. /\ grant_state'[leaf] = NextState(leaf, LaneAt(leaf, 0) \in req, LaneAt(leaf, 1) \in req)
      /\ grant_state'["root"] =
           NextState("root", LeafValid("buffer", req), LeafValid("data", req))
  BY <1>2 DEF Clock
<1>4. grant_state'[leaf] = InputOf(l)
  <2>1. CASE InputOf(l) = 0 BY <2>1, <1>1, <1>3, Places DEF NextState
  <2>2. CASE InputOf(l) = 1 BY <2>2, <1>1, <1>3, Places DEF NextState
  <2> QED BY <2>1, <2>2, Places
<1>5. grant_state'["root"] = SideOf(leaf)
  <2>1. CASE leaf = "buffer" BY <2>1, <1>1, <1>3, Places DEF NextState
  <2>2. CASE leaf = "data" BY <2>2, <1>1, <1>3, Places DEF NextState
  <2> QED BY <1>2, <2>1, <2>2
<1> QED BY <1>4, <1>5

-----------------------------------------------------------------------------
LEMMA ArbiterInit == Init => ArbiterInv
  BY CapAssumption
  DEF Init, ArbiterInv, TypeInv, TypeOK, GrantBacked, Reset, Nodes, Leaves, Lanes

LEMMA ArbiterStep == ArbiterInv /\ [Next]_vars => ArbiterInv'
<1> SUFFICES ASSUME ArbiterInv, [Next]_vars PROVE ArbiterInv'
  OBVIOUS
<1>1. CASE Next
  <2>1. TypeOK'
    <3>1. \A n, a, b : NextState(n, a, b) \in 0 .. 1
      BY DEF NextState
    <3> QED BY <1>1, <3>1 DEF Next, Clock, TypeOK
  <2>2. shared_req' \subseteq Lanes
    BY <1>1 DEF ArbiterInv, TypeInv, Next
  <2>3. bypass' \in [Lanes -> 0 .. MaxBypass]
    <3> SUFFICES ASSUME NEW l \in Lanes PROVE Count(l) \in 0 .. MaxBypass
      BY <1>1 DEF Next
    <3> DEFINE others == Begun \ {l}
    <3>1. Cardinality(others) \in Nat
      <4>1. Begun \subseteq Lanes BY <2>1 DEF Begun, TypeOK
      <4>2. IsFiniteSet(Lanes)
        <5>1. 0 \in Int /\ 3 \in Int OBVIOUS
        <5> QED BY <5>1, FS_Interval, Zenon DEF Lanes
      <4> QED BY <4>1, <4>2, FS_Subset, FS_CardinalityType
    <3> QED BY <3>1, CapAssumption DEF ArbiterInv, TypeInv, Count
  <2>4. idle' \in 0 .. MaxIdle
    BY <1>1, CapAssumption DEF ArbiterInv, TypeInv, Next, IdleCount
  <2>5. GrantBacked'
    <3> SUFFICES ASSUME NEW l \in grant'
                 PROVE  /\ grant_state'[LeafOf(l)] = InputOf(l)
                        /\ grant_state'["root"] = SideOf(LeafOf(l))
      BY DEF GrantBacked
    <3>1. l \in Lanes /\ Granted(l, shared_req) /\ Clock(shared_req)
      BY <1>1 DEF Next, Clock
    <3> QED BY <3>1, PathHeld DEF ArbiterInv, TypeInv
  <2> QED BY <2>1, <2>2, <2>3, <2>4, <2>5 DEF ArbiterInv, TypeInv
<1>2. CASE UNCHANGED vars
  BY <1>2 DEF vars, ArbiterInv, TypeInv, TypeOK, GrantBacked
<1> QED BY <1>1, <1>2

LEMMA ArbiterInvariant == Spec => []ArbiterInv
  BY ArbiterInit, ArbiterStep, PTL DEF Spec

LEMMA Exclusive == ArbiterInv => OneHot
<1> SUFFICES ASSUME ArbiterInv, NEW l \in grant, NEW m \in grant PROVE l = m
  BY DEF OneHot
<1>1. l \in Lanes /\ m \in Lanes
  BY DEF ArbiterInv, TypeInv, TypeOK
<1>2. /\ SideOf(LeafOf(l)) = SideOf(LeafOf(m))
      /\ grant_state[LeafOf(l)] = InputOf(l) /\ grant_state[LeafOf(m)] = InputOf(m)
  BY DEF ArbiterInv, GrantBacked
<1>3. LeafOf(l) = LeafOf(m)
  BY <1>1, <1>2, Places DEF Leaves
<1> QED BY <1>1, <1>2, <1>3, Places

(***************************************************************************)
(* At most one lane is granted in any cycle, through every hand-over.      *)
(***************************************************************************)
THEOREM GrantsExclude == Spec => []OneHot
  BY ArbiterInvariant, Exclusive, PTL

(***************************************************************************)
(* A granted lane keeps its grant for as long as it requests, whatever the *)
(* other lanes do.                                                         *)
(***************************************************************************)
THEOREM NeverPreempted == Spec => NoPreemption
<1>1. ArbiterInv /\ [Next]_vars => [\A l \in grant \cap shared_req : l \in grant']_vars
  <2> SUFFICES ASSUME ArbiterInv, Next, NEW l \in grant \cap shared_req PROVE l \in grant'
    BY DEF NoPreemption
  <2>1. /\ l \in Lanes /\ grant_state[LeafOf(l)] = InputOf(l)
        /\ grant_state["root"] = SideOf(LeafOf(l))
    BY DEF ArbiterInv, TypeInv, TypeOK, GrantBacked
  <2>2. Granted(l, shared_req)
    BY <2>1, PointedLeafValid DEF Granted
  <2> QED BY <2>1, <2>2 DEF Next, Clock
<1> QED BY ArbiterInvariant, <1>1, PTL DEF Spec, NoPreemption
-----------------------------------------------------------------------------
(* The length of a hand-over *)

\* A node that points to its input 1 does so for a request, or for a grant
\* whose request has just gone.
Pointers ==
  /\ \A leaf \in Leaves :
       grant_state[leaf] = 1 => LaneAt(leaf, 1) \in shared_req \cup grant
  /\ grant_state["root"] = 1 => \E l \in shared_req \cup grant : LeafOf(l) = "data"

\* The tree points to a lane that requests.
Aimed(req) ==
  \E l \in req : /\ grant_state[LeafOf(l)] = InputOf(l)
                 /\ grant_state["root"] = SideOf(LeafOf(l))

\* After one idle cycle the tree is aimed, after two the lane has its grant.
IdleInv ==
  /\ idle >= 1 /\ grant = {} => Aimed(shared_req)
  /\ idle >= 2 => grant # {}
  /\ idle <= 2

HandOverInv == ArbiterInv /\ Pointers /\ IdleInv

\* Requests only fall under a grant, which then lasts for one cycle more.
LEMMA RequestsLast ==
  ASSUME ArbiterInv, Next
  PROVE  shared_req \subseteq shared_req' \cup grant'
<1> SUFFICES ASSUME NEW l \in shared_req, l \notin shared_req' PROVE l \in grant'
  OBVIOUS
<1>1. l \in grant \cap shared_req
  BY DEF Next
<1>2. /\ l \in Lanes /\ grant_state[LeafOf(l)] = InputOf(l)
      /\ grant_state["root"] = SideOf(LeafOf(l))
  BY <1>1 DEF ArbiterInv, TypeInv, TypeOK, GrantBacked
<1>3. Granted(l, shared_req)
  BY <1>2, PointedLeafValid DEF Granted
<1> QED BY <1>2, <1>3 DEF Next, Clock

\* Without a grant, a leaf is valid exactly when one of its lanes requests.
LEMMA IdleLeafValid ==
  ASSUME ArbiterInv, Pointers, grant = {}, NEW leaf \in Leaves
  PROVE  LeafValid(leaf, shared_req) <=>
           LaneAt(leaf, 0) \in shared_req \/ LaneAt(leaf, 1) \in shared_req
<1>1. grant_state[leaf] \in 0 .. 1
  BY DEF ArbiterInv, TypeInv, TypeOK, Nodes
<1>2. grant_state[leaf] = 1 => LaneAt(leaf, 1) \in shared_req
  BY DEF Pointers
<1> QED BY <1>1, <1>2 DEF LeafValid, NodeValid

\* One idle cycle is enough to aim the tree.
LEMMA IdleAims ==
  ASSUME ArbiterInv, Pointers, Next, grant = {}, shared_req # {}
  PROVE  Aimed(shared_req)'
<1> DEFINE V(leaf) == LeafValid(leaf, shared_req)
           R(leaf, i) == LaneAt(leaf, i) \in shared_req
<1>1. shared_req \subseteq shared_req' /\ shared_req \subseteq Lanes
  BY DEF Next, ArbiterInv, TypeInv
<1>2. \A leaf \in Leaves : V(leaf) <=> R(leaf, 0) \/ R(leaf, 1)
  BY IdleLeafValid
<1>3. /\ \A leaf \in Leaves : grant_state'[leaf] = NextState(leaf, R(leaf, 0), R(leaf, 1))
      /\ grant_state'["root"] = NextState("root", V("buffer"), V("data"))
  BY DEF Next, Clock, Nodes, Leaves
<1>4. ASSUME NEW leaf \in Leaves, V(leaf), grant_state'["root"] = SideOf(leaf)
      PROVE  Aimed(shared_req)'
  <2>1. PICK i \in 0 .. 1 : R(leaf, i) /\ grant_state'[leaf] = i
    <3>1. CASE R(leaf, 0) /\ ~ R(leaf, 1) BY <3>1, <1>3 DEF NextState
    <3>2. CASE R(leaf, 1) /\ ~ R(leaf, 0) BY <3>2, <1>3 DEF NextState
    <3>3. CASE R(leaf, 0) /\ R(leaf, 1) BY <3>3, <1>3 DEF NextState
    <3> QED BY <1>2, <1>4, <3>1, <3>2, <3>3
  <2>2. LeafOf(LaneAt(leaf, i)) = leaf /\ InputOf(LaneAt(leaf, i)) = i
    <3>1. CASE i = 0 BY <3>1 DEF LeafOf, InputOf, LaneAt, Leaves
    <3>2. CASE i = 1 BY <3>2 DEF LeafOf, InputOf, LaneAt, Leaves
    <3> QED BY <3>1, <3>2
  <2> QED BY <1>1, <1>4, <2>1, <2>2 DEF Aimed
<1>5. V("buffer") \/ V("data")
  <2>1. PICK l \in shared_req : TRUE OBVIOUS
  <2>2. LeafOf(l) \in Leaves /\ InputOf(l) \in 0 .. 1 /\ R(LeafOf(l), InputOf(l))
    BY <1>1, <2>1, Places
  <2> QED BY <1>2, <2>2 DEF Leaves
<1>6. CASE grant_state'["root"] = 1
  <2>1. V("data") BY <1>3, <1>6 DEF NextState
  <2> QED BY <1>4, <1>6, <2>1 DEF SideOf, Leaves
<1>7. CASE grant_state'["root"] = 0
  <2>1. V("buffer") BY <1>3, <1>5, <1>7 DEF NextState
  <2> QED BY <1>4, <1>7, <2>1 DEF SideOf, Leaves
<1>8. grant_state'["root"] \in 0 .. 1
  BY <1>3 DEF NextState
<1> QED BY <1>6, <1>7, <1>8

LEMMA HandOverInit == Init => HandOverInv
<1> SUFFICES ASSUME Init PROVE HandOverInv
  OBVIOUS
<1>1. ArbiterInv BY ArbiterInit
<1>2. Pointers BY DEF Init, Reset, Pointers, Nodes, Leaves
<1>3. IdleInv BY DEF Init, IdleInv
<1> QED BY <1>1, <1>2, <1>3 DEF HandOverInv

LEMMA HandOverStep == HandOverInv /\ [Next]_vars => HandOverInv'
<1> SUFFICES ASSUME HandOverInv, [Next]_vars PROVE HandOverInv'
  OBVIOUS
<1>1. CASE Next
  <2> USE <1>1
  <2>1. ArbiterInv'
    BY ArbiterStep DEF HandOverInv
  <2>2. Pointers'
    <3>1. ASSUME NEW leaf \in Leaves, grant_state'[leaf] = 1
          PROVE  LaneAt(leaf, 1) \in shared_req' \cup grant'
      <4>1. LaneAt(leaf, 1) \in shared_req
        BY <3>1 DEF Next, Clock, NextState, Nodes, Leaves
      <4> QED BY <4>1, RequestsLast DEF HandOverInv
    <3>2. ASSUME grant_state'["root"] = 1
          PROVE  \E l \in shared_req' \cup grant' : LeafOf(l) = "data"
      <4>1. LeafValid("data", shared_req)
        BY <3>2 DEF Next, Clock, NextState, Nodes, Leaves
      <4>2. 2 \in shared_req \/ 3 \in shared_req
        BY <4>1 DEF LeafValid, NodeValid, LaneAt
      <4>3. LeafOf(2) = "data" /\ LeafOf(3) = "data"
        BY DEF LeafOf
      <4> QED BY <4>2, <4>3, RequestsLast DEF HandOverInv
    <3> QED BY <3>1, <3>2 DEF Pointers
  <2>3. CASE grant = {} /\ shared_req # {}
    <3>1. Aimed(shared_req)'
      BY <2>3, IdleAims DEF HandOverInv
    <3>2. idle >= 1 => grant' # {}
      <4> SUFFICES ASSUME idle >= 1 PROVE grant' # {}
        OBVIOUS
      <4>1. PICK l \in shared_req : /\ grant_state[LeafOf(l)] = InputOf(l)
                                    /\ grant_state["root"] = SideOf(LeafOf(l))
        BY <2>3 DEF HandOverInv, IdleInv, Aimed
      <4>2. l \in Lanes
        BY DEF HandOverInv, ArbiterInv, TypeInv
      <4>3. Granted(l, shared_req)
        BY <4>1, <4>2, PointedLeafValid DEF Granted
      <4> QED BY <4>2, <4>3 DEF Next, Clock
    <3>3. idle \in Nat /\ idle <= 1 /\ idle' <= idle + 1
      BY <2>3, CapAssumption
      DEF HandOverInv, IdleInv, ArbiterInv, TypeInv, Next, IdleCount
    <3>4. idle' \in Nat
      BY <2>1, CapAssumption DEF ArbiterInv, TypeInv
    <3> QED BY <2>1, <2>2, <3>1, <3>2, <3>3, <3>4 DEF HandOverInv, IdleInv
  <2>4. CASE ~ (grant = {} /\ shared_req # {})
    <3>1. idle' = 0 BY <2>4 DEF Next
    <3> QED BY <2>1, <2>2, <3>1 DEF HandOverInv, IdleInv
  <2> QED BY <2>3, <2>4
<1>2. CASE UNCHANGED vars
  <2>1. ArbiterInv' BY <1>2, ArbiterStep DEF HandOverInv
  <2>2. Pointers' BY <1>2 DEF vars, HandOverInv, Pointers
  <2>3. IdleInv' BY <1>2 DEF vars, HandOverInv, IdleInv, Aimed
  <2> QED BY <2>1, <2>2, <2>3 DEF HandOverInv
<1> QED BY <1>1, <1>2

(***************************************************************************)
(* While a lane waits, the bus is idle for at most two cycles in a row.    *)
(***************************************************************************)
THEOREM ShortHandOver == Spec => []HandOver
<1>1. HandOverInv => HandOver
  BY DEF HandOverInv, IdleInv, HandOver
<1> QED BY <1>1, HandOverInit, HandOverStep, PTL DEF Spec

-----------------------------------------------------------------------------
(* How often a lane is passed over *)

Other(leaf) == IF leaf = "buffer" THEN "data" ELSE "buffer"

\* The root serves the leaf.
Turn(leaf) == grant_state["root"] = SideOf(leaf)

\* Grants the leaf can still begin in one turn at the root: its input 0 and
\* then its input 1, or its input 1 only.
Left(leaf) ==
  LET served == LaneAt(leaf, grant_state[leaf]) \in grant
  IN  2 - grant_state[leaf] - IF served THEN 1 ELSE 0

\* Grants the turn of the other leaf can still give before it is over.
Across(leaf) == IF Turn(leaf) THEN 0 ELSE Left(Other(leaf))

\* The most grants that others can be given before the waiting lane gets its
\* own.  Input 1 waits for input 0 at most, in the same turn; input 0 may have
\* to let input 1 finish a turn and the other leaf have a whole one.
Ahead(lane) ==
  LET leaf == LeafOf(lane)
      input0Asks == LaneAt(leaf, 0) \in shared_req
      same == IF InputOf(lane) = 0
                THEN IF grant_state[leaf] = 0 THEN 0 ELSE Left(leaf) + 2
                ELSE IF grant_state[leaf] = 0 /\ input0Asks THEN Left(leaf) - 1 ELSE 0
  IN  Across(leaf) + same

\* A leaf that points to its input 1 while the other one has the turn came
\* second: the other has used up a part of its turn.
CameSecond ==
  \A leaf \in Leaves : ~ Turn(leaf) /\ grant_state[leaf] = 1 => Left(Other(leaf)) <= 1

BypassInv ==
  \A l \in Lanes : IF Waiting(l) THEN bypass[l] + Ahead(l) <= 4 ELSE bypass[l] = 0

TurnInv == ArbiterInv /\ Pointers /\ CameSecond

AheadInv == \A l \in Lanes : Ahead(l) \in 0 .. 4

\* What a clock edge does to one leaf and to its turn.
LEMMA LeafStep ==
  ASSUME ArbiterInv, Next, NEW A \in Leaves
  PROVE  /\ grant_state[A] \in 0 .. 1
         /\ grant_state'[A] =
              IF /\ LaneAt(A, 1) \in shared_req
                 /\ LaneAt(A, 0) \notin shared_req \/ grant_state[A] = 1
                THEN 1 ELSE 0
         /\ \A i \in 0 .. 1 :
              /\ LaneAt(A, i) \in grant' <=>
                   LaneAt(A, i) \in shared_req /\ grant_state[A] = i /\ Turn(A)
              /\ LaneAt(A, i) \in grant => grant_state[A] = i /\ Turn(A)
<1>1. A \in Nodes /\ A # "root" BY DEF Nodes, Leaves
<1>2. grant_state[A] \in 0 .. 1
  BY <1>1 DEF ArbiterInv, TypeInv, TypeOK
<1>3. grant_state'[A] = NextState(A, LaneAt(A, 0) \in shared_req, LaneAt(A, 1) \in shared_req)
  BY <1>1 DEF Next, Clock
<1>4. ASSUME NEW i \in 0 .. 1
      PROVE  /\ LaneAt(A, i) \in Lanes /\ LeafOf(LaneAt(A, i)) = A
             /\ InputOf(LaneAt(A, i)) = i
  <2>1. CASE i = 0 BY <2>1 DEF LeafOf, InputOf, LaneAt, Leaves, Lanes
  <2>2. CASE i = 1 BY <2>2 DEF LeafOf, InputOf, LaneAt, Leaves, Lanes
  <2> QED BY <2>1, <2>2
<1>5. ASSUME NEW i \in 0 .. 1
      PROVE  LaneAt(A, i) \in grant' <=>
               LaneAt(A, i) \in shared_req /\ grant_state[A] = i /\ Turn(A)
  <2>1. LaneAt(A, i) \in grant' <=> Granted(LaneAt(A, i), shared_req)
    BY <1>4 DEF Next, Clock
  <2>2. Granted(LaneAt(A, i), shared_req) <=>
          /\ LaneAt(A, i) \in shared_req /\ grant_state[A] = i
          /\ LeafValid(A, shared_req) /\ Turn(A)
    BY <1>4 DEF Granted, Turn
  <2>3. LaneAt(A, i) \in shared_req /\ grant_state[A] = i => LeafValid(A, shared_req)
    BY <1>4, PointedLeafValid
  <2> QED BY <2>1, <2>2, <2>3
<1>6. ASSUME NEW i \in 0 .. 1, LaneAt(A, i) \in grant
      PROVE  grant_state[A] = i /\ Turn(A)
  BY <1>4, <1>6 DEF ArbiterInv, GrantBacked, Turn
<1>7. grant_state'[A] =
        IF /\ LaneAt(A, 1) \in shared_req
           /\ LaneAt(A, 0) \notin shared_req \/ grant_state[A] = 1
          THEN 1 ELSE 0
  BY <1>3 DEF NextState
<1> QED BY <1>2, <1>5, <1>6, <1>7

\* The root serves one leaf, keeps to it while it is valid, and leaves it for
\* the other one when only that is.
LEMMA TurnStep ==
  ASSUME ArbiterInv, Next, NEW A \in Leaves, NEW B \in Leaves, A # B
  PROVE  /\ (Turn(A) <=> ~ Turn(B)) /\ (Turn(A)' <=> ~ Turn(B)')
         /\ LeafValid(A, shared_req) /\ Turn(A) => Turn(A)'
         /\ LeafValid(A, shared_req) /\ ~ LeafValid(B, shared_req) => Turn(A)'
         /\ LeafValid(A, shared_req) <=>
              \/ LaneAt(A, 0) \in shared_req /\ grant_state[A] = 0
              \/ LaneAt(A, 1) \in shared_req
<1>1. grant_state["root"] \in 0 .. 1
  BY DEF ArbiterInv, TypeInv, TypeOK, Nodes
<1>2. grant_state'["root"] =
        NextState("root", LeafValid("buffer", shared_req), LeafValid("data", shared_req))
  BY DEF Next, Clock, Nodes, Leaves
<1>3. /\ (A = "buffer" /\ B = "data") \/ (A = "data" /\ B = "buffer")
      /\ SideOf("buffer") = 0 /\ SideOf("data") = 1
  BY DEF Leaves, SideOf
<1>4. LeafValid(A, shared_req) <=>
        \/ LaneAt(A, 0) \in shared_req /\ grant_state[A] = 0
        \/ LaneAt(A, 1) \in shared_req
  BY DEF LeafValid, NodeValid
<1>5. CASE A = "buffer" BY <1>1, <1>2, <1>3, <1>4, <1>5 DEF NextState, Turn
<1>6. CASE A = "data" BY <1>1, <1>2, <1>3, <1>4, <1>6 DEF NextState, Turn
<1> QED BY <1>3, <1>5, <1>6


\* The only grant that can begin is that of the lane the tree points to.
LEMMA NewGrant ==
  ASSUME ArbiterInv, Next, NEW A \in Leaves, Turn(A), Begun # {}
  PROVE  /\ LaneAt(A, grant_state[A]) \in shared_req
         /\ LaneAt(A, grant_state[A]) \notin grant
<1>1. PICK m \in grant' : m \notin grant BY DEF Begun
<1>2. m \in Lanes /\ Granted(m, shared_req) BY <1>1 DEF Next, Clock
<1>3. /\ LeafOf(m) \in Leaves /\ InputOf(m) = grant_state[LeafOf(m)] /\ Turn(LeafOf(m))
      /\ m = LaneAt(LeafOf(m), grant_state[LeafOf(m)]) /\ m \in shared_req
  BY <1>2, Places DEF Granted, Turn
<1>4. LeafOf(m) = A BY <1>3, TurnStep
<1> QED BY <1>1, <1>3, <1>4

\* What is left of a turn.
LEMMA LeftIs ==
  ASSUME ArbiterInv, NEW A \in Leaves
  PROVE  Left(A) = IF grant_state[A] = 0
                     THEN IF LaneAt(A, 0) \in grant THEN 1 ELSE 2
                     ELSE IF LaneAt(A, 1) \in grant THEN 0 ELSE 1
<1>1. grant_state[A] \in 0 .. 1
  BY DEF ArbiterInv, TypeInv, TypeOK, Nodes
<1>2. CASE grant_state[A] = 0 BY <1>2 DEF Left
<1>3. CASE grant_state[A] = 1 BY <1>3 DEF Left
<1> QED BY <1>1, <1>2, <1>3

\* What a turn can still give falls with every grant in it.
LEMMA LeftFalls ==
  ASSUME ArbiterInv, ArbiterInv', Next, NEW A \in Leaves, Turn(A), LeafValid(A, shared_req)
  PROVE  /\ Left(A)' <= 1
         /\ Left(A)' <= Left(A) - (IF Begun = {} THEN 0 ELSE 1)
<1>1. Turn(A)'
  <2>1. PICK B \in Leaves : A # B BY DEF Leaves
  <2> QED BY <2>1, TurnStep
<1>2. LeafValid(A, shared_req) <=>
        \/ LaneAt(A, 0) \in shared_req /\ grant_state[A] = 0
        \/ LaneAt(A, 1) \in shared_req
  BY DEF LeafValid, NodeValid
<1>3. /\ Left(A) = IF grant_state[A] = 0
                     THEN IF LaneAt(A, 0) \in grant THEN 1 ELSE 2
                     ELSE IF LaneAt(A, 1) \in grant THEN 0 ELSE 1
      /\ Left(A)' = IF grant_state'[A] = 0
                     THEN IF LaneAt(A, 0) \in grant' THEN 1 ELSE 2
                     ELSE IF LaneAt(A, 1) \in grant' THEN 0 ELSE 1
  <2>1. grant_state'[A] \in 0 .. 1
    BY DEF ArbiterInv, TypeInv, TypeOK, Nodes
  <2>2. CASE grant_state'[A] = 0 BY <2>2, LeftIs DEF Left
  <2>3. CASE grant_state'[A] = 1 BY <2>3, LeftIs DEF Left
  <2> QED BY <2>1, <2>2, <2>3
<1>4. /\ grant_state[A] \in 0 .. 1
      /\ grant_state'[A] =
           IF /\ LaneAt(A, 1) \in shared_req
              /\ LaneAt(A, 0) \notin shared_req \/ grant_state[A] = 1
             THEN 1 ELSE 0
      /\ LaneAt(A, 0) \in grant' <=> LaneAt(A, 0) \in shared_req /\ grant_state[A] = 0
      /\ LaneAt(A, 1) \in grant' <=> LaneAt(A, 1) \in shared_req /\ grant_state[A] = 1
      /\ LaneAt(A, 0) \in grant => grant_state[A] = 0
      /\ LaneAt(A, 1) \in grant => grant_state[A] = 1
  BY LeafStep
<1>5. Begun # {} => /\ LaneAt(A, grant_state[A]) \in shared_req
                    /\ LaneAt(A, grant_state[A]) \notin grant
  BY NewGrant
<1>6. CASE grant_state[A] = 0 BY <1>2, <1>3, <1>4, <1>5, <1>6
<1>7. CASE grant_state[A] = 1 BY <1>2, <1>3, <1>4, <1>5, <1>7
<1> QED BY <1>4, <1>6, <1>7


\* A waiting lane that is not granted next keeps waiting, and every grant that
\* begins meanwhile is one less ahead of it.
LEMMA AheadFalls ==
  ASSUME ArbiterInv, ArbiterInv', Pointers, Next, NEW l \in shared_req, l \notin grant'
  PROVE  /\ Ahead(l) \in 0 .. 5
         /\ Ahead(l)' \in 0 .. 5
         /\ Ahead(l)' <= Ahead(l) - (IF Begun = {} THEN 0 ELSE 1)
<1> DEFINE A == LeafOf(l)
           i == InputOf(l)
           B == Other(A)
           b == IF Begun = {} THEN 0 ELSE 1
<1>1. /\ A \in Leaves /\ B \in Leaves /\ A # B /\ i \in 0 .. 1 /\ LaneAt(A, i) = l
  BY Places DEF ArbiterInv, TypeInv, Other, Leaves
<1>2. /\ Ahead(l) = Across(A) + (IF i = 0
                     THEN IF grant_state[A] = 0 THEN 0 ELSE Left(A) + 2
                     ELSE IF grant_state[A] = 0 /\ LaneAt(A, 0) \in shared_req
                            THEN Left(A) - 1 ELSE 0)
      /\ Ahead(l)' = Across(A)' + (IF i = 0
                     THEN IF grant_state'[A] = 0 THEN 0 ELSE Left(A)' + 2
                     ELSE IF grant_state'[A] = 0 /\ LaneAt(A, 0) \in shared_req'
                            THEN Left(A)' - 1 ELSE 0)
      /\ Across(A) = (IF Turn(A) THEN 0 ELSE Left(B))
      /\ Across(A)' = (IF Turn(A)' THEN 0 ELSE Left(B)')
  BY DEF Ahead, Across
<1> HIDE DEF A, B, i
<1>3. \A X \in Leaves :
        /\ Left(X) = IF grant_state[X] = 0
                     THEN IF LaneAt(X, 0) \in grant THEN 1 ELSE 2
                     ELSE IF LaneAt(X, 1) \in grant THEN 0 ELSE 1
        /\ Left(X)' = IF grant_state'[X] = 0
                     THEN IF LaneAt(X, 0) \in grant' THEN 1 ELSE 2
                     ELSE IF LaneAt(X, 1) \in grant' THEN 0 ELSE 1
  <2> SUFFICES ASSUME NEW X \in Leaves
      PROVE /\ Left(X) = IF grant_state[X] = 0
                     THEN IF LaneAt(X, 0) \in grant THEN 1 ELSE 2
                     ELSE IF LaneAt(X, 1) \in grant THEN 0 ELSE 1
            /\ Left(X)' = IF grant_state'[X] = 0
                     THEN IF LaneAt(X, 0) \in grant' THEN 1 ELSE 2
                     ELSE IF LaneAt(X, 1) \in grant' THEN 0 ELSE 1
    OBVIOUS
  <2>1. grant_state'[X] \in 0 .. 1
    BY DEF ArbiterInv, TypeInv, TypeOK, Nodes
  <2>2. CASE grant_state'[X] = 0 BY <2>2, LeftIs DEF Left
  <2>3. CASE grant_state'[X] = 1 BY <2>3, LeftIs DEF Left
  <2> QED BY <2>1, <2>2, <2>3
<1>4. /\ grant_state[A] \in 0 .. 1
      /\ grant_state'[A] =
           IF /\ LaneAt(A, 1) \in shared_req
              /\ LaneAt(A, 0) \notin shared_req \/ grant_state[A] = 1
             THEN 1 ELSE 0
      /\ LaneAt(A, 0) \in grant' <=>
           LaneAt(A, 0) \in shared_req /\ grant_state[A] = 0 /\ Turn(A)
      /\ LaneAt(A, 1) \in grant' <=>
           LaneAt(A, 1) \in shared_req /\ grant_state[A] = 1 /\ Turn(A)
      /\ LaneAt(A, 0) \in grant => grant_state[A] = 0 /\ Turn(A)
      /\ LaneAt(A, 1) \in grant => grant_state[A] = 1 /\ Turn(A)
  BY <1>1, LeafStep
<1>5. /\ Turn(A) <=> ~ Turn(B)
      /\ Turn(A)' <=> ~ Turn(B)'
      /\ LeafValid(A, shared_req) /\ Turn(A) => Turn(A)'
      /\ LeafValid(B, shared_req) /\ Turn(B) => Turn(B)'
      /\ LeafValid(A, shared_req) /\ ~ LeafValid(B, shared_req) => Turn(A)'
      /\ LeafValid(A, shared_req) <=>
           \/ LaneAt(A, 0) \in shared_req /\ grant_state[A] = 0
           \/ LaneAt(A, 1) \in shared_req
  BY <1>1, TurnStep
<1>6. Begun # {} /\ Turn(A) => /\ LaneAt(A, grant_state[A]) \in shared_req
                               /\ LaneAt(A, grant_state[A]) \notin grant
  BY <1>1, NewGrant
<1>7. Left(B) \in 0 .. 2 /\ Left(B)' \in 0 .. 2 /\ Left(A) \in 0 .. 2 /\ Left(A)' \in 0 .. 2
  BY <1>1, <1>3
<1>8. CASE Turn(A)
  <2>1. grant_state[A] # i BY <1>1, <1>4, <1>8
  <2>2. CASE i = 0
    <3>1. grant_state[A] = 1 BY <1>1, <1>4, <2>1, <2>2
    <3>2. CASE LaneAt(A, 1) \in shared_req
      <4>1. Turn(A)' BY <1>5, <1>8, <3>2
      <4>2. grant_state'[A] = 1 /\ LaneAt(A, 1) \in grant' BY <1>4, <1>8, <3>1, <3>2
      <4>3. Left(A)' = 0 BY <1>1, <1>3, <4>2
      <4>4. Left(A) = IF LaneAt(A, 1) \in grant THEN 0 ELSE 1 BY <1>1, <1>3, <3>1
      <4>5. Ahead(l)' = 2 BY <1>2, <2>2, <4>1, <4>2, <4>3
      <4>6. Ahead(l) = Left(A) + 2 BY <1>2, <1>8, <2>2, <3>1, <1>7
      <4> QED BY <1>6, <1>8, <3>1, <4>4, <4>5, <4>6
    <3>3. CASE LaneAt(A, 1) \notin shared_req
      <4>1. Begun = {} BY <1>6, <1>8, <3>1, <3>3
      <4>2. grant_state'[A] = 0 BY <1>4, <3>3
      <4>3. Ahead(l) = Left(A) + 2 BY <1>2, <1>8, <2>2, <3>1, <1>7
      <4>4. Ahead(l)' = IF Turn(A)' THEN 0 ELSE Left(B)' BY <1>2, <2>2, <4>2, <1>7
      <4> QED BY <4>1, <4>3, <4>4, <1>7
    <3> QED BY <3>2, <3>3
  <2>3. CASE i = 1
    <3>1. grant_state[A] = 0 /\ LaneAt(A, 1) \in shared_req BY <1>1, <1>4, <2>1, <2>3
    <3>2. Turn(A)' BY <1>5, <1>8, <3>1
    <3>3. CASE LaneAt(A, 0) \in shared_req
      <4>1. grant_state'[A] = 0 /\ LaneAt(A, 0) \in grant' BY <1>4, <1>8, <3>1, <3>3
      <4>2. Left(A)' = 1 BY <1>1, <1>3, <4>1
      <4>3. Left(A) = IF LaneAt(A, 0) \in grant THEN 1 ELSE 2 BY <1>1, <1>3, <3>1
      <4>4. Ahead(l)' = 0 BY <1>2, <2>3, <3>2, <4>2
      <4>5. Ahead(l) = Left(A) - 1 BY <1>2, <1>8, <2>3, <3>1, <3>3, <1>7
      <4> QED BY <1>6, <1>8, <3>1, <4>3, <4>4, <4>5
    <3>4. CASE LaneAt(A, 0) \notin shared_req
      <4>1. Begun = {} BY <1>6, <1>8, <3>1, <3>4
      <4>2. grant_state'[A] = 1 BY <1>4, <3>1, <3>4
      <4>3. Ahead(l) = 0 /\ Ahead(l)' = 0 BY <1>2, <1>8, <2>3, <3>2, <3>4, <4>2
      <4> QED BY <4>1, <4>3
    <3> QED BY <3>3, <3>4
  <2> QED BY <1>1, <2>2, <2>3
<1>9. CASE ~ Turn(A)
  <2> DEFINE same == IF i = 0
                       THEN IF grant_state[A] = 0 THEN 0 ELSE 3
                       ELSE IF grant_state[A] = 0 /\ LaneAt(A, 0) \in shared_req
                              THEN 1 ELSE 0
             same1 == IF i = 0
                       THEN IF grant_state'[A] = 0 THEN 0 ELSE Left(A)' + 2
                       ELSE IF grant_state'[A] = 0 /\ LaneAt(A, 0) \in shared_req'
                              THEN Left(A)' - 1 ELSE 0
  <2>1. /\ LaneAt(A, 0) \notin grant /\ LaneAt(A, 1) \notin grant
        /\ LaneAt(A, 0) \notin grant' /\ LaneAt(A, 1) \notin grant'
    BY <1>4, <1>9
  <2>2. LaneAt(A, 1) \in shared_req \/ grant_state[A] = 0
    <3>1. grant_state[A] = 1 => LaneAt(A, 1) \in shared_req \cup grant
      BY <1>1 DEF Pointers
    <3> QED BY <1>4, <2>1, <3>1
  <2>3. LeafValid(A, shared_req)
    <3>1. CASE i = 0 BY <1>1, <1>5, <2>2, <3>1
    <3>2. CASE i = 1 BY <1>1, <1>5, <3>2
    <3> QED BY <1>1, <3>1, <3>2
  <2>4. Left(A) = 2 - grant_state[A] /\ Left(A)' = 2 - grant_state'[A]
    BY <1>1, <1>3, <1>4, <2>1
  <2>5. Ahead(l) = Left(B) + same
    BY <1>1, <1>2, <1>4, <1>9, <2>4
  <2>6. Ahead(l)' = Across(A)' + same1
    BY <1>2
  <2>7. same1 \in 0 .. 3 /\ same1 <= same
    <3>1. CASE i = 0 BY <1>1, <1>4, <2>2, <2>4, <3>1
    <3>2. CASE i = 1 BY <1>1, <1>4, <2>4, <3>2
    <3> QED BY <1>1, <3>1, <3>2
  <2>8. same \in 0 .. 3 OBVIOUS
  <2> HIDE DEF same, same1
  <2>9. CASE LeafValid(B, shared_req)
    <3>1. Turn(B) /\ ~ Turn(A)' BY <1>5, <1>9, <2>9
    <3>2. Left(B)' <= Left(B) - b
      BY <1>1, <3>1, <2>9, LeftFalls
    <3>3. Across(A)' = Left(B)' BY <1>2, <3>1
    <3> QED BY <1>7, <2>5, <2>6, <2>7, <2>8, <3>2, <3>3
  <2>10. CASE ~ LeafValid(B, shared_req)
    <3>1. Turn(A)' BY <1>5, <2>3, <2>10
    <3>2. Begun = {}
      <4>1. Turn(B) BY <1>5, <1>9
      <4>2. Begun # {} => LaneAt(B, grant_state[B]) \in shared_req
        BY <1>1, <4>1, NewGrant
      <4>3. grant_state[B] \in 0 .. 1 BY <1>1, LeafStep
      <4> QED BY <2>10, <4>2, <4>3 DEF LeafValid, NodeValid
    <3>3. Across(A)' = 0 BY <1>2, <3>1
    <3> QED BY <1>7, <2>5, <2>6, <2>7, <2>8, <3>2, <3>3
  <2> QED BY <2>9, <2>10
<1> QED BY <1>8, <1>9


\* At most four grants are ahead of a lane when it begins to wait.
LEMMA AheadBounded ==
  ASSUME ArbiterInv, CameSecond, NEW l \in Lanes
  PROVE  Ahead(l) \in 0 .. 4
<1> DEFINE A == LeafOf(l)
           B == Other(A)
<1>1. A \in Leaves /\ B \in Leaves /\ A # B /\ InputOf(l) \in 0 .. 1
  BY Places DEF Other, Leaves
<1>2. /\ Ahead(l) = Across(A) + (IF InputOf(l) = 0
                     THEN IF grant_state[A] = 0 THEN 0 ELSE Left(A) + 2
                     ELSE IF grant_state[A] = 0 /\ LaneAt(A, 0) \in shared_req
                            THEN Left(A) - 1 ELSE 0)
      /\ Across(A) = (IF Turn(A) THEN 0 ELSE Left(B))
  BY DEF Ahead, Across
<1>3. ~ Turn(A) /\ grant_state[A] = 1 => Left(B) <= 1
  BY <1>1 DEF CameSecond
<1> HIDE DEF A, B
<1>4. /\ grant_state[A] \in 0 .. 1
      /\ Left(A) = IF grant_state[A] = 0
                     THEN IF LaneAt(A, 0) \in grant THEN 1 ELSE 2
                     ELSE IF LaneAt(A, 1) \in grant THEN 0 ELSE 1
  BY <1>1, LeftIs DEF ArbiterInv, TypeInv, TypeOK, Nodes
<1>5. Left(B) \in 0 .. 2
  BY <1>1, LeftIs
<1>6. CASE InputOf(l) = 0 BY <1>2, <1>3, <1>4, <1>5, <1>6
<1>7. CASE InputOf(l) = 1 BY <1>2, <1>3, <1>4, <1>5, <1>7
<1> QED BY <1>1, <1>6, <1>7

LEMMA TurnInit == Init => TurnInv
<1> SUFFICES ASSUME Init PROVE TurnInv
  OBVIOUS
<1>1. ArbiterInv BY ArbiterInit
<1>2. \A leaf \in Leaves : grant_state[leaf] = 0
  BY DEF Init, Reset, Nodes
<1>3. grant_state["root"] = 0
  BY DEF Init, Reset, Nodes
<1> QED BY <1>1, <1>2, <1>3 DEF TurnInv, Pointers, CameSecond

LEMMA TurnInvStep ==
  TurnInv /\ ArbiterInv' /\ Pointers' /\ [Next]_vars => TurnInv'
<1> SUFFICES ASSUME TurnInv, ArbiterInv', Pointers', [Next]_vars PROVE CameSecond'
  BY DEF TurnInv
<1>1. CASE Next
  <2> SUFFICES ASSUME NEW A \in Leaves, ~ Turn(A)', grant_state'[A] = 1
               PROVE  Left(Other(A))' <= 1
    BY DEF CameSecond
  <2>1. Other(A) \in Leaves /\ A # Other(A)
    BY DEF Other, Leaves
  <2>2. LaneAt(A, 1) \in shared_req
    BY <1>1, LeafStep DEF TurnInv
  <2>3. Turn(Other(A)) /\ LeafValid(Other(A), shared_req)
    BY <1>1, <2>1, <2>2, TurnStep DEF TurnInv
  <2> QED BY <1>1, <2>1, <2>3, LeftFalls DEF TurnInv
<1>2. CASE UNCHANGED vars
  BY <1>2 DEF vars, TurnInv, CameSecond, Turn, Left
<1> QED BY <1>1, <1>2

LEMMA BypassStep ==
  TurnInv /\ TurnInv' /\ AheadInv' /\ OneHot' /\ BypassInv /\ [Next]_vars => BypassInv'
<1> SUFFICES ASSUME TurnInv, TurnInv', AheadInv', OneHot', BypassInv, [Next]_vars
             PROVE  BypassInv'
  OBVIOUS
<1>1. CASE Next
  <2> SUFFICES ASSUME NEW l \in Lanes
               PROVE  IF Waiting(l)' THEN bypass'[l] + Ahead(l)' <= 4 ELSE bypass'[l] = 0
    BY DEF BypassInv
  <2> DEFINE others == Cardinality(Begun \ {l})
  <2>1. bypass'[l] = Count(l)
    BY <1>1 DEF Next
  <2>2. bypass[l] \in Nat /\ bypass'[l] \in Nat
    BY CapAssumption DEF TurnInv, ArbiterInv, TypeInv
  <2>3. CASE l \notin shared_req
    <3>1. bypass'[l] = 0 BY <2>1, <2>3 DEF Count
    <3>2. Ahead(l)' \in 0 .. 4 BY DEF AheadInv, Lanes
    <3> QED BY <3>1, <3>2
  <2>4. CASE l \in grant'
    <3>1. bypass'[l] = 0 BY <2>1, <2>4 DEF Count
    <3> QED BY <2>4, <3>1 DEF Waiting
  <2>5. CASE l \in shared_req /\ l \notin grant'
    <3>1. /\ Ahead(l)' \in 0 .. 5 /\ Ahead(l) \in 0 .. 5
          /\ Ahead(l)' <= Ahead(l) - (IF Begun = {} THEN 0 ELSE 1)
      BY <1>1, <2>5, AheadFalls DEF TurnInv
    <3>2. l \notin grant
      <4> SUFFICES ASSUME l \in grant PROVE FALSE
        OBVIOUS
      <4>1. /\ grant_state[LeafOf(l)] = InputOf(l)
            /\ grant_state["root"] = SideOf(LeafOf(l))
        BY DEF TurnInv, ArbiterInv, GrantBacked
      <4>2. Granted(l, shared_req)
        BY <2>5, <4>1, PointedLeafValid DEF Granted
      <4> QED BY <1>1, <2>5, <4>2 DEF Next, Clock
    <3>3. bypass[l] + Ahead(l) <= 4
      BY <2>5, <3>2 DEF BypassInv, Waiting
    <3>4. others \in Nat /\ others <= IF Begun = {} THEN 0 ELSE 1
      <4>1. CASE Begun = {}
        <5>1. Begun \ {l} = {} BY <4>1
        <5> QED BY <4>1, <5>1, FS_EmptySet
      <4>2. CASE Begun # {}
        <5>1. PICK m \in Begun : TRUE BY <4>2
        <5>2. \A k \in grant' : k = m
          <6> SUFFICES ASSUME NEW k \in grant' PROVE k = m
            OBVIOUS
          <6>1. m \in grant' BY <5>1 DEF Begun
          <6> QED BY <6>1 DEF OneHot
        <5>3. Begun \ {l} \subseteq {m}
          BY <5>2 DEF Begun
        <5>4. IsFiniteSet({m}) /\ Cardinality({m}) = 1
          BY FS_Singleton
        <5>5. others \in Nat /\ others <= 1
          BY <5>3, <5>4, FS_Subset, FS_CardinalityType
        <5> QED BY <4>2, <5>5
      <4> QED BY <4>1, <4>2
    <3>5. bypass'[l] <= bypass[l] + others
      <4> HIDE DEF others
      <4>1. bypass'[l] = IF bypass[l] + others > MaxBypass THEN MaxBypass ELSE bypass[l] + others
        BY <2>1, <2>5 DEF Count, others
      <4> QED BY <2>2, <3>4, <4>1, CapAssumption
    <3>6. l \in shared_req'
      BY <1>1, <2>5, RequestsLast DEF TurnInv
    <3> HIDE DEF others
    <3>7. bypass'[l] <= 4 - Ahead(l)'
      BY <2>2, <3>1, <3>3, <3>4, <3>5
    <3>8. bypass'[l] + Ahead(l)' <= 4
      <4> DEFINE x == bypass'[l]
                 y == Ahead(l)'
      <4>1. x \in Nat /\ y \in Nat /\ x <= 4 - y BY <2>2, <3>1, <3>7
      <4> HIDE DEF x, y
      <4>2. x + y <= 4 BY <4>1
      <4> QED BY <4>2 DEF x, y
    <3> QED BY <2>5, <3>6, <3>8 DEF Waiting
  <2> QED BY <2>3, <2>4, <2>5
<1>2. CASE UNCHANGED vars
  BY <1>2 DEF vars, BypassInv, Waiting, Ahead, Across, Turn, Left
<1> QED BY <1>1, <1>2

(***************************************************************************)
(* A lane that waits is passed over four times at most, whoever comes and  *)
(* goes meanwhile.                                                         *)
(***************************************************************************)
THEOREM FewBypasses == Spec => []BoundedBypass
<1>1. Spec => []HandOverInv
  BY HandOverInit, HandOverStep, PTL DEF Spec
<1>2. HandOverInv => ArbiterInv /\ Pointers
  BY DEF HandOverInv
<1>3. Spec => []TurnInv
  BY <1>1, <1>2, TurnInit, TurnInvStep, PTL DEF Spec
<1>4. TurnInv => AheadInv
  BY AheadBounded DEF TurnInv, AheadInv
<1>5. Init => BypassInv
  BY DEF Init, BypassInv, Waiting
<1>6. TurnInv /\ AheadInv /\ BypassInv => BoundedBypass
  <2> SUFFICES ASSUME TurnInv, BypassInv, AheadInv, NEW l \in Lanes
               PROVE  bypass[l] <= 4
    BY DEF BoundedBypass
  <2>1. bypass[l] \in Nat
    BY CapAssumption DEF TurnInv, ArbiterInv, TypeInv
  <2> QED BY <2>1 DEF BypassInv, AheadInv
<1>7. TurnInv => OneHot
  BY Exclusive DEF TurnInv
<1> QED BY <1>3, <1>4, <1>5, <1>6, <1>7, BypassStep, PTL DEF Spec

=============================================================================
