--------------------------- MODULE WebApp_proofs ---------------------------
(***************************************************************************)
(* What WebApp promises, for any number of threads, requests and faults    *)
(* and any size of a frame and of a chunk.                                 *)
(*                                                                         *)
(*   ProgressIsHonest  a grab's progress is its own, and exact             *)
(*   LineIsSerial      one thread at a time is on the serial line          *)
(*   ConnectionsKept   a connection is open, in use, or told of its close  *)
(*   CancelsHonoured   a cancelled grab stops within a chunk               *)
(*   OneCapture        the image of a grab is one capture, all of it       *)
(*   WebTypes          every variable keeps its type                       *)
(*                                                                         *)
(* A grab reports its progress when it enters, after each chunk, and when  *)
(* it leaves, and all grabs report to one record.  The invariant says that *)
(* two grabs at a time know of each other (Shared), so that the record of  *)
(* a grab which is not shared is written by nobody else, and that a grab   *)
(* is where its answers say it is (Follows), so that every answer which    *)
(* carries pixels is one after which it reports.  What a grab has when it  *)
(* has its n-th answer (GrabOp, Collected) follows from its program by     *)
(* induction, and what the board holds then (Filming) from the one capture *)
(* that its first three commands start, wait for and rewind to.            *)
(*                                                                         *)
(* Of any request, what it writes is within what its route may write       *)
(* (Tame), and its answers are the registers its program asked for (Heard),*)
(* so that the board stays in its ranges (Healthy): CourseInv.             *)
(*                                                                         *)
(* What a user knows of the overlay and of the camera's settings is proved *)
(* of it in WebKnown_proofs.                                               *)
(***************************************************************************)
EXTENDS WebApp, ModbusClient_proofs, FiniteSetTheorems, TLAPS

ThreadRecords ==
  /\ DOMAIN thread = Threads
  /\ \A t \in Threads :
       DOMAIN thread[t] = {"at", "q", "conn", "op", "got", "res", "since", "odd", "asked"}

\* A mark in the history of some threads changes nothing else of them.
Marked(x) ==
  /\ DOMAIN thread' = Threads
  /\ \A t \in Threads : \/ thread'[t] = [thread[t] EXCEPT !.odd = @ \cup {x}]
                        \/ thread'[t] = thread[t]

LEMMA MarkedFields ==
  ASSUME ThreadRecords, NEW x, Marked(x)
  PROVE  /\ ThreadRecords'
         /\ \A t \in Threads :
              /\ thread'[t].at = thread[t].at /\ thread'[t].q = thread[t].q
              /\ thread'[t].conn = thread[t].conn /\ thread'[t].op = thread[t].op
              /\ thread'[t].got = thread[t].got /\ thread'[t].res = thread[t].res
              /\ thread'[t].since = thread[t].since /\ thread'[t].asked = thread[t].asked
              /\ thread'[t].odd \in {thread[t].odd, thread[t].odd \cup {x}}
<1>1. ASSUME NEW t \in Threads
      PROVE  /\ DOMAIN thread'[t] = DOMAIN thread[t]
             /\ thread'[t].at = thread[t].at /\ thread'[t].q = thread[t].q
             /\ thread'[t].conn = thread[t].conn /\ thread'[t].op = thread[t].op
             /\ thread'[t].got = thread[t].got /\ thread'[t].res = thread[t].res
             /\ thread'[t].since = thread[t].since /\ thread'[t].asked = thread[t].asked
             /\ thread'[t].odd \in {thread[t].odd, thread[t].odd \cup {x}}
  <2>1. CASE thread'[t] = thread[t] BY <2>1
  <2>2. CASE thread'[t] = [thread[t] EXCEPT !.odd = @ \cup {x}] BY <2>2 DEF ThreadRecords
  <2>3. QED BY <2>1, <2>2 DEF Marked
<1>2. ThreadRecords' BY <1>1 DEF ThreadRecords, Marked
<1>3. QED BY <1>1, <1>2

LEMMA WatchdogMarks == Watchdog => Marked("watchdog")
<1> SUFFICES ASSUME Watchdog PROVE Marked("watchdog") OBVIOUS
<1>1. thread' = [t \in Threads |-> IF Grabbing(t) /\ lock = t
                   THEN [thread[t] EXCEPT !.odd = @ \cup {"watchdog"}] ELSE thread[t]]
  BY DEF Watchdog
<1>2. QED BY <1>1 DEF Marked

LEMMA UnplugMarks == Unplug => Marked("restarted")
<1> SUFFICES ASSUME Unplug PROVE Marked("restarted") OBVIOUS
<1>1. thread' = [t \in Threads |-> IF InBody(t)
                   THEN [thread[t] EXCEPT !.odd = @ \cup {"restarted"}] ELSE thread[t]]
  BY DEF Unplug
<1>2. QED BY <1>1 DEF Marked

Records == ThreadRecords /\ DOMAIN progress = {"active", "done", "cancel"}

Alone(t) == Grabbing(t) /\ "shared" \notin thread[t].odd

Shared == \A t, u \in Threads : Alone(t) /\ Grabbing(u) => t = u

Follows ==
  \A t \in Threads : Grabbing(t) =>
    /\ IsSeq(thread[t].got) /\ thread[t].op = OpAfter(thread[t].q, thread[t].got)
    /\ thread[t].at \in {"lock", "test", "require"} => thread[t].got = <<>>

Inv == Records /\ Shared /\ Follows /\ ProgressHonest

-----------------------------------------------------------------------------
(* What a grab has received *)

LEMMA NothingFetched ==
  ASSUME NEW s, IsSeq(s), Len(s) < 4
  PROVE  Pixels(s) = <<>>
<1>1. PICK S : s \in Seq(S) BY DEF IsSeq
<1>2. SubSeq(s, 4, Len(s)) = <<>> BY <1>1
<1>3. QED BY <1>2 DEF Pixels, FlattenSeq

LEMMA SecondPart ==
  ASSUME NEW S, NEW a \in Seq(S), NEW b \in Seq(S)
  PROVE  /\ Len(a \o b) = Len(a) + Len(b)
         /\ \A i \in Len(a)+1..Len(a)+Len(b) : (a \o b)[i] = b[i - Len(a)]
OBVIOUS

\* After three answers a grab makes nothing but reads, and before it none.
LEMMA GrabReads ==
  ASSUME NEW got, IsSeq(got), NEW q, q.route = "grab",
         OpAfter(q, got).fn \notin {"raise", "end", "read"}
  PROVE  Len(got) < 3
<1> DEFINE pre == <<WriteSingle(REG_GRAB, 1), WaitIdle(REG_GRAB), WriteSingle(REG_STREAM, 1)>>
           str == ReadStream(STREAM_BASE, FRAME_PIXELS)
<1>1. Program(q, got) = pre \o str BY DEF Program, api_grab, grab_frame
<1>2. Len(got) \in Nat
  <2>1. PICK S : got \in Seq(S) BY DEF IsSeq
  <2>2. QED BY <2>1
<1>3. PICK n \in Nat : str = [i \in 1..n |-> ReadHolding(STREAM_BASE, Chunks(FRAME_PIXELS, MAX_READ)[i])]
  <2>1. (FRAME_PIXELS + MAX_READ - 1) \div MAX_READ \in Nat BY StreamAssumption
  <2>2. Len(Chunks(FRAME_PIXELS, MAX_READ)) \in Nat BY <2>1 DEF Chunks
  <2>3. QED BY <2>2 DEF ReadStream
<1>4. \A i \in 1..n : str[i].fn \in {"read", "raise"}
  BY <1>3 DEF ReadHolding, Raise
<1>5. /\ Len(pre \o str) = n + 3
      /\ \A i \in 4..n+3 : (pre \o str)[i] = str[i - 3]
  <2>1. PICK S : pre \in Seq(S) /\ str \in Seq(S) /\ Len(str) = n
    <3> DEFINE R == {pre[i] : i \in 1..3} \cup {str[i] : i \in 1..n}
    <3>1. pre \in Seq(R) OBVIOUS
    <3>2. str \in Seq(R) /\ Len(str) = n BY <1>3
    <3>3. QED BY <3>1, <3>2
  <2>2. Len(pre) = 3 OBVIOUS
  <2> HIDE DEF pre, str
  <2>3. Len(pre \o str) = Len(pre) + Len(str) BY <2>1, SecondPart
  <2>4. \A i \in Len(pre)+1..Len(pre)+Len(str) : (pre \o str)[i] = str[i - Len(pre)]
    BY <2>1, SecondPart
  <2>5. QED BY <2>1, <2>2, <2>3, <2>4
<1>6. CASE Len(got) < n + 3
  <2>1. OpAfter(q, got) = (pre \o str)[Len(got) + 1] BY <1>1, <1>5, <1>6 DEF OpAfter
  <2>2. SUFFICES ASSUME Len(got) >= 3 PROVE FALSE BY <1>2
  <2>3. Len(got) + 1 \in 4..n+3 /\ Len(got) - 2 \in 1..n BY <1>2, <1>6, <2>2
  <2>4. OpAfter(q, got).fn = str[Len(got) - 2].fn BY <1>2, <1>5, <2>1, <2>3
  <2>5. QED BY <1>4, <2>3, <2>4
<1>7. CASE ~ (Len(got) < n + 3)
  BY <1>1, <1>5, <1>7 DEF OpAfter, End
<1>8. QED BY <1>6, <1>7

-----------------------------------------------------------------------------
(* Steps *)

LEMMA Initially == Init => Inv
<1> SUFFICES ASSUME Init PROVE Inv OBVIOUS
<1>1. \A t \in Threads : thread[t] = Idle BY DEF Init
<1>2. Records BY DEF Init, ThreadRecords, Records, Idle
<1>3. \A t \in Threads : ~ Grabbing(t) BY <1>1 DEF Grabbing, Idle
<1>4. ~ progress.active BY DEF Init
<1>5. QED BY <1>2, <1>3, <1>4 DEF Inv, Shared, Follows, ProgressHonest, Alone

\* A thread that does not begin, fetch pixels or leave.
Quiet(t) ==
  /\ Grabbing(t)' <=> Grabbing(t)
  /\ Grabbing(t) =>
       /\ thread'[t].q = thread[t].q /\ thread'[t].got = thread[t].got
       /\ thread'[t].op = thread[t].op
       /\ thread'[t].at \in {"lock", "test", "require"} => thread[t].at \in {"lock", "test", "require"}
       /\ "shared" \in thread'[t].odd <=> "shared" \in thread[t].odd

LEMMA QuietStep ==
  ASSUME Inv, Records', progress'.active = progress.active, progress'.done = progress.done,
         \A t \in Threads : Quiet(t)
  PROVE  Inv'
<1>1. \A t \in Threads : Grabbing(t)' <=> Grabbing(t) BY DEF Quiet
<1>2. \A t \in Threads : Alone(t)' <=> Alone(t) BY DEF Quiet, Alone
<1>3. Shared' BY <1>1, <1>2 DEF Inv, Shared
<1>4. Follows' BY DEF Inv, Follows, Quiet
<1>5. ProgressHonest'
  <2>1. progress'.active => \E t \in Threads : Grabbing(t)' BY <1>1 DEF Inv, ProgressHonest
  <2>2. ASSUME NEW t \in Threads, Alone(t)'
        PROVE  progress'.active /\ progress'.done = Len(Pixels(thread[t].got))'
    <3>1. Alone(t) /\ Grabbing(t) BY <1>2, <2>2 DEF Alone
    <3>2. progress.active /\ progress.done = Len(Pixels(thread[t].got))
      BY <3>1 DEF Inv, ProgressHonest, Alone
    <3>3. thread'[t].got = thread[t].got BY <3>1 DEF Quiet
    <3>4. Pixels(thread[t].got)' = Pixels(thread[t].got) BY <3>3 DEF Pixels
    <3>5. QED BY <3>2, <3>4
  <2>3. QED BY <2>1, <2>2 DEF ProgressHonest, Alone
<1>6. QED BY <1>3, <1>4, <1>5 DEF Inv

\* A thread goes from one place to another; nobody begins, fetches or leaves.
LEMMA MovesQuietly ==
  ASSUME Inv, NEW t \in Threads, NEW at, NEW res,
         thread[t].at # "idle", at \notin {"idle", "lock", "test", "require"},
         thread' = [thread EXCEPT ![t].at = at, ![t].res = res],
         progress' = progress
  PROVE  Inv'
<1>1. Records' BY DEF Inv, ThreadRecords, Records
<1>2. \A u \in Threads : Quiet(u) BY DEF Inv, ThreadRecords, Records, Quiet, Grabbing
<1>3. QED BY <1>1, <1>2, QuietStep

LEMMA EndsQuietly ==
  ASSUME Inv, NEW t \in Threads, NEW res, thread[t].at # "idle",
         Ends(t, res), progress' = progress
  PROVE  Inv'
<1> DEFINE at == "leave"
<1>1. thread' = [thread EXCEPT ![t].at = at, ![t].res = res] BY DEF Ends
<1>2. at \notin {"idle", "lock", "test", "require"} OBVIOUS
<1> HIDE DEF at
<1>3. QED BY <1>1, <1>2, MovesQuietly

LEMMA GoesQuietly ==
  ASSUME Inv, NEW t \in Threads, NEW at,
         thread[t].at # "idle", at # "idle",
         at \in {"lock", "test", "require"} => thread[t].at \in {"lock", "test", "require"},
         thread' = [thread EXCEPT ![t].at = at],
         progress' = progress
  PROVE  Inv'
<1>1. Records' BY DEF Inv, ThreadRecords, Records
<1>2. \A u \in Threads : Quiet(u) BY DEF Inv, ThreadRecords, Records, Quiet, Grabbing
<1>3. QED BY <1>1, <1>2, QuietStep

LEMMA StaysQuiet ==
  ASSUME Inv, thread' = thread, progress' = progress
  PROVE  Inv'
<1>1. Records' BY DEF Inv, ThreadRecords, Records
<1>2. \A u \in Threads : Quiet(u) BY DEF Quiet, Grabbing
<1>3. QED BY <1>1, <1>2, QuietStep

LEMMA FailQuietly ==
  ASSUME Inv, NEW t \in Threads, NEW res, thread[t].at # "idle",
         Fail(t, res), progress' = progress
  PROVE  Inv'
<1> DEFINE at == IF res = "lost" /\ thread[t].q.route # "connect" THEN "drop" ELSE "leave"
<1>1. thread' = [thread EXCEPT ![t].res = res, ![t].at = at] BY DEF Fail
<1>2. at \notin {"idle", "lock", "test", "require"} OBVIOUS
<1> HIDE DEF at
<1>3. Records' BY <1>1 DEF Inv, ThreadRecords, Records
<1>4. \A u \in Threads : Quiet(u) BY <1>1, <1>2 DEF Inv, ThreadRecords, Records, Quiet, Grabbing
<1>5. QED BY <1>3, <1>4, QuietStep

\* With the lock in hand it looks for the connection.
LEMMA AcquireStep ==
  ASSUME Inv, NEW t \in Threads, Acquire(t) \/ Test(t) PROVE Inv'
<1>1. CASE Acquire(t)
  <2> DEFINE at == IF thread[t].q.route \in {"connect", "disconnect"} THEN "drop" ELSE "test"
  <2>1. /\ thread' = [thread EXCEPT ![t].at = at] /\ thread[t].at = "lock" /\ progress' = progress
        /\ at \in {"drop", "test"}
    BY <1>1 DEF Acquire, Goto
  <2> HIDE DEF at
  <2>2. QED BY <2>1, GoesQuietly
<1>2. CASE Test(t)
  <2>1. thread[t].at = "test" /\ progress' = progress BY <1>2 DEF Test
  <2>2. CASE client = NoClient BY <1>2, <2>1, <2>2, FailQuietly DEF Test
  <2>3. CASE client # NoClient
    <3>1. thread' = [thread EXCEPT ![t].at = "require"] BY <1>2, <2>3 DEF Test, Goto
    <3>2. QED BY <2>1, <3>1, GoesQuietly
  <2>4. QED BY <2>2, <2>3
<1>3. QED BY <1>1, <1>2

\* It begins with the connection there is.
LEMMA RequireStep ==
  ASSUME Inv, NEW t \in Threads, _require_client(t) PROVE Inv'
<1>1. thread[t].at = "require" /\ progress' = progress BY DEF _require_client
<1>2. CASE client = NoClient BY <1>1, <1>2, FailQuietly DEF _require_client
<1>3. CASE client # NoClient
  <2>1. thread' = [thread EXCEPT ![t].at = "body", ![t].conn = client] BY <1>3 DEF _require_client
  <2>2. Records' BY <2>1, <1>1 DEF Inv, ThreadRecords, Records
  <2>3. \A u \in Threads : Quiet(u) BY <2>1, <1>1 DEF Inv, ThreadRecords, Records, Quiet, Grabbing
  <2>4. QED BY <1>1, <2>2, <2>3, QuietStep
<1>4. QED BY <1>2, <1>3

\* A grab that comes while another is there makes both shared.
LEMMA AskStep ==
  ASSUME Inv, NEW t \in Threads, NEW q, Ask(t, q) PROVE Inv'
<1> DEFINE both == {u \in Threads : q.route = "grab" /\ Grabbing(u)}
           at == IF q.route = "state" THEN "state" ELSE "lock"
           new == [Idle EXCEPT !.at = at, !.q = q, !.op = OpAfter(q, <<>>), !.since = board.shot]
           mine == [new EXCEPT !.odd = IF both = {} THEN {} ELSE {"shared"}]
<1>1. /\ thread[t].at = "idle"
      /\ thread' = [u \in Threads |->
           IF u = t THEN mine
           ELSE IF u \in both THEN [thread[u] EXCEPT !.odd = @ \cup {"shared"}] ELSE thread[u]]
      /\ progress' = IF q.route = "grab" THEN [active |-> TRUE, done |-> 0, cancel |-> FALSE]
                     ELSE progress
  BY DEF Ask
<1>2. /\ DOMAIN mine = {"at", "q", "conn", "op", "got", "res", "since", "odd", "asked"}
      /\ mine.at = at /\ mine.q = q /\ mine.got = <<>> /\ mine.op = OpAfter(q, <<>>)
      /\ mine.odd = IF both = {} THEN {} ELSE {"shared"}
  BY DEF Idle
<1> HIDE DEF mine
<1>3. /\ thread'[t] = mine
      /\ \A u \in Threads \ {t} :
           /\ thread'[u].at = thread[u].at /\ thread'[u].q = thread[u].q
           /\ thread'[u].got = thread[u].got /\ thread'[u].op = thread[u].op
           /\ thread'[u].odd = IF u \in both THEN thread[u].odd \cup {"shared"} ELSE thread[u].odd
           /\ DOMAIN thread'[u] = DOMAIN thread[u]
  <2>1. thread'[t] = mine BY <1>1
  <2>2. ASSUME NEW u \in Threads \ {t}
        PROVE  /\ thread'[u].at = thread[u].at /\ thread'[u].q = thread[u].q
               /\ thread'[u].got = thread[u].got /\ thread'[u].op = thread[u].op
               /\ thread'[u].odd = IF u \in both THEN thread[u].odd \cup {"shared"} ELSE thread[u].odd
               /\ DOMAIN thread'[u] = DOMAIN thread[u]
    <3>1. thread'[u] = IF u \in both THEN [thread[u] EXCEPT !.odd = @ \cup {"shared"}] ELSE thread[u]
      BY <1>1
    <3>2. DOMAIN thread[u] = {"at", "q", "conn", "op", "got", "res", "since", "odd", "asked"}
      BY DEF Inv, ThreadRecords, Records
    <3> HIDE DEF both
    <3>3. CASE u \in both BY <3>1, <3>2, <3>3
    <3>4. CASE u \notin both BY <3>1, <3>4
    <3>5. QED BY <3>3, <3>4
  <2>3. QED BY <2>1, <2>2
<1>4. \A u \in Threads \ {t} : Grabbing(u)' <=> Grabbing(u) BY <1>3 DEF Grabbing
<1>5. ~ Grabbing(t) /\ (Grabbing(t)' <=> q.route = "grab") BY <1>1, <1>2, <1>3 DEF Grabbing
<1>6. Records' BY <1>1, <1>2, <1>3 DEF Inv, ThreadRecords, Records
<1>7. ASSUME q.route # "grab" PROVE Shared' /\ Follows' /\ ProgressHonest'
  <2>1. progress' = progress /\ both = {} BY <1>1, <1>7
  <2>2. \A u \in Threads : Grabbing(u)' => Grabbing(u) /\ u # t BY <1>4, <1>5, <1>7
  <2>3. \A u \in Threads : Alone(u)' => Alone(u) BY <2>1, <2>2, <1>3 DEF Alone
  <2>4. Shared' BY <2>2, <2>3 DEF Inv, Shared
  <2>5. Follows' BY <2>2, <1>3 DEF Inv, Follows, OpAfter, End, IsSeq
  <2>6. \A u \in Threads : u # t => Pixels(thread[u].got)' = Pixels(thread[u].got) BY <1>3 DEF Pixels
  <2>7. ProgressHonest' BY <1>4, <1>5, <2>1, <2>2, <2>3, <2>6 DEF Inv, ProgressHonest, Alone
  <2>8. QED BY <2>4, <2>5, <2>7
<1>8. ASSUME q.route = "grab" PROVE Shared' /\ Follows' /\ ProgressHonest'
  <2>1. progress'.active /\ progress'.done = 0 BY <1>1, <1>8
  <2>2. \A u \in Threads \ {t} : ~ Alone(u)' BY <1>3, <1>4, <1>8 DEF Alone
  <2>3. Alone(t)' => \A u \in Threads : Grabbing(u)' => u = t
    BY <1>2, <1>3, <1>4, <1>8 DEF Alone
  <2>4. Shared' BY <2>2, <2>3 DEF Shared
  <2>5. Follows'
    <3>1. IsSeq(mine.got) /\ mine.at = "lock"
      <4>1. <<>> \in Seq({}) OBVIOUS
      <4>2. QED BY <4>1, <1>2, <1>8 DEF IsSeq
    <3>2. ASSUME NEW u \in Threads, Grabbing(u)'
          PROVE  /\ IsSeq(thread'[u].got) /\ thread'[u].op = OpAfter(thread'[u].q, thread'[u].got)
                 /\ thread'[u].at \in {"lock", "test", "require"} => thread'[u].got = <<>>
      <4>1. CASE u = t BY <4>1, <3>1, <1>2, <1>3
      <4>2. CASE u # t BY <4>2, <3>2, <1>3, <1>4 DEF Inv, Follows
      <4>3. QED BY <4>1, <4>2
    <3>3. QED BY <3>2 DEF Follows, OpAfter, End, IsSeq
  <2>6. Pixels(thread[t].got)' = <<>>
    <3>1. thread'[t].got = <<>> BY <1>2, <1>3
    <3>2. IsSeq(<<>>) /\ Len(<<>>) < 4
      <4>1. <<>> \in Seq({}) OBVIOUS
      <4>2. QED BY <4>1 DEF IsSeq
    <3>3. Pixels(<<>>) = <<>> BY <3>2, NothingFetched
    <3>4. QED BY <3>1, <3>3 DEF Pixels
  <2>7. ProgressHonest' BY <2>1, <2>2, <2>6, <1>5, <1>8 DEF ProgressHonest, Alone
  <2>8. QED BY <2>4, <2>5, <2>7
<1>9. QED BY <1>6, <1>7, <1>8 DEF Inv

LEMMA LeaveStep ==
  ASSUME Inv, NEW t \in Threads, Leave(t) PROVE Inv'
<1>1. /\ Records' /\ thread'[t] = Idle
      /\ \A u \in Threads \ {t} : thread'[u] = thread[u]
      /\ progress'.active = IF Grabbing(t) THEN FALSE ELSE progress.active
      /\ progress'.done = progress.done
  <2>1. DOMAIN Idle = {"at", "q", "conn", "op", "got", "res", "since", "odd", "asked"} BY DEF Idle
  <2>2. QED BY <2>1 DEF Inv, ThreadRecords, Records, Leave, GrabOver
<1>2. /\ ~ Grabbing(t)' BY <1>1 DEF Grabbing, Idle
<1>3. \A u \in Threads : Grabbing(u)' => u # t /\ Grabbing(u) BY <1>1, <1>2 DEF Grabbing
<1>4. \A u \in Threads \ {t} : Grabbing(u) => Grabbing(u)' BY <1>1 DEF Grabbing
<1>5. \A u \in Threads : Alone(u)' => Alone(u) BY <1>1, <1>3 DEF Alone
<1>6. Shared' BY <1>3, <1>5 DEF Inv, Shared
<1>7. Follows' BY <1>1, <1>3 DEF Inv, Follows, OpAfter, End, IsSeq
<1>8. ProgressHonest'
  <2>1. progress'.active => \E u \in Threads : Grabbing(u)'
    BY <1>1, <1>4 DEF Inv, ProgressHonest
  <2>2. ASSUME NEW u \in Threads, Alone(u)'
        PROVE  progress'.active /\ progress'.done = Len(Pixels(thread[u].got))'
    <3>1. u # t /\ Alone(u) /\ Grabbing(u) BY <2>2, <1>3, <1>5 DEF Alone
    <3>2. ~ Grabbing(t) BY <3>1 DEF Inv, Shared
    <3>3. Pixels(thread[u].got)' = Pixels(thread[u].got) BY <3>1, <1>1 DEF Pixels
    <3>4. QED BY <3>1, <3>2, <3>3, <1>1 DEF Inv, ProgressHonest, Alone
  <2>3. QED BY <2>1, <2>2 DEF ProgressHonest, Alone
<1>9. QED BY <1>1, <1>6, <1>7, <1>8 DEF Inv

\* An answer with pixels is reported; one without is one of the first three.
LEMMA AnswersStep ==
  ASSUME Inv, NEW t \in Threads, NEW n, InBody(t), Answers(t, n) PROVE Inv'
<1> DEFINE r == Answered(board, thread[t].op, n)
           odd == (IF n > 1 /\ Repeats(thread[t].op) THEN {"twice"} ELSE {})
                    \cup (IF thread[t].op.addr = REG_GRAB /\ thread[t].op.value = 1 /\ board.engine = "capture"
                          THEN {"running"} ELSE {})
           got == Append(thread[t].got, r[1])
           op == OpAfter(thread[t].q, got)
<1>1. /\ thread[t].op.fn \notin {"raise", "end"} /\ thread[t].at \in {"body", "fetch"}
      /\ thread' = [thread EXCEPT ![t].at = "body", ![t].got = got, ![t].odd = @ \cup odd, ![t].op = op]
      /\ progress' = IF Chunk(t) THEN [progress EXCEPT !.done = Len(Pixels(got))] ELSE progress
  BY DEF Answers, Calling, InBody
<1>2. "shared" \notin odd OBVIOUS
<1>3. op = OpAfter(thread[t].q, got) OBVIOUS
<1>4. ASSUME IsSeq(thread[t].got)
      PROVE  IsSeq(got) /\ Len(got) = Len(thread[t].got) + 1 /\ Len(thread[t].got) \in Nat
  <2>1. PICK S : thread[t].got \in Seq(S) BY <1>4 DEF IsSeq
  <2> HIDE DEF r
  <2>2. thread[t].got \in Seq(S \cup {r[1]}) /\ r[1] \in S \cup {r[1]} BY <2>1
  <2>3. got \in Seq(S \cup {r[1]}) BY <2>2
  <2>4. Len(got) = Len(thread[t].got) + 1 /\ Len(thread[t].got) \in Nat BY <2>2
  <2>5. QED BY <2>3, <2>4 DEF IsSeq
<1> HIDE DEF op, got, odd, r
<1>5. /\ Records'
      /\ thread'[t].at = "body" /\ thread'[t].got = got /\ thread'[t].op = op
      /\ thread'[t].q = thread[t].q /\ thread'[t].odd = thread[t].odd \cup odd
      /\ \A u \in Threads \ {t} : thread'[u] = thread[u]
  BY <1>1 DEF Inv, ThreadRecords, Records
<1>6. \A u \in Threads : Grabbing(u)' <=> Grabbing(u) BY <1>1, <1>5 DEF Grabbing
<1>7. \A u \in Threads : Alone(u)' <=> Alone(u) BY <1>2, <1>5, <1>6 DEF Alone
<1>8. Shared' BY <1>6, <1>7 DEF Inv, Shared
<1>9. Follows'
  <2>1. SUFFICES ASSUME NEW u \in Threads, Grabbing(u)'
                 PROVE  /\ IsSeq(thread'[u].got) /\ thread'[u].op = OpAfter(thread'[u].q, thread'[u].got)
                        /\ thread'[u].at \in {"lock", "test", "require"} => thread'[u].got = <<>>
    <3>1. \A u \in Threads : OpAfter(thread[u].q, thread[u].got)' = OpAfter(thread'[u].q, thread'[u].got)
      OBVIOUS
    <3>2. \A u \in Threads : IsSeq(thread[u].got)' <=> IsSeq(thread'[u].got) OBVIOUS
    <3>3. QED BY <3>1, <3>2 DEF Follows
  <2>2. /\ IsSeq(thread[u].got) /\ thread[u].op = OpAfter(thread[u].q, thread[u].got)
        /\ thread[u].at \in {"lock", "test", "require"} => thread[u].got = <<>>
    BY <1>6, <2>1 DEF Inv, Follows
  <2>3. CASE u = t BY <1>3, <1>4, <1>5, <2>2, <2>3
  <2>4. CASE u # t BY <1>5, <2>2, <2>4
  <2>5. QED BY <2>3, <2>4
<1>10. ProgressHonest'
  <2>1. progress'.active = progress.active BY <1>1 DEF Inv, ThreadRecords, Records
  <2>2. progress'.active => \E u \in Threads : Grabbing(u)' BY <1>6, <2>1 DEF Inv, ProgressHonest
  <2>3. ASSUME NEW u \in Threads, Alone(u)'
        PROVE  progress'.active /\ progress'.done = Len(Pixels(thread[u].got))'
    <3>1. Alone(u) /\ Grabbing(u) BY <1>7, <2>3 DEF Alone
    <3>2. progress.active /\ progress.done = Len(Pixels(thread[u].got))
      BY <3>1 DEF Inv, ProgressHonest, Alone
    <3>3. CASE u # t
      <4>1. ~ Grabbing(t) BY <3>1, <3>3 DEF Inv, Shared
      <4>2. progress' = progress BY <4>1, <1>1 DEF Chunk
      <4>3. Pixels(thread[u].got)' = Pixels(thread[u].got) BY <3>3, <1>5 DEF Pixels
      <4>4. QED BY <3>2, <4>2, <4>3
    <3>4. CASE u = t /\ Chunk(t)
      <4>1. Pixels(thread[u].got)' = Pixels(got) BY <3>4, <1>5 DEF Pixels
      <4>2. progress'.done = Len(Pixels(got)) BY <3>4, <1>1 DEF Inv, ThreadRecords, Records
      <4>3. QED BY <2>1, <3>2, <4>1, <4>2
    <3>5. CASE u = t /\ ~ Chunk(t)
      <4>1. thread[t].q.route = "grab" /\ thread[t].op.fn # "read" /\ progress' = progress
        BY <3>1, <3>5, <1>1 DEF Chunk, Grabbing
      <4>2. IsSeq(thread[t].got) /\ thread[t].op = OpAfter(thread[t].q, thread[t].got)
        BY <3>1, <3>5, <1>1 DEF Inv, Follows
      <4>3. OpAfter(thread[t].q, thread[t].got).fn \notin {"raise", "end", "read"}
        BY <4>1, <4>2, <1>1
      <4>4. Len(thread[t].got) < 3 BY <4>1, <4>2, <4>3, GrabReads
      <4>5. IsSeq(got) /\ Len(got) < 4 /\ Len(thread[t].got) < 4 BY <4>2, <4>4, <1>4
      <4>6. Pixels(got) = <<>> /\ Pixels(thread[t].got) = <<>> BY <4>2, <4>5, NothingFetched
      <4>7. Pixels(thread[t].got)' = Pixels(got) BY <1>5 DEF Pixels
      <4>8. QED BY <3>2, <3>5, <4>1, <4>6, <4>7
    <3>6. QED BY <3>3, <3>4, <3>5
  <2>4. QED BY <2>2, <2>3 DEF ProgressHonest, Alone
<1>11. QED BY <1>5, <1>8, <1>9, <1>10 DEF Inv

LEMMA CancelStep == ASSUME Inv, PostCancel PROVE Inv'
<1>1. /\ thread' = [t \in Threads |-> IF Grabbing(t)
                      THEN [thread[t] EXCEPT !.asked = Min({@, Len(Pixels(thread[t].got))})] ELSE thread[t]]
      /\ progress' = [progress EXCEPT !.cancel = TRUE]
  BY DEF PostCancel
<1>2. \A t \in Threads :
        /\ DOMAIN thread'[t] = DOMAIN thread[t]
        /\ thread'[t].at = thread[t].at /\ thread'[t].q = thread[t].q /\ thread'[t].got = thread[t].got
        /\ thread'[t].op = thread[t].op /\ thread'[t].odd = thread[t].odd
  <2>1. ASSUME NEW t \in Threads, NEW x, thread'[t] = [thread[t] EXCEPT !.asked = x]
        PROVE  /\ DOMAIN thread'[t] = DOMAIN thread[t]
               /\ thread'[t].at = thread[t].at /\ thread'[t].q = thread[t].q
               /\ thread'[t].got = thread[t].got
               /\ thread'[t].op = thread[t].op /\ thread'[t].odd = thread[t].odd
    BY <2>1 DEF Inv, ThreadRecords, Records
  <2>2. QED BY <1>1, <2>1
<1>3. Records' /\ progress'.active = progress.active /\ progress'.done = progress.done
  BY <1>1, <1>2 DEF Inv, ThreadRecords, Records
<1>4. \A t \in Threads : Quiet(t) BY <1>2 DEF Quiet, Grabbing
<1>5. QED BY <1>3, <1>4, QuietStep

LEMMA MarkedStep ==
  ASSUME Inv, NEW x, x # "shared", Marked(x), progress' = progress PROVE Inv'
<1>1. Records' BY MarkedFields DEF Inv, Records
<1>2. \A t \in Threads : Quiet(t)
  <2>1. ThreadRecords BY DEF Inv, Records
  <2>2. \A t \in Threads :
          /\ thread'[t].at = thread[t].at /\ thread'[t].q = thread[t].q
          /\ thread'[t].got = thread[t].got /\ thread'[t].op = thread[t].op
          /\ thread'[t].odd \in {thread[t].odd, thread[t].odd \cup {x}}
    BY <2>1, MarkedFields
  <2>3. QED BY <2>2 DEF Quiet, Grabbing
<1>3. QED BY <1>1, <1>2, QuietStep

LEMMA OperatesStep ==
  ASSUME Inv, NEW t \in Threads, InBody(t), Operates(t) PROVE Inv'
<1>1. thread[t].at \notin {"idle", "lock"} BY DEF InBody
<1>2. CASE Rejected(t) BY <1>1, <1>2, FailQuietly DEF Rejected
<1>3. CASE Deadline(t) BY <1>1, <1>3, FailQuietly DEF Deadline
<1>4. CASE Loses(t) BY <1>1, <1>4, FailQuietly DEF Loses
<1>5. CASE Looks(t)
  <2>1. CASE should_cancel(t) BY <1>1, <1>5, <2>1, FailQuietly DEF Looks
  <2>2. CASE ~ should_cancel(t) BY <1>1, <1>5, <2>2, GoesQuietly DEF Looks, Goto
  <2>3. QED BY <2>1, <2>2
<1>6. CASE Completes(t) BY <1>1, <1>6, EndsQuietly DEF Completes
<1>7. CASE \E n \in 1..Resends+1 : Answers(t, n) BY <1>7, AnswersStep
<1>8. CASE \E n \in 0..Resends+1 : TimesOut(t, n) BY <1>1, <1>8, FailQuietly DEF TimesOut
<1>9. QED BY <1>2, <1>3, <1>4, <1>5, <1>6, <1>7, <1>8 DEF Operates

LEMMA OpenStep ==
  ASSUME Inv, NEW t \in Threads, Open(t) PROVE Inv'
<1>1. CASE port /\ handles = {}
  <2>1. PICK c : /\ thread' = [thread EXCEPT ![t].at = "body", ![t].conn = c]
                 /\ progress' = progress /\ thread[t].at = "open"
    BY <1>1 DEF Open
  <2>2. Records' BY <2>1 DEF Inv, ThreadRecords, Records
  <2>3. \A u \in Threads : Quiet(u) BY <2>1 DEF Inv, ThreadRecords, Records, Quiet, Grabbing
  <2>4. QED BY <2>1, <2>2, <2>3, QuietStep
<1>2. CASE ~ (port /\ handles = {})
  BY <1>2, EndsQuietly DEF Open
<1>3. QED BY <1>1, <1>2

LEMMA ThreadStep ==
  ASSUME Inv, NEW t \in Threads, Step(t) PROVE Inv'
<1>1. CASE StateConnected(t)
  BY <1>1, EndsQuietly, GoesQuietly DEF StateConnected, Goto
<1>2. CASE StateDescribe(t) BY <1>2, EndsQuietly DEF StateDescribe
<1>3. CASE Acquire(t) \/ Test(t) BY <1>3, AcquireStep
<1>4. CASE _require_client(t) BY <1>4, RequireStep
<1>5. Dropped(t) \notin {"idle", "lock", "test", "require"} BY DEF Dropped
<1>6. CASE Drop(t)
  <2> DEFINE at == IF client = NoClient THEN Dropped(t) ELSE "close"
  <2>1. at \notin {"idle", "lock", "test", "require"} BY <1>5
  <2>2. thread' = [thread EXCEPT ![t].at = at] /\ thread[t].at = "drop" /\ progress' = progress
    BY <1>6 DEF Drop, Goto
  <2> HIDE DEF at
  <2>3. QED BY <2>1, <2>2, GoesQuietly
<1>7. CASE Close(t)
  <2>1. CASE client = NoClient BY <1>7, <2>1, EndsQuietly DEF Close
  <2>2. CASE client # NoClient
    <3>1. thread' = [thread EXCEPT ![t].at = "clear"] /\ thread[t].at = "close" /\ progress' = progress
      BY <1>7, <2>2 DEF Close, Goto
    <3>2. QED BY <3>1, GoesQuietly
  <2>3. QED BY <2>1, <2>2
<1>8. CASE Clear(t)
  <2>1. thread' = [thread EXCEPT ![t].at = Dropped(t)] /\ thread[t].at = "clear" /\ progress' = progress
    BY <1>8 DEF Clear, Goto
  <2>2. QED BY <1>5, <2>1, GoesQuietly
<1>9. CASE Open(t) BY <1>9, OpenStep
<1>10. CASE InBody(t) /\ Operates(t) BY <1>10, OperatesStep
<1>11. CASE Leave(t) BY <1>11, LeaveStep
<1>12. QED BY <1>1, <1>2, <1>3, <1>4, <1>6, <1>7, <1>8, <1>9, <1>10, <1>11 DEF Step

LEMMA Inductive == Inv /\ [Next]_vars => Inv'
<1> SUFFICES ASSUME Inv, [Next]_vars PROVE Inv' OBVIOUS
<1>1. CASE UNCHANGED vars BY <1>1, StaysQuiet DEF vars
<1>2. CASE \E t \in Threads : (\E q \in session.may : Ask(t, q)) \/ Step(t)
  BY <1>2, AskStep, ThreadStep
<1>3. CASE PostCancel BY <1>3, CancelStep
<1>4. CASE BoardMoves BY <1>4, StaysQuiet DEF BoardMoves
<1>5. CASE Watchdog
  <2>1. Marked("watchdog") /\ progress' = progress BY <1>5, WatchdogMarks DEF Watchdog
  <2>2. QED BY <2>1, MarkedStep
<1>6. CASE Unplug
  <2>1. Marked("restarted") /\ progress' = progress BY <1>6, UnplugMarks DEF Unplug
  <2>2. QED BY <2>1, MarkedStep
<1>7. CASE Replug BY <1>7, StaysQuiet DEF Replug
<1>8. QED BY <1>1, <1>2, <1>3, <1>4, <1>5, <1>6, <1>7 DEF Next

\* The progress that /api/grab/status reports belongs to a grab that is under
\* way, and to one that shares the record with no other it says exactly how
\* many pixels it has, from its entry to its answer, whatever fails.
THEOREM ProgressIsHonest == Spec => []ProgressHonest
<1>1. Inv => ProgressHonest BY DEF Inv
<1>2. QED BY <1>1, Initially, Inductive, PTL DEF Spec

-----------------------------------------------------------------------------
(* The line is used by one request at a time *)

\* A thread that talks to the board, or looks for the connection, opens or
\* closes it; only a grab that failed closes it after it has let go of the lock.
Uses(t) ==
  \/ thread[t].at \in {"test", "require", "body", "fetch", "open"}
  \/ thread[t].at \in {"drop", "close", "clear"} /\ thread[t].q.route # "grab"

LockInv == ThreadRecords /\ \A t \in Threads : Uses(t) => lock = t

\* No two requests have an operation on the line at the same time.
SerialLine == \A t, u \in Threads : InBody(t) /\ InBody(u) => t = u

LEMMA LockStep ==
  ASSUME LockInv, ThreadRecords', NEW t \in Threads,
         \A u \in Threads \ {t} : thread'[u] = thread[u],
         lock' = lock \/ (lock = t /\ lock' = NoThread) \/ (lock = NoThread /\ lock' = t),
         Uses(t)' => lock' = t
  PROVE  LockInv'
<1>1. \A u \in Threads \ {t} : Uses(u)' <=> Uses(u) BY DEF Uses
<1>2. QED BY <1>1, LockAssumption DEF LockInv

LEMMA LockKept ==
  ASSUME LockInv, ThreadRecords', lock' = lock,
         \A t \in Threads : thread'[t].at = thread[t].at /\ thread'[t].q = thread[t].q
  PROVE  LockInv'
BY DEF LockInv, Uses

LEMMA FailLock ==
  ASSUME LockInv, NEW t \in Threads, NEW res, Uses(t), Fail(t, res) PROVE LockInv'
<1> DEFINE at == IF res = "lost" /\ thread[t].q.route # "connect" THEN "drop" ELSE "leave"
<1>1. /\ thread' = [thread EXCEPT ![t].res = res, ![t].at = at]
      /\ lock' = IF thread[t].q.route = "grab" THEN NoThread ELSE lock
  BY DEF Fail
<1>2. lock = t BY DEF LockInv
<1>3. at \in {"drop", "leave"} OBVIOUS
<1> HIDE DEF at
<1>4. /\ ThreadRecords' /\ \A u \in Threads \ {t} : thread'[u] = thread[u]
      /\ thread'[t].at = at /\ thread'[t].q = thread[t].q
  BY <1>1 DEF LockInv, ThreadRecords
<1>5. Uses(t)' => lock' = t BY <1>1, <1>2, <1>3, <1>4 DEF Uses
<1>6. QED BY <1>1, <1>2, <1>4, <1>5, LockStep

\* To any place that needs no lock, or from one that has it to another.
LEMMA MoveLock ==
  ASSUME LockInv, NEW t \in Threads, NEW at, ThreadRecords',
         \A u \in Threads \ {t} : thread'[u] = thread[u],
         thread'[t].at = at, thread'[t].q = thread[t].q,
         \/ at \in {"idle", "lock", "state", "describe", "leave"}
         \/ at \in {"drop", "close", "clear"} /\ thread[t].q.route = "grab"
         \/ Uses(t),
         lock' = lock
  PROVE  LockInv'
<1>1. Uses(t)' => Uses(t) BY DEF Uses
<1>2. QED BY <1>1, LockStep DEF LockInv

LEMMA OperatesLock ==
  ASSUME LockInv, NEW t \in Threads, InBody(t), Operates(t) PROVE LockInv'
<1> Uses(t) BY DEF Uses, InBody
<1>1. CASE Rejected(t) BY <1>1, FailLock DEF Rejected
<1>2. CASE Deadline(t) BY <1>2, FailLock DEF Deadline
<1>3. CASE Loses(t) BY <1>3, FailLock DEF Loses
<1>4. CASE Looks(t)
  <2>1. CASE should_cancel(t) BY <1>4, <2>1, FailLock DEF Looks
  <2>2. CASE ~ should_cancel(t)
    <3>1. thread' = [thread EXCEPT ![t].at = "fetch"] /\ lock' = lock
      BY <1>4, <2>2 DEF Looks, Goto
    <3>2. /\ ThreadRecords' /\ \A u \in Threads \ {t} : thread'[u] = thread[u]
          /\ thread'[t].at = "fetch" /\ thread'[t].q = thread[t].q
      BY <3>1 DEF LockInv, ThreadRecords
    <3>3. QED BY <3>1, <3>2, MoveLock DEF Uses, InBody
  <2>3. QED BY <2>1, <2>2
<1>5. CASE Completes(t)
  <2>1. /\ thread' = [thread EXCEPT ![t].at = "leave", ![t].res = "ok"]
        /\ lock' = IF thread[t].q.route = "grab" THEN NoThread ELSE lock
    BY <1>5 DEF Completes, Ends
  <2>2. /\ ThreadRecords' /\ \A u \in Threads \ {t} : thread'[u] = thread[u]
        /\ thread'[t].at = "leave"
    BY <2>1 DEF LockInv, ThreadRecords
  <2>3. lock = t BY DEF LockInv, Uses, InBody
  <2>4. ~ Uses(t)' BY <2>2 DEF Uses
  <2>5. QED BY <2>1, <2>2, <2>3, <2>4, LockStep
<1>6. CASE \E n \in 1..Resends+1 : Answers(t, n)
  <2>1. PICK n : Answers(t, n) BY <1>6
  <2>2. /\ ThreadRecords' /\ \A u \in Threads \ {t} : thread'[u] = thread[u]
        /\ thread'[t].at = "body" /\ thread'[t].q = thread[t].q /\ lock' = lock
    <3>1. \A got, op, odd :
            thread' = [thread EXCEPT ![t].at = "body", ![t].got = got, ![t].odd = odd, ![t].op = op]
              => /\ DOMAIN thread' = Threads
                 /\ \A u \in Threads : DOMAIN thread'[u] = DOMAIN thread[u]
                 /\ \A u \in Threads \ {t} : thread'[u] = thread[u]
                 /\ thread'[t].at = "body" /\ thread'[t].q = thread[t].q
      BY DEF LockInv, ThreadRecords
    <3>2. lock' = lock BY <2>1 DEF Answers
    <3>3. PICK got, op, odd :
            thread' = [thread EXCEPT ![t].at = "body", ![t].got = got, ![t].odd = odd, ![t].op = op]
      BY <2>1 DEF Answers
    <3>4. QED BY <3>1, <3>2, <3>3 DEF LockInv, ThreadRecords
  <2>3. QED BY <2>2, MoveLock DEF Uses, InBody
<1>7. CASE \E n \in 0..Resends+1 : TimesOut(t, n) BY <1>7, FailLock DEF TimesOut
<1>8. QED BY <1>1, <1>2, <1>3, <1>4, <1>5, <1>6, <1>7 DEF Operates

LEMMA AskLock ==
  ASSUME LockInv, NEW t \in Threads, NEW q, Ask(t, q) PROVE LockInv'
<1> DEFINE both == {u \in Threads : q.route = "grab" /\ Grabbing(u)}
           at == IF q.route = "state" THEN "state" ELSE "lock"
           new == [Idle EXCEPT !.at = at, !.q = q, !.op = OpAfter(q, <<>>), !.since = board.shot]
           mine == [new EXCEPT !.odd = IF both = {} THEN {} ELSE {"shared"}]
<1>1. /\ thread' = [u \in Threads |->
           IF u = t THEN mine
           ELSE IF u \in both THEN [thread[u] EXCEPT !.odd = @ \cup {"shared"}] ELSE thread[u]]
      /\ lock' = lock
  BY DEF Ask
<1>2. /\ DOMAIN mine = {"at", "q", "conn", "op", "got", "res", "since", "odd", "asked"}
      /\ mine.at \in {"state", "lock"}
  BY DEF Idle
<1> HIDE DEF mine, both
<1>3. ASSUME NEW u \in Threads, u # t
      PROVE  /\ thread'[u].at = thread[u].at /\ thread'[u].q = thread[u].q
             /\ DOMAIN thread'[u] = DOMAIN thread[u]
  <2>1. thread'[u] = [thread[u] EXCEPT !.odd = @ \cup {"shared"}] \/ thread'[u] = thread[u]
    BY <1>1, <1>3
  <2>2. QED BY <2>1 DEF LockInv, ThreadRecords
<1>4. ThreadRecords' BY <1>1, <1>2, <1>3 DEF LockInv, ThreadRecords
<1>5. \A u \in Threads : Uses(u)' => Uses(u)
  <2>1. ~ Uses(t)' BY <1>1, <1>2 DEF Uses
  <2>2. QED BY <2>1, <1>3 DEF Uses
<1>6. QED BY <1>1, <1>4, <1>5 DEF LockInv

LEMMA StepLock ==
  ASSUME LockInv, NEW t \in Threads, Step(t) PROVE LockInv'
<1> DEFINE Others == ThreadRecords' /\ \A u \in Threads \ {t} : thread'[u] = thread[u]
           To(at) == thread'[t].at = at /\ thread'[t].q = thread[t].q /\ lock' = lock
<1>1. ASSUME NEW at, Goto(t, at) PROVE Others /\ thread'[t].at = at /\ thread'[t].q = thread[t].q
  BY <1>1 DEF LockInv, ThreadRecords, Goto
<1>2. ASSUME NEW res, Ends(t, res)
      PROVE  Others /\ thread'[t].at = "leave" /\ thread'[t].q = thread[t].q
  BY <1>2 DEF LockInv, ThreadRecords, Ends
<1> HIDE DEF Others
<1>3. ASSUME Others, NEW at, To(at),
             \/ at \in {"idle", "lock", "state", "describe", "leave"}
             \/ at \in {"drop", "close", "clear"} /\ thread[t].q.route = "grab"
             \/ Uses(t)
      PROVE  LockInv'
  BY <1>3, MoveLock DEF Others
<1>4. CASE StateConnected(t)
  <2>1. Others /\ To(IF client = NoClient THEN "leave" ELSE "describe")
    BY <1>1, <1>2, <1>4 DEF StateConnected
  <2>2. QED BY <2>1, <1>3
<1>5. CASE StateDescribe(t)
  <2>1. Others /\ To("leave") BY <1>2, <1>5 DEF StateDescribe
  <2>2. QED BY <2>1, <1>3
<1>6. CASE Acquire(t)
  <2>1. /\ ThreadRecords' /\ \A u \in Threads \ {t} : thread'[u] = thread[u]
        /\ lock = NoThread /\ lock' = t
    BY <1>6 DEF LockInv, ThreadRecords, Acquire, Goto
  <2>2. QED BY <2>1, LockStep
<1>7. Dropped(t) \in {"open", "leave"} BY DEF Dropped
<1>8. Dropped(t) = "open" => thread[t].q.route = "connect" BY DEF Dropped
<1>9. ASSUME thread[t].at \in {"drop", "close", "clear"} PROVE Uses(t) \/ thread[t].q.route = "grab"
  BY <1>9 DEF Uses
<1>10. CASE Drop(t)
  <2>1. Others /\ To(IF client = NoClient THEN Dropped(t) ELSE "close")
    BY <1>1, <1>10 DEF Drop
  <2>2. thread[t].at = "drop" BY <1>10 DEF Drop
  <2>3. CASE client = NoClient BY <2>1, <2>2, <2>3, <1>3, <1>7, <1>8, <1>9
  <2>4. CASE client # NoClient BY <2>1, <2>2, <2>4, <1>3, <1>9
  <2>5. QED BY <2>3, <2>4
<1>11. CASE Close(t)
  <2>1. Others /\ To(IF client = NoClient THEN "leave" ELSE "clear")
    BY <1>1, <1>2, <1>11 DEF Close
  <2>2. thread[t].at = "close" BY <1>11 DEF Close
  <2>3. CASE client = NoClient BY <2>1, <2>2, <2>3, <1>3
  <2>4. CASE client # NoClient BY <2>1, <2>2, <2>4, <1>3, <1>9
  <2>5. QED BY <2>3, <2>4
<1>12. CASE Clear(t)
  <2>1. Others /\ To(Dropped(t)) BY <1>1, <1>12 DEF Clear
  <2>2. thread[t].at = "clear" BY <1>12 DEF Clear
  <2>3. QED BY <2>1, <2>2, <1>3, <1>7, <1>8, <1>9
<1>13. CASE Test(t)
  <2>1. Uses(t) BY <1>13 DEF Test, Uses
  <2>2. CASE client = NoClient BY <1>13, <2>1, <2>2, FailLock DEF Test
  <2>3. CASE client # NoClient
    <3>1. Others /\ To("require") BY <1>1, <1>13, <2>3 DEF Test
    <3>2. QED BY <3>1, <2>1, <1>3
  <2>4. QED BY <2>2, <2>3
<1>14. CASE _require_client(t)
  <2>1. Uses(t) BY <1>14 DEF _require_client, Uses
  <2>2. CASE client = NoClient BY <1>14, <2>1, <2>2, FailLock DEF _require_client
  <2>3. CASE client # NoClient
    <3>1. thread' = [thread EXCEPT ![t].at = "body", ![t].conn = client] /\ lock' = lock
      BY <1>14, <2>3 DEF _require_client
    <3>2. Others /\ To("body") BY <3>1 DEF LockInv, ThreadRecords, Others
    <3>3. QED BY <3>2, <2>1, <1>3
  <2>4. QED BY <2>2, <2>3
<1>15. CASE Open(t)
  <2>1. Uses(t) BY <1>15 DEF Open, Uses
  <2>2. CASE port /\ handles = {}
    <3>1. PICK c : thread' = [thread EXCEPT ![t].at = "body", ![t].conn = c] /\ lock' = lock
      BY <1>15, <2>2 DEF Open
    <3>2. Others /\ To("body") BY <3>1 DEF LockInv, ThreadRecords, Others
    <3>3. QED BY <3>2, <2>1, <1>3
  <2>3. CASE ~ (port /\ handles = {})
    <3>1. Others /\ To("leave") BY <1>2, <1>15, <2>3 DEF Open
    <3>2. QED BY <3>1, <1>3
  <2>4. QED BY <2>2, <2>3
<1>16. CASE InBody(t) /\ Operates(t) BY <1>16, OperatesLock
<1>17. CASE Leave(t)
  <2>1. /\ thread' = [thread EXCEPT ![t] = Idle]
        /\ lock' = IF lock = t THEN NoThread ELSE lock
    BY <1>17 DEF Leave
  <2>2. /\ DOMAIN Idle = {"at", "q", "conn", "op", "got", "res", "since", "odd", "asked"}
        /\ Idle.at = "idle"
    BY DEF Idle
  <2>3. ThreadRecords' /\ (\A u \in Threads \ {t} : thread'[u] = thread[u]) /\ ~ Uses(t)'
    BY <2>1, <2>2 DEF LockInv, ThreadRecords, Uses
  <2>4. QED BY <2>1, <2>3, LockStep
<1>18. QED BY <1>4, <1>5, <1>6, <1>10, <1>11, <1>12, <1>13, <1>14, <1>15, <1>16, <1>17 DEF Step

LEMMA LockInductive == LockInv /\ [Next]_vars => LockInv'
<1> SUFFICES ASSUME LockInv, [Next]_vars PROVE LockInv' OBVIOUS
<1>1. ASSUME thread' = thread, lock' = lock PROVE LockInv'
  BY <1>1 DEF LockInv, ThreadRecords, Uses
<1>2. CASE UNCHANGED vars BY <1>1, <1>2 DEF vars
<1>3. CASE \E t \in Threads : (\E q \in session.may : Ask(t, q)) \/ Step(t)
  BY <1>3, AskLock, StepLock
<1>4. CASE PostCancel
  <2>1. lock' = lock /\ DOMAIN thread' = Threads BY <1>4 DEF PostCancel
  <2>2. ASSUME NEW t \in Threads
        PROVE  /\ DOMAIN thread'[t] = DOMAIN thread[t]
               /\ thread'[t].at = thread[t].at /\ thread'[t].q = thread[t].q
    <3> DEFINE x == Min({thread[t].asked, Len(Pixels(thread[t].got))})
    <3>1. thread'[t] = [thread[t] EXCEPT !.asked = x] \/ thread'[t] = thread[t]
      BY <1>4 DEF PostCancel, LockInv, ThreadRecords
    <3> HIDE DEF x
    <3>2. QED BY <3>1 DEF LockInv, ThreadRecords
  <2>3. ThreadRecords' BY <2>1, <2>2 DEF LockInv, ThreadRecords
  <2>4. QED BY <2>1, <2>2, <2>3, LockKept
<1>5. CASE BoardMoves BY <1>1, <1>5 DEF BoardMoves
<1>6. ASSUME NEW x, Marked(x), lock' = lock PROVE LockInv'
  <2>1. /\ ThreadRecords'
        /\ \A t \in Threads : thread'[t].at = thread[t].at /\ thread'[t].q = thread[t].q
    BY <1>6, MarkedFields DEF LockInv
  <2>2. QED BY <1>6, <2>1, LockKept
<1>7. CASE Watchdog \/ Unplug
  <2>1. lock' = lock BY <1>7 DEF Watchdog, Unplug
  <2>2. QED BY <1>6, <1>7, <2>1, WatchdogMarks, UnplugMarks
<1>8. CASE Replug BY <1>1, <1>8 DEF Replug
<1>9. QED BY <1>2, <1>3, <1>4, <1>5, <1>6, <1>7, <1>8 DEF Next

LEMMA LockInit == Init => LockInv
<1> SUFFICES ASSUME Init PROVE LockInv OBVIOUS
<1>1. thread = [t \in Threads |-> Idle] BY DEF Init
<1>2. /\ DOMAIN Idle = {"at", "q", "conn", "op", "got", "res", "since", "odd", "asked"}
      /\ Idle.at = "idle"
  BY DEF Idle
<1>3. QED BY <1>1, <1>2 DEF LockInv, ThreadRecords, Uses

\* However requests come and fail, the bus lock keeps their operations apart,
\* although a grab lets go of it before it is over and closes the shared
\* connection without it.
THEOREM LineIsSerial == Spec => []SerialLine
<1>1. LockInv => SerialLine BY DEF LockInv, SerialLine, InBody, Uses
<1>2. QED BY <1>1, LockInit, LockInductive, PTL DEF Spec

-----------------------------------------------------------------------------
(* No connection is lost *)

\* api_connect's own connection, which is not the shared one yet.
Opening(t) == InBody(t) /\ thread[t].q.route = "connect"

Owned(c) ==
  c = client \/ c \in strays \/ \E t \in Threads : Opening(t) /\ thread[t].conn = c

\* It closed the connection that it is about to forget, and has the lock, so
\* that nobody has opened it again.
Parting(t) == thread[t].at = "clear" /\ thread[t].q.route # "grab"

\* What a thread that uses a connection can count on: api_connect finds no
\* shared one, has its own in its hands and waits for nothing with it; any
\* other request has the shared one, or one that was closed while it used it.
Holds(t) ==
  /\ thread[t].at = "open" => thread[t].q.route = "connect" /\ client = NoClient
  /\ thread[t].at \in {"test", "require"} => thread[t].q.route # "connect"
  /\ Parting(t) => client = NoClient \/ client \notin handles
  /\ Opening(t) => thread[t].conn \in handles /\ client = NoClient
  /\ InBody(t) => thread[t].conn # NoClient
  /\ InBody(t) /\ ~ Opening(t) => thread[t].conn = client \/ thread[t].conn \in strays
  /\ thread[t].q.route = "connect" /\ thread[t].at # "idle" =>
       IsSeq(thread[t].got) /\ thread[t].op.fn # "wait"

ConnInv ==
  /\ client # NoClient /\ client \notin handles => \E t \in Threads : thread[t].at = "clear"
  /\ NoClient \notin handles
  /\ \A c \in handles : Owned(c)
  /\ \A t \in Threads : Holds(t)

LEMMA ConnectNeverWaits ==
  ASSUME NEW q, q.route = "connect", NEW got, IsSeq(got)
  PROVE  OpAfter(q, got).fn # "wait"
<1>1. Program(q, got) = <<ReadReg(\h0A)>> BY DEF Program, api_connect
<1>2. PICK S : got \in Seq(S) BY DEF IsSeq
<1>3. CASE Len(got) = 0
  <2>1. OpAfter(q, got) = ReadReg(\h0A) BY <1>1, <1>3 DEF OpAfter
  <2>2. QED BY <2>1 DEF ReadReg, ReadHolding
<1>4. CASE Len(got) # 0
  <2>1. OpAfter(q, got) = End BY <1>1, <1>2, <1>4 DEF OpAfter
  <2>2. QED BY <2>1 DEF End, Raise
<1>5. QED BY <1>3, <1>4

\* One thread moves on or fails; the connection it uses, if it uses one, may
\* be opened again, or closed by api_connect that opened it.
LEMMA ConnMove ==
  ASSUME ConnInv, LockInv, NEW t \in Threads,
         \A u \in Threads \ {t} : thread'[u] = thread[u],
         thread'[t].q = thread[t].q, thread'[t].conn = thread[t].conn,
         thread[t].at \notin {"idle", "clear"}, thread'[t].at \notin {"idle", "clear"},
         thread[t].q.route = "connect" => IsSeq(thread'[t].got) /\ thread'[t].op.fn # "wait",
         thread'[t].at = "open" => thread[t].q.route = "connect" /\ client = NoClient,
         thread'[t].at \in {"test", "require"} => thread[t].q.route # "connect",
         InBody(t)' => InBody(t),
         client' = client, strays' = strays,
         \/ handles' = handles /\ (Opening(t) /\ ~ Opening(t)' => thread[t].conn = client)
         \/ /\ InBody(t) /\ handles' = handles \cup {thread[t].conn}
            /\ Opening(t) => Opening(t)'
         \/ Opening(t) /\ handles' = handles \ {thread[t].conn} /\ ~ Opening(t)'
  PROVE  ConnInv'
<1>1. \A u \in Threads \ {t} : /\ InBody(u)' <=> InBody(u)
                               /\ Opening(u)' <=> Opening(u)
                               /\ Parting(u)' <=> Parting(u)
  BY DEF InBody, Opening, Parting
<1>2. ASSUME NEW u \in Threads \ {t}, InBody(u) \/ Parting(u), InBody(t) PROVE FALSE
  BY <1>2 DEF LockInv, Uses, InBody, Parting
<1>3. Opening(t)' => Opening(t) BY DEF Opening
<1>4. client' # NoClient /\ client' \notin handles' => \E u \in Threads : thread'[u].at = "clear"
  <2>1. SUFFICES ASSUME client # NoClient, client \notin handles'
                 PROVE  \E u \in Threads : thread'[u].at = "clear"
    OBVIOUS
  <2>2. client \notin handles BY <2>1 DEF ConnInv, Holds
  <2>3. PICK u \in Threads : thread[u].at = "clear" BY <2>1, <2>2 DEF ConnInv
  <2>4. thread'[u] = thread[u] BY <2>3
  <2>5. QED BY <2>3, <2>4
<1>8. NoClient \notin handles' BY DEF ConnInv, Holds
<1>5. ASSUME NEW c \in handles' PROVE Owned(c)'
  <2>1. CASE c \in handles
    <3>1. c = client \/ c \in strays \/ \E u \in Threads : Opening(u) /\ thread[u].conn = c
      BY <2>1 DEF ConnInv, Owned
    <3>2. CASE c = client \/ c \in strays BY <3>2 DEF Owned
    <3>3. CASE \E u \in Threads : Opening(u) /\ thread[u].conn = c
      <4>1. PICK u \in Threads : Opening(u) /\ thread[u].conn = c BY <3>3
      <4>2. CASE u # t BY <1>1, <4>1, <4>2 DEF Owned
      <4>3. CASE u = t BY <1>5, <4>1, <4>3 DEF Owned
      <4>4. QED BY <4>2, <4>3
    <3>4. QED BY <3>1, <3>2, <3>3
  <2>2. CASE c \notin handles
    <3>1. InBody(t) /\ c = thread[t].conn BY <1>5, <2>2
    <3>2. c = client \/ c \in strays BY <3>1, <2>2 DEF ConnInv, Holds
    <3>3. QED BY <3>2 DEF Owned
  <2>3. QED BY <2>1, <2>2
<1>6. ASSUME NEW u \in Threads PROVE Holds(u)'
  <2>1. CASE u = t
    <3>1. Opening(t)' => thread'[t].conn \in handles' /\ client' = NoClient
      BY <1>3 DEF ConnInv, Holds
    <3>2. InBody(t)' /\ ~ Opening(t)' => thread'[t].conn = client' \/ thread'[t].conn \in strays'
      BY DEF ConnInv, Holds, Opening
    <3>3. InBody(t)' => thread'[t].conn # NoClient BY DEF ConnInv, Holds
    <3>4. ~ Parting(t)' BY DEF Parting
    <3>5. QED BY <2>1, <3>1, <3>2, <3>3, <3>4 DEF Holds, IsSeq
  <2>2. CASE u # t
    <3>1. thread'[u] = thread[u] /\ Holds(u) BY <2>2 DEF ConnInv
    <3>2. Opening(u) => handles' = handles \/ handles' = handles \cup {thread[t].conn}
      BY <1>2, <2>2 DEF Opening
    <3>3. Parting(u) => client' = NoClient \/ client' \notin handles' BY <1>2, <2>2, <3>1 DEF Holds
    <3>4. QED BY <1>1, <2>2, <3>1, <3>2, <3>3 DEF Holds, IsSeq
  <2>3. QED BY <2>1, <2>2
<1>7. QED BY <1>4, <1>5, <1>6, <1>8 DEF ConnInv

\* Every thread stays where it is, and with what it has.
LEMMA ConnKept ==
  ASSUME ConnInv, client' = client, handles' = handles, strays' = strays,
         \A t \in Threads :
           /\ thread'[t].at = thread[t].at /\ thread'[t].q = thread[t].q
           /\ thread'[t].conn = thread[t].conn /\ thread'[t].got = thread[t].got
           /\ thread'[t].op = thread[t].op
  PROVE  ConnInv'
<1>1. \A t \in Threads : (Opening(t)' <=> Opening(t)) /\ (Parting(t)' <=> Parting(t))
  BY DEF Opening, InBody, Parting
<1>2. \A c : Owned(c) => Owned(c)' BY <1>1 DEF Owned
<1>3. \A t \in Threads : Holds(t)' BY <1>1 DEF ConnInv, Holds, InBody, IsSeq
<1>4. QED BY <1>2, <1>3 DEF ConnInv

LEMMA FailConn ==
  ASSUME ConnInv, LockInv, NEW t \in Threads, NEW res, InBody(t), Fail(t, res),
         client' = client, strays' = strays,
         \/ handles' = handles \ Shut(t)
         \/ handles' = (handles \cup {thread[t].conn}) \ Shut(t)
         \/ handles' = handles /\ thread[t].conn = client
         \/ handles' = handles \cup {thread[t].conn} /\ ~ Opening(t)
  PROVE  ConnInv'
<1> DEFINE at == IF res = "lost" /\ thread[t].q.route # "connect" THEN "drop" ELSE "leave"
<1>1. thread' = [thread EXCEPT ![t].res = res, ![t].at = at] BY DEF Fail
<1>2. at \in {"drop", "leave"} OBVIOUS
<1> HIDE DEF at
<1>3. /\ \A u \in Threads \ {t} : thread'[u] = thread[u]
      /\ thread'[t].at = at /\ thread'[t].q = thread[t].q /\ thread'[t].conn = thread[t].conn
      /\ thread'[t].got = thread[t].got /\ thread'[t].op = thread[t].op
  BY <1>1 DEF LockInv, ThreadRecords
<1>4. thread[t].at \notin {"idle", "clear"} BY DEF InBody
<1>5. thread[t].q.route = "connect" => IsSeq(thread'[t].got) /\ thread'[t].op.fn # "wait"
  BY <1>3, <1>4 DEF ConnInv, Holds
<1>6. ~ InBody(t)' /\ ~ Opening(t)' BY <1>2, <1>3 DEF InBody, Opening
<1>7. CASE Opening(t)
  <2>1. Shut(t) = {thread[t].conn} /\ thread[t].conn \in handles
    BY <1>7 DEF Shut, Opening, ConnInv, Holds
  <2>2. \/ handles' = handles \ {thread[t].conn}
        \/ handles' = handles /\ thread[t].conn = client
    BY <1>7, <2>1
  <2>3. QED BY <1>2, <1>3, <1>4, <1>5, <1>6, <1>7, <2>2, ConnMove
<1>8. CASE ~ Opening(t)
  <2>1. Shut(t) = {} BY <1>8 DEF Shut, Opening
  <2>2. handles' = handles \/ handles' = handles \cup {thread[t].conn} BY <2>1
  <2>3. QED BY <1>2, <1>3, <1>4, <1>5, <1>6, <1>8, <2>2, ConnMove
<1>9. QED BY <1>7, <1>8

\* An answered connect makes its connection the shared one.
LEMMA CompletesConn ==
  ASSUME ConnInv, LockInv, NEW t \in Threads, InBody(t), Completes(t)
  PROVE  ConnInv'
<1>1. /\ thread' = [thread EXCEPT ![t].at = "leave", ![t].res = "ok"]
      /\ client' = IF thread[t].q.route = "connect" THEN thread[t].conn ELSE client
      /\ handles' = handles /\ strays' = strays
  BY DEF Completes, Ends, Wire
<1>2. /\ \A u \in Threads \ {t} : thread'[u] = thread[u]
      /\ thread'[t].at = "leave" /\ thread'[t].q = thread[t].q
      /\ thread'[t].conn = thread[t].conn /\ thread'[t].got = thread[t].got
      /\ thread'[t].op = thread[t].op
  BY <1>1 DEF LockInv, ThreadRecords
<1>3. thread[t].at \notin {"idle", "clear"} BY DEF InBody
<1>4. ~ InBody(t)' /\ ~ Opening(t)' BY <1>2 DEF InBody, Opening
<1>5. CASE thread[t].q.route # "connect"
  <2>1. ~ Opening(t) /\ client' = client BY <1>1, <1>5 DEF Opening
  <2>2. QED BY <1>1, <1>2, <1>3, <1>4, <1>5, <2>1, ConnMove
<1>6. CASE thread[t].q.route = "connect"
  <2>1. Opening(t) /\ client' = thread[t].conn BY <1>1, <1>6 DEF Opening
  <2>2. client = NoClient /\ thread[t].conn \in handles BY <2>1 DEF ConnInv, Holds
  <2>3. \A u \in Threads \ {t} : thread[u].at # "open" /\ ~ InBody(u) /\ ~ Parting(u)
    BY DEF LockInv, Uses, InBody, Parting
  <2>4. \A u \in Threads : ~ InBody(u)' /\ ~ Opening(u)' /\ thread'[u].at # "open" /\ ~ Parting(u)'
    BY <1>2, <1>4, <2>3 DEF InBody, Opening, Parting
  <2>5. ASSUME NEW c \in handles PROVE c = client' \/ c \in strays
    <3>1. c # NoClient => c \in strays \/ \E u \in Threads : Opening(u) /\ thread[u].conn = c
      BY <2>2 DEF ConnInv, Owned
    <3>2. \A u \in Threads : Opening(u) => u = t BY <2>3 DEF Opening
    <3>3. QED BY <2>1, <2>2, <3>1, <3>2 DEF ConnInv
  <2>6. \A u \in Threads : Holds(u)'
    BY <1>2, <1>3, <2>4 DEF ConnInv, Holds, IsSeq
  <2>7. QED BY <1>1, <2>1, <2>2, <2>5, <2>6 DEF ConnInv, Owned
<1>7. QED BY <1>5, <1>6

LEMMA OperatesConn ==
  ASSUME ConnInv, LockInv, NEW t \in Threads, InBody(t), Operates(t)
  PROVE  ConnInv'
<1>1. CASE Rejected(t) BY <1>1, FailConn DEF Rejected
<1>2. CASE Deadline(t)
  <2>1. ~ Opening(t)
    <3>1. thread[t].op.fn = "wait" /\ thread[t].at \notin {"idle", "clear"}
      BY <1>2 DEF Deadline, InBody
    <3>2. QED BY <3>1 DEF ConnInv, Holds, Opening
  <2>2. QED BY <1>2, <2>1, FailConn DEF Deadline, Reopened
<1>3. CASE Loses(t) BY <1>3, FailConn DEF Loses
<1>4. CASE Looks(t)
  <2>1. CASE should_cancel(t)
    <3>1. Fail(t, "cancelled") /\ handles' = handles /\ client' = client /\ strays' = strays
      BY <1>4, <2>1 DEF Looks, Wire
    <3>2. Shut(t) = {} BY <1>4 DEF Looks, Grabbing, Shut
    <3>3. QED BY <3>1, <3>2, FailConn
  <2>2. CASE ~ should_cancel(t)
    <3>1. /\ thread' = [thread EXCEPT ![t].at = "fetch"] /\ thread[t].q.route = "grab"
          /\ handles' = handles /\ client' = client /\ strays' = strays
      BY <1>4, <2>2 DEF Looks, Goto, Grabbing, Wire
    <3>2. /\ \A u \in Threads \ {t} : thread'[u] = thread[u]
          /\ thread'[t].at = "fetch" /\ thread'[t].q = thread[t].q
          /\ thread'[t].conn = thread[t].conn
      BY <3>1 DEF LockInv, ThreadRecords
    <3>3. ~ Opening(t) BY <3>1 DEF Opening
    <3>4. thread[t].at \notin {"idle", "clear"} BY DEF InBody
    <3>5. QED BY <3>1, <3>2, <3>3, <3>4, ConnMove
  <2>3. QED BY <2>1, <2>2
<1>5. CASE \E n \in 1..Resends+1 : Answers(t, n)
  <2>1. PICK n : Answers(t, n) BY <1>5
  <2>2. PICK r, op, odd :
          thread' = [thread EXCEPT ![t].at = "body", ![t].got = Append(thread[t].got, r),
                                   ![t].odd = odd, ![t].op = op]
          /\ op = OpAfter(thread[t].q, Append(thread[t].got, r))
    BY <2>1 DEF Answers
  <2>3. /\ \A u \in Threads \ {t} : thread'[u] = thread[u]
        /\ thread'[t].at = "body" /\ thread'[t].q = thread[t].q
        /\ thread'[t].conn = thread[t].conn /\ thread'[t].got = Append(thread[t].got, r)
        /\ thread'[t].op = op
    BY <2>2 DEF LockInv, ThreadRecords
  <2>4. handles' = handles \cup {thread[t].conn} /\ client' = client /\ strays' = strays
    BY <2>1 DEF Answers, Reopened
  <2>5. thread[t].at \notin {"idle", "clear"} BY DEF InBody
  <2>6. ASSUME thread[t].q.route = "connect"
        PROVE  IsSeq(thread'[t].got) /\ thread'[t].op.fn # "wait"
    <3>1. IsSeq(thread[t].got) BY <2>5, <2>6 DEF ConnInv, Holds
    <3>2. IsSeq(Append(thread[t].got, r))
      <4>1. PICK S : thread[t].got \in Seq(S) BY <3>1 DEF IsSeq
      <4>2. thread[t].got \in Seq(S \cup {r}) BY <4>1
      <4>3. Append(thread[t].got, r) \in Seq(S \cup {r}) BY <4>2
      <4>4. QED BY <4>3 DEF IsSeq
    <3>3. op.fn # "wait" BY <2>2, <2>6, <3>2, ConnectNeverWaits
    <3>4. QED BY <2>3, <3>2, <3>3
  <2>7. InBody(t)' /\ (Opening(t) => Opening(t)') BY <2>3 DEF InBody, Opening
  <2>8. QED BY <2>3, <2>4, <2>5, <2>6, <2>7, ConnMove
<1>6. CASE \E n \in 0..Resends+1 : TimesOut(t, n) BY <1>6, FailConn DEF TimesOut
<1>7. CASE Completes(t) BY <1>7, CompletesConn
<1>8. QED BY <1>1, <1>2, <1>3, <1>4, <1>5, <1>6, <1>7 DEF Operates

\* A thread that closes the shared connection is about to forget it.
LEMMA CloseConn ==
  ASSUME ConnInv, LockInv, NEW t \in Threads, Close(t) PROVE ConnInv'
<1>1. /\ thread[t].at = "close" /\ client' = client /\ strays' = strays
      /\ handles' = handles \ {client}
  BY DEF Close
<1>2. CASE client = NoClient
  <2>1. Ends(t, "crash") /\ handles' = handles BY <1>1, <1>2 DEF Close, ConnInv
  <2>2. /\ \A u \in Threads \ {t} : thread'[u] = thread[u]
        /\ thread'[t].at = "leave" /\ thread'[t].q = thread[t].q
        /\ thread'[t].conn = thread[t].conn /\ thread'[t].got = thread[t].got
        /\ thread'[t].op = thread[t].op
    BY <2>1 DEF LockInv, ThreadRecords, Ends
  <2>3. ~ InBody(t)' /\ ~ Opening(t) BY <1>1, <2>2 DEF InBody, Opening
  <2>4. thread[t].q.route = "connect" => IsSeq(thread'[t].got) /\ thread'[t].op.fn # "wait"
    BY <1>1, <2>2 DEF ConnInv, Holds
  <2>5. QED BY <1>1, <2>1, <2>2, <2>3, <2>4, ConnMove
<1>3. CASE client # NoClient
  <2>1. /\ \A u \in Threads \ {t} : thread'[u] = thread[u]
        /\ thread'[t].at = "clear" /\ thread'[t].q = thread[t].q
        /\ thread'[t].got = thread[t].got /\ thread'[t].op = thread[t].op
    BY <1>3 DEF Close, LockInv, ThreadRecords, Goto
  <2>2. \A u \in Threads : (InBody(u)' <=> InBody(u)) /\ (Opening(u)' <=> Opening(u))
    BY <1>1, <2>1 DEF InBody, Opening
  <2>3. \A u \in Threads : ~ Opening(u) BY <1>3 DEF ConnInv, Holds
  <2>4. \A c \in handles' : c \in strays' BY <1>1, <2>3 DEF ConnInv, Owned
  <2>5. ASSUME NEW u \in Threads PROVE Holds(u)'
    <3>1. CASE u = t
      <4>1. ~ InBody(t)' /\ ~ Opening(t)' BY <2>1 DEF InBody, Opening
      <4>2. thread[t].q.route = "connect" => IsSeq(thread[t].got) /\ thread[t].op.fn # "wait"
        BY <1>1 DEF ConnInv, Holds
      <4>3. QED BY <1>1, <2>1, <3>1, <4>1, <4>2 DEF Holds, IsSeq
    <3>2. CASE u # t
      <4>1. thread'[u] = thread[u] /\ Holds(u) BY <2>1, <3>2 DEF ConnInv
      <4>2. thread[u].at # "open" BY <4>1, <1>3 DEF Holds
      <4>3. client' \notin handles' BY <1>1
      <4>4. QED BY <1>1, <2>2, <2>3, <4>1, <4>2, <4>3 DEF Holds, IsSeq
    <3>3. QED BY <3>1, <3>2
  <2>6. NoClient \notin handles' BY <1>1 DEF ConnInv
  <2>7. QED BY <2>1, <2>4, <2>5, <2>6 DEF ConnInv, Owned
<1>4. QED BY <1>2, <1>3

\* One that forgets it without the lock leaves it to those that use it.
LEMMA ClearConn ==
  ASSUME ConnInv, LockInv, NEW t \in Threads, Clear(t) PROVE ConnInv'
<1>1. /\ thread[t].at = "clear" /\ Goto(t, Dropped(t)) /\ client' = NoClient /\ handles' = handles
      /\ strays' = IF thread[t].q.route # "grab" THEN strays
                   ELSE strays \cup {c \in {client} : \/ c \in handles
                                                     \/ \E u \in Threads : InBody(u) /\ thread[u].conn = c}
  BY DEF Clear
<1>2. /\ \A u \in Threads \ {t} : thread'[u] = thread[u]
      /\ thread'[t].at = Dropped(t) /\ thread'[t].q = thread[t].q
      /\ thread'[t].got = thread[t].got /\ thread'[t].op = thread[t].op
  BY <1>1 DEF LockInv, ThreadRecords, Goto
<1>3. /\ Dropped(t) \in {"open", "leave"}
      /\ Dropped(t) = "open" => thread[t].q.route = "connect"
  BY DEF Dropped
<1>4. \A u \in Threads : (InBody(u)' <=> InBody(u)) /\ (Opening(u)' <=> Opening(u))
  BY <1>1, <1>2, <1>3 DEF InBody, Opening
<1>5. strays \subseteq strays' BY <1>1
<1>6. ASSUME client \in handles PROVE client \in strays'
  <2>1. client # NoClient BY <1>6 DEF ConnInv
  <2>2. thread[t].q.route = "grab" BY <1>1, <1>6, <2>1 DEF ConnInv, Holds, Parting
  <2>3. QED BY <1>1, <1>6, <2>2
<1>7. ASSUME NEW c \in handles' PROVE Owned(c)'
  <2>1. c = client \/ c \in strays \/ \E u \in Threads : Opening(u) /\ thread[u].conn = c
    BY <1>1, <1>7 DEF ConnInv, Owned
  <2>2. CASE c = client BY <1>1, <1>6, <1>7, <2>2 DEF Owned
  <2>3. CASE c \in strays BY <1>5, <2>3 DEF Owned
  <2>4. CASE \E u \in Threads : Opening(u) /\ thread[u].conn = c
    <3>1. PICK u \in Threads : Opening(u) /\ thread[u].conn = c BY <2>4
    <3>2. u # t BY <1>1, <3>1 DEF Opening, InBody
    <3>3. QED BY <1>2, <1>4, <3>1, <3>2 DEF Owned
  <2>5. QED BY <2>1, <2>2, <2>3, <2>4
<1>8. ASSUME NEW u \in Threads PROVE Holds(u)'
  <2>1. CASE u = t
    <3>1. ~ InBody(t)' /\ ~ Opening(t)' BY <1>2, <1>3 DEF InBody, Opening
    <3>2. thread[t].q.route = "connect" => IsSeq(thread[t].got) /\ thread[t].op.fn # "wait"
      BY <1>1 DEF ConnInv, Holds
    <3>3. QED BY <1>1, <1>2, <1>3, <2>1, <3>1, <3>2 DEF Holds, IsSeq
  <2>2. CASE u # t
    <3>1. thread'[u] = thread[u] /\ Holds(u) BY <1>2, <2>2 DEF ConnInv
    <3>2. ASSUME InBody(u), ~ Opening(u) PROVE thread[u].conn \in strays'
      <4>1. CASE thread[u].conn \in strays BY <1>5, <4>1
      <4>2. CASE thread[u].conn = client
        <5>1. lock = u BY <3>2 DEF LockInv, Uses, InBody
        <5>2. ~ Uses(t) BY <2>2, <5>1 DEF LockInv
        <5>3. thread[t].q.route = "grab" BY <1>1, <5>2 DEF Uses
        <5>4. QED BY <1>1, <3>2, <4>2, <5>3
      <4>3. QED BY <3>1, <3>2, <4>1, <4>2 DEF Holds
    <3>3. QED BY <1>1, <1>4, <3>1, <3>2 DEF Holds, IsSeq
  <2>3. QED BY <2>1, <2>2
<1>9. QED BY <1>1, <1>7, <1>8 DEF ConnInv

LEMMA OpenConn ==
  ASSUME ConnInv, LockInv, NEW t \in Threads, Open(t) PROVE ConnInv'
<1>1. thread[t].at = "open" /\ strays' = strays /\ client' = client
      /\ client = NoClient /\ thread[t].q.route = "connect"
      /\ IsSeq(thread[t].got) /\ thread[t].op.fn # "wait"
  BY DEF Open, ConnInv, Holds
<1>2. CASE port /\ handles = {}
  <2>1. PICK c \in Fresh : /\ thread' = [thread EXCEPT ![t].at = "body", ![t].conn = c]
                           /\ handles' = {c}
    BY <1>2 DEF Open
  <2>2. c # NoClient BY ClientAssumption DEF Fresh
  <2>3. /\ \A u \in Threads \ {t} : thread'[u] = thread[u]
        /\ thread'[t].at = "body" /\ thread'[t].q = thread[t].q /\ thread'[t].conn = c
        /\ thread'[t].got = thread[t].got /\ thread'[t].op = thread[t].op
    BY <2>1 DEF LockInv, ThreadRecords
  <2>4. Opening(t)' BY <1>1, <2>3 DEF Opening, InBody
  <2>5. \A u \in Threads \ {t} : ~ InBody(u) /\ thread[u].at # "open"
    BY <1>1 DEF LockInv, Uses, InBody
  <2>6. ASSUME NEW u \in Threads PROVE Holds(u)'
    <3>1. CASE u = t
      <4>1. thread'[t].conn \in handles' /\ client' = NoClient BY <1>1, <2>1, <2>3
      <4>2. thread'[t].got = thread[t].got /\ thread'[t].op = thread[t].op
            /\ thread'[t].at = "body" /\ thread'[t].conn # NoClient
        BY <2>2, <2>3
      <4> HIDE <2>1, <2>3
      <4>3. QED BY <1>1, <2>4, <3>1, <4>1, <4>2 DEF Holds, Parting, IsSeq
    <3>2. CASE u # t
      <4>1. thread'[u] = thread[u] /\ Holds(u) BY <2>3, <3>2 DEF ConnInv
      <4>2. ~ InBody(u)' /\ ~ Opening(u)' /\ thread'[u].at # "open"
        BY <2>5, <3>2, <4>1 DEF InBody, Opening
      <4>3. QED BY <1>1, <4>1, <4>2 DEF Holds, Parting, IsSeq
    <3>3. QED BY <3>1, <3>2
  <2>7. QED BY <1>1, <2>1, <2>2, <2>3, <2>4, <2>6 DEF ConnInv, Owned
<1>3. CASE ~ (port /\ handles = {})
  <2>1. Ends(t, "error") /\ handles' = handles BY <1>3 DEF Open
  <2>2. /\ \A u \in Threads \ {t} : thread'[u] = thread[u]
        /\ thread'[t].at = "leave" /\ thread'[t].q = thread[t].q
        /\ thread'[t].conn = thread[t].conn /\ thread'[t].got = thread[t].got
        /\ thread'[t].op = thread[t].op
    BY <2>1 DEF LockInv, ThreadRecords, Ends
  <2>3. ~ InBody(t)' /\ ~ Opening(t) BY <1>1, <2>2 DEF InBody, Opening
  <2>4. QED BY <1>1, <2>1, <2>2, <2>3, ConnMove
<1>4. QED BY <1>2, <1>3

LEMMA StepConn ==
  ASSUME ConnInv, LockInv, NEW t \in Threads, Step(t) PROVE ConnInv'
<1> DEFINE Same == /\ \A u \in Threads \ {t} : thread'[u] = thread[u]
                   /\ thread'[t].q = thread[t].q /\ thread'[t].conn = thread[t].conn
                   /\ thread'[t].got = thread[t].got /\ thread'[t].op = thread[t].op
<1>1. ASSUME NEW at, Goto(t, at) PROVE Same /\ thread'[t].at = at
  BY <1>1 DEF LockInv, ThreadRecords, Goto
<1>2. ASSUME NEW res, Ends(t, res) PROVE Same /\ thread'[t].at = "leave"
  BY <1>2 DEF LockInv, ThreadRecords, Ends
\* To a place where the connection is not used yet, or no longer.
<1>3. ASSUME Same, NEW at, thread'[t].at = at, at \notin {"idle", "clear", "body", "fetch"},
             thread[t].at \notin {"idle", "clear", "body", "fetch"},
             at = "open" => thread[t].q.route = "connect" /\ client = NoClient,
             at \in {"test", "require"} => thread[t].q.route # "connect",
             client' = client, handles' = handles, strays' = strays
      PROVE  ConnInv'
  <2>1. thread[t].q.route = "connect" => IsSeq(thread'[t].got) /\ thread'[t].op.fn # "wait"
    BY <1>3 DEF ConnInv, Holds
  <2>2. ~ InBody(t)' /\ ~ Opening(t) BY <1>3 DEF InBody, Opening
  <2>3. QED BY <1>3, <2>1, <2>2, ConnMove
<1>4. CASE StateConnected(t)
  <2>1. /\ handles' = handles /\ client' = client /\ strays' = strays
        /\ thread[t].at = "state"
        /\ Same /\ thread'[t].at = IF client = NoClient THEN "leave" ELSE "describe"
    BY <1>1, <1>2, <1>4 DEF StateConnected, Wire
  <2>2. QED BY <2>1, <1>3
<1>5. CASE StateDescribe(t)
  <2>1. /\ handles' = handles /\ client' = client /\ strays' = strays
        /\ thread[t].at = "describe" /\ Same /\ thread'[t].at = "leave"
    BY <1>2, <1>5 DEF StateDescribe, Wire
  <2>2. QED BY <2>1, <1>3
<1>6. CASE Drop(t)
  <2>1. /\ handles' = handles /\ client' = client /\ strays' = strays
        /\ thread[t].at = "drop"
        /\ Same /\ thread'[t].at = IF client = NoClient THEN Dropped(t) ELSE "close"
    BY <1>1, <1>6 DEF Drop, Wire
  <2>2. /\ Dropped(t) \in {"open", "leave"}
        /\ Dropped(t) = "open" => thread[t].q.route = "connect"
    BY DEF Dropped
  <2>3. QED BY <2>1, <2>2, <1>3
<1>7. CASE Close(t) BY <1>7, CloseConn
<1>8. CASE Open(t) BY <1>8, OpenConn
<1>9. CASE Acquire(t)
  <2> DEFINE connects == thread[t].q.route \in {"connect", "disconnect"}
  <2>1. /\ thread[t].at = "lock" /\ handles' = handles /\ client' = client /\ strays' = strays
        /\ Same /\ thread'[t].at = IF connects THEN "drop" ELSE "test"
    BY <1>1, <1>9 DEF Acquire, Wire
  <2>2. QED BY <2>1, <1>3
<1>10. ASSUME NEW res, Fail(t, res) PROVE Same /\ thread'[t].at \in {"drop", "leave"}
  <2> DEFINE at == IF res = "lost" /\ thread[t].q.route # "connect" THEN "drop" ELSE "leave"
  <2>1. thread' = [thread EXCEPT ![t].res = res, ![t].at = at] /\ at \in {"drop", "leave"}
    BY <1>10 DEF Fail
  <2> HIDE DEF at
  <2>2. QED BY <2>1 DEF LockInv, ThreadRecords
<1>11. CASE Test(t)
  <2>1. /\ thread[t].at = "test" /\ handles' = handles /\ client' = client /\ strays' = strays
    BY <1>11 DEF Test, Wire
  <2>2. thread[t].q.route # "connect" BY <2>1 DEF ConnInv, Holds
  <2>3. Same /\ thread'[t].at \in {"require", "drop", "leave"} BY <1>1, <1>10, <1>11 DEF Test
  <2>4. QED BY <2>1, <2>2, <2>3, <1>3
<1>12. CASE _require_client(t)
  <2>1. /\ thread[t].at = "require" /\ handles' = handles /\ client' = client /\ strays' = strays
    BY <1>12 DEF _require_client, Wire
  <2>2. thread[t].q.route # "connect" BY <2>1 DEF ConnInv, Holds
  <2>3. CASE client = NoClient
    <3>1. Same /\ thread'[t].at \in {"drop", "leave"} BY <1>10, <1>12, <2>3 DEF _require_client
    <3>2. QED BY <2>1, <2>2, <3>1, <1>3
  <2>4. CASE client # NoClient
    <3>1. /\ \A u \in Threads \ {t} : thread'[u] = thread[u]
          /\ thread'[t].at = "body" /\ thread'[t].q = thread[t].q /\ thread'[t].conn = client
      BY <1>12, <2>4 DEF _require_client, LockInv, ThreadRecords
    <3>2. \A u \in Threads : Opening(u)' <=> Opening(u) BY <2>1, <2>2, <3>1 DEF Opening, InBody
    <3>3. ASSUME NEW u \in Threads PROVE Holds(u)'
      <4>1. CASE u = t BY <2>1, <2>2, <2>4, <3>1, <3>2, <4>1 DEF Holds, Parting, Opening
      <4>2. CASE u # t
        <5>1. thread'[u] = thread[u] /\ Holds(u) BY <3>1, <4>2 DEF ConnInv
        <5>2. QED BY <2>1, <3>2, <5>1 DEF Holds, IsSeq, InBody, Parting
      <4>3. QED BY <4>1, <4>2
    <3>4. \A c : Owned(c) => Owned(c)'
      <4>1. \A u \in Threads : Opening(u) => u # t BY <2>1 DEF Opening, InBody
      <4>2. QED BY <2>1, <3>1, <3>2, <4>1 DEF Owned
    <3>5. \A u \in Threads : thread[u].at = "clear" => thread'[u].at = "clear" BY <2>1, <3>1
    <3>6. QED BY <2>1, <3>3, <3>4, <3>5 DEF ConnInv
  <2>5. QED BY <2>3, <2>4
<1>13. CASE InBody(t) /\ Operates(t) BY <1>13, OperatesConn
<1>14. CASE Leave(t)
  <2>1. /\ thread[t].at = "leave"
        /\ handles' = handles /\ client' = client /\ strays' = strays
        /\ \A u \in Threads \ {t} : thread'[u] = thread[u]
        /\ thread'[t].at = "idle"
    BY <1>14 DEF LockInv, ThreadRecords, Leave, Idle, Wire
  <2>2. \A u \in Threads : (Opening(u)' <=> Opening(u)) /\ (InBody(u)' <=> InBody(u))
    BY <2>1 DEF Opening, InBody
  <2>3. \A c : Owned(c) => Owned(c)'
    <3>1. \A u \in Threads : Opening(u) => u # t BY <2>1 DEF Opening, InBody
    <3>2. QED BY <2>1, <2>2, <3>1 DEF Owned
  <2>4. ASSUME NEW u \in Threads PROVE Holds(u)'
    <3>1. CASE u = t BY <2>1, <2>2, <3>1 DEF Holds, Parting, Opening, InBody
    <3>2. CASE u # t
      <4>1. thread'[u] = thread[u] /\ Holds(u) BY <2>1, <3>2 DEF ConnInv
      <4>2. QED BY <2>1, <2>2, <4>1 DEF Holds, Parting, IsSeq
    <3>3. QED BY <3>1, <3>2
  <2>5. \A u \in Threads : thread[u].at = "clear" => thread'[u].at = "clear" BY <2>1
  <2>6. QED BY <2>1, <2>3, <2>4, <2>5 DEF ConnInv
<1>15. CASE Clear(t) BY <1>15, ClearConn
<1>16. QED BY <1>4, <1>5, <1>6, <1>7, <1>8, <1>9, <1>11, <1>12, <1>13, <1>14, <1>15 DEF Step

LEMMA AskConn ==
  ASSUME ConnInv, LockInv, NEW t \in Threads, NEW q, Ask(t, q) PROVE ConnInv'
<1> DEFINE both == {u \in Threads : q.route = "grab" /\ Grabbing(u)}
           at == IF q.route = "state" THEN "state" ELSE "lock"
           new == [Idle EXCEPT !.at = at, !.q = q, !.op = OpAfter(q, <<>>), !.since = board.shot]
           mine == [new EXCEPT !.odd = IF both = {} THEN {} ELSE {"shared"}]
<1>1. /\ thread' = [u \in Threads |->
           IF u = t THEN mine
           ELSE IF u \in both THEN [thread[u] EXCEPT !.odd = @ \cup {"shared"}] ELSE thread[u]]
      /\ handles' = handles /\ client' = client /\ strays' = strays
      /\ thread[t].at = "idle"
  BY DEF Ask
<1>2. /\ mine.at \in {"state", "lock"} /\ mine.q = q /\ mine.got = <<>>
      /\ mine.op = OpAfter(q, <<>>)
  BY DEF Idle
<1> HIDE DEF mine, both
<1>3. ASSUME NEW u \in Threads, u # t
      PROVE  /\ thread'[u].at = thread[u].at /\ thread'[u].q = thread[u].q
             /\ thread'[u].conn = thread[u].conn /\ thread'[u].got = thread[u].got
             /\ thread'[u].op = thread[u].op
  <2>1. thread'[u] = [thread[u] EXCEPT !.odd = @ \cup {"shared"}] \/ thread'[u] = thread[u]
    BY <1>1, <1>3
  <2>2. QED BY <2>1 DEF LockInv, ThreadRecords
<1>4. thread'[t] = mine BY <1>1
<1>5. ~ InBody(t) /\ ~ InBody(t)' BY <1>1, <1>2, <1>4 DEF InBody
<1>6. \A u \in Threads : (Opening(u)' <=> Opening(u)) /\ (InBody(u)' <=> InBody(u))
  BY <1>3, <1>5 DEF Opening, InBody
<1>7. \A c : Owned(c) => Owned(c)'
  <2>1. \A u \in Threads : Opening(u) => u # t BY <1>5 DEF Opening
  <2>2. QED BY <1>1, <1>3, <1>6, <2>1 DEF Owned
<1>8. ASSUME NEW u \in Threads PROVE Holds(u)'
  <2>1. CASE u = t
    <3>1. IsSeq(<<>>)
      <4>1. <<>> \in Seq({}) OBVIOUS
      <4>2. QED BY <4>1 DEF IsSeq
    <3>2. thread'[t].at \in {"state", "lock"} /\ thread'[t].got = <<>>
          /\ (thread'[t].q.route = "connect" => thread'[t].op.fn # "wait")
      BY <1>2, <1>4, <3>1, ConnectNeverWaits
    <3>3. QED BY <1>5, <1>6, <2>1, <3>1, <3>2 DEF Holds, Parting, IsSeq, Opening
  <2>2. CASE u # t BY <1>1, <1>3, <1>6, <2>2 DEF ConnInv, Holds, Parting, IsSeq
  <2>3. QED BY <2>1, <2>2
<1>9. \A u \in Threads : thread[u].at = "clear" => thread'[u].at = "clear"
  BY <1>1, <1>3
<1>10. QED BY <1>1, <1>7, <1>8, <1>9 DEF ConnInv

LEMMA ConnInductive == ConnInv /\ LockInv /\ [Next]_vars => ConnInv'
<1> SUFFICES ASSUME ConnInv, LockInv, [Next]_vars PROVE ConnInv' OBVIOUS
<1> DEFINE Kept == client' = client /\ handles' = handles /\ strays' = strays
<1>1. ASSUME thread' = thread, Kept PROVE ConnInv' BY <1>1, ConnKept
<1>2. CASE UNCHANGED vars BY <1>1, <1>2 DEF vars
<1>3. CASE \E t \in Threads : (\E q \in session.may : Ask(t, q)) \/ Step(t)
  BY <1>3, AskConn, StepConn
<1>4. CASE PostCancel
  <2>1. Kept BY <1>4 DEF PostCancel, Wire
  <2>2. ASSUME NEW t \in Threads
        PROVE  /\ thread'[t].at = thread[t].at /\ thread'[t].q = thread[t].q
               /\ thread'[t].conn = thread[t].conn /\ thread'[t].got = thread[t].got
               /\ thread'[t].op = thread[t].op
    <3> DEFINE x == Min({thread[t].asked, Len(Pixels(thread[t].got))})
    <3>1. thread'[t] = [thread[t] EXCEPT !.asked = x] \/ thread'[t] = thread[t]
      BY <1>4 DEF PostCancel, LockInv, ThreadRecords
    <3> HIDE DEF x
    <3>2. QED BY <3>1 DEF LockInv, ThreadRecords
  <2>3. QED BY <2>1, <2>2, ConnKept
<1>5. CASE BoardMoves BY <1>1, <1>5 DEF BoardMoves, Wire
<1>6. ASSUME NEW x, Marked(x), Kept PROVE ConnInv'
  <2>1. \A t \in Threads :
          /\ thread'[t].at = thread[t].at /\ thread'[t].q = thread[t].q
          /\ thread'[t].conn = thread[t].conn /\ thread'[t].got = thread[t].got
          /\ thread'[t].op = thread[t].op
    BY <1>6, MarkedFields DEF LockInv
  <2>2. QED BY <1>6, <2>1, ConnKept
<1>7. CASE Watchdog \/ Unplug
  <2>1. Kept BY <1>7 DEF Watchdog, Unplug, Wire
  <2>2. QED BY <1>6, <1>7, <2>1, WatchdogMarks, UnplugMarks
<1>8. CASE Replug BY <1>1, <1>8 DEF Replug
<1>9. QED BY <1>2, <1>3, <1>4, <1>5, <1>6, <1>7, <1>8 DEF Next

\* The shared connection is an open one, unless somebody closed it and is about
\* to forget it, and a connection that stays open after all requests are over
\* is the shared one, or one that a grab let go of without the lock while
\* another request used it or had stored it since.
THEOREM ConnectionsKept == Spec => []ConnectionsAccounted
<1>1. Init => ConnInv
  <2> SUFFICES ASSUME Init PROVE ConnInv OBVIOUS
  <2>1. \A t \in Threads : thread[t] = Idle BY DEF Init
  <2>2. Idle.at = "idle" BY DEF Idle
  <2>3. client = 1 /\ handles = {1} /\ client \in handles BY DEF Init
  <2>4. NoClient # 1 BY ClientAssumption
  <2>5. QED BY <2>1, <2>2, <2>3, <2>4 DEF ConnInv, Holds, Parting, Owned, Opening, InBody
<1>2. ConnInv => ConnectionsAccounted
  BY DEF ConnInv, ConnectionsAccounted, Owned, Opening, InBody
<1>3. QED BY <1>1, <1>2, LockInit, LockInductive, ConnInductive, PTL DEF Spec

-----------------------------------------------------------------------------
(* What a grab asks for, and what it has *)

NChunks == Len(Chunks(FRAME_PIXELS, MAX_READ))
ChunkRead(i) == ReadHolding(STREAM_BASE, Chunks(FRAME_PIXELS, MAX_READ)[i])

LEMMA SomeChunks == NChunks \in Nat \ {0}
<1> DEFINE F == FRAME_PIXELS
           M == MAX_READ
           C == (F + M - 1) \div M
<1>1. F \in Nat \ {0} /\ M \in Nat \ {0} BY StreamAssumption
<1> HIDE DEF F, M
<1>2. C \in Nat /\ (F + M - 1) % M \in 0..M-1 /\ F + M - 1 = M * C + ((F + M - 1) % M)
  <2>1. F + M - 1 \in Nat BY <1>1
  <2>2. QED BY <1>1, <2>1, Quotient
<1> HIDE DEF C
<1>3. Chunks(FRAME_PIXELS, MAX_READ) = [k \in 1..C |-> IF k * M <= F THEN M ELSE F % M]
  BY DEF Chunks, F, M, C
<1>4. NChunks = C BY <1>2, <1>3 DEF NChunks
<1>5. C # 0
  <2>1. SUFFICES ASSUME C = 0 PROVE FALSE OBVIOUS
  <2>2. M * C = 0 BY <1>1, <2>1
  <2>3. QED BY <1>1, <1>2, <2>2
<1>6. QED BY <1>2, <1>4, <1>5

LEMMA FirstPart ==
  ASSUME NEW S, NEW a \in Seq(S), NEW b \in Seq(S)
  PROVE  \A i \in 1..Len(a) : (a \o b)[i] = a[i]
OBVIOUS

\* The operations of a grab in their order.
LEMMA GrabOp ==
  ASSUME NEW got, IsSeq(got), NEW q, q.route = "grab"
  PROVE  /\ Len(got) \in Nat
         /\ Len(got) = 0 => OpAfter(q, got) = WriteSingle(REG_GRAB, 1)
         /\ Len(got) = 1 => OpAfter(q, got) = WaitIdle(REG_GRAB)
         /\ Len(got) = 2 => OpAfter(q, got) = WriteSingle(REG_STREAM, 1)
         /\ Len(got) \in 3..NChunks+2 => OpAfter(q, got) = ChunkRead(Len(got) - 2)
         /\ Len(got) >= NChunks + 3 => OpAfter(q, got) = End
<1> DEFINE pre == <<WriteSingle(REG_GRAB, 1), WaitIdle(REG_GRAB), WriteSingle(REG_STREAM, 1)>>
           str == ReadStream(STREAM_BASE, FRAME_PIXELS)
           n == NChunks
<1>1. Program(q, got) = pre \o str BY DEF Program, api_grab, grab_frame
<1>2. Len(got) \in Nat
  <2>1. PICK S : got \in Seq(S) BY DEF IsSeq
  <2>2. QED BY <2>1
<1>3. n \in Nat /\ str = [i \in 1..n |-> ChunkRead(i)]
  BY SomeChunks DEF ReadStream, NChunks, ChunkRead
<1> HIDE DEF n
<1>4. /\ Len(pre \o str) = n + 3
      /\ \A i \in 1..3 : (pre \o str)[i] = pre[i]
      /\ \A i \in 4..n+3 : (pre \o str)[i] = str[i - 3]
  <2>1. PICK S : pre \in Seq(S) /\ str \in Seq(S) /\ Len(str) = n
    <3> DEFINE R == {pre[i] : i \in 1..3} \cup {str[i] : i \in 1..n}
    <3>1. pre \in Seq(R) OBVIOUS
    <3>2. str \in Seq(R) /\ Len(str) = n BY <1>3
    <3>3. QED BY <3>1, <3>2
  <2>2. Len(pre) = 3 OBVIOUS
  <2> HIDE DEF pre, str
  <2>3. Len(pre \o str) = Len(pre) + Len(str) BY <2>1, SecondPart
  <2>4. \A i \in Len(pre)+1..Len(pre)+Len(str) : (pre \o str)[i] = str[i - Len(pre)]
    BY <2>1, SecondPart
  <2>5. \A i \in 1..Len(pre) : (pre \o str)[i] = pre[i] BY <2>1, FirstPart
  <2>6. QED BY <2>1, <2>2, <2>3, <2>4, <2>5
<1>5. OpAfter(q, got) = IF Len(got) < n + 3 THEN (pre \o str)[Len(got) + 1] ELSE End
  BY <1>1, <1>4 DEF OpAfter
<1>6. pre[1] = WriteSingle(REG_GRAB, 1) /\ pre[2] = WaitIdle(REG_GRAB) /\ pre[3] = WriteSingle(REG_STREAM, 1)
  OBVIOUS
<1> HIDE DEF pre
<1>7. Len(got) \in 3..n+2 => OpAfter(q, got) = ChunkRead(Len(got) - 2)
  <2>1. SUFFICES ASSUME Len(got) \in 3..n+2 PROVE OpAfter(q, got) = ChunkRead(Len(got) - 2) OBVIOUS
  <2>2. PICK i \in 1..n : i = Len(got) - 2 BY <1>2, <1>3, <2>1
  <2>3. PICK j \in 4..n+3 : j = Len(got) + 1 BY <1>2, <1>3, <2>1
  <2>4. Len(got) < n + 3 /\ j - 3 = i BY <1>2, <1>3, <2>1, <2>2, <2>3
  <2>5. OpAfter(q, got) = str[i] BY <1>4, <1>5, <2>3, <2>4
  <2>6. QED BY <1>3, <2>2, <2>5
<1> HIDE DEF str
<1>8. Len(got) <= 2 => OpAfter(q, got) = pre[Len(got) + 1]
  <2>1. SUFFICES ASSUME Len(got) <= 2 PROVE OpAfter(q, got) = pre[Len(got) + 1] OBVIOUS
  <2>2. PICK j \in 1..3 : j = Len(got) + 1 BY <1>2, <2>1
  <2>3. QED BY <1>2, <1>3, <1>4, <1>5, <2>1, <2>2
<1>9. /\ Len(got) = 0 => OpAfter(q, got) = WriteSingle(REG_GRAB, 1)
      /\ Len(got) = 1 => OpAfter(q, got) = WaitIdle(REG_GRAB)
      /\ Len(got) = 2 => OpAfter(q, got) = WriteSingle(REG_STREAM, 1)
  <2>1. /\ Len(got) = 0 => Len(got) + 1 = 1 /\ Len(got) <= 2
        /\ Len(got) = 1 => Len(got) + 1 = 2 /\ Len(got) <= 2
        /\ Len(got) = 2 => Len(got) + 1 = 3 /\ Len(got) <= 2
    <3>1. PICK l \in Nat : l = Len(got) BY <1>2
    <3>2. /\ l = 0 => l + 1 = 1 /\ l <= 2
          /\ l = 1 => l + 1 = 2 /\ l <= 2
          /\ l = 2 => l + 1 = 3 /\ l <= 2
      OBVIOUS
    <3>3. QED BY <3>1, <3>2
  <2>2. QED BY <1>6, <1>8, <2>1
<1>10. Len(got) >= n + 3 => OpAfter(q, got) = End BY <1>2, <1>3, <1>5
<1>11. QED BY <1>2, <1>7, <1>9, <1>10 DEF n

\* How far a grab is, from the operation it is at.
LEMMA GrabAt ==
  ASSUME NEW got, IsSeq(got), NEW q, q.route = "grab", NEW op, op = OpAfter(q, got)
  PROVE  /\ op.fn = "wait" => Len(got) = 1
         /\ op.fn = "read" => Len(got) \in 3..NChunks+2
         /\ op.fn = "end" => Len(got) >= NChunks + 3
         /\ op.fn \in {"write", "wait", "read", "raise", "end"}
<1>1. NChunks \in Nat BY SomeChunks
<1>2. /\ Len(got) \in Nat
      /\ Len(got) = 0 => op = WriteSingle(REG_GRAB, 1)
      /\ Len(got) = 1 => op = WaitIdle(REG_GRAB)
      /\ Len(got) = 2 => op = WriteSingle(REG_STREAM, 1)
      /\ Len(got) \in 3..NChunks+2 => op = ChunkRead(Len(got) - 2)
      /\ Len(got) >= NChunks + 3 => op = End
  BY GrabOp
<1>3. /\ WriteSingle(REG_GRAB, 1).fn = "write" /\ WriteSingle(REG_STREAM, 1).fn = "write"
      /\ WaitIdle(REG_GRAB).fn = "wait" /\ End.fn = "end"
      /\ \A i : ChunkRead(i).fn \in {"read", "raise"}
  BY DEF WriteSingle, WaitIdle, End, Raise, ChunkRead, ReadHolding
<1>4. Len(got) = 0 \/ Len(got) = 1 \/ Len(got) = 2 \/ Len(got) \in 3..NChunks+2 \/ Len(got) >= NChunks + 3
  <2>1. PICK l \in Nat : l = Len(got) BY <1>2
  <2>2. l = 0 \/ l = 1 \/ l = 2 \/ l \in 3..NChunks+2 \/ l >= NChunks + 3 BY <1>1
  <2>3. QED BY <2>1, <2>2
<1>5. CASE Len(got) = 0
  <2>1. op.fn = "write" BY <1>2, <1>3, <1>5
  <2>2. QED BY <2>1
<1>6. CASE Len(got) = 1
  <2>1. op.fn = "wait" BY <1>2, <1>3, <1>6
  <2>2. QED BY <1>6, <2>1
<1>7. CASE Len(got) = 2
  <2>1. op.fn = "write" BY <1>2, <1>3, <1>7
  <2>2. QED BY <2>1
<1>8. CASE Len(got) \in 3..NChunks+2
  <2>1. op.fn \in {"read", "raise"} BY <1>2, <1>3, <1>8
  <2>2. QED BY <1>8, <2>1
<1>9. CASE Len(got) >= NChunks + 3
  <2>1. op.fn = "end" BY <1>2, <1>3, <1>9
  <2>2. QED BY <1>9, <2>1
<1>10. QED BY <1>4, <1>5, <1>6, <1>7, <1>8, <1>9

\* The chunks a grab has are what the first of its reads ask for.
Collected(got) ==
  /\ IsSeq(got) /\ Len(got) <= 3 + NChunks
  /\ \E S : SubSeq(got, 4, Len(got)) \in Seq(Seq(S))
  /\ Len(Pixels(got)) = IF Len(got) <= 3 THEN 0 ELSE Done(Len(got) - 3)

LEMMA DoneRange == ASSUME NEW k \in Nat PROVE Done(k) \in 0..FRAME_PIXELS
<1>1. k * MAX_READ \in Nat BY StreamAssumption
<1>2. QED BY <1>1, StreamAssumption DEF Done

LEMMA NothingYet ==
  ASSUME NEW got, IsSeq(got), Len(got) < 4
  PROVE  Collected(got) /\ Pixels(got) = <<>>
<1>1. Pixels(got) = <<>> BY NothingFetched
<1>2. PICK S : got \in Seq(S) BY DEF IsSeq
<1>3. SubSeq(got, 4, Len(got)) = <<>> BY <1>2
<1>4. <<>> \in Seq(Seq({})) OBVIOUS
<1>5. Len(got) <= 3 /\ Len(<<>>) = 0 BY <1>2
<1>6. QED BY <1>1, <1>2, <1>3, <1>4, <1>5, SomeChunks DEF Collected

LEMMA TailSeq ==
  ASSUME NEW S, NEW s \in Seq(S), NEW n \in Nat, n >= 3, Len(s) = n
  PROVE  /\ SubSeq(s, 4, n) \in Seq(S) /\ Len(SubSeq(s, 4, n)) = n - 3
         /\ \A i \in 1..n-3 : SubSeq(s, 4, n)[i] = s[i+3]
OBVIOUS

LEMMA AppendTail ==
  ASSUME NEW S, NEW got \in Seq(S), NEW r \in S, Len(got) >= 3
  PROVE  SubSeq(Append(got, r), 4, Len(Append(got, r))) = Append(SubSeq(got, 4, Len(got)), r)
<1> DEFINE a == Append(got, r)
           x == SubSeq(a, 4, Len(a))
           y == SubSeq(got, 4, Len(got))
           z == Append(y, r)
           n == Len(got)
<1>1. n \in Nat /\ n >= 3 /\ a \in Seq(S) /\ Len(a) = n + 1 /\ a[n+1] = r
      /\ \A i \in 1..n : a[i] = got[i]
  OBVIOUS
<1>2. y \in Seq(S) /\ Len(y) = n - 3 /\ \A i \in 1..n-3 : y[i] = got[i+3]
  BY <1>1, TailSeq
<1> HIDE DEF a, n
<1>3. x \in Seq(S) /\ Len(x) = n - 2 /\ \A i \in 1..n-2 : x[i] = a[i+3]
  BY <1>1
<1> HIDE DEF x, y
<1>4. z \in Seq(S) /\ Len(z) = n - 2 /\ z[n-2] = r /\ \A i \in 1..n-3 : z[i] = y[i]
  BY <1>1, <1>2
<1> HIDE DEF z
<1>5. ASSUME NEW i \in 1..n-2 PROVE x[i] = z[i]
  <2>1. CASE i = n - 2
    <3>1. i + 3 = n + 1 BY <1>1, <2>1
    <3>2. QED BY <1>1, <1>3, <1>4, <2>1, <3>1
  <2>2. CASE i # n - 2
    <3>1. PICK j \in 1..n : j = i + 3 BY <1>1, <2>2
    <3>2. i \in 1..n-3 BY <1>1, <2>2
    <3>3. QED BY <1>1, <1>2, <1>3, <1>4, <3>1, <3>2
  <2>3. QED BY <2>1, <2>2
<1>6. x = z BY <1>1, <1>3, <1>4, <1>5
<1>7. QED BY <1>6 DEF x, y, z, a, n

\* One more chunk.
LEMMA ChunkAdded ==
  ASSUME NEW got, Collected(got), Len(got) \in 3..NChunks+2, NEW T, NEW r \in Seq(T),
         Len(r) = Chunks(FRAME_PIXELS, MAX_READ)[Len(got) - 2]
  PROVE  /\ Collected(Append(got, r))
         /\ Pixels(Append(got, r)) = Pixels(got) \o r
         /\ Len(Pixels(Append(got, r))) = Len(Pixels(got)) + Len(r)
         /\ \E S : Pixels(got) \in Seq(S) /\ r \in Seq(S)
         /\ Len(r) \in 0..MAX_READ
<1> DEFINE a == Append(got, r)
           y == SubSeq(got, 4, Len(got))
           i == Len(got) - 2
<1>1. PICK S0 : got \in Seq(S0) BY DEF Collected, IsSeq
<1>2. PICK S1 : y \in Seq(Seq(S1)) BY DEF Collected
<1> DEFINE S == S1 \cup T
           Q == S0 \cup {r}
<1>3. got \in Seq(Q) /\ r \in Q /\ a \in Seq(Q) /\ Len(a) = Len(got) + 1 /\ Len(got) \in Nat BY <1>1
<1>4. SubSeq(a, 4, Len(a)) = Append(y, r)
  <2> HIDE DEF Q
  <2>1. Len(got) >= 3 BY <1>3
  <2>2. QED BY <1>3, <2>1, AppendTail
<1>5. y \in Seq(Seq(S)) /\ r \in Seq(S)
  <2>1. Seq(S1) \subseteq Seq(S) /\ Seq(T) \subseteq Seq(S) OBVIOUS
  <2> HIDE DEF y, S
  <2>2. QED BY <1>2, <2>1
<1> HIDE DEF y, S, Q
<1>6. Append(y, r) \in Seq(Seq(S))
  <2> DEFINE X == Seq(S)
  <2>1. y \in Seq(X) /\ r \in X BY <1>5
  <2> HIDE DEF X
  <2>2. Append(y, r) \in Seq(X) BY <2>1
  <2>3. QED BY <2>2 DEF X
<1>7. Pixels(a) = Pixels(got) \o r
  <2>1. Pixels(a) = FlattenSeq(Append(y, r)) BY <1>4 DEF Pixels
  <2>2. Pixels(got) = FlattenSeq(y) BY DEF Pixels, y
  <2>3. FlattenSeq(Append(y, r)) = FlattenSeq(y) \o r BY <1>5, FlattenAppend
  <2>4. QED BY <2>1, <2>2, <2>3
<1>8. Pixels(got) \in Seq(S) BY <1>5, FlattenType DEF Pixels, y
<1>9. i \in 1..NChunks BY <1>3, SomeChunks
<1>10. /\ Len(r) \in 0..MAX_READ /\ Done(i) = Done(i-1) + Len(r) /\ Done(i-1) \in Nat
  BY <1>9, ChunkSum DEF NChunks
<1>11. Len(Pixels(got)) = Done(i-1)
  <2>1. CASE Len(got) = 3
    <3>1. i - 1 = 0 BY <2>1
    <3>2. Done(0) = 0 BY StreamAssumption DEF Done
    <3>3. QED BY <2>1, <3>1, <3>2 DEF Collected
  <2>2. CASE Len(got) # 3
    <3>1. Len(got) \in Nat /\ Len(got) >= 3 BY <1>3, SomeChunks
    <3>2. PICK l \in Nat : l = Len(got) BY <3>1
    <3>3. ~ (l <= 3) /\ l - 3 = (l - 2) - 1 BY <2>2, <3>1, <3>2
    <3>4. ~ (Len(got) <= 3) /\ Len(got) - 3 = i - 1 BY <3>2, <3>3
    <3>5. QED BY <3>4 DEF Collected
  <2>3. QED BY <2>1, <2>2
<1>12. Len(Pixels(a)) = Len(Pixels(got)) + Len(r)
  <2>1. Len(Pixels(got) \o r) = Len(Pixels(got)) + Len(r) BY <1>5, <1>8, SecondPart
  <2>2. QED BY <1>7, <2>1
<1>13. Collected(a)
  <2>1. Len(Pixels(a)) = Done(i) BY <1>10, <1>11, <1>12
  <2>2. ~ (Len(a) <= 3) /\ Len(a) - 3 = i /\ Len(a) <= 3 + NChunks BY <1>3, SomeChunks
  <2>3. QED BY <1>3, <1>4, <1>6, <2>1, <2>2 DEF Collected, IsSeq
<1>14. QED BY <1>5, <1>7, <1>8, <1>10, <1>12, <1>13

\* Before the last chunk something is missing, after it nothing.
LEMMA HaveRange ==
  ASSUME NEW got, Collected(got)
  PROVE  /\ Len(got) \in Nat /\ Len(Pixels(got)) \in 0..FRAME_PIXELS
         /\ Len(got) < NChunks + 3 => Len(Pixels(got)) < FRAME_PIXELS
         /\ Len(got) >= NChunks + 3 => Len(Pixels(got)) = FRAME_PIXELS
<1>1. Len(got) \in Nat
  <2>1. PICK S : got \in Seq(S) BY DEF Collected, IsSeq
  <2>2. QED BY <2>1
<1>2. Len(Pixels(got)) = IF Len(got) <= 3 THEN 0 ELSE Done(Len(got) - 3) BY DEF Collected
<1>3. Len(Pixels(got)) \in 0..FRAME_PIXELS
  <2>1. CASE Len(got) <= 3 BY <1>2, <2>1, StreamAssumption
  <2>2. CASE ~ (Len(got) <= 3)
    <3>1. Len(got) - 3 \in Nat BY <1>1, <2>2
    <3>2. QED BY <1>2, <2>2, <3>1, DoneRange
  <2>3. QED BY <2>1, <2>2
<1>4. Len(got) < NChunks + 3 => Len(Pixels(got)) < FRAME_PIXELS
  <2>1. CASE Len(got) <= 3 BY <1>2, <2>1, StreamAssumption
  <2>2. CASE ~ (Len(got) <= 3) /\ Len(got) < NChunks + 3
    <3>1. PICK i \in 1..NChunks : i = Len(got) - 2 BY <1>1, <2>2, SomeChunks
    <3>2. Done(i-1) < FRAME_PIXELS BY <3>1, ChunkSum DEF NChunks
    <3>3. i - 1 = Len(got) - 3 BY <1>1, <3>1
    <3>4. QED BY <1>2, <2>2, <3>2, <3>3
  <2>3. QED BY <2>1, <2>2
<1>5. Len(got) >= NChunks + 3 => Len(Pixels(got)) = FRAME_PIXELS
  <2>1. SUFFICES ASSUME Len(got) >= NChunks + 3 PROVE Len(Pixels(got)) = FRAME_PIXELS OBVIOUS
  <2>2. NChunks \in 1..NChunks /\ ~ (Len(got) <= 3) BY <1>1, <2>1, SomeChunks
  <2>3. Len(got) - 3 = NChunks BY <1>1, <2>1, SomeChunks DEF Collected
  <2>4. Done(NChunks) = FRAME_PIXELS BY <2>2, ChunkSum DEF NChunks
  <2>5. QED BY <1>2, <2>2, <2>3, <2>4
<1>6. QED BY <1>1, <1>3, <1>4, <1>5

\* The answer to a chunk's read has that many pixels, whatever they are.
LEMMA ChunkAnswer ==
  ASSUME NEW d, NEW i, NEW n, ChunkRead(i).fn = "read"
  PROVE  /\ Answered(d, ChunkRead(i), n) = ServePixels(After(d, ChunkRead(i), n - 1),
                                                         Chunks(FRAME_PIXELS, MAX_READ)[i])
         /\ Chunks(FRAME_PIXELS, MAX_READ)[i] \in 1..125
         /\ ChunkRead(i).addr = STREAM_BASE
<1> DEFINE op == ChunkRead(i)
           c == Chunks(FRAME_PIXELS, MAX_READ)[i]
<1>1. c \in 1..125 /\ op = [fn |-> "read", addr |-> STREAM_BASE, count |-> c, value |-> 0]
  BY DEF ChunkRead, ReadHolding, Raise
<1> HIDE DEF c, op
<1>2. op.fn = "read" /\ op.addr = STREAM_BASE /\ op.count = c BY <1>1
<1>3. Answered(d, op, n) = Execute(After(d, op, n - 1), op) BY <1>2 DEF Answered
<1>4. \A e : Execute(e, op) = ReadRegs(e, STREAM_BASE, c) BY <1>2 DEF Execute
<1>5. \A e : ReadRegs(e, STREAM_BASE, c) = ServePixels(e, c) BY DEF ReadRegs, STREAM_BASE
<1>6. QED BY <1>1, <1>2, <1>3, <1>4, <1>5 DEF op, c

LEMMA ServesSeq ==
  ASSUME NEW d, NEW c \in Nat
  PROVE  \E T : ServePixels(d, c)[1] \in Seq(T) /\ Len(ServePixels(d, c)[1]) = c
<1> DEFINE x == ServePixels(d, c)[1]
<1>1. x = [i \in 1..c |-> x[i]] BY DEF ServePixels
<1> HIDE DEF x
<1>2. x \in Seq({x[i] : i \in 1..c}) /\ Len(x) = c BY <1>1
<1>3. QED BY <1>2 DEF x

-----------------------------------------------------------------------------
(* What a step does to the thread that makes it *)

\* The places of a grab, and those of them where it has no operation to make.
Aside == {"test", "require", "drop", "close", "clear", "leave"}
GrabPlaces == Aside \cup {"lock", "body", "fetch"}

\* What a thread asked for and received, and when, stays.
Keeps(t) ==
  /\ thread'[t].q = thread[t].q /\ thread'[t].got = thread[t].got
  /\ thread'[t].since = thread[t].since /\ thread'[t].asked = thread[t].asked

\* A step that gives a thread no answer and does not end a grab well.
Passes(t) ==
  /\ Keeps(t) /\ thread'[t].odd = thread[t].odd
  /\ thread'[t].at # "fetch" /\ (thread'[t].res = "cancelled" => thread[t].res = "cancelled")
  /\ thread[t].at # "idle" /\ thread'[t].at # "idle"
  /\ thread[t].q.route = "grab" /\ thread[t].at \in GrabPlaces =>
       /\ thread'[t].at \in Aside
       /\ thread'[t].res = "ok" => thread[t].res = "ok" /\ thread[t].at # "leave"
  /\ \/ board' = board
     \/ InBody(t) /\ \E n \in Nat : board' = After(board, thread[t].op, n)

\* A grab looks at the flag.
Watches(t) ==
  /\ Keeps(t) /\ thread'[t].odd = thread[t].odd /\ board' = board
  /\ InBody(t) /\ Grabbing(t) /\ thread[t].op.fn \in {"wait", "read"}
  /\ \/ progress.cancel /\ thread'[t].at = "leave" /\ thread'[t].res = "cancelled"
     \/ ~ progress.cancel /\ thread'[t].at = "fetch" /\ thread'[t].res = thread[t].res

Finishes(t) ==
  /\ Keeps(t) /\ thread'[t].odd = thread[t].odd /\ board' = board
  /\ InBody(t) /\ thread[t].op.fn = "end" /\ thread'[t].at = "leave" /\ thread'[t].res = "ok"

Receives(t, n) ==
  LET r == Answered(board, thread[t].op, n)
      op == thread[t].op
  IN
  /\ thread'[t].q = thread[t].q /\ thread'[t].got = Append(thread[t].got, r[1])
  /\ thread'[t].since = thread[t].since /\ thread'[t].asked = thread[t].asked
  /\ thread'[t].at = "body" /\ thread'[t].res = thread[t].res
  /\ InBody(t) /\ op.fn \notin {"raise", "end"} /\ n \in Nat \ {0}
  /\ thread[t].q.route = "grab" /\ op.fn = "read" => thread[t].at = "fetch"
  /\ op.fn = "wait" => n = 1 /\ ~ Status(board, op.addr)
  /\ board' = r[2]
  /\ thread[t].odd \subseteq thread'[t].odd
  /\ thread'[t].odd \subseteq thread[t].odd \cup {"twice", "running"}
  /\ n > 1 /\ Repeats(op) => "twice" \in thread'[t].odd
  /\ op.addr = REG_GRAB /\ op.value = 1 /\ board.engine = "capture" => "running" \in thread'[t].odd

Starts(t) ==
  /\ Keeps(t) /\ thread'[t].odd = thread[t].odd /\ board' = board
  /\ thread[t].at = "require" /\ thread'[t].at = "body" /\ thread'[t].res = thread[t].res

LEMMA FailPasses ==
  ASSUME ThreadRecords, NEW t \in Threads, NEW res, res \in {"error", "lost", "crash"}, Fail(t, res),
         thread[t].at \in {"test", "require", "body", "fetch"},
         board' = board \/ (InBody(t) /\ \E n \in Nat : board' = After(board, thread[t].op, n))
  PROVE  Passes(t)
<1> DEFINE at == IF res = "lost" /\ thread[t].q.route # "connect" THEN "drop" ELSE "leave"
<1>1. thread' = [thread EXCEPT ![t].res = res, ![t].at = at] BY DEF Fail
<1>2. at \in {"drop", "leave"} OBVIOUS
<1> HIDE DEF at
<1>3. Keeps(t) /\ thread'[t].odd = thread[t].odd /\ thread'[t].at = at /\ thread'[t].res = res
  BY <1>1 DEF ThreadRecords, Keeps
<1>4. res # "ok" /\ res # "cancelled" OBVIOUS
<1>5. QED BY <1>2, <1>3, <1>4 DEF Passes, Aside

LEMMA MovePasses ==
  ASSUME ThreadRecords, NEW t \in Threads, NEW at, board' = board,
         thread' = [thread EXCEPT ![t].at = at],
         thread[t].at \notin {"idle", "leave"}, at \notin {"idle", "fetch"},
         thread[t].q.route = "grab" /\ thread[t].at \in GrabPlaces => at \in Aside
  PROVE  Passes(t)
<1>1. /\ Keeps(t) /\ thread'[t].odd = thread[t].odd /\ thread'[t].at = at /\ thread'[t].res = thread[t].res
  BY DEF ThreadRecords, Keeps
<1>2. QED BY <1>1 DEF Passes

LEMMA EndPasses ==
  ASSUME ThreadRecords, NEW t \in Threads, NEW res, board' = board, Ends(t, res),
         thread[t].at \notin {"idle", "leave"}, res # "cancelled",
         thread[t].q.route = "grab" /\ thread[t].at \in GrabPlaces =>
           res # "ok"
  PROVE  Passes(t)
<1>1. /\ Keeps(t) /\ thread'[t].odd = thread[t].odd /\ thread'[t].at = "leave" /\ thread'[t].res = res
  BY DEF ThreadRecords, Keeps, Ends
<1>2. QED BY <1>1 DEF Passes, Aside

LEMMA AnswersReceives ==
  ASSUME ThreadRecords, NEW t \in Threads, NEW n \in 1..Resends+1, InBody(t), Answers(t, n)
  PROVE  Receives(t, n)
<1> DEFINE r == Answered(board, thread[t].op, n)
           odd == (IF n > 1 /\ Repeats(thread[t].op) THEN {"twice"} ELSE {})
                    \cup (IF thread[t].op.addr = REG_GRAB /\ thread[t].op.value = 1 /\ board.engine = "capture"
                          THEN {"running"} ELSE {})
           got == Append(thread[t].got, r[1])
           op == OpAfter(thread[t].q, got)
<1>1. thread' = [thread EXCEPT ![t].at = "body", ![t].got = got, ![t].odd = @ \cup odd, ![t].op = op]
  BY DEF Answers
<1>2. /\ thread[t].op.fn \notin {"raise", "end"} /\ board' = r[2]
      /\ (thread[t].op.fn = "wait" => n = 1 /\ ~ Status(board, thread[t].op.addr))
      /\ (thread[t].q.route = "grab" /\ thread[t].op.fn = "read" => thread[t].at = "fetch")
  BY DEF Answers, Calling, Chunk, Grabbing, InBody
<1>3. n \in Nat \ {0} BY ResendAssumption
<1>4. /\ odd \subseteq {"twice", "running"}
      /\ n > 1 /\ Repeats(thread[t].op) => "twice" \in odd
      /\ thread[t].op.addr = REG_GRAB /\ thread[t].op.value = 1 /\ board.engine = "capture" => "running" \in odd
  OBVIOUS
<1>5. got = Append(thread[t].got, r[1]) OBVIOUS
<1> HIDE DEF op, got, odd, r
<1>6. /\ thread'[t].q = thread[t].q /\ thread'[t].got = got
      /\ thread'[t].since = thread[t].since /\ thread'[t].asked = thread[t].asked
      /\ thread'[t].at = "body" /\ thread'[t].res = thread[t].res
      /\ thread'[t].odd = thread[t].odd \cup odd
  BY <1>1 DEF ThreadRecords
<1>7. thread[t].odd \subseteq thread'[t].odd /\ thread'[t].odd \subseteq thread[t].odd \cup {"twice", "running"}
      /\ (n > 1 /\ Repeats(thread[t].op) => "twice" \in thread'[t].odd)
      /\ (thread[t].op.addr = REG_GRAB /\ thread[t].op.value = 1 /\ board.engine = "capture"
            => "running" \in thread'[t].odd)
  BY <1>4, <1>6
<1>8. QED BY <1>2, <1>3, <1>5, <1>6, <1>7 DEF Receives, r

LEMMA Summary ==
  ASSUME Records, NEW t \in Threads, Step(t)
  PROVE  /\ \A u \in Threads \ {t} : thread'[u] = thread[u]
         /\ ThreadRecords'
         /\ progress'.cancel = progress.cancel
         /\ \/ Passes(t) \/ Watches(t) \/ Finishes(t) \/ Starts(t)
            \/ \E n \in 1..Resends+1 : Receives(t, n)
            \/ thread[t].at = "leave" /\ thread'[t] = Idle /\ board' = board
<1> USE DEF Records
<1>1. CASE StateConnected(t)
  <2>1. thread[t].at = "state" /\ board' = board BY <1>1 DEF StateConnected, Board
  <2>2. CASE client = NoClient
    <3>1. Ends(t, "ok") BY <1>1, <2>2 DEF StateConnected
    <3>2. Passes(t) BY <2>1, <3>1, EndPasses DEF GrabPlaces, Aside
    <3>3. QED BY <1>1, <3>1, <3>2 DEF StateConnected, Ends, ThreadRecords
  <2>3. CASE client # NoClient
    <3>1. Goto(t, "describe") BY <1>1, <2>3 DEF StateConnected
    <3> DEFINE at == "describe"
    <3>2. thread' = [thread EXCEPT ![t].at = at] /\ at \notin {"idle", "fetch"} BY <3>1 DEF Goto
    <3> HIDE DEF at
    <3>3. Passes(t) BY <2>1, <3>2, MovePasses DEF GrabPlaces, Aside
    <3>4. QED BY <1>1, <3>2, <3>3 DEF StateConnected, ThreadRecords
  <2>4. QED BY <2>2, <2>3
<1>2. CASE StateDescribe(t)
  <2>1. thread[t].at = "describe" /\ board' = board BY <1>2 DEF StateDescribe, Board
  <2> DEFINE res == IF client = NoClient THEN "crash" ELSE "ok"
  <2>2. Ends(t, res) BY <1>2 DEF StateDescribe
  <2>3. res # "cancelled" OBVIOUS
  <2> HIDE DEF res
  <2>4. Passes(t) BY <2>1, <2>2, <2>3, EndPasses DEF GrabPlaces, Aside
  <2>5. QED BY <1>2, <2>2, <2>4 DEF StateDescribe, Ends, ThreadRecords
<1>3. CASE Acquire(t)
  <2> DEFINE at == IF thread[t].q.route \in {"connect", "disconnect"} THEN "drop" ELSE "test"
  <2>1. /\ thread' = [thread EXCEPT ![t].at = at] /\ thread[t].at = "lock"
        /\ progress' = progress /\ board' = board
    BY <1>3 DEF Acquire, Goto, Board
  <2>2. at \in {"drop", "test"} OBVIOUS
  <2> HIDE DEF at
  <2>3. Passes(t) BY <2>1, <2>2, MovePasses DEF Aside
  <2>4. QED BY <2>1, <2>3 DEF ThreadRecords
<1>4. CASE Drop(t)
  <2> DEFINE at == IF client = NoClient THEN Dropped(t) ELSE "close"
  <2>1. /\ thread' = [thread EXCEPT ![t].at = at] /\ thread[t].at = "drop"
        /\ progress' = progress /\ board' = board
    BY <1>4 DEF Drop, Goto, Board
  <2>2. at \in {"open", "leave", "close"} /\ (thread[t].q.route = "grab" => at # "open") BY DEF Dropped
  <2> HIDE DEF at
  <2>3. Passes(t) BY <2>1, <2>2, MovePasses DEF Aside
  <2>4. QED BY <2>1, <2>3 DEF ThreadRecords
<1>5. CASE Close(t)
  <2>1. thread[t].at = "close" /\ progress' = progress /\ board' = board BY <1>5 DEF Close, Board
  <2>2. CASE client = NoClient
    <3>1. Ends(t, "crash") BY <1>5, <2>2 DEF Close
    <3>2. Passes(t) BY <2>1, <3>1, EndPasses
    <3>3. QED BY <2>1, <3>1, <3>2 DEF Ends, ThreadRecords
  <2>3. CASE client # NoClient
    <3> DEFINE at == "clear"
    <3>1. thread' = [thread EXCEPT ![t].at = at] BY <1>5, <2>3 DEF Close, Goto
    <3>2. at \in Aside /\ at \notin {"idle", "fetch"} BY DEF Aside
    <3> HIDE DEF at
    <3>3. Passes(t) BY <2>1, <3>1, <3>2, MovePasses
    <3>4. QED BY <2>1, <3>1, <3>3 DEF ThreadRecords
  <2>4. QED BY <2>2, <2>3
<1>6. CASE Clear(t)
  <2>1. /\ thread' = [thread EXCEPT ![t].at = Dropped(t)] /\ thread[t].at = "clear"
        /\ progress' = progress /\ board' = board
    BY <1>6 DEF Clear, Goto, Board
  <2>2. Dropped(t) \in {"open", "leave"} /\ (thread[t].q.route = "grab" => Dropped(t) # "open") BY DEF Dropped
  <2>3. Passes(t) BY <2>1, <2>2, MovePasses DEF Aside
  <2>4. QED BY <2>1, <2>3 DEF ThreadRecords
<1>7. CASE Open(t)
  <2>1. thread[t].at = "open" /\ progress' = progress /\ board' = board BY <1>7 DEF Open, Board
  <2>2. CASE port /\ handles = {}
    <3>1. PICK c : thread' = [thread EXCEPT ![t].at = "body", ![t].conn = c] BY <1>7, <2>2 DEF Open
    <3>2. /\ Keeps(t) /\ thread'[t].odd = thread[t].odd /\ thread'[t].at = "body"
          /\ thread'[t].res = thread[t].res
          /\ ThreadRecords' /\ \A u \in Threads \ {t} : thread'[u] = thread[u]
      BY <3>1 DEF ThreadRecords, Keeps
    <3>3. Passes(t) BY <2>1, <3>2 DEF Passes, GrabPlaces, Aside
    <3>4. QED BY <2>1, <3>2, <3>3
  <2>3. CASE ~ (port /\ handles = {})
    <3>1. Ends(t, "error") BY <1>7, <2>3 DEF Open
    <3>2. Passes(t) BY <2>1, <3>1, EndPasses
    <3>3. QED BY <2>1, <3>1, <3>2 DEF Ends, ThreadRecords
  <2>4. QED BY <2>2, <2>3
<1>8. ASSUME NEW res, res \in {"error", "lost", "crash", "cancelled"}, Fail(t, res)
      PROVE  ThreadRecords' /\ \A u \in Threads \ {t} : thread'[u] = thread[u]
  <2>1. \E at : thread' = [thread EXCEPT ![t].res = res, ![t].at = at] BY <1>8 DEF Fail
  <2>2. QED BY <2>1 DEF ThreadRecords
<1>9. ASSUME NEW res, res \in {"error", "lost", "crash"}, Fail(t, res), progress' = progress,
             thread[t].at \in {"test", "require", "body", "fetch"},
             board' = board \/ (InBody(t) /\ \E n \in Nat : board' = After(board, thread[t].op, n))
      PROVE  /\ ThreadRecords' /\ (\A u \in Threads \ {t} : thread'[u] = thread[u])
             /\ progress'.cancel = progress.cancel /\ Passes(t)
  BY <1>8, <1>9, FailPasses
<1>10. CASE Test(t)
  <2>1. thread[t].at = "test" /\ progress' = progress /\ board' = board BY <1>10 DEF Test, Board
  <2>2. CASE client = NoClient BY <1>9, <1>10, <2>1, <2>2 DEF Test
  <2>3. CASE client # NoClient
    <3> DEFINE at == "require"
    <3>1. thread' = [thread EXCEPT ![t].at = at] BY <1>10, <2>3 DEF Test, Goto
    <3>2. at \in Aside /\ at \notin {"idle", "fetch"} BY DEF Aside
    <3> HIDE DEF at
    <3>3. Passes(t) BY <2>1, <3>1, <3>2, MovePasses
    <3>4. QED BY <2>1, <3>1, <3>3 DEF ThreadRecords
  <2>4. QED BY <2>2, <2>3
<1>11. CASE _require_client(t)
  <2>1. thread[t].at = "require" /\ progress' = progress /\ board' = board
    BY <1>11 DEF _require_client, Board
  <2>2. CASE client = NoClient BY <1>9, <1>11, <2>1, <2>2 DEF _require_client
  <2>3. CASE client # NoClient
    <3>1. thread' = [thread EXCEPT ![t].at = "body", ![t].conn = client] BY <1>11, <2>3 DEF _require_client
    <3>2. /\ Keeps(t) /\ thread'[t].odd = thread[t].odd /\ thread'[t].at = "body"
          /\ thread'[t].res = thread[t].res
          /\ ThreadRecords' /\ \A u \in Threads \ {t} : thread'[u] = thread[u]
      BY <3>1 DEF ThreadRecords, Keeps
    <3>3. Starts(t) BY <2>1, <3>2 DEF Starts
    <3>4. QED BY <2>1, <3>2, <3>3
  <2>4. QED BY <2>2, <2>3
<1>12. ASSUME InBody(t) PROVE thread[t].at \in {"test", "require", "body", "fetch"} BY <1>12 DEF InBody
<1>13. CASE InBody(t) /\ Rejected(t) BY <1>13, <1>9, <1>12 DEF Rejected
<1>14. CASE InBody(t) /\ Deadline(t) BY <1>14, <1>9, <1>12 DEF Deadline
<1>15. CASE InBody(t) /\ Loses(t) BY <1>15, <1>9, <1>12 DEF Loses
<1>16. CASE InBody(t) /\ \E n \in 0..Resends+1 : TimesOut(t, n)
  <2>1. PICK n \in 0..Resends+1 : TimesOut(t, n) BY <1>16
  <2>2. n \in Nat BY ResendAssumption
  <2>3. Fail(t, "error") /\ progress' = progress /\ board' = After(board, thread[t].op, n)
    BY <2>1 DEF TimesOut
  <2>4. QED BY <1>9, <1>12, <1>16, <2>2, <2>3
<1>17. CASE InBody(t) /\ Looks(t)
  <2>1. /\ Grabbing(t) /\ thread[t].op.fn \in {"wait", "read"}
        /\ board' = board /\ progress' = progress /\ thread[t].at = "body"
    BY <1>17 DEF Looks, Board
  <2>2. CASE progress.cancel
    <3>1. Fail(t, "cancelled") BY <1>17, <2>2 DEF Looks, should_cancel
    <3>2. thread' = [thread EXCEPT ![t].res = "cancelled", ![t].at = "leave"] BY <3>1 DEF Fail
    <3>3. /\ Keeps(t) /\ thread'[t].odd = thread[t].odd /\ thread'[t].at = "leave"
          /\ thread'[t].res = "cancelled"
      BY <3>2 DEF ThreadRecords, Keeps
    <3>4. Watches(t) BY <1>17, <2>1, <2>2, <3>3 DEF Watches
    <3>5. QED BY <1>8, <2>1, <3>1, <3>4
  <2>3. CASE ~ progress.cancel
    <3>1. thread' = [thread EXCEPT ![t].at = "fetch"] BY <1>17, <2>3 DEF Looks, should_cancel, Goto
    <3>2. /\ Keeps(t) /\ thread'[t].odd = thread[t].odd /\ thread'[t].at = "fetch"
          /\ thread'[t].res = thread[t].res
          /\ ThreadRecords' /\ \A u \in Threads \ {t} : thread'[u] = thread[u]
      BY <3>1 DEF ThreadRecords, Keeps
    <3>3. Watches(t) BY <1>17, <2>1, <2>3, <3>2 DEF Watches
    <3>4. QED BY <2>1, <3>2, <3>3
  <2>4. QED BY <2>2, <2>3
<1>18. CASE InBody(t) /\ Completes(t)
  <2>1. /\ thread' = [thread EXCEPT ![t].at = "leave", ![t].res = "ok"]
        /\ thread[t].op.fn = "end" /\ board' = board /\ progress' = progress
    BY <1>18 DEF Completes, Ends
  <2>2. /\ Keeps(t) /\ thread'[t].odd = thread[t].odd /\ thread'[t].at = "leave"
        /\ thread'[t].res = "ok"
        /\ ThreadRecords' /\ \A u \in Threads \ {t} : thread'[u] = thread[u]
    BY <2>1 DEF ThreadRecords, Keeps
  <2>3. Finishes(t) BY <1>18, <2>1, <2>2 DEF Finishes
  <2>4. QED BY <2>1, <2>2, <2>3
<1>19. CASE InBody(t) /\ \E n \in 1..Resends+1 : Answers(t, n)
  <2>1. PICK n \in 1..Resends+1 : Answers(t, n) BY <1>19
  <2>2. Receives(t, n) BY <1>19, <2>1, AnswersReceives
  <2>3. ThreadRecords' /\ \A u \in Threads \ {t} : thread'[u] = thread[u]
    <3>1. \E got, op, odd :
            thread' = [thread EXCEPT ![t].at = "body", ![t].got = got, ![t].odd = odd, ![t].op = op]
      BY <2>1 DEF Answers
    <3>2. QED BY <3>1 DEF ThreadRecords
  <2>4. progress'.cancel = progress.cancel
    <3>1. \E x : progress' = [progress EXCEPT !.done = x] \/ progress' = progress
      BY <2>1 DEF Answers
    <3>2. QED BY <3>1
  <2>5. QED BY <2>2, <2>3, <2>4
<1>20. CASE Leave(t)
  <2>1. /\ thread' = [thread EXCEPT ![t] = Idle] /\ thread[t].at = "leave" /\ board' = board
        /\ progress' = IF Grabbing(t) THEN GrabOver(t) ELSE progress
    BY <1>20 DEF Leave, Board
  <2>2. progress'.cancel = progress.cancel BY <2>1 DEF GrabOver
  <2>3. DOMAIN Idle = {"at", "q", "conn", "op", "got", "res", "since", "odd", "asked"} BY DEF Idle
  <2>4. ThreadRecords' /\ thread'[t] = Idle /\ \A u \in Threads \ {t} : thread'[u] = thread[u]
    BY <2>1, <2>3 DEF ThreadRecords
  <2>5. QED BY <2>1, <2>2, <2>4
<1>21. QED
  BY <1>1, <1>2, <1>3, <1>4, <1>5, <1>6, <1>7, <1>10, <1>11, <1>13, <1>14, <1>15, <1>16, <1>17, <1>18,
     <1>19, <1>20
  DEF Step, Operates

-----------------------------------------------------------------------------
(* A cancel is honoured *)

Have(t) == Len(Pixels(thread[t].got))

CancelOf(t) ==
  /\ Collected(thread[t].got) /\ thread[t].asked \in 0..FRAME_PIXELS
  /\ progress.cancel => thread[t].asked <= Have(t)
  /\ thread[t].res = "cancelled" => thread[t].asked < FRAME_PIXELS
  /\ Alone(t) =>
       /\ thread[t].asked # FRAME_PIXELS => progress.cancel
       /\ Have(t) <= thread[t].asked + MAX_READ
       /\ thread[t].at = "fetch" => Have(t) <= thread[t].asked

CancelInv == \A t \in Threads : Grabbing(t) => CancelOf(t)

\* A thread that goes on with what it has.
LEMMA CancelKept ==
  ASSUME NEW u \in Threads, Grabbing(u), CancelOf(u),
         thread'[u].got = thread[u].got, thread'[u].asked = thread[u].asked,
         thread'[u].res = "cancelled" => thread[u].res = "cancelled" \/ thread[u].asked < FRAME_PIXELS,
         Alone(u)' => Alone(u),
         Alone(u)' /\ thread'[u].at = "fetch" => thread[u].at = "fetch" \/ Have(u) <= thread[u].asked,
         progress'.cancel => progress.cancel, Alone(u)' => progress'.cancel = progress.cancel
  PROVE  CancelOf(u)'
<1>1. Pixels(thread[u].got)' = Pixels(thread[u].got) BY DEF Pixels
<1>2. Have(u)' = Have(u) BY <1>1 DEF Have
<1>3. Collected(thread[u].got)'
  <2>1. Collected(thread[u].got)' <=> Collected(thread'[u].got) BY DEF Collected, IsSeq, Pixels, NChunks
  <2>2. QED BY <2>1 DEF CancelOf
<1>4. QED BY <1>2, <1>3 DEF CancelOf

LEMMA CancelReceives ==
  ASSUME Follows, NEW t \in Threads, Grabbing(t), CancelOf(t), NEW n, Receives(t, n), thread'[t].at # "idle",
         progress'.cancel = progress.cancel
  PROVE  CancelOf(t)'
<1> DEFINE got == thread[t].got
           op == thread[t].op
           r == Answered(board, op, n)[1]
           new == Append(got, r)
<1>1. /\ thread'[t].got = new /\ thread'[t].asked = thread[t].asked /\ thread'[t].res = thread[t].res
      /\ thread'[t].at = "body" /\ InBody(t) /\ thread'[t].q = thread[t].q
      /\ op.fn \notin {"raise", "end"} /\ (op.fn = "read" => thread[t].at = "fetch")
      /\ thread[t].odd \subseteq thread'[t].odd
  BY DEF Receives, Grabbing
<1>2. IsSeq(got) /\ op = OpAfter(thread[t].q, got) /\ thread[t].q.route = "grab"
  BY <1>1 DEF Follows, Grabbing, InBody
<1>3. Collected(got) BY DEF CancelOf
<1>4. Collected(new) /\ Len(Pixels(got)) <= Len(Pixels(new)) /\ Len(Pixels(new)) \in Nat
      /\ (op.fn = "read" => Len(Pixels(new)) <= Len(Pixels(got)) + MAX_READ)
      /\ (op.fn # "read" => Len(Pixels(new)) = 0)
  <2>1. CASE op.fn = "read"
    <3> DEFINE i == Len(got) - 2
               c == Chunks(FRAME_PIXELS, MAX_READ)[i]
    <3>1. Len(got) \in 3..NChunks+2 BY <1>2, <2>1, GrabAt
    <3>2. op = ChunkRead(i) BY <1>2, <3>1, GrabOp
    <3> HIDE DEF i, op
    <3>3. /\ Answered(board, op, n) = ServePixels(After(board, op, n - 1), c) /\ c \in 1..125
      BY <2>1, <3>2, ChunkAnswer
    <3> HIDE DEF c
    <3>4. PICK T : r \in Seq(T) /\ Len(r) = c
      <4>1. c \in Nat BY <3>3
      <4>2. QED BY <3>3, <4>1, ServesSeq DEF op
    <3> HIDE DEF r
    <3>5. Len(r) = Chunks(FRAME_PIXELS, MAX_READ)[Len(got) - 2] BY <3>4 DEF c, i
    <3>6. /\ Collected(new) /\ Len(Pixels(new)) = Len(Pixels(got)) + Len(r) /\ Len(r) \in 0..MAX_READ
      BY <1>3, <3>1, <3>4, <3>5, ChunkAdded
    <3>7. Len(Pixels(got)) \in Nat BY <1>3, HaveRange
    <3> HIDE DEF new, got
    <3>8. QED BY <2>1, <3>6, <3>7, StreamAssumption DEF op
  <2>2. CASE op.fn # "read"
    <3>1. Len(got) < 3 /\ Len(got) \in Nat
      <4>1. OpAfter(thread[t].q, got).fn \notin {"raise", "end", "read"} BY <1>1, <1>2, <2>2
      <4>2. QED BY <1>2, <4>1, GrabReads, GrabOp
    <3>2. IsSeq(new) /\ Len(new) = Len(got) + 1
      <4>1. PICK S : got \in Seq(S) BY <1>2 DEF IsSeq
      <4> HIDE DEF r
      <4>2. got \in Seq(S \cup {r}) /\ r \in S \cup {r} BY <4>1
      <4>3. new \in Seq(S \cup {r}) /\ Len(new) = Len(got) + 1 BY <4>2
      <4>4. QED BY <4>3 DEF IsSeq
    <3> HIDE DEF new
    <3>3. Len(new) < 4 BY <3>1, <3>2
    <3>4. Collected(new) /\ Pixels(new) = <<>> BY <3>2, <3>3, NothingYet
    <3>5. Len(got) < 4 BY <3>1
    <3>6. Pixels(got) = <<>> BY <1>2, <3>5, NothingYet
    <3>7. QED BY <2>2, <3>4, <3>6
  <2>3. QED BY <2>1, <2>2
<1>5. Len(Pixels(got)) \in Nat BY <1>3, HaveRange
<1> HIDE DEF new
<1>6. Pixels(thread[t].got)' = Pixels(new) BY <1>1 DEF Pixels
<1> DEFINE have == Len(Pixels(got))
           more == Len(Pixels(new))
<1>7. Have(t)' = more /\ Have(t) = have BY <1>6 DEF Have
<1>8. Collected(thread[t].got)' <=> Collected(new) BY <1>1 DEF Collected, IsSeq, Pixels, NChunks
<1>9. Alone(t)' => Alone(t) BY <1>1 DEF Alone
<1>10. Alone(t) => more <= thread[t].asked + MAX_READ
  <2>1. SUFFICES ASSUME Alone(t) PROVE more <= thread[t].asked + MAX_READ OBVIOUS
  <2>2. thread[t].asked \in Nat BY DEF CancelOf
  <2>3. CASE op.fn = "read"
    <3>1. have <= thread[t].asked BY <1>1, <1>7, <2>1, <2>3 DEF CancelOf
    <3>2. more <= have + MAX_READ /\ have \in Nat /\ more \in Nat BY <1>4, <1>5, <2>3
    <3> HIDE DEF have, more
    <3>3. QED BY <2>2, <3>1, <3>2, StreamAssumption
  <2>4. CASE op.fn # "read"
    <3>1. more = 0 BY <1>4, <2>4
    <3> HIDE DEF more
    <3>2. QED BY <2>2, <3>1, StreamAssumption
  <2>5. QED BY <2>3, <2>4
<1>11. progress.cancel => thread[t].asked <= more
  <2>1. thread[t].asked \in Nat /\ have <= more /\ have \in Nat /\ more \in Nat BY <1>4, <1>5 DEF CancelOf
  <2>2. progress.cancel => thread[t].asked <= have BY <1>7 DEF CancelOf
  <2> HIDE DEF have, more
  <2>3. QED BY <2>1, <2>2
<1>12. Collected(new) BY <1>4
<1> HIDE DEF got, op, r, have, more
<1>13. QED BY <1>1, <1>7, <1>8, <1>9, <1>10, <1>11, <1>12 DEF CancelOf

LEMMA CancelThread ==
  ASSUME Records, Follows, CancelInv, NEW t \in Threads, Step(t)
  PROVE  CancelInv'
<1>1. /\ \A u \in Threads \ {t} : thread'[u] = thread[u]
      /\ progress'.cancel = progress.cancel
      /\ \/ Passes(t) \/ Watches(t) \/ Finishes(t) \/ Starts(t)
         \/ \E n \in 1..Resends+1 : Receives(t, n)
         \/ thread[t].at = "leave" /\ thread'[t] = Idle /\ board' = board
  BY Summary
<1>2. ASSUME NEW u \in Threads \ {t}, Grabbing(u)' PROVE CancelOf(u)'
  <2>1. Grabbing(u) BY <1>1, <1>2 DEF Grabbing
  <2>2. CancelOf(u) BY <2>1 DEF CancelInv
  <2>3. Alone(u)' => Alone(u) BY <1>1, <1>2 DEF Alone, Grabbing
  <2>4. thread'[u] = thread[u] BY <1>1
  <2>5. QED BY <1>1, <2>1, <2>2, <2>3, <2>4, CancelKept
<1>3. ASSUME Grabbing(t)' PROVE CancelOf(t)'
  <2>1. CASE Passes(t)
    <3>1. /\ Grabbing(t) /\ thread'[t].got = thread[t].got /\ thread'[t].asked = thread[t].asked
          /\ thread'[t].odd = thread[t].odd /\ thread'[t].at # "fetch"
          /\ (thread'[t].res = "cancelled" => thread[t].res = "cancelled")
      BY <1>3, <2>1 DEF Passes, Keeps, Grabbing
    <3>2. CancelOf(t) BY <3>1 DEF CancelInv
    <3>3. Alone(t)' => Alone(t) BY <3>1 DEF Alone
    <3>4. QED BY <1>1, <3>1, <3>2, <3>3, CancelKept
  <2>2. CASE Watches(t)
    <3>1. /\ Grabbing(t) /\ thread'[t].got = thread[t].got /\ thread'[t].asked = thread[t].asked
          /\ thread'[t].odd = thread[t].odd /\ thread[t].op.fn \in {"wait", "read"} /\ InBody(t)
      BY <2>2 DEF Watches, Keeps
    <3>2. CancelOf(t) BY <3>1 DEF CancelInv
    <3>3. Alone(t)' => Alone(t) BY <3>1 DEF Alone
    <3>4. thread[t].asked \in Nat /\ Have(t) \in 0..FRAME_PIXELS
      BY <3>2, HaveRange DEF CancelOf, Have
    <3>5. CASE progress.cancel
      <4>1. thread'[t].at = "leave" BY <2>2, <3>5 DEF Watches
      <4>2. Have(t) < FRAME_PIXELS
        <5> DEFINE got == thread[t].got
        <5>1. IsSeq(got) /\ thread[t].op = OpAfter(thread[t].q, got) /\ thread[t].q.route = "grab"
          BY <3>1 DEF Follows, Grabbing, InBody
        <5> HIDE DEF got
        <5>2. Len(got) = 1 \/ Len(got) \in 3..NChunks+2 BY <3>1, <5>1, GrabAt
        <5>3. Len(got) \in Nat BY <5>1, GrabOp
        <5>4. Len(got) < NChunks + 3 BY <5>2, <5>3, SomeChunks
        <5>5. Collected(got) BY <3>2 DEF CancelOf, got
        <5>6. QED BY <5>4, <5>5, HaveRange DEF Have, got
      <4>3. thread[t].asked <= Have(t) BY <3>2, <3>5 DEF CancelOf
      <4>4. thread[t].asked < FRAME_PIXELS BY <3>4, <4>2, <4>3, StreamAssumption
      <4>5. QED BY <1>1, <3>1, <3>2, <3>3, <4>1, <4>4, CancelKept
    <3>6. CASE ~ progress.cancel
      <4>1. thread'[t].at = "fetch" /\ thread'[t].res = thread[t].res BY <2>2, <3>6 DEF Watches
      <4>2. Alone(t) => thread[t].asked = FRAME_PIXELS BY <3>2, <3>6 DEF CancelOf
      <4>3. Alone(t)' => Have(t) <= thread[t].asked BY <3>3, <3>4, <4>2, StreamAssumption
      <4>4. QED BY <1>1, <3>1, <3>2, <3>3, <4>1, <4>3, CancelKept
    <3>7. QED BY <3>5, <3>6
  <2>3. CASE Finishes(t) \/ Starts(t)
    <3>1. /\ Grabbing(t) /\ thread'[t].got = thread[t].got /\ thread'[t].asked = thread[t].asked
          /\ thread'[t].odd = thread[t].odd /\ thread'[t].at # "fetch"
          /\ (thread'[t].res = "cancelled" => thread[t].res = "cancelled")
      BY <1>3, <2>3 DEF Finishes, Starts, Keeps, Grabbing, InBody
    <3>2. CancelOf(t) BY <3>1 DEF CancelInv
    <3>3. Alone(t)' => Alone(t) BY <3>1 DEF Alone
    <3>4. QED BY <1>1, <3>1, <3>2, <3>3, CancelKept
  <2>4. CASE \E n \in 1..Resends+1 : Receives(t, n)
    <3>1. PICK n : Receives(t, n) BY <2>4
    <3>2. Grabbing(t) BY <1>3, <3>1 DEF Receives, Grabbing, InBody
    <3>3. CancelOf(t) BY <3>2 DEF CancelInv
    <3>4. thread'[t].at # "idle" BY <1>3 DEF Grabbing
    <3>5. QED BY <1>1, <3>1, <3>2, <3>3, <3>4, CancelReceives
  <2>5. CASE thread'[t] = Idle BY <1>3, <2>5 DEF Grabbing, Idle
  <2>6. QED BY <1>1, <2>1, <2>2, <2>3, <2>4, <2>5
<1>4. QED BY <1>2, <1>3 DEF CancelInv

\* A grab that comes clears the flag for all of them.
LEMMA CancelAsk ==
  ASSUME Records, CancelInv, NEW t \in Threads, NEW q, Ask(t, q) PROVE CancelInv'
<1> DEFINE both == {u \in Threads : q.route = "grab" /\ Grabbing(u)}
           at == IF q.route = "state" THEN "state" ELSE "lock"
           new == [Idle EXCEPT !.at = at, !.q = q, !.op = OpAfter(q, <<>>), !.since = board.shot]
           mine == [new EXCEPT !.odd = IF both = {} THEN {} ELSE {"shared"}]
<1>1. /\ thread' = [u \in Threads |->
           IF u = t THEN mine
           ELSE IF u \in both THEN [thread[u] EXCEPT !.odd = @ \cup {"shared"}] ELSE thread[u]]
      /\ progress' = IF q.route = "grab" THEN [active |-> TRUE, done |-> 0, cancel |-> FALSE]
                     ELSE progress
  BY DEF Ask
<1>2. /\ mine.q = q /\ mine.got = <<>> /\ mine.asked = FRAME_PIXELS /\ mine.res = "none"
      /\ mine.at # "fetch"
  BY DEF Idle
<1> HIDE DEF mine
<1>3. ASSUME NEW u \in Threads \ {t}, Grabbing(u)' PROVE CancelOf(u)'
  <2>1. thread'[u] = IF u \in both THEN [thread[u] EXCEPT !.odd = @ \cup {"shared"}] ELSE thread[u]
    BY <1>1
  <2>2. /\ thread'[u].at = thread[u].at /\ thread'[u].q = thread[u].q
        /\ thread'[u].got = thread[u].got /\ thread'[u].res = thread[u].res
        /\ thread'[u].asked = thread[u].asked
        /\ thread'[u].odd = IF u \in both THEN thread[u].odd \cup {"shared"} ELSE thread[u].odd
    <3>1. DOMAIN thread[u] = {"at", "q", "conn", "op", "got", "res", "since", "odd", "asked"}
      BY DEF ThreadRecords, Records
    <3> HIDE DEF both
    <3>2. QED BY <2>1, <3>1
  <2>3. Grabbing(u) BY <1>3, <2>2 DEF Grabbing
  <2>4. CancelOf(u) BY <2>3 DEF CancelInv
  <2>5. Alone(u)' => Alone(u) /\ q.route # "grab" BY <2>2, <2>3 DEF Alone
  <2>6. (progress'.cancel => progress.cancel) /\ (q.route # "grab" => progress' = progress) BY <1>1
  <2>7. QED BY <2>2, <2>3, <2>4, <2>5, <2>6, CancelKept
<1>4. ASSUME Grabbing(t)' PROVE CancelOf(t)'
  <2>1. thread'[t] = mine BY <1>1
  <2>2. q.route = "grab" /\ ~ progress'.cancel BY <1>1, <1>2, <1>4, <2>1 DEF Grabbing
  <2>3. thread'[t].got = <<>> BY <1>2, <2>1
  <2>4. Collected(<<>>) /\ Pixels(<<>>) = <<>>
    <3>1. IsSeq(<<>>) /\ Len(<<>>) < 4
      <4>1. <<>> \in Seq({}) OBVIOUS
      <4>2. QED BY <4>1 DEF IsSeq
    <3>2. QED BY <3>1, NothingYet
  <2>5. Collected(thread[t].got)' <=> Collected(<<>>)
    BY <2>3 DEF Collected, IsSeq, Pixels, NChunks
  <2>6. Pixels(thread[t].got)' = Pixels(<<>>) BY <2>3 DEF Pixels
  <2>7. Have(t)' = 0 BY <2>4, <2>6 DEF Have
  <2>8. thread'[t].asked = FRAME_PIXELS /\ thread'[t].res # "cancelled" /\ thread'[t].at # "fetch"
    BY <1>2, <2>1
  <2>9. /\ thread'[t].asked \in 0..FRAME_PIXELS /\ 0 <= thread'[t].asked + MAX_READ
    BY <2>8, StreamAssumption
  <2>10. QED BY <2>2, <2>4, <2>5, <2>7, <2>8, <2>9 DEF CancelOf
<1>5. QED BY <1>3, <1>4 DEF CancelInv

LEMMA MinOfTwo ==
  ASSUME NEW a \in Nat, NEW b \in Nat
  PROVE  Min({a, b}) = IF a <= b THEN a ELSE b
BY DEF Min

LEMMA CancelPosted ==
  ASSUME Records, CancelInv, PostCancel PROVE CancelInv'
<1>1. /\ progress' = [progress EXCEPT !.cancel = TRUE]
      /\ thread' = [t \in Threads |-> IF Grabbing(t)
                  THEN [thread[t] EXCEPT !.asked = Min({@, Len(Pixels(thread[t].got))})] ELSE thread[t]]
  BY DEF PostCancel
<1>2. progress'.cancel BY <1>1 DEF Records
<1>3. ASSUME NEW t \in Threads, Grabbing(t)' PROVE CancelOf(t)'
  <2> DEFINE a == Min({thread[t].asked, Have(t)})
  <2>1. thread'[t] = IF Grabbing(t) THEN [thread[t] EXCEPT !.asked = a] ELSE thread[t]
    BY <1>1 DEF Have
  <2>2. Grabbing(t)
    <3>1. CASE ~ Grabbing(t) BY <1>3, <2>1, <3>1 DEF Grabbing
    <3>2. QED BY <3>1
  <2>3. CancelOf(t) BY <2>2 DEF CancelInv
  <2>4. thread[t].asked \in 0..FRAME_PIXELS /\ Have(t) \in 0..FRAME_PIXELS
    BY <2>3, HaveRange DEF CancelOf, Have
  <2>5. a = IF thread[t].asked <= Have(t) THEN thread[t].asked ELSE Have(t)
    BY <2>4, MinOfTwo
  <2> HIDE DEF a
  <2>6. /\ thread'[t].at = thread[t].at /\ thread'[t].q = thread[t].q
        /\ thread'[t].got = thread[t].got /\ thread'[t].res = thread[t].res
        /\ thread'[t].odd = thread[t].odd /\ thread'[t].asked = a
    BY <2>1, <2>2 DEF ThreadRecords, Records
  <2>7. Alone(t)' => Alone(t) BY <2>2, <2>6 DEF Alone
  <2>8. Collected(thread[t].got)' <=> Collected(thread[t].got)
    BY <2>6 DEF Collected, IsSeq, Pixels, NChunks
  <2>9. Pixels(thread[t].got)' = Pixels(thread[t].got) BY <2>6 DEF Pixels
  <2>10. Have(t)' = Have(t) BY <2>9 DEF Have
  <2>11. a \in 0..FRAME_PIXELS /\ a <= Have(t) /\ a <= thread[t].asked BY <2>4, <2>5
  <2>12. thread[t].res = "cancelled" => a < FRAME_PIXELS
    <3>1. thread[t].res = "cancelled" => thread[t].asked < FRAME_PIXELS BY <2>3 DEF CancelOf
    <3>2. QED BY <2>4, <2>11, <3>1, StreamAssumption
  <2>13. Alone(t) => Have(t) <= a + MAX_READ /\ (thread[t].at = "fetch" => Have(t) <= a)
    <3>1. Alone(t) => /\ Have(t) <= thread[t].asked + MAX_READ
                      /\ thread[t].at = "fetch" => Have(t) <= thread[t].asked
      BY <2>3 DEF CancelOf
    <3>2. CASE thread[t].asked <= Have(t) BY <2>5, <3>1, <3>2
    <3>3. CASE ~ (thread[t].asked <= Have(t))
      <4>1. a = Have(t) BY <2>5, <3>3
      <4>2. Have(t) <= Have(t) + MAX_READ BY <2>4, StreamAssumption
      <4>3. QED BY <2>4, <4>1, <4>2
    <3>4. QED BY <3>2, <3>3
  <2>14. Collected(thread[t].got) BY <2>3 DEF CancelOf
  <2>15. QED BY <1>2, <2>6, <2>7, <2>8, <2>10, <2>11, <2>12, <2>13, <2>14 DEF CancelOf
<1>4. QED BY <1>3 DEF CancelInv

LEMMA CancelMarked ==
  ASSUME Records, CancelInv, NEW x, Marked(x), progress' = progress PROVE CancelInv'
<1>1. ASSUME NEW u \in Threads, Grabbing(u)' PROVE CancelOf(u)'
  <2>1. /\ thread'[u].at = thread[u].at /\ thread'[u].q = thread[u].q
        /\ thread'[u].got = thread[u].got /\ thread'[u].res = thread[u].res
        /\ thread'[u].asked = thread[u].asked
        /\ thread'[u].odd \in {thread[u].odd, thread[u].odd \cup {x}}
    BY MarkedFields DEF Records
  <2>2. Grabbing(u) BY <1>1, <2>1 DEF Grabbing
  <2>3. CancelOf(u) BY <2>2 DEF CancelInv
  <2>4. Alone(u)' => Alone(u) BY <2>1, <2>2 DEF Alone
  <2>5. QED BY <2>1, <2>2, <2>3, <2>4, CancelKept
<1>2. QED BY <1>1 DEF CancelInv

LEMMA CancelStays ==
  ASSUME CancelInv, thread' = thread, progress' = progress PROVE CancelInv'
<1>1. ASSUME NEW u \in Threads, Grabbing(u)' PROVE CancelOf(u)'
  <2>1. Grabbing(u) /\ (Alone(u)' => Alone(u)) BY <1>1 DEF Grabbing, Alone
  <2>2. CancelOf(u) BY <2>1 DEF CancelInv
  <2>3. QED BY <2>1, <2>2, CancelKept
<1>2. QED BY <1>1 DEF CancelInv

LEMMA CancelInductive == Inv /\ CancelInv /\ [Next]_vars => CancelInv'
<1> SUFFICES ASSUME Inv, CancelInv, [Next]_vars PROVE CancelInv' OBVIOUS
<1>1. Records /\ Follows BY DEF Inv
<1>2. CASE UNCHANGED vars BY <1>2, CancelStays DEF vars
<1>3. CASE \E t \in Threads : (\E q \in session.may : Ask(t, q)) \/ Step(t)
  BY <1>1, <1>3, CancelAsk, CancelThread
<1>4. CASE PostCancel BY <1>1, <1>4, CancelPosted
<1>5. CASE BoardMoves \/ Replug BY <1>5, CancelStays DEF BoardMoves, Replug
<1>6. CASE Watchdog \/ Unplug
  <2>1. progress' = progress BY <1>6 DEF Watchdog, Unplug
  <2>2. \E x : Marked(x) BY <1>6, WatchdogMarks, UnplugMarks
  <2>3. QED BY <1>1, <2>1, <2>2, CancelMarked
<1>7. QED BY <1>2, <1>3, <1>4, <1>5, <1>6 DEF Next

LEMMA CancelInit == Init => CancelInv
<1> SUFFICES ASSUME Init PROVE CancelInv OBVIOUS
<1>1. \A t \in Threads : ~ Grabbing(t) BY DEF Init, Grabbing, Idle
<1>2. QED BY <1>1 DEF CancelInv

\* A grab ends as cancelled only when somebody asked for it after it came, and
\* one that shares the progress record with no other fetches at most one more
\* chunk once it is asked to stop.
THEOREM CancelsHonoured == Spec => []CancelHonoured
<1>1. CancelInv => CancelHonoured
  BY DEF CancelInv, CancelOf, CancelHonoured, Alone, Have
<1>2. QED BY <1>1, Initially, Inductive, CancelInit, CancelInductive, PTL DEF Spec

-----------------------------------------------------------------------------
(* A frame is one capture *)

Clean(t) == Grabbing(t) /\ thread[t].odd \cap {"twice", "watchdog", "restarted"} = {}

\* The capture that is in the memory, or will be, is of this request.
OfNow(t) == board.shot > thread[t].since \/ "running" \in thread[t].odd

Whole(t) ==
  LET pix == Pixels(thread[t].got)
      shot == pix[1][1]
  IN  /\ pix = [i \in 1..FRAME_PIXELS |-> <<shot, i - 1>>]
      /\ shot > thread[t].since \/ "running" \in thread[t].odd

\* After the first answer the capture is on its way, after the second it is in
\* the memory, and after the third the stream is where the pixels end.
Filming(t) ==
  LET n == Len(thread[t].got)
  IN  /\ n = 1 => \/ board.busy /\ board.engine = "wait"
                  \/ board.busy /\ board.engine = "capture" /\ OfNow(t)
                  \/ board.busy /\ board.engine = "idle" /\ ~ board.calib
                  \/ Captured(board) /\ OfNow(t)
      /\ n >= 2 => Captured(board) /\ OfNow(t)
      /\ n >= 3 => /\ Pixels(thread[t].got) = [i \in 1..Have(t) |-> <<board.shot, i - 1>>]
                   /\ StreamAt(board, Have(t))

FrameOf(t) ==
  /\ thread[t].since \in Nat /\ thread[t].since <= board.shot
  /\ thread[t].at \in GrabPlaces
  /\ thread[t].at # "leave" => thread[t].res # "ok"
  /\ Clean(t) /\ thread[t].at = "leave" /\ thread[t].res = "ok" => Whole(t)
  /\ Clean(t) /\ InBody(t) => Filming(t)

FrameInv == Shape(board) /\ \A t \in Threads : Grabbing(t) => FrameOf(t)

LEMMA FrameKept ==
  ASSUME NEW u \in Threads, Grabbing(u), FrameOf(u), Grabbing(u)',
         thread'[u].got = thread[u].got, thread'[u].since = thread[u].since,
         thread[u].odd \subseteq thread'[u].odd,
         board'.shot \in Nat, board.shot \in Nat, board'.shot >= board.shot,
         thread'[u].at \in GrabPlaces,
         thread'[u].res = "ok" => thread[u].res = "ok" /\ (thread[u].at = "leave" => thread'[u].at = "leave"),
         Clean(u)' /\ InBody(u)' => /\ InBody(u) \/ thread[u].got = <<>>
                                    /\ board' = board
  PROVE  FrameOf(u)'
<1>1. Pixels(thread[u].got)' = Pixels(thread[u].got) BY DEF Pixels
<1>2. Have(u)' = Have(u) BY <1>1 DEF Have
<1>3. Clean(u)' => Clean(u) BY DEF Clean
<1>4. thread'[u].since \in Nat /\ thread'[u].since <= board'.shot
  <2>1. thread[u].since \in Nat /\ thread[u].since <= board.shot BY DEF FrameOf
  <2>2. PICK a, b \in Nat : a = board.shot /\ b = board'.shot OBVIOUS
  <2>3. QED BY <2>1, <2>2
<1>5. Clean(u)' /\ thread'[u].at = "leave" /\ thread'[u].res = "ok" => Whole(u)'
  <2>1. SUFFICES ASSUME Clean(u)', thread'[u].at = "leave", thread'[u].res = "ok" PROVE Whole(u)' OBVIOUS
  <2>2. thread[u].at = "leave" /\ thread[u].res = "ok" BY <2>1 DEF FrameOf
  <2>3. Whole(u) BY <1>3, <2>1, <2>2 DEF FrameOf
  <2>4. QED BY <1>1, <2>3 DEF Whole
<1>6. Clean(u)' /\ InBody(u)' => Filming(u)'
  <2>1. SUFFICES ASSUME Clean(u)', InBody(u)' PROVE Filming(u)' OBVIOUS
  <2>2. board' = board BY <2>1
  <2>3. CASE thread[u].got = <<>>
    <3>1. Len(thread'[u].got) = 0 BY <2>3
    <3>2. QED BY <3>1 DEF Filming
  <2>4. CASE InBody(u)
    <3>1. Filming(u) BY <1>3, <2>1, <2>4 DEF FrameOf
    <3>2. OfNow(u) => OfNow(u)' BY <2>2 DEF OfNow
    <3>3. Captured(board)' <=> Captured(board) BY <2>2 DEF Captured
    <3>4. StreamAt(board, Have(u))' <=> StreamAt(board, Have(u)) BY <1>2, <2>2 DEF StreamAt, Pixel
    <3>5. QED BY <1>1, <1>2, <2>2, <3>1, <3>2, <3>3, <3>4 DEF Filming
  <2>5. QED BY <2>1, <2>3, <2>4
<1>7. thread'[u].at # "leave" => thread'[u].res # "ok" BY DEF FrameOf
<1>8. QED BY <1>4, <1>5, <1>6, <1>7 DEF FrameOf

\* The board of another, or of the same thread as it gives up.
LEMMA FrameAway ==
  ASSUME NEW u \in Threads, Grabbing(u), FrameOf(u), Shape(board), Access(board, board'),
         thread'[u] = thread[u], ~ InBody(u)
  PROVE  FrameOf(u)'
<1>1. board.shot \in Nat /\ board'.shot = board.shot BY DEF Shape, Access
<1>2. Grabbing(u)' /\ ~ InBody(u)' BY DEF Grabbing, InBody
<1>3. thread'[u].at \in GrabPlaces BY DEF FrameOf
<1>4. board'.shot >= board.shot BY <1>1
<1>5. QED BY <1>1, <1>2, <1>3, <1>4, FrameKept

LEMMA JoinSeq == ASSUME NEW S, NEW a \in Seq(S), NEW b \in Seq(S) PROVE a \o b \in Seq(S)
OBVIOUS

\* n pixels from the p-th on, and a chunk that goes on where they end.
Raster(s, p, n) == [i \in 1..n |-> <<s, p + i - 1>>]

LEMMA RasterFirst ==
  ASSUME NEW s, NEW n
  PROVE  Raster(s, 0, n) = [i \in 1..n |-> <<s, i - 1>>]
<1>1. \A i \in 1..n : 0 + i - 1 = i - 1 OBVIOUS
<1>2. QED BY <1>1 DEF Raster

LEMMA IsSequence ==
  ASSUME NEW n \in Nat, NEW S, NEW f, f = [i \in 1..n |-> f[i]], \A i \in 1..n : f[i] \in S
  PROVE  f \in Seq(S) /\ Len(f) = n
OBVIOUS

LEMMA RasterJoin ==
  ASSUME NEW s, NEW p \in Nat, NEW c \in Nat
  PROVE  Raster(s, 0, p) \o Raster(s, p, c) = Raster(s, 0, p + c)
<1> DEFINE x == Raster(s, 0, p)
           y == Raster(s, p, c)
           z == x \o y
           S == {x[i] : i \in 1..p} \cup {y[i] : i \in 1..c}
<1>0. x = [i \in 1..p |-> x[i]] /\ y = [i \in 1..c |-> y[i]] BY DEF Raster
<1> HIDE DEF x, y
<1>1. x \in Seq(S) /\ y \in Seq(S) /\ Len(x) = p /\ Len(y) = c
  <2>1. (\A i \in 1..p : x[i] \in S) /\ (\A i \in 1..c : y[i] \in S) OBVIOUS
  <2> HIDE DEF S
  <2>2. QED BY <1>0, <2>1, IsSequence
<1> HIDE DEF S
<1>2. \A i \in 1..p : x[i] = <<s, 0 + i - 1>> BY DEF Raster, x
<1>3. \A i \in 1..c : y[i] = <<s, p + i - 1>> BY DEF Raster, y
<1>4. z \in Seq(S) /\ Len(z) = p + c BY <1>1, JoinSeq, SecondPart
<1>5. \A i \in 1..p : z[i] = x[i] BY <1>1, FirstPart
<1>6. \A i \in p+1..p+c : z[i] = y[i - p] BY <1>1, SecondPart
<1> HIDE DEF z
<1>7. ASSUME NEW i \in 1..p+c PROVE z[i] = <<s, 0 + i - 1>>
  <2>1. CASE i \in 1..p BY <1>2, <1>5, <2>1
  <2>2. CASE i \notin 1..p
    <3>1. i \in p+1..p+c BY <2>2
    <3>2. PICK j \in 1..c : j = i - p BY <3>1
    <3>3. p + j - 1 = 0 + i - 1 BY <3>2
    <3>4. z[i] = y[j] BY <1>6, <3>1, <3>2
    <3>5. y[j] = <<s, p + j - 1>> BY <1>3
    <3>6. QED BY <3>3, <3>4, <3>5
  <2>3. QED BY <2>1, <2>2
<1>8. z = [i \in 1..p+c |-> z[i]] BY <1>4
<1>9. z = Raster(s, 0, p + c) BY <1>7, <1>8 DEF Raster
<1>10. QED BY <1>9 DEF x, y, z

\* What an answer makes of a grab that is clean.
LEMMA FilmArmed ==
  ASSUME NEW t \in Threads, NEW n, Receives(t, n), Shape(board), IsSeq(thread[t].got),
         Len(thread[t].got) = 0, thread[t].op = WriteSingle(REG_GRAB, 1)
  PROVE  Filming(t)'
<1>1. board' = Answered(board, WriteSingle(REG_GRAB, 1), n)[2] /\ n \in Nat /\ n # 0
      /\ thread'[t].got = Append(thread[t].got, Answered(board, thread[t].op, n)[1])
      /\ thread'[t].since = thread[t].since
  BY DEF Receives
<1>2. Shape(board') /\ board'.busy /\ Film(board') = Film(board) /\ board'.engine = Asked(board)
  BY <1>1, Armed
<1>3. Len(thread'[t].got) = 1
  <2> DEFINE r == Answered(board, thread[t].op, n)[1]
  <2>1. thread'[t].got = Append(thread[t].got, r) BY <1>1
  <2> HIDE DEF r
  <2>2. Len(Append(thread[t].got, r)) = Len(thread[t].got) + 1 BY AppendSeq
  <2>3. QED BY <2>1, <2>2
<1>4. board.engine = "capture" => "running" \in thread'[t].odd
  BY DEF Receives, WriteSingle
<1>5. board'.calib = board.calib BY <1>2 DEF Film
<1>6. \/ board'.engine = "wait"
      \/ board'.engine = "capture" /\ "running" \in thread'[t].odd
      \/ board'.engine = "idle" /\ ~ board'.calib
  BY <1>2, <1>4, <1>5 DEF Asked, Shape
<1>7. QED BY <1>2, <1>3, <1>6 DEF Filming, OfNow

LEMMA FilmWaited ==
  ASSUME NEW t \in Threads, NEW n, Receives(t, n), Shape(board), IsSeq(thread[t].got),
         Len(thread[t].got) = 1, thread[t].op = WaitIdle(REG_GRAB), Filming(t)
  PROVE  Filming(t)'
<1>1. thread[t].op.fn = "wait" /\ thread[t].op.addr = REG_GRAB BY DEF WaitIdle
<1>2. board' = board /\ ~ board.busy
  <2>1. board' = Answered(board, thread[t].op, n)[2] /\ ~ Status(board, REG_GRAB)
    BY <1>1 DEF Receives
  <2>2. Answered(board, thread[t].op, n)[2] = board BY <1>1 DEF Answered
  <2>3. Status(board, REG_GRAB) = board.busy BY DEF Status, REG_GRAB, REG_BOOT_STATUS
  <2>4. QED BY <2>1, <2>2, <2>3
<1>3. Captured(board) /\ OfNow(t) BY <1>2 DEF Filming
<1>4. Len(thread'[t].got) = 2
  <2> DEFINE r == Answered(board, thread[t].op, n)[1]
  <2>1. thread'[t].got = Append(thread[t].got, r) BY DEF Receives
  <2> HIDE DEF r
  <2>2. Len(Append(thread[t].got, r)) = Len(thread[t].got) + 1 BY AppendSeq
  <2>3. QED BY <2>1, <2>2
<1>5. OfNow(t)' BY <1>2, <1>3 DEF OfNow, Receives
<1>6. Captured(board)' BY <1>2, <1>3 DEF Captured
<1>7. QED BY <1>4, <1>5, <1>6 DEF Filming

LEMMA FilmRewound ==
  ASSUME NEW t \in Threads, NEW n, Receives(t, n), Shape(board), IsSeq(thread[t].got),
         Len(thread[t].got) = 2, thread[t].op = WriteSingle(REG_STREAM, 1), Filming(t)
  PROVE  Filming(t)'
<1>1. board' = Answered(board, WriteSingle(REG_STREAM, 1), n)[2] /\ n \in Nat /\ n # 0
      /\ thread'[t].got = Append(thread[t].got, Answered(board, thread[t].op, n)[1])
      /\ thread'[t].since = thread[t].since /\ thread[t].odd \subseteq thread'[t].odd
  BY DEF Receives
<1>2. /\ Shape(board') /\ Film(board') = Film(board) /\ board'.engine = board.engine
      /\ board'.baddr = 0 /\ board'.widx = 0 /\ ~ board'.loaded
  BY <1>1, Rewound
<1>3. Captured(board) /\ OfNow(t) BY DEF Filming
<1>4. IsSeq(thread'[t].got) /\ Len(thread'[t].got) = 3
  <2> DEFINE r == Answered(board, thread[t].op, n)[1]
  <2>1. thread'[t].got = Append(thread[t].got, r) BY <1>1
  <2> HIDE DEF r
  <2>2. IsSeq(Append(thread[t].got, r)) /\ Len(Append(thread[t].got, r)) = Len(thread[t].got) + 1
    BY AppendSeq
  <2>3. QED BY <2>1, <2>2
<1>5. board'.shot = board.shot /\ board'.mem = board.mem /\ board'.calib = board.calib
  BY <1>2 DEF Film
<1>6. OfNow(t)' BY <1>1, <1>3, <1>5 DEF OfNow
<1>7. Captured(board)' BY <1>2, <1>3, <1>5 DEF Captured
<1>8. Pixels(thread'[t].got) = <<>>
  <2> DEFINE g == thread'[t].got
  <2>1. IsSeq(g) /\ Len(g) < 4 BY <1>4
  <2> HIDE DEF g
  <2>2. Pixels(g) = <<>> BY <2>1, NothingFetched
  <2>3. QED BY <2>2 DEF g
<1>9. Pixels(thread[t].got)' = <<>> BY <1>8 DEF Pixels
<1>10. Have(t)' = 0 BY <1>9 DEF Have
<1>11. StreamAt(board, Have(t))'
  <2>1. 0 \in 0..BURST-1 BY BurstAssumption
  <2>2. QED BY <1>2, <1>10, <2>1 DEF StreamAt
<1>12. Pixels(thread[t].got)' = [i \in 1..Have(t)' |-> <<board'.shot, i - 1>>]
  <2>1. [i \in 1..0 |-> <<board'.shot, i - 1>>] = <<>> OBVIOUS
  <2>2. QED BY <1>9, <1>10, <2>1
<1>13. QED BY <1>4, <1>6, <1>7, <1>11, <1>12 DEF Filming

LEMMA FilmServed ==
  ASSUME NEW t \in Threads, Receives(t, 1), Shape(board), Collected(thread[t].got),
         Len(thread[t].got) \in 3..NChunks+2, thread[t].op = ChunkRead(Len(thread[t].got) - 2),
         thread[t].op.fn = "read", Filming(t)
  PROVE  Filming(t)'
<1> DEFINE got == thread[t].got
           i == Len(got) - 2
           c == Chunks(FRAME_PIXELS, MAX_READ)[i]
           p == Have(t)
           r == ServePixels(board, c)
           new == Append(got, r[1])
<1>1. /\ board' = Answered(board, ChunkRead(i), 1)[2]
      /\ thread'[t].got = Append(got, Answered(board, ChunkRead(i), 1)[1])
      /\ thread'[t].since = thread[t].since /\ thread[t].odd \subseteq thread'[t].odd
  BY DEF Receives
<1>2. Answered(board, ChunkRead(i), 1) = r /\ c \in Nat /\ c # 0
  <2> DEFINE op == ChunkRead(i)
  <2>1. ChunkRead(i).fn = "read" OBVIOUS
  <2> HIDE DEF i
  <2>2. /\ Answered(board, op, 1) = ServePixels(After(board, op, 1 - 1), Chunks(FRAME_PIXELS, MAX_READ)[i])
        /\ c \in 1..125
    BY <2>1, ChunkAnswer
  <2> HIDE DEF op, c
  <2>3. After(board, op, 1 - 1) = board BY AtOnce
  <2>4. c \in Nat /\ c # 0 BY <2>2
  <2>5. QED BY <2>2, <2>3, <2>4 DEF op, c
<1>3. /\ Captured(board) /\ OfNow(t)
      /\ Pixels(got) = [k \in 1..p |-> <<board.shot, k - 1>>] /\ StreamAt(board, p)
  <2>1. Len(got) >= 3 /\ Len(got) >= 2
    <3>1. PICK l \in Nat : l = Len(got) BY SomeChunks
    <3>2. l \in 3..NChunks+2 BY <3>1
    <3>3. l >= 3 /\ l >= 2 BY <3>2, SomeChunks
    <3>4. QED BY <3>1, <3>3
  <2>2. QED BY <2>1 DEF Filming
<1>4. PICK T : r[1] \in Seq(T) /\ Len(r[1]) = c
  <2>1. c \in Nat BY <1>2
  <2> HIDE DEF c
  <2>2. QED BY <2>1, ServesSeq
<1>5. /\ Collected(new) /\ Pixels(new) = Pixels(got) \o r[1]
      /\ Len(Pixels(new)) = p + c
      /\ \E S : Pixels(got) \in Seq(S) /\ r[1] \in Seq(S)
  <2> DEFINE x == r[1]
  <2>1. Collected(got) /\ Len(got) \in 3..NChunks+2 OBVIOUS
  <2>2. x \in Seq(T) /\ Len(x) = Chunks(FRAME_PIXELS, MAX_READ)[Len(got) - 2] BY <1>4
  <2> HIDE DEF x, got
  <2>3. /\ Collected(Append(got, x)) /\ Pixels(Append(got, x)) = Pixels(got) \o x
        /\ Len(Pixels(Append(got, x))) = Len(Pixels(got)) + Len(x)
        /\ \E S : Pixels(got) \in Seq(S) /\ x \in Seq(S)
    BY <2>1, <2>2, ChunkAdded
  <2>4. Len(x) = c BY <2>2 DEF i, c
  <2>5. QED BY <2>3, <2>4 DEF x, Have, got
<1>6. p \in Nat /\ p + c <= FRAME_PIXELS
  <2>1. p \in 0..FRAME_PIXELS BY HaveRange DEF Have
  <2>2. Len(Pixels(new)) \in 0..FRAME_PIXELS
    <3> HIDE DEF new
    <3>1. QED BY <1>5, HaveRange
  <2> HIDE DEF p, c, new
  <2>3. QED BY <2>1, <2>2, <1>2, <1>5, StreamAssumption
<1>7. /\ r[1] = [k \in 1..c |-> <<board.shot, p + k - 1>>]
      /\ Shape(r[2]) /\ Film(r[2]) = Film(board) /\ Captured(r[2]) /\ StreamAt(r[2], p + c)
  <2>1. c \in Nat /\ c # 0 BY <1>2
  <2> DEFINE d == board
             w == r
  <2>2. Captured(d) /\ StreamAt(d, p) /\ Shape(d) BY <1>3
  <2>3. w = ServePixels(d, c) OBVIOUS
  <2>4. p + c <= FRAME_PIXELS BY <1>6
  <2> HIDE DEF d, c, p, w
  <2>5. /\ w[1] = [k \in 1..c |-> <<d.shot, p + k - 1>>]
        /\ Shape(w[2]) /\ Film(w[2]) = Film(d) /\ Captured(w[2]) /\ StreamAt(w[2], p + c)
    BY <2>1, <2>2, <2>3, <2>4, PixelsServed
  <2>6. QED BY <2>5 DEF w, d
<1>8. thread'[t].got = new /\ board' = r[2] BY <1>1, <1>2
<1>9. Pixels(new) = [k \in 1..p+c |-> <<board.shot, k - 1>>]
  <2> DEFINE x == Pixels(got)
             y == r[1]
             s == board.shot
  <2>1. x = Raster(s, 0, p) /\ y = Raster(s, p, c) BY <1>3, <1>7, RasterFirst DEF Raster
  <2>2. p \in Nat /\ c \in Nat BY <1>2, <1>6
  <2> HIDE DEF x, y, s, p, c
  <2>3. x \o y = Raster(s, 0, p + c)
    <3>1. Raster(s, 0, p) \o Raster(s, p, c) = Raster(s, 0, p + c) BY <2>2, RasterJoin
    <3>2. QED BY <2>1, <3>1
  <2>4. QED BY <1>5, <2>3, RasterFirst DEF x, y, s
<1> DEFINE q == p + c
<1>10. Pixels(thread[t].got)' = Pixels(new) BY <1>8 DEF Pixels
<1>11. Have(t)' = q BY <1>5, <1>10 DEF Have
<1>12. board'.shot = board.shot BY <1>7, <1>8 DEF Film
<1>13. OfNow(t)' BY <1>1, <1>3, <1>12 DEF OfNow
<1>14. Captured(board)' BY <1>7, <1>8 DEF Captured
<1>15. StreamAt(board', q) BY <1>7, <1>8
<1>16. StreamAt(board, Have(t))' <=> StreamAt(board', Have(t)') BY DEF StreamAt, Pixel
<1>17. Pixels(thread[t].got)' = [k \in 1..Have(t)' |-> <<board'.shot, k - 1>>]
  <2> HIDE DEF q, p, c, r, new
  <2>1. Pixels(new) = [k \in 1..q |-> <<board.shot, k - 1>>] BY <1>9 DEF q
  <2>2. QED BY <2>1, <1>10, <1>11, <1>12
<1> HIDE DEF q, new, r
<1>18. QED BY <1>11, <1>13, <1>14, <1>15, <1>16, <1>17 DEF Filming

LEMMA FrameReceives ==
  ASSUME Follows, NEW t \in Threads, Grabbing(t), CancelOf(t), Shape(board), FrameOf(t),
         NEW n, Receives(t, n)
  PROVE  FrameOf(t)' /\ Access(board, board')
<1> DEFINE got == thread[t].got
           op == thread[t].op
<1>1. /\ board' = Answered(board, op, n)[2] /\ n \in Nat /\ n # 0
      /\ thread'[t].since = thread[t].since /\ thread[t].odd \subseteq thread'[t].odd
      /\ thread'[t].at = "body" /\ thread'[t].res = thread[t].res /\ InBody(t)
      /\ thread'[t].q = thread[t].q
      /\ op.fn \notin {"raise", "end"}
      /\ (n > 1 /\ Repeats(op) => "twice" \in thread'[t].odd)
  BY DEF Receives
<1>2. IsSeq(got) /\ op = OpAfter(thread[t].q, got) /\ thread[t].q.route = "grab" /\ Collected(got)
  BY <1>1 DEF Follows, Grabbing, InBody, CancelOf
<1>3. Access(board, board') BY <1>1, AnswerAccess
<1>4. board'.shot = board.shot BY <1>3 DEF Access
<1>5. Clean(t)' => Clean(t) BY <1>1 DEF Clean
<1>6. ASSUME Clean(t)' PROVE Filming(t)'
  <2>1. Filming(t) BY <1>1, <1>5, <1>6 DEF FrameOf
  <2>2. /\ Len(got) \in Nat
        /\ Len(got) = 0 => op = WriteSingle(REG_GRAB, 1)
        /\ Len(got) = 1 => op = WaitIdle(REG_GRAB)
        /\ Len(got) = 2 => op = WriteSingle(REG_STREAM, 1)
        /\ Len(got) \in 3..NChunks+2 => op = ChunkRead(Len(got) - 2)
        /\ Len(got) >= NChunks + 3 => op = End
    <3> HIDE DEF got, op
    <3>1. QED BY <1>2, GrabOp
  <2>3. CASE Len(got) = 0 BY <1>2, <2>2, <2>3, FilmArmed
  <2>4. CASE Len(got) = 1 BY <1>2, <2>1, <2>2, <2>4, FilmWaited
  <2>5. CASE Len(got) = 2 BY <1>2, <2>1, <2>2, <2>5, FilmRewound
  <2>6. CASE Len(got) \in 3..NChunks+2
    <3>1. op = ChunkRead(Len(got) - 2) BY <2>2, <2>6
    <3>2. op.fn = "read" /\ op.addr = STREAM_BASE
      <4>1. op.fn \in {"read", "raise"} BY <3>1 DEF ChunkRead, ReadHolding, Raise
      <4>2. op.fn = "read" BY <1>1, <4>1
      <4> DEFINE i == Len(got) - 2
      <4>3. op = ChunkRead(i) BY <3>1
      <4> HIDE DEF i, op
      <4>4. QED BY <4>2, <4>3, ChunkAnswer
    <3>3. Repeats(op) BY <3>2 DEF Repeats, STREAM_BASE, OSD_STREAM_BASE
    <3>4. ~ (n > 1) BY <1>1, <1>6, <3>3 DEF Clean
    <3>5. n = 1 BY <1>1, <3>4
    <3>6. Receives(t, 1) BY <3>5
    <3>7. QED BY <1>2, <2>1, <2>6, <3>1, <3>2, <3>6, FilmServed
  <2>7. CASE Len(got) >= NChunks + 3
    <3> HIDE DEF op
    <3>1. op.fn = "end"
      <4>1. End.fn = "end" BY DEF End, Raise
      <4>2. QED BY <2>2, <2>7, <4>1
    <3>2. QED BY <1>1, <3>1
  <2>8. Len(got) = 0 \/ Len(got) = 1 \/ Len(got) = 2 \/ Len(got) \in 3..NChunks+2 \/ Len(got) >= NChunks + 3
    <3>1. PICK l \in Nat : l = Len(got) BY <2>2
    <3>2. l = 0 \/ l = 1 \/ l = 2 \/ l \in 3..NChunks+2 \/ l >= NChunks + 3 BY SomeChunks
    <3>3. QED BY <3>1, <3>2
  <2>9. QED BY <2>3, <2>4, <2>5, <2>6, <2>7, <2>8
<1>7. thread[t].since \in Nat /\ thread[t].since <= board.shot /\ thread[t].res # "ok"
  BY <1>1 DEF FrameOf, InBody
<1>8. QED BY <1>1, <1>3, <1>4, <1>6, <1>7 DEF FrameOf, GrabPlaces, Aside

\* The end of its program is reached with the last pixel.
LEMMA FrameFinishes ==
  ASSUME Follows, NEW t \in Threads, Grabbing(t), CancelOf(t), Shape(board), FrameOf(t), Finishes(t)
  PROVE  FrameOf(t)'
<1> DEFINE got == thread[t].got
<1>1. /\ thread'[t].got = got /\ thread'[t].since = thread[t].since /\ thread'[t].q = thread[t].q
      /\ thread'[t].odd = thread[t].odd /\ board' = board
      /\ InBody(t) /\ thread[t].op.fn = "end" /\ thread'[t].at = "leave" /\ thread'[t].res = "ok"
  BY DEF Finishes, Keeps
<1>2. IsSeq(got) /\ thread[t].op = OpAfter(thread[t].q, got) /\ thread[t].q.route = "grab" /\ Collected(got)
  BY <1>1 DEF Follows, Grabbing, InBody, CancelOf
<1>3. Len(got) >= NChunks + 3 /\ Len(got) \in Nat
  <2> HIDE DEF got
  <2>1. QED BY <1>1, <1>2, GrabAt, GrabOp
<1>4. Have(t) = FRAME_PIXELS BY <1>2, <1>3, HaveRange DEF Have
<1>5. Clean(t)' => Clean(t) BY <1>1 DEF Clean, Grabbing
<1>6. ASSUME Clean(t)' PROVE Whole(t)'
  <2> DEFINE pix == Pixels(got)
  <2>1. Filming(t) BY <1>1, <1>5, <1>6 DEF FrameOf
  <2>2. Len(got) >= 2 /\ Len(got) >= 3
    <3>1. PICK l \in Nat : l = Len(got) BY <1>3
    <3>2. QED BY <1>3, <3>1, SomeChunks
  <2>3. OfNow(t) /\ pix = [i \in 1..FRAME_PIXELS |-> <<board.shot, i - 1>>]
    BY <1>4, <2>1, <2>2 DEF Filming
  <2>4. 1 \in 1..FRAME_PIXELS BY StreamAssumption
  <2>5. pix[1][1] = board.shot BY <2>3, <2>4
  <2> HIDE DEF pix
  <2>6. Pixels(thread[t].got)' = pix BY <1>1 DEF Pixels, pix
  <2>7. board.shot > thread'[t].since \/ "running" \in thread'[t].odd BY <1>1, <2>3 DEF OfNow
  <2>8. QED BY <2>3, <2>5, <2>6, <2>7 DEF Whole
<1>7. thread[t].since \in Nat /\ thread[t].since <= board.shot BY DEF FrameOf
<1>8. ~ InBody(t)' BY <1>1 DEF InBody
<1>9. QED BY <1>1, <1>6, <1>7, <1>8 DEF FrameOf, GrabPlaces, Aside

LEMMA FrameThread ==
  ASSUME Inv, LockInv, CancelInv, FrameInv, NEW t \in Threads, Step(t)
  PROVE  FrameInv'
<1>1. Records /\ Follows /\ Shape(board) BY DEF Inv, FrameInv
<1>2. /\ \A u \in Threads \ {t} : thread'[u] = thread[u]
      /\ \/ Passes(t) \/ Watches(t) \/ Finishes(t) \/ Starts(t)
         \/ \E n \in 1..Resends+1 : Receives(t, n)
         \/ thread[t].at = "leave" /\ thread'[t] = Idle /\ board' = board
  BY <1>1, Summary
<1>3. board' = board \/ (InBody(t) /\ Access(board, board'))
  <2>1. ASSUME NEW n, Receives(t, n) PROVE InBody(t) /\ Access(board, board')
    <3>1. board' = Answered(board, thread[t].op, n)[2] /\ n \in Nat /\ n # 0 /\ InBody(t)
      BY <2>1 DEF Receives
    <3>2. QED BY <1>1, <3>1, AnswerAccess
  <2>2. ASSUME Passes(t) PROVE board' = board \/ (InBody(t) /\ Access(board, board'))
    BY <1>1, <2>2, AfterAccess DEF Passes
  <2>3. QED BY <1>2, <2>1, <2>2 DEF Watches, Finishes, Starts
<1>4. Shape(board') /\ board'.shot = board.shot /\ Access(board, board')
  BY <1>1, <1>3 DEF Access
<1>5. Shape(board)' BY <1>4 DEF Shape
<1>6. board.shot \in Nat /\ board'.shot \in Nat /\ board'.shot >= board.shot BY <1>1, <1>4 DEF Shape
<1>7. ASSUME NEW u \in Threads \ {t}, Grabbing(u)' PROVE FrameOf(u)'
  <2>1. thread'[u] = thread[u] BY <1>2
  <2>2. Grabbing(u) BY <1>7, <2>1 DEF Grabbing
  <2>3. FrameOf(u) BY <2>2 DEF FrameInv
  <2>4. CASE board' = board
    <3>1. InBody(u)' => InBody(u) BY <2>1 DEF InBody
    <3>2. thread'[u].at \in GrabPlaces BY <2>1, <2>3 DEF FrameOf
    <3>3. QED BY <1>6, <1>7, <2>1, <2>2, <2>3, <2>4, <3>1, <3>2, FrameKept
  <2>5. CASE InBody(t)
    <3>1. ~ InBody(u) BY <1>7, <2>5 DEF LockInv, Uses, InBody
    <3>2. QED BY <1>1, <1>4, <2>1, <2>2, <2>3, <3>1, FrameAway
  <2>6. QED BY <1>3, <2>4, <2>5
<1>8. ASSUME Grabbing(t)' PROVE FrameOf(t)'
  <2>1. CASE Passes(t)
    <3>1. /\ thread'[t].q = thread[t].q /\ thread'[t].got = thread[t].got
          /\ thread'[t].since = thread[t].since /\ thread'[t].odd = thread[t].odd
          /\ thread[t].at # "idle"
      BY <2>1 DEF Passes, Keeps
    <3>2. Grabbing(t) /\ thread[t].q.route = "grab" BY <1>8, <3>1 DEF Grabbing
    <3>3. FrameOf(t) BY <3>2 DEF FrameInv
    <3>4. thread[t].at \in GrabPlaces BY <3>3 DEF FrameOf
    <3>5. /\ thread'[t].at \in Aside
          /\ (thread'[t].res = "ok" => thread[t].res = "ok" /\ thread[t].at # "leave")
      BY <2>1, <3>2, <3>4 DEF Passes
    <3>6. ~ InBody(t)' /\ thread'[t].at \in GrabPlaces BY <3>5 DEF InBody, Aside, GrabPlaces
    <3>7. QED BY <1>6, <1>8, <3>1, <3>2, <3>3, <3>5, <3>6, FrameKept
  <2>2. CASE Watches(t)
    <3>1. /\ thread'[t].q = thread[t].q /\ thread'[t].got = thread[t].got
          /\ thread'[t].since = thread[t].since /\ thread'[t].odd = thread[t].odd
          /\ board' = board /\ Grabbing(t) /\ InBody(t) /\ thread'[t].at \in {"leave", "fetch"}
          /\ (thread'[t].res = "ok" => thread[t].res = "ok")
      BY <2>2 DEF Watches, Keeps
    <3>2. FrameOf(t) BY <3>1 DEF FrameInv
    <3>3. thread[t].at # "leave" BY <3>1 DEF InBody
    <3>4. thread'[t].at \in GrabPlaces BY <3>1 DEF GrabPlaces, Aside
    <3>5. QED BY <1>6, <1>8, <3>1, <3>2, <3>3, <3>4, FrameKept
  <2>3. CASE Finishes(t)
    <3>1. Grabbing(t) BY <1>8, <2>3 DEF Finishes, Keeps, Grabbing, InBody
    <3>2. FrameOf(t) /\ CancelOf(t) BY <3>1 DEF FrameInv, CancelInv
    <3>3. QED BY <1>1, <2>3, <3>1, <3>2, FrameFinishes
  <2>4. CASE Starts(t)
    <3>1. /\ thread'[t].q = thread[t].q /\ thread'[t].got = thread[t].got
          /\ thread'[t].since = thread[t].since /\ thread'[t].odd = thread[t].odd
          /\ board' = board /\ thread[t].at = "require" /\ thread'[t].at \in GrabPlaces
          /\ thread'[t].res = thread[t].res
      BY <2>4 DEF Starts, Keeps, GrabPlaces
    <3>2. Grabbing(t) BY <1>8, <3>1 DEF Grabbing
    <3>3. FrameOf(t) BY <3>2 DEF FrameInv
    <3>4. thread[t].got = <<>> BY <1>1, <3>1, <3>2 DEF Follows
    <3>5. QED BY <1>6, <1>8, <3>1, <3>2, <3>3, <3>4, FrameKept
  <2>5. CASE \E n \in 1..Resends+1 : Receives(t, n)
    <3>1. PICK n : Receives(t, n) BY <2>5
    <3>2. Grabbing(t) BY <1>8, <3>1 DEF Receives, Grabbing, InBody
    <3>3. FrameOf(t) /\ CancelOf(t) BY <3>2 DEF FrameInv, CancelInv
    <3>4. QED BY <1>1, <3>1, <3>2, <3>3, FrameReceives
  <2>6. CASE thread'[t] = Idle BY <1>8, <2>6 DEF Grabbing, Idle
  <2>7. QED BY <1>2, <2>1, <2>2, <2>3, <2>4, <2>5, <2>6
<1>9. QED BY <1>5, <1>7, <1>8 DEF FrameInv

\* A request that comes has nothing yet.
LEMMA FrameAsk ==
  ASSUME Records, FrameInv, NEW t \in Threads, NEW q, Ask(t, q) PROVE FrameInv'
<1> DEFINE both == {u \in Threads : q.route = "grab" /\ Grabbing(u)}
           at == IF q.route = "state" THEN "state" ELSE "lock"
           new == [Idle EXCEPT !.at = at, !.q = q, !.op = OpAfter(q, <<>>), !.since = board.shot]
           mine == [new EXCEPT !.odd = IF both = {} THEN {} ELSE {"shared"}]
<1>1. /\ thread' = [u \in Threads |->
           IF u = t THEN mine
           ELSE IF u \in both THEN [thread[u] EXCEPT !.odd = @ \cup {"shared"}] ELSE thread[u]]
      /\ board' = board
  BY DEF Ask
<1>2. /\ mine.q = q /\ mine.got = <<>> /\ mine.since = board.shot /\ mine.res = "none" /\ mine.at = at
  BY DEF Idle
<1> HIDE DEF mine
<1>3. Shape(board) /\ board.shot \in Nat /\ board'.shot = board.shot BY <1>1 DEF FrameInv, Shape
<1>4. ASSUME NEW u \in Threads \ {t}, Grabbing(u)' PROVE FrameOf(u)'
  <2>1. thread'[u] = IF u \in both THEN [thread[u] EXCEPT !.odd = @ \cup {"shared"}] ELSE thread[u]
    BY <1>1
  <2>2. /\ thread'[u].at = thread[u].at /\ thread'[u].q = thread[u].q
        /\ thread'[u].got = thread[u].got /\ thread'[u].res = thread[u].res
        /\ thread'[u].since = thread[u].since /\ thread[u].odd \subseteq thread'[u].odd
    <3>1. DOMAIN thread[u] = {"at", "q", "conn", "op", "got", "res", "since", "odd", "asked"}
      BY DEF ThreadRecords, Records
    <3> HIDE DEF both
    <3>2. QED BY <2>1, <3>1
  <2>3. Grabbing(u) BY <1>4, <2>2 DEF Grabbing
  <2>4. FrameOf(u) BY <2>3 DEF FrameInv
  <2>5. InBody(u)' => InBody(u) BY <2>2 DEF InBody
  <2>6. thread'[u].at \in GrabPlaces BY <2>2, <2>4 DEF FrameOf
  <2>7. board'.shot >= board.shot BY <1>3
  <2>8. QED BY <1>1, <1>3, <1>4, <2>2, <2>3, <2>4, <2>5, <2>6, <2>7, FrameKept
<1>5. ASSUME Grabbing(t)' PROVE FrameOf(t)'
  <2>1. thread'[t] = mine BY <1>1
  <2>2. q.route = "grab" BY <1>2, <1>5, <2>1 DEF Grabbing
  <2>3. thread'[t].at = "lock" /\ thread'[t].res = "none" /\ thread'[t].since = board.shot
    BY <1>2, <2>1, <2>2
  <2>4. ~ InBody(t)' BY <2>3 DEF InBody
  <2>5. QED BY <1>1, <1>3, <2>3, <2>4 DEF FrameOf, GrabPlaces, Aside
<1>6. Shape(board)' BY <1>1, <1>3 DEF Shape
<1>7. QED BY <1>4, <1>5, <1>6 DEF FrameInv

LEMMA FrameBoard ==
  ASSUME Inv, FrameInv, BoardMoves PROVE FrameInv'
<1>1. thread' = thread /\ board' \in BoardSteps(board) BY DEF BoardMoves
<1>2. Shape(board) BY DEF FrameInv
<1> DEFINE Quietly == /\ Film(board') = Film(board) /\ board'.engine = board.engine
                      /\ board'.busy = board.busy /\ board'.baddr = board.baddr
                      /\ board'.widx = board.widx /\ board'.loaded = board.loaded
                      /\ board'.burst = board.burst
           Starting == /\ board.engine = "wait" /\ board'.engine = "capture"
                       /\ board'.busy = board.busy /\ board'.shot > board.shot
           Ending == board.engine = "capture" /\ Captured(board') /\ board'.shot = board.shot
<1>3. Shape(board') /\ board'.shot >= board.shot /\ (Quietly \/ Starting \/ Ending)
  BY <1>1, <1>2, BoardShapes
<1>4. Shape(board)' BY <1>3 DEF Shape
<1>5. board.shot \in Nat /\ board'.shot \in Nat BY <1>2, <1>3 DEF Shape
<1>6. ASSUME NEW t \in Threads, Grabbing(t)' PROVE FrameOf(t)'
  <2>1. Grabbing(t) /\ (Clean(t)' <=> Clean(t)) /\ (InBody(t)' <=> InBody(t)) /\ (Whole(t)' <=> Whole(t))
    BY <1>1, <1>6 DEF Grabbing, Clean, InBody, Whole, Pixels
  <2>2. FrameOf(t) BY <2>1 DEF FrameInv
  <2>3. thread[t].since \in Nat /\ thread[t].since <= board.shot /\ thread'[t].since = thread[t].since
        /\ thread[t].since <= board'.shot
    BY <1>1, <1>3, <1>5, <2>2 DEF FrameOf
  <2>4. OfNow(t) => OfNow(t)' BY <1>1, <1>3, <1>5, <2>3 DEF OfNow
  <2>5. Pixels(thread[t].got)' = Pixels(thread[t].got) BY <1>1 DEF Pixels
  <2>6. Have(t)' = Have(t) BY <2>5 DEF Have
  <2>7. ASSUME Filming(t) PROVE Filming(t)'
    <3>1. CASE Quietly
      <4>1. board'.shot = board.shot /\ board'.mem = board.mem /\ board'.calib = board.calib
        BY <3>1 DEF Film
      <4>2. Captured(board) => Captured(board)' BY <3>1, <4>1 DEF Captured
      <4>3. StreamAt(board, Have(t)) => StreamAt(board, Have(t))'
        BY <2>6, <3>1, <4>1 DEF StreamAt, Pixel
      <4>4. QED BY <1>1, <2>4, <2>5, <2>6, <2>7, <3>1, <4>1, <4>2, <4>3 DEF Filming
    <3>2. CASE Starting
      <4>1. ~ Captured(board) BY <3>2 DEF Captured
      <4>2. ~ (Len(thread[t].got) >= 2) BY <2>7, <4>1 DEF Filming
      <4>3. Len(thread[t].got) = 1 => board.busy BY <2>7, <4>1 DEF Filming
      <4>4. OfNow(t)' BY <1>1, <1>5, <2>3, <3>2 DEF OfNow
      <4>5. Len(thread[t].got) >= 3 => Len(thread[t].got) >= 2
        <5>1. IsSeq(thread[t].got) BY <2>1 DEF Inv, Follows
        <5>2. PICK S : thread[t].got \in Seq(S) BY <5>1 DEF IsSeq
        <5>3. PICK l \in Nat : l = Len(thread[t].got) BY <5>2
        <5>4. QED BY <5>3
      <4>6. QED BY <1>1, <3>2, <4>2, <4>3, <4>4, <4>5 DEF Filming
    <3>3. CASE Ending
      <4>1. ~ Captured(board) BY <3>3 DEF Captured
      <4>2. ~ (Len(thread[t].got) >= 2) BY <2>7, <4>1 DEF Filming
      <4>3. Len(thread[t].got) = 1 => OfNow(t) BY <2>7, <3>3, <4>1 DEF Filming
      <4>4. Captured(board)' BY <3>3 DEF Captured
      <4>5. Len(thread[t].got) >= 3 => Len(thread[t].got) >= 2
        <5>1. IsSeq(thread[t].got) BY <2>1 DEF Inv, Follows
        <5>2. PICK S : thread[t].got \in Seq(S) BY <5>1 DEF IsSeq
        <5>3. PICK l \in Nat : l = Len(thread[t].got) BY <5>2
        <5>4. QED BY <5>3
      <4>6. QED BY <1>1, <2>4, <4>2, <4>3, <4>4, <4>5 DEF Filming
    <3>4. QED BY <1>3, <3>1, <3>2, <3>3
  <2>8. QED BY <1>1, <2>1, <2>2, <2>3, <2>7 DEF FrameOf
<1>7. QED BY <1>4, <1>6 DEF FrameInv

\* A power cycle and the engine's watchdog mark the grab that they hit.
LEMMA FrameMarked ==
  ASSUME Records, FrameInv, NEW x \in {"watchdog", "restarted"}, Marked(x),
         Shape(board'), board'.shot = board.shot,
         \A t \in Threads : Grabbing(t) /\ InBody(t) => x \in thread'[t].odd
  PROVE  FrameInv'
<1>1. Shape(board)' BY DEF Shape
<1>2. board.shot \in Nat /\ board'.shot \in Nat /\ board'.shot >= board.shot BY DEF FrameInv, Shape
<1>3. ASSUME NEW u \in Threads, Grabbing(u)' PROVE FrameOf(u)'
  <2>1. /\ thread'[u].at = thread[u].at /\ thread'[u].q = thread[u].q
        /\ thread'[u].got = thread[u].got /\ thread'[u].res = thread[u].res
        /\ thread'[u].since = thread[u].since
        /\ thread'[u].odd \in {thread[u].odd, thread[u].odd \cup {x}}
    BY MarkedFields DEF Records
  <2>2. Grabbing(u) /\ (InBody(u)' <=> InBody(u)) BY <1>3, <2>1 DEF Grabbing, InBody
  <2>3. FrameOf(u) BY <2>2 DEF FrameInv
  <2>4. ~ (Clean(u)' /\ InBody(u)') BY <2>2 DEF Clean
  <2>5. thread'[u].at \in GrabPlaces BY <2>1, <2>3 DEF FrameOf
  <2>6. thread[u].odd \subseteq thread'[u].odd BY <2>1
  <2>7. QED BY <1>2, <1>3, <2>1, <2>2, <2>3, <2>4, <2>5, <2>6, FrameKept
<1>4. QED BY <1>1, <1>3 DEF FrameInv

LEMMA FrameStays ==
  ASSUME FrameInv, board' = board,
         \A t \in Threads : /\ thread'[t].at = thread[t].at /\ thread'[t].q = thread[t].q
                            /\ thread'[t].got = thread[t].got /\ thread'[t].res = thread[t].res
                            /\ thread'[t].since = thread[t].since /\ thread'[t].odd = thread[t].odd
  PROVE  FrameInv'
<1>1. Shape(board) /\ board.shot \in Nat /\ board'.shot = board.shot BY DEF FrameInv, Shape
<1>2. Shape(board)' BY <1>1 DEF Shape
<1>3. ASSUME NEW u \in Threads, Grabbing(u)' PROVE FrameOf(u)'
  <2>1. Grabbing(u) /\ (InBody(u)' <=> InBody(u)) BY <1>3 DEF Grabbing, InBody
  <2>2. FrameOf(u) BY <2>1 DEF FrameInv
  <2>3. thread'[u].at \in GrabPlaces BY <2>2 DEF FrameOf
  <2>4. board'.shot >= board.shot BY <1>1
  <2>5. QED BY <1>1, <1>3, <2>1, <2>2, <2>3, <2>4, FrameKept
<1>4. QED BY <1>2, <1>3 DEF FrameInv

LEMMA FrameInductive == Inv /\ LockInv /\ CancelInv /\ FrameInv /\ [Next]_vars => FrameInv'
<1> SUFFICES ASSUME Inv, LockInv, CancelInv, FrameInv, [Next]_vars PROVE FrameInv' OBVIOUS
<1>1. Records /\ Shape(board) BY DEF Inv, FrameInv
<1>2. ASSUME board' = board, thread' = thread PROVE FrameInv' BY <1>2, FrameStays
<1>3. CASE UNCHANGED vars BY <1>2, <1>3 DEF vars
<1>4. CASE \E t \in Threads : (\E q \in session.may : Ask(t, q)) \/ Step(t)
  BY <1>1, <1>4, FrameAsk, FrameThread
<1>5. CASE PostCancel
  <2>1. board' = board BY <1>5 DEF PostCancel, Board
  <2>2. ASSUME NEW t \in Threads
        PROVE  /\ thread'[t].at = thread[t].at /\ thread'[t].q = thread[t].q
               /\ thread'[t].got = thread[t].got /\ thread'[t].res = thread[t].res
               /\ thread'[t].since = thread[t].since /\ thread'[t].odd = thread[t].odd
    <3> DEFINE x == Min({thread[t].asked, Len(Pixels(thread[t].got))})
    <3>1. thread'[t] = [thread[t] EXCEPT !.asked = x] \/ thread'[t] = thread[t]
      BY <1>5 DEF PostCancel
    <3> HIDE DEF x
    <3>2. QED BY <1>1, <3>1 DEF Records, ThreadRecords
  <2>3. QED BY <2>1, <2>2, FrameStays
<1>6. CASE BoardMoves BY <1>6, FrameBoard
<1>7. CASE Watchdog
  <2>1. board' = WatchdogEnds(board) /\ Marked("watchdog") BY <1>7, WatchdogMarks DEF Watchdog
  <2>2. Shape(board') /\ board'.shot = board.shot
    BY <1>1, <2>1 DEF WatchdogEnds, Shape, BoardFields
  <2>3. ASSUME NEW t \in Threads, Grabbing(t), InBody(t) PROVE "watchdog" \in thread'[t].odd
    <3>1. lock = t BY <2>3 DEF LockInv, Uses, InBody
    <3>2. thread'[t] = [thread[t] EXCEPT !.odd = @ \cup {"watchdog"}] BY <1>7, <2>3, <3>1 DEF Watchdog
    <3>3. QED BY <1>1, <3>2 DEF Records, ThreadRecords
  <2>4. QED BY <1>1, <2>1, <2>2, <2>3, FrameMarked
<1>8. CASE Unplug
  <2>1. board' = [PowerOn(board.calib, board.serv) EXCEPT !.shot = board.shot] /\ Marked("restarted")
    BY <1>8, UnplugMarks DEF Unplug
  <2>2. Shape(board') /\ board'.shot = board.shot
    <3> DEFINE d == PowerOn(board.calib, board.serv)
    <3>1. Shape(d) BY PowerShapes
    <3>2. board' = [d EXCEPT !.shot = board.shot] BY <2>1
    <3> HIDE DEF d
    <3>3. QED BY <1>1, <3>1, <3>2 DEF Shape, BoardFields
  <2>3. ASSUME NEW t \in Threads, InBody(t) PROVE "restarted" \in thread'[t].odd
    <3>1. thread'[t] = [thread[t] EXCEPT !.odd = @ \cup {"restarted"}] BY <1>8, <2>3 DEF Unplug
    <3>2. QED BY <1>1, <3>1 DEF Records, ThreadRecords
  <2>4. QED BY <1>1, <2>1, <2>2, <2>3, FrameMarked
<1>9. CASE Replug BY <1>2, <1>9 DEF Replug, Board
<1>10. QED BY <1>3, <1>4, <1>5, <1>6, <1>7, <1>8, <1>9 DEF Next

LEMMA FrameInit == Init => FrameInv
<1> SUFFICES ASSUME Init PROVE FrameInv OBVIOUS
<1>1. \A t \in Threads : ~ Grabbing(t) BY DEF Init, Grabbing, Idle
<1>2. Shape(board) BY PowerShapes DEF Init
<1>3. QED BY <1>1, <1>2 DEF FrameInv

\* A frame that is answered is one capture in raster order, taken after the
\* request for it, whatever size a frame, a burst and a chunk have, however
\* many requests come and whatever fails, except in the cases it names: a chunk
\* sent twice, the engine's watchdog, a power cycle and a capture under way.
THEOREM OneCapture == Spec => []FrameIsOneCapture
<1>1. FrameInv => FrameIsOneCapture
  <2> SUFFICES ASSUME FrameInv, NEW t \in Threads, Served(t, "grab"),
                      thread[t].odd \cap {"twice", "watchdog", "restarted"} = {}
               PROVE  Whole(t)
    BY DEF FrameIsOneCapture, Whole
  <2>1. Clean(t) /\ thread[t].at = "leave" /\ thread[t].res = "ok" BY DEF Served, Clean, Grabbing
  <2>2. FrameOf(t) BY <2>1 DEF FrameInv, Clean
  <2>3. QED BY <2>1, <2>2 DEF FrameOf
<1>2. QED BY <1>1, Initially, Inductive, LockInit, LockInductive, CancelInit, CancelInductive,
             FrameInit, FrameInductive, PTL DEF Spec


-----------------------------------------------------------------------------
(* What a step does to the board, to the lock and to what a user knows *)

\* What a thread asked for, received and asks next stays.
Same(t) ==
  /\ thread'[t].q = thread[t].q /\ thread'[t].got = thread[t].got
  /\ thread'[t].op = thread[t].op /\ thread'[t].odd = thread[t].odd

Untouched == board' = board /\ seen' = seen

Freed(t) == lock' = IF thread[t].q.route = "grab" THEN NoThread ELSE lock

\* Around the body: /api/state, and the connection that is closed and opened.
Asks(t) ==
  /\ thread[t].at \in {"state", "describe"} /\ thread'[t].at \in {"describe", "leave"} /\ lock' = lock
Locks(t) ==
  /\ thread[t].at = "lock" /\ lock = NoThread /\ lock' = t
  /\ thread'[t].at \in {"drop", "test"} /\ thread'[t].res = thread[t].res
Tests(t) ==
  \/ thread[t].at = "test" /\ thread'[t].at = "require" /\ thread'[t].res = thread[t].res /\ lock' = lock
  \/ /\ thread[t].at \in {"test", "require"} /\ thread'[t].at = "leave" /\ thread'[t].res \in {"error", "crash"}
     /\ Freed(t)
Drops(t) ==
  /\ thread[t].at \in {"drop", "close", "clear"} /\ thread'[t].at \in {"close", "clear", "open", "leave"}
  /\ thread'[t].at = "open" => thread[t].q.route = "connect"
  /\ thread'[t].res \in {thread[t].res, "crash"} /\ lock' = lock
Opens(t) ==
  /\ thread[t].at = "open" /\ lock' = lock
  /\ \/ thread'[t].at = "body" /\ thread'[t].res = thread[t].res
     \/ thread'[t].at = "leave" /\ thread'[t].res = "error"
Walks(t) ==
  /\ Same(t) /\ Untouched
  /\ Asks(t) \/ Locks(t) \/ Tests(t) \/ Drops(t) \/ Opens(t)

\* With the lock, and a connection.
Takes(t) ==
  /\ Same(t) /\ Untouched /\ lock' = lock
  /\ thread[t].at = "require" /\ thread'[t].at = "body" /\ thread'[t].res = thread[t].res

\* An operation that was executed any number of times, and not answered.
GivesUp(t) ==
  /\ InBody(t) /\ Same(t) /\ Freed(t)
  /\ thread'[t].at \in {"drop", "leave"} /\ thread'[t].res \in {"error", "lost", "cancelled"}
  /\ thread'[t].at = "drop" => thread[t].q.route # "connect"
  /\ \/ Untouched /\ thread[t].q.route = "grab"
     \/ /\ seen' = Doubt(seen, thread[t].q)
        /\ \/ board' = board
           \/ /\ Calling(t) /\ Ready(board, thread[t].op)
              /\ \E n \in Nat : board' = After(board, thread[t].op, n)

LooksOn(t) ==
  /\ InBody(t) /\ Grabbing(t) /\ Same(t) /\ Untouched /\ lock' = lock
  /\ thread'[t].at = "fetch" /\ thread'[t].conn = thread[t].conn /\ thread'[t].res = thread[t].res

Succeeds(t) ==
  /\ InBody(t) /\ Same(t) /\ Freed(t)
  /\ thread[t].op.fn = "end" /\ thread'[t].at = "leave" /\ thread'[t].res = "ok"
  /\ board' = board
  /\ seen' = IF "restarted" \notin thread[t].odd
             THEN Learn(seen, thread[t].q, "twice" \in thread[t].odd) ELSE Doubt(seen, thread[t].q)

Hears(t, n) ==
  LET r == Answered(board, thread[t].op, n)
  IN
  /\ InBody(t) /\ Calling(t) /\ Ready(board, thread[t].op)
  /\ n \in Nat \ {0} /\ (thread[t].op.fn = "wait" => n = 1)
  /\ board' = r[2] /\ seen' = seen /\ lock' = lock
  /\ thread'[t].q = thread[t].q /\ thread'[t].got = Append(thread[t].got, r[1])
  /\ thread'[t].op = OpAfter(thread[t].q, Append(thread[t].got, r[1]))
  /\ thread'[t].at = "body" /\ thread'[t].res = thread[t].res /\ thread'[t].conn = thread[t].conn
  /\ thread[t].odd \subseteq thread'[t].odd /\ thread'[t].odd \subseteq thread[t].odd \cup {"twice", "running"}
  /\ n > 1 /\ Repeats(thread[t].op) => "twice" \in thread'[t].odd

Goes(t) ==
  /\ thread[t].at = "leave" /\ thread'[t] = Idle /\ Untouched
  /\ lock' = IF lock = t THEN NoThread ELSE lock

OthersKept(t) == ThreadRecords' /\ \A u \in Threads \ {t} : thread'[u] = thread[u]

LEMMA FailGivesUp ==
  ASSUME ThreadRecords, NEW t \in Threads, NEW res, res \in {"error", "lost", "cancelled"}, InBody(t), Fail(t, res),
         \/ Untouched /\ thread[t].q.route = "grab"
         \/ /\ seen' = Doubt(seen, thread[t].q)
            /\ \/ board' = board
               \/ /\ Calling(t) /\ Ready(board, thread[t].op)
                  /\ \E n \in Nat : board' = After(board, thread[t].op, n)
  PROVE  GivesUp(t) /\ OthersKept(t)
<1> DEFINE at == IF res = "lost" /\ thread[t].q.route # "connect" THEN "drop" ELSE "leave"
<1>1. thread' = [thread EXCEPT ![t].res = res, ![t].at = at] /\ Freed(t) BY DEF Fail, Freed
<1>2. at \in {"drop", "leave"} /\ (at = "drop" => thread[t].q.route # "connect") OBVIOUS
<1> HIDE DEF at
<1>3. /\ Same(t) /\ thread'[t].at = at /\ thread'[t].res = res
      /\ OthersKept(t)
  BY <1>1 DEF ThreadRecords, Same, OthersKept
<1>4. QED BY <1>1, <1>2, <1>3 DEF GivesUp

LEMMA MoveWalks ==
  ASSUME ThreadRecords, NEW t \in Threads, NEW at, thread' = [thread EXCEPT ![t].at = at]
  PROVE  /\ OthersKept(t) /\ Same(t) /\ thread'[t].at = at /\ thread'[t].res = thread[t].res
         /\ thread'[t].conn = thread[t].conn
BY DEF ThreadRecords, OthersKept, Same

LEMMA EndWalks ==
  ASSUME ThreadRecords, NEW t \in Threads, NEW res, Ends(t, res)
  PROVE  /\ OthersKept(t) /\ Same(t) /\ thread'[t].at = "leave" /\ thread'[t].res = res
         /\ thread'[t].conn = thread[t].conn
BY DEF ThreadRecords, OthersKept, Same, Ends

\* A request that finds no connection is over; the grab's gives up the lock.
LEMMA FailTests ==
  ASSUME ThreadRecords, NEW t \in Threads, NEW res \in {"error", "crash"}, Fail(t, res), Untouched,
         thread[t].at \in {"test", "require"}
  PROVE  Walks(t) /\ OthersKept(t)
<1>1. thread' = [thread EXCEPT ![t].res = res, ![t].at = "leave"] /\ Freed(t) BY DEF Fail, Freed
<1>2. /\ Same(t) /\ thread'[t].at = "leave" /\ thread'[t].res = res /\ OthersKept(t)
  BY <1>1 DEF ThreadRecords, Same, OthersKept
<1>3. QED BY <1>1, <1>2 DEF Walks, Tests

LEMMA AnswersHears ==
  ASSUME ThreadRecords, NEW t \in Threads, NEW n \in 1..Resends+1, InBody(t), Answers(t, n)
  PROVE  Hears(t, n) /\ OthersKept(t)
<1> DEFINE r == Answered(board, thread[t].op, n)
           odd == (IF n > 1 /\ Repeats(thread[t].op) THEN {"twice"} ELSE {})
                    \cup (IF thread[t].op.addr = REG_GRAB /\ thread[t].op.value = 1 /\ board.engine = "capture"
                          THEN {"running"} ELSE {})
           got == Append(thread[t].got, r[1])
           op == OpAfter(thread[t].q, got)
<1>1. thread' = [thread EXCEPT ![t].at = "body", ![t].got = got, ![t].odd = @ \cup odd, ![t].op = op]
  BY DEF Answers
<1>2. /\ Calling(t) /\ Ready(board, thread[t].op) /\ board' = r[2] /\ seen' = seen /\ lock' = lock
      /\ (thread[t].op.fn = "wait" => n = 1)
  BY DEF Answers
<1>3. n \in Nat \ {0} BY ResendAssumption
<1>4. /\ odd \subseteq {"twice", "running"}
      /\ n > 1 /\ Repeats(thread[t].op) => "twice" \in odd
  OBVIOUS
<1>5. got = Append(thread[t].got, r[1]) /\ op = OpAfter(thread[t].q, Append(thread[t].got, r[1])) OBVIOUS
<1> HIDE DEF op, got, odd, r
<1>6. /\ thread'[t].q = thread[t].q /\ thread'[t].got = got /\ thread'[t].op = op
      /\ thread'[t].at = "body" /\ thread'[t].res = thread[t].res /\ thread'[t].conn = thread[t].conn
      /\ thread'[t].odd = thread[t].odd \cup odd /\ OthersKept(t)
  BY <1>1 DEF ThreadRecords, OthersKept
<1>7. thread[t].odd \subseteq thread'[t].odd /\ thread'[t].odd \subseteq thread[t].odd \cup {"twice", "running"}
      /\ (n > 1 /\ Repeats(thread[t].op) => "twice" \in thread'[t].odd)
  BY <1>4, <1>6
<1>8. QED BY <1>2, <1>3, <1>5, <1>6, <1>7 DEF Hears, r

\* A step is one of these.
LEMMA Turns ==
  ASSUME ThreadRecords, NEW t \in Threads, Step(t)
  PROVE  /\ OthersKept(t)
         /\ \/ Walks(t) \/ Takes(t) \/ GivesUp(t) \/ LooksOn(t) \/ Succeeds(t) \/ Goes(t)
            \/ \E n \in 1..Resends+1 : Hears(t, n)
<1>1. CASE StateConnected(t)
  <2>1. thread[t].at = "state" /\ Untouched /\ lock' = lock BY <1>1 DEF StateConnected, Board, Untouched
  <2>2. Ends(t, "ok") \/ thread' = [thread EXCEPT ![t].at = "describe"] BY <1>1 DEF StateConnected, Goto
  <2>3. OthersKept(t) /\ Same(t) /\ thread'[t].at \in {"leave", "describe"} BY <2>2, EndWalks, MoveWalks
  <2>4. QED BY <2>1, <2>3 DEF Walks, Asks
<1>2. CASE StateDescribe(t)
  <2>1. thread[t].at = "describe" /\ Untouched /\ lock' = lock BY <1>2 DEF StateDescribe, Board, Untouched
  <2>2. \E res : Ends(t, res) BY <1>2 DEF StateDescribe
  <2>3. OthersKept(t) /\ Same(t) /\ thread'[t].at = "leave" BY <2>2, EndWalks
  <2>4. QED BY <2>1, <2>3 DEF Walks, Asks
<1>3. CASE Acquire(t)
  <2> DEFINE at == IF thread[t].q.route \in {"connect", "disconnect"} THEN "drop" ELSE "test"
  <2>1. thread' = [thread EXCEPT ![t].at = at] /\ thread[t].at = "lock" /\ Untouched
        /\ lock = NoThread /\ lock' = t
    BY <1>3 DEF Acquire, Goto, Board, Untouched
  <2>2. at \in {"drop", "test"} OBVIOUS
  <2> HIDE DEF at
  <2>3. OthersKept(t) /\ Same(t) /\ thread'[t].at = at /\ thread'[t].res = thread[t].res BY <2>1, MoveWalks
  <2>4. QED BY <2>1, <2>2, <2>3 DEF Walks, Locks
<1>4. CASE Test(t)
  <2>1. thread[t].at = "test" /\ Untouched BY <1>4 DEF Test, Board, Untouched
  <2>2. CASE client = NoClient
    <3>1. Fail(t, "error") BY <1>4, <2>2 DEF Test
    <3>2. QED BY <2>1, <3>1, FailTests
  <2>3. CASE client # NoClient
    <3>1. thread' = [thread EXCEPT ![t].at = "require"] /\ lock' = lock BY <1>4, <2>3 DEF Test, Goto
    <3>2. OthersKept(t) /\ Same(t) /\ thread'[t].at = "require" /\ thread'[t].res = thread[t].res
      BY <3>1, MoveWalks
    <3>3. QED BY <2>1, <3>1, <3>2 DEF Walks, Tests
  <2>4. QED BY <2>2, <2>3
<1>5. CASE _require_client(t)
  <2>1. thread[t].at = "require" /\ Untouched BY <1>5 DEF _require_client, Board, Untouched
  <2>2. CASE client = NoClient
    <3>1. Fail(t, "crash") BY <1>5, <2>2 DEF _require_client
    <3>2. QED BY <2>1, <3>1, FailTests
  <2>3. CASE client # NoClient
    <3>1. thread' = [thread EXCEPT ![t].at = "body", ![t].conn = client] /\ lock' = lock
      BY <1>5, <2>3 DEF _require_client
    <3>2. OthersKept(t) /\ Same(t) /\ thread'[t].at = "body" /\ thread'[t].res = thread[t].res
      BY <3>1 DEF ThreadRecords, OthersKept, Same
    <3>3. QED BY <2>1, <3>1, <3>2 DEF Takes
  <2>4. QED BY <2>2, <2>3
<1>6. CASE Drop(t)
  <2> DEFINE at == IF client = NoClient THEN Dropped(t) ELSE "close"
  <2>1. thread' = [thread EXCEPT ![t].at = at] /\ thread[t].at = "drop" /\ Untouched /\ lock' = lock
    BY <1>6 DEF Drop, Goto, Board, Untouched
  <2>2. at \in {"open", "leave", "close"} /\ (at = "open" => thread[t].q.route = "connect") BY DEF Dropped
  <2> HIDE DEF at
  <2>3. OthersKept(t) /\ Same(t) /\ thread'[t].at = at /\ thread'[t].res = thread[t].res BY <2>1, MoveWalks
  <2>4. QED BY <2>1, <2>2, <2>3 DEF Walks, Drops
<1>7. CASE Close(t)
  <2>1. thread[t].at = "close" /\ Untouched /\ lock' = lock BY <1>7 DEF Close, Board, Untouched
  <2>2. Ends(t, "crash") \/ thread' = [thread EXCEPT ![t].at = "clear"] BY <1>7 DEF Close, Goto
  <2>4. CASE Ends(t, "crash")
    <3>1. OthersKept(t) /\ Same(t) /\ thread'[t].at = "leave" /\ thread'[t].res = "crash" BY <2>4, EndWalks
    <3>2. QED BY <2>1, <3>1 DEF Walks, Drops
  <2>5. CASE thread' = [thread EXCEPT ![t].at = "clear"]
    <3>1. OthersKept(t) /\ Same(t) /\ thread'[t].at = "clear" /\ thread'[t].res = thread[t].res
      BY <2>5, MoveWalks
    <3>2. QED BY <2>1, <3>1 DEF Walks, Drops
  <2>6. QED BY <2>2, <2>4, <2>5
<1>8. CASE Clear(t)
  <2> DEFINE at == Dropped(t)
  <2>1. thread' = [thread EXCEPT ![t].at = at] /\ thread[t].at = "clear" /\ Untouched /\ lock' = lock
    BY <1>8 DEF Clear, Goto, Board, Untouched
  <2>2. at \in {"open", "leave"} /\ (at = "open" => thread[t].q.route = "connect") BY DEF Dropped
  <2> HIDE DEF at
  <2>3. OthersKept(t) /\ Same(t) /\ thread'[t].at = at /\ thread'[t].res = thread[t].res BY <2>1, MoveWalks
  <2>4. QED BY <2>1, <2>2, <2>3 DEF Walks, Drops
<1>9. CASE Open(t)
  <2>1. thread[t].at = "open" /\ Untouched /\ lock' = lock BY <1>9 DEF Open, Board, Untouched
  <2>2. CASE port /\ handles = {}
    <3>1. PICK c \in Fresh : thread' = [thread EXCEPT ![t].at = "body", ![t].conn = c] BY <1>9, <2>2 DEF Open
    <3>3. Same(t) /\ thread'[t].at = "body" /\ thread'[t].res = thread[t].res /\ OthersKept(t)
      BY <3>1 DEF ThreadRecords, Same, OthersKept
    <3>4. QED BY <2>1, <3>3 DEF Walks, Opens
  <2>3. CASE ~ (port /\ handles = {})
    <3>1. Ends(t, "error") BY <1>9, <2>3 DEF Open
    <3>2. OthersKept(t) /\ Same(t) /\ thread'[t].at = "leave" /\ thread'[t].res = "error" BY <3>1, EndWalks
    <3>3. QED BY <2>1, <3>2 DEF Walks, Opens
  <2>4. QED BY <2>2, <2>3
<1>10. ASSUME InBody(t), Operates(t)
      PROVE  /\ OthersKept(t)
             /\ GivesUp(t) \/ LooksOn(t) \/ Succeeds(t) \/ \E n \in 1..Resends+1 : Hears(t, n)
  <2>1. CASE Rejected(t)
    <3>1. Fail(t, "error") /\ seen' = Doubt(seen, thread[t].q) /\ board' = board BY <2>1 DEF Rejected
    <3>2. QED BY <1>10, <3>1, FailGivesUp
  <2>2. CASE Deadline(t)
    <3>1. Fail(t, "error") /\ seen' = Doubt(seen, thread[t].q) /\ board' = board BY <2>2 DEF Deadline
    <3>2. QED BY <1>10, <3>1, FailGivesUp
  <2>3. CASE Loses(t)
    <3>1. Fail(t, "lost") /\ seen' = Doubt(seen, thread[t].q) /\ board' = board BY <2>3 DEF Loses
    <3>2. QED BY <1>10, <3>1, FailGivesUp
  <2>4. CASE \E n \in 0..Resends+1 : TimesOut(t, n)
    <3>1. PICK n \in 0..Resends+1 : TimesOut(t, n) BY <2>4
    <3>2. n \in Nat BY ResendAssumption
    <3>3. /\ Fail(t, "error") /\ seen' = Doubt(seen, thread[t].q) /\ board' = After(board, thread[t].op, n)
          /\ Calling(t) /\ Ready(board, thread[t].op)
      BY <3>1 DEF TimesOut
    <3>4. QED BY <1>10, <3>2, <3>3, FailGivesUp
  <2>5. CASE Looks(t)
    <3>1. Grabbing(t) /\ Untouched /\ thread[t].q.route = "grab" BY <2>5 DEF Looks, Board, Untouched, Grabbing
    <3>2. CASE should_cancel(t)
      <4>1. Fail(t, "cancelled") BY <2>5, <3>2 DEF Looks
      <4>2. QED BY <1>10, <3>1, <4>1, FailGivesUp
    <3>3. CASE ~ should_cancel(t)
      <4>1. thread' = [thread EXCEPT ![t].at = "fetch"] /\ lock' = lock BY <2>5, <3>3 DEF Looks, Goto
      <4>2. /\ OthersKept(t) /\ Same(t) /\ thread'[t].at = "fetch" /\ thread'[t].res = thread[t].res
            /\ thread'[t].conn = thread[t].conn
        BY <4>1, MoveWalks
      <4>3. LooksOn(t) BY <1>10, <3>1, <4>1, <4>2 DEF LooksOn
      <4>4. QED BY <4>2, <4>3
    <3>4. QED BY <3>2, <3>3
  <2>6. CASE Completes(t)
    <3>1. /\ Ends(t, "ok") /\ Freed(t) /\ board' = board /\ thread[t].op.fn = "end"
          /\ seen' = IF "restarted" \notin thread[t].odd
                     THEN Learn(seen, thread[t].q, "twice" \in thread[t].odd) ELSE Doubt(seen, thread[t].q)
      BY <2>6 DEF Completes, Freed
    <3>2. OthersKept(t) /\ Same(t) /\ thread'[t].at = "leave" /\ thread'[t].res = "ok" BY <3>1, EndWalks
    <3>3. Succeeds(t) BY <1>10, <3>1, <3>2 DEF Succeeds
    <3>4. QED BY <3>2, <3>3
  <2>7. CASE \E n \in 1..Resends+1 : Answers(t, n) BY <1>10, <2>7, AnswersHears
  <2>8. QED BY <1>10, <2>1, <2>2, <2>3, <2>4, <2>5, <2>6, <2>7 DEF Operates
<1>11. CASE Leave(t)
  <2>1. /\ thread' = [thread EXCEPT ![t] = Idle] /\ thread[t].at = "leave" /\ Untouched
        /\ lock' = IF lock = t THEN NoThread ELSE lock
    BY <1>11 DEF Leave, Board, Untouched
  <2>2. DOMAIN Idle = {"at", "q", "conn", "op", "got", "res", "since", "odd", "asked"} BY DEF Idle
  <2>3. OthersKept(t) /\ thread'[t] = Idle BY <2>1, <2>2 DEF ThreadRecords, OthersKept
  <2>4. QED BY <2>1, <2>3 DEF Goes
<1>12. QED BY <1>1, <1>2, <1>3, <1>4, <1>5, <1>6, <1>7, <1>8, <1>9, <1>10, <1>11 DEF Step

-----------------------------------------------------------------------------
(* What the programs of the routes write *)

\* The registers that a request may write.
Touches(q) ==
  CASE q.route = "control" -> IF CONTROLS[q.id].type = "gamma" THEN Range(gamma_register_addrs)
                              ELSE RegsOf(CONTROLS[q.id])
    [] q.route = "coeff"   -> {MTX_REGS[q.index + 1], MTXS_REG}
    [] q.route = "center"  -> {MTXS_REG}
    [] q.route = "grab"    -> {REG_GRAB, REG_STREAM}
    [] q.route = "reset_defaults" -> {REG_REINIT}
    [] q.route \in {"upload", "serv_reset"} -> {REG_MCU_RESET, REG_BOOT_LEN, REG_BOOT_DATA}
    [] q.route = "osd"      -> {REG_OSD_ADDR}
    [] q.route = "osd_post" -> {REG_OSD_CTRL, REG_OSD_ADDR, REG_OSD_DATA}
    [] q.route = "raw_post" -> {q.addr}
    [] OTHER -> {}

\* An operation that writes what its register can hold.
Fits(op) ==
  /\ op.addr \in CamRegs => op.value \subseteq 0..7
  /\ op.addr = REG_OSD_ADDR => op.value \in 0..OSD_CELLS-1

Tame(q, op) ==
  /\ op.fn \in {"write", "read", "wait", "raise"}
  /\ op.fn = "write" => op.addr \in Touches(q) /\ Fits(op)
  /\ op.fn # "write" => op.count \in 1..125

TameSeq(q, s) == IsSeq(s) /\ \A i \in 1..Len(s) : Tame(q, s[i])

\* The answers a program goes on from, and the register they are read from.
Reading(q) ==
  CASE q.route = "control" -> (CASE CONTROLS[q.id].type = "bit" -> {1}
                                 [] CONTROLS[q.id].type = "pattern" -> {1, 4}
                                 [] OTHER -> {})
    [] q.route = "coeff"   -> {2}
    [] q.route = "center"  -> {1}
    [] OTHER -> {}

Heard(q, got) == IsSeq(got) /\ \A i \in Reading(q) : i \in 1..Len(got) => got[i][1] \subseteq 0..7

LEMMA ReadTame == ASSUME NEW q, NEW a, NEW n PROVE Tame(q, ReadHolding(a, n))
<1>1. CASE n \in 1..125
  <2>1. ReadHolding(a, n) = [fn |-> "read", addr |-> a, count |-> n, value |-> 0] BY <1>1 DEF ReadHolding
  <2>2. QED BY <1>1, <2>1 DEF Tame
<1>2. CASE n \notin 1..125 BY <1>2 DEF ReadHolding, Tame, Raise
<1>3. QED BY <1>1, <1>2

LEMMA WaitTame == ASSUME NEW q, NEW a PROVE Tame(q, WaitIdle(a))
BY DEF WaitIdle, Tame

LEMMA RaiseTame == ASSUME NEW q PROVE Tame(q, Raise)
BY DEF Raise, Tame

LEMMA WriteTame ==
  ASSUME NEW q, NEW a \in Touches(q), NEW v, a \in CamRegs => v \subseteq 0..7,
         a = REG_OSD_ADDR => v \in 0..OSD_CELLS-1
  PROVE  Tame(q, WriteSingle(a, v))
<1>1. /\ WriteSingle(a, v).fn = "write" /\ WriteSingle(a, v).addr = a /\ WriteSingle(a, v).value = v
  BY DEF WriteSingle
<1>2. QED BY <1>1 DEF Tame, Fits

LEMMA SeqJoin ==
  ASSUME NEW a, IsSeq(a), NEW b, IsSeq(b)
  PROVE  /\ IsSeq(a \o b) /\ Len(a) \in Nat /\ Len(b) \in Nat /\ Len(a \o b) = Len(a) + Len(b)
         /\ \A i \in 1..Len(a) : (a \o b)[i] = a[i]
         /\ \A i \in Len(a)+1..Len(a)+Len(b) : (a \o b)[i] = b[i - Len(a)]
<1>1. PICK A, B : a \in Seq(A) /\ b \in Seq(B) BY DEF IsSeq
<1> DEFINE S == A \cup B
<1>2. a \in Seq(S) /\ b \in Seq(S) BY <1>1
<1> HIDE DEF S
<1>3. a \o b \in Seq(S) /\ Len(a) \in Nat /\ Len(b) \in Nat BY <1>2, JoinSeq
<1>4. /\ Len(a \o b) = Len(a) + Len(b)
      /\ \A i \in Len(a)+1..Len(a)+Len(b) : (a \o b)[i] = b[i - Len(a)]
  BY <1>2, SecondPart
<1>5. \A i \in 1..Len(a) : (a \o b)[i] = a[i] BY <1>2, FirstPart
<1>6. QED BY <1>3, <1>4, <1>5 DEF IsSeq

LEMMA TameJoin ==
  ASSUME NEW q, NEW a, TameSeq(q, a), NEW b, TameSeq(q, b)
  PROVE  TameSeq(q, a \o b)
<1>1. /\ IsSeq(a \o b) /\ Len(a) \in Nat /\ Len(b) \in Nat /\ Len(a \o b) = Len(a) + Len(b)
      /\ \A i \in 1..Len(a) : (a \o b)[i] = a[i]
      /\ \A i \in Len(a)+1..Len(a)+Len(b) : (a \o b)[i] = b[i - Len(a)]
  BY SeqJoin DEF TameSeq
<1>2. ASSUME NEW i \in 1..Len(a \o b) PROVE Tame(q, (a \o b)[i])
  <2>1. CASE i \in 1..Len(a) BY <1>1, <2>1 DEF TameSeq
  <2>2. CASE i \notin 1..Len(a)
    <3>1. PICK j \in 1..Len(b) : j = i - Len(a) /\ i \in Len(a)+1..Len(a)+Len(b) BY <1>1, <2>2
    <3>2. QED BY <1>1, <3>1 DEF TameSeq
  <2>3. QED BY <2>1, <2>2
<1>3. QED BY <1>1, <1>2 DEF TameSeq

\* A program that is written as a function.
LEMMA TameList ==
  ASSUME NEW q, NEW n \in Nat, NEW f, f = [i \in 1..n |-> f[i]], \A i \in 1..n : Tame(q, f[i])
  PROVE  TameSeq(q, f) /\ Len(f) = n
<1> DEFINE S == {f[i] : i \in 1..n}
<1>1. f \in Seq(S) /\ Len(f) = n
  <2>1. \A i \in 1..n : f[i] \in S OBVIOUS
  <2> HIDE DEF S
  <2>2. QED BY <2>1, IsSequence
<1>2. QED BY <1>1 DEF TameSeq, IsSeq

LEMMA TameOf ==
  ASSUME NEW q, NEW S, \A op \in S : Tame(q, op), NEW s \in Seq(S)
  PROVE  TameSeq(q, s)
<1>1. IsSeq(s) /\ \A i \in 1..Len(s) : s[i] \in S BY DEF IsSeq
<1>2. QED BY <1>1 DEF TameSeq

\* What a read-modify-write makes of an answer.
LEMMA BitsFit ==
  ASSUME NEW cur, NEW mask, mask \subseteq 0..7, NEW on
  PROVE  cur \subseteq 0..7 => SetBits(cur, mask, on) \subseteq 0..7
BY DEF SetBits

LEMMA AnswerFits ==
  ASSUME NEW q, NEW got, Heard(q, got), NEW i \in Reading(q), i \in Nat \ {0}
  PROVE  Answer(got, i) \subseteq 0..7
<1>1. DOMAIN got = 1..Len(got)
  <2>1. PICK S : got \in Seq(S) BY DEF Heard, IsSeq
  <2>2. QED BY <2>1
<1>2. QED BY <1>1 DEF Heard, Answer

LEMMA ModifyTame ==
  ASSUME NEW q, NEW reg \in Touches(q), reg \in CamRegs, NEW mask, mask \subseteq 0..7, NEW on, NEW got, NEW i,
         Answer(got, i) \subseteq 0..7
  PROVE  /\ TameSeq(q, ReadModifyWrite(reg, mask, on, got, i))
         /\ Len(ReadModifyWrite(reg, mask, on, got, i)) = 3
<1> DEFINE r == ReadReg(reg)
           w == WriteSingle(reg, SetBits(Answer(got, i), mask, on))
<1>1. Tame(q, r) BY ReadTame DEF ReadReg
<1>2. Tame(q, w)
  <2>1. reg # REG_OSD_ADDR BY CamLow DEF REG_OSD_ADDR
  <2>2. QED BY <2>1, BitsFit, WriteTame
<1>3. ReadModifyWrite(reg, mask, on, got, i) = <<r, w, r>> BY DEF ReadModifyWrite
<1> HIDE DEF r, w
<1>4. <<r, w, r>> \in Seq({r, w}) /\ Len(<<r, w, r>>) = 3 OBVIOUS
<1>5. QED BY <1>1, <1>2, <1>3, <1>4, TameOf

LEMMA CamHas ==
  /\ \A id \in Ids : RegsOf(CONTROLS[id]) \subseteq CamRegs
  /\ Range(gamma_register_addrs) \subseteq CamRegs
  /\ \A i \in Coeffs : MTX_REGS[i + 1] \in CamRegs
  /\ MTXS_REG \in CamRegs
<1>1. \A id \in Ids : RegsOf(CONTROLS[id]) \subseteq CamRegs BY DEF Ids, CamRegs, NeededRegs
<1>2. Len(MTX_REGS) = 6 BY DEF MTX_REGS
<1>3. \A i \in Coeffs : MTX_REGS[i + 1] \in Range(MTX_REGS)
  <2>1. SUFFICES ASSUME NEW i \in 0..5 PROVE MTX_REGS[i + 1] \in Range(MTX_REGS) BY <1>2 DEF Coeffs
  <2>2. DOMAIN MTX_REGS = 1..6 BY DEF MTX_REGS
  <2>3. i + 1 \in DOMAIN MTX_REGS BY <2>2
  <2>4. QED BY <2>3 DEF Range
<1>4. QED BY <1>1, <1>3 DEF CamRegs

\* The kinds of controls that there are.
LEMMA Kinds ==
  ASSUME NEW id \in Ids
  PROVE  LET c == CONTROLS[id]
         IN  \/ c.type = "byte" /\ RegsOf(c) = {c.reg}
             \/ c.type = "bit" /\ RegsOf(c) = {c.reg} /\ c.mask \subseteq 0..7
             \/ c.type = "gamma" /\ RegsOf(c) = {c.sample_reg}
             \/ c.type = "pattern" /\ RegsOf(c) = Range(PATTERN_REGS)
BY DEF Ids, CONTROLS, ByteControl, BitControl, RegsOf

LEMMA GammaOrder ==
  LET order == Tail(gamma_register_addrs) \o <<SLOP_REG>>
  IN  /\ IsSeq(order) /\ \A i \in 1..Len(order) : order[i] \in Range(gamma_register_addrs)
<1> DEFINE R == Range(gamma_register_addrs)
           b == [i \in 1..15 |-> GAM_BASE + i - 1]
           a == <<SLOP_REG>>
<1>1. gamma_register_addrs = a \o b BY DEF gamma_register_addrs, Knees, GAM_BREAKPOINTS
<1>2. a \in Seq(Int) /\ b \in Seq(Int) /\ Len(a) = 1 /\ a[1] = SLOP_REG BY DEF SLOP_REG, GAM_BASE
<1> HIDE DEF a, b
<1>3. PICK g : g = gamma_register_addrs OBVIOUS
<1>4. g \in Seq(Int) /\ Len(g) = 1 + Len(b) /\ Len(b) \in Nat /\ g[1] = SLOP_REG
  <2>1. g = a \o b /\ 1 \in 1..Len(a) BY <1>1, <1>2, <1>3
  <2>2. a \o b \in Seq(Int) BY <1>2, JoinSeq
  <2>3. Len(a \o b) = Len(a) + Len(b) BY <1>2, SecondPart
  <2>4. \A i \in 1..Len(a) : (a \o b)[i] = a[i] BY <1>2, FirstPart
  <2>5. QED BY <1>2, <2>1, <2>2, <2>3, <2>4
<1>5. g \in Seq(R)
  <2>1. \A i \in 1..Len(g) : g[i] \in R BY <1>3, <1>4 DEF Range
  <2> HIDE DEF R
  <2>2. QED BY <1>4, <2>1
<1>6. SLOP_REG \in R BY <1>3, <1>4 DEF Range
<1> HIDE DEF R
<1>7. g # <<>> BY <1>4
<1>8. Tail(g) \in Seq(R) BY <1>5, <1>7
<1>9. <<SLOP_REG>> \in Seq(R) BY <1>6
<1>10. Tail(g) \o <<SLOP_REG>> \in Seq(R) BY <1>8, <1>9
<1>11. QED BY <1>3, <1>10 DEF IsSeq, R

LEMMA GammaFits ==
  ASSUME NEW g \in Exponents, NEW a \in Range(gamma_register_addrs)
  PROVE  gamma_registers[g][a] \subseteq 0..7
BY DEF gamma_registers, Bits

LEMMA ControlTame ==
  ASSUME NEW q, q.route = "control", Typed(q), ~ Refused(q), NEW got, Heard(q, got)
  PROVE  TameSeq(q, api_control(q, got))
<1> DEFINE c == CONTROLS[q.id]
           v == q.value
<1>1. q.id \in Ids /\ v \in Values(c) BY DEF Refused, Typed, Ids
<1>2. api_control(q, got) = _apply_control(c, v, got) BY DEF api_control
<1>3. RegsOf(c) \subseteq CamRegs BY <1>1, CamHas
<1>4. REG_OSD_ADDR \notin CamRegs BY CamLow DEF REG_OSD_ADDR
<1>5. \/ c.type = "byte" /\ RegsOf(c) = {c.reg}
      \/ c.type = "bit" /\ RegsOf(c) = {c.reg} /\ c.mask \subseteq 0..7
      \/ c.type = "gamma" /\ RegsOf(c) = {c.sample_reg}
      \/ c.type = "pattern" /\ RegsOf(c) = Range(PATTERN_REGS)
  BY <1>1, Kinds
<1>6. Touches(q) = IF c.type = "gamma" THEN Range(gamma_register_addrs) ELSE RegsOf(c) BY DEF Touches
<1>7. Reading(q) = CASE c.type = "bit" -> {1} [] c.type = "pattern" -> {1, 4} [] OTHER -> {} BY DEF Reading
<1>8. Values(c) = CASE c.type = "byte"  -> SUBSET (0..7)
                    [] c.type = "bit"   -> BOOLEAN
                    [] c.type = "gamma" -> Exponents
                    [] OTHER            -> STRING
  BY DEF Values
<1> HIDE DEF c
<1>9. CASE c.type = "byte"
  <2> DEFINE w == WriteSingle(c.reg, v)
             r == ReadReg(c.reg)
  <2>1. _apply_control(c, v, got) = <<w, r>> BY <1>9 DEF _apply_control
  <2>2. Tame(q, r) BY ReadTame DEF ReadReg
  <2>3. c.reg \in Touches(q) /\ c.reg \in CamRegs /\ v \subseteq 0..7 BY <1>1, <1>3, <1>5, <1>6, <1>8, <1>9
  <2>4. Tame(q, w) BY <1>4, <2>3, WriteTame
  <2> HIDE DEF w, r
  <2>5. <<w, r>> \in Seq({w, r}) OBVIOUS
  <2>6. QED BY <1>2, <2>1, <2>2, <2>4, <2>5, TameOf
<1>10. CASE c.type = "bit"
  <2>1. _apply_control(c, v, got) = ReadModifyWrite(c.reg, c.mask, v, got, 1) BY <1>10 DEF _apply_control
  <2>2. c.reg \in Touches(q) /\ c.reg \in CamRegs /\ c.mask \subseteq 0..7 BY <1>3, <1>5, <1>6, <1>10
  <2>3. 1 \in Reading(q) BY <1>7, <1>10
  <2>4. Answer(got, 1) \subseteq 0..7 BY <2>3, AnswerFits
  <2>5. QED BY <1>2, <2>1, <2>2, <2>4, ModifyTame
<1>11. CASE c.type = "gamma"
  <2> DEFINE order == Tail(gamma_register_addrs) \o <<SLOP_REG>>
             w(i) == WriteSingle(order[i], gamma_registers[v][order[i]])
             ws == [i \in DOMAIN order |-> w(i)]
             r == ReadReg(c.sample_reg)
  <2>1. _apply_control(c, v, got) = ws \o <<r>> BY <1>11 DEF _apply_control
  <2>2. IsSeq(order) /\ \A i \in 1..Len(order) : order[i] \in Range(gamma_register_addrs) BY GammaOrder
  <2>3. PICK n \in Nat : n = Len(order) /\ DOMAIN order = 1..n
    <3>1. PICK S : order \in Seq(S) BY <2>2 DEF IsSeq
    <3> HIDE DEF order
    <3>2. QED BY <3>1
  <2> HIDE DEF order
  <2>4. v \in Exponents BY <1>1, <1>8, <1>11
  <2>5. ASSUME NEW i \in 1..n PROVE Tame(q, w(i))
    <3>1. order[i] \in Range(gamma_register_addrs) BY <2>2, <2>3
    <3>2. order[i] \in Touches(q) /\ order[i] \in CamRegs BY <1>6, <1>11, <3>1, CamHas
    <3>3. gamma_registers[v][order[i]] \subseteq 0..7 BY <2>4, <3>1, GammaFits
    <3>4. QED BY <1>4, <3>2, <3>3, WriteTame
  <2> HIDE DEF w
  <2>6. ws = [i \in 1..n |-> w(i)] BY <2>3
  <2>7. ws = [i \in 1..n |-> ws[i]] /\ \A i \in 1..n : ws[i] = w(i) BY <2>6
  <2> HIDE DEF ws
  <2>8. \A i \in 1..n : Tame(q, ws[i]) BY <2>5, <2>7
  <2>9. TameSeq(q, ws) BY <2>7, <2>8, TameList
  <2>10. Tame(q, r) BY ReadTame DEF ReadReg
  <2> HIDE DEF r
  <2>11. <<r>> \in Seq({r}) OBVIOUS
  <2>12. TameSeq(q, <<r>>) BY <2>10, <2>11, TameOf
  <2>13. QED BY <1>2, <2>1, <2>9, <2>12, TameJoin
<1>12. CASE c.type = "pattern"
  <2>1. CASE v \notin DOMAIN PATTERN_OPTIONS
    <3>1. _apply_control(c, v, got) = <<Raise>> BY <1>12, <2>1 DEF _apply_control
    <3>2. <<Raise>> \in Seq({Raise}) OBVIOUS
    <3>3. \A op \in {Raise} : Tame(q, op) BY RaiseTame
    <3>4. TameSeq(q, <<Raise>>) BY <3>2, <3>3, TameOf
    <3>5. QED BY <1>2, <3>1, <3>4
  <2>2. CASE v \in DOMAIN PATTERN_OPTIONS
    <3> DEFINE x == ReadModifyWrite(PATTERN_REGS[1], {7}, PATTERN_OPTIONS[v].xsc, got, 1)
               y == ReadModifyWrite(PATTERN_REGS[2], {7}, PATTERN_OPTIONS[v].ysc, got, 4)
    <3>1. _apply_control(c, v, got) = x \o y BY <1>12, <2>2 DEF _apply_control
    <3>2. Range(PATTERN_REGS) \subseteq Touches(q) /\ Range(PATTERN_REGS) \subseteq CamRegs
      BY <1>3, <1>5, <1>6, <1>12
    <3>3. PATTERN_REGS[1] \in Range(PATTERN_REGS) /\ PATTERN_REGS[2] \in Range(PATTERN_REGS)
      BY DEF PATTERN_REGS, Range
    <3>4. 1 \in Reading(q) /\ 4 \in Reading(q) BY <1>7, <1>12
    <3>5. Answer(got, 1) \subseteq 0..7 /\ Answer(got, 4) \subseteq 0..7 BY <3>4, AnswerFits
    <3>6. {7} \subseteq 0..7 OBVIOUS
    <3>7. PATTERN_REGS[1] \in Touches(q) /\ PATTERN_REGS[1] \in CamRegs
          /\ PATTERN_REGS[2] \in Touches(q) /\ PATTERN_REGS[2] \in CamRegs
      BY <3>2, <3>3
    <3>8. TameSeq(q, x) BY <3>5, <3>6, <3>7, ModifyTame
    <3>9. TameSeq(q, y) BY <3>5, <3>6, <3>7, ModifyTame
    <3> HIDE DEF x, y
    <3>10. QED BY <1>2, <3>1, <3>8, <3>9, TameJoin
  <2>3. QED BY <2>1, <2>2
<1>13. QED BY <1>5, <1>9, <1>10, <1>11, <1>12

LEMMA TameOne == ASSUME NEW q, NEW op, Tame(q, op) PROVE TameSeq(q, <<op>>)
<1>1. <<op>> \in Seq({op}) /\ \A x \in {op} : Tame(q, x) OBVIOUS
<1>2. QED BY <1>1, TameOf

LEMMA NoneTame == ASSUME NEW q PROVE TameSeq(q, <<>>)
<1>1. <<>> \in Seq({}) OBVIOUS
<1>2. QED BY <1>1 DEF TameSeq, IsSeq

\* A list of reads of one register each.
LEMMA ReadsTame ==
  ASSUME NEW q, NEW n \in Nat, NEW regs
  PROVE  TameSeq(q, [i \in 1..n |-> ReadReg(regs[i])])
<1> DEFINE f == [i \in 1..n |-> ReadReg(regs[i])]
<1>1. f = [i \in 1..n |-> f[i]] /\ \A i \in 1..n : f[i] = ReadReg(regs[i]) OBVIOUS
<1>2. \A x : Tame(q, ReadReg(x)) BY ReadTame DEF ReadReg
<1> HIDE DEF f
<1>3. \A i \in 1..n : Tame(q, f[i]) BY <1>1, <1>2
<1>4. TameSeq(q, f) BY <1>1, <1>3, TameList
<1>5. QED BY <1>4 DEF f

LEMMA ChunkCount ==
  ASSUME NEW n \in Nat, NEW max \in Nat \ {0}
  PROVE  Len(Chunks(n, max)) \in Nat /\ Len(Chunks(n, max)) = (n + max - 1) \div max
<1>1. n + max - 1 \in Nat OBVIOUS
<1>2. (n + max - 1) \div max \in Nat BY <1>1, Quotient
<1>3. PICK c \in Nat : c = (n + max - 1) \div max BY <1>2
<1>4. Chunks(n, max) = [i \in 1..c |-> IF i * max <= n THEN max ELSE n % max] BY <1>3 DEF Chunks
<1>5. QED BY <1>3, <1>4

LEMMA StreamTame ==
  ASSUME NEW q, NEW a, NEW n \in Nat
  PROVE  TameSeq(q, ReadStream(a, n))
<1>1. PICK c \in Nat : c = Len(Chunks(n, MAX_READ)) BY ChunkCount, StreamAssumption
<1> DEFINE f == [i \in 1..c |-> ReadHolding(a, Chunks(n, MAX_READ)[i])]
<1>2. ReadStream(a, n) = f BY <1>1 DEF ReadStream
<1>3. f = [i \in 1..c |-> f[i]] /\ \A i \in 1..c : Tame(q, f[i]) BY ReadTame
<1> HIDE DEF f
<1>4. QED BY <1>2, <1>3, TameList

LEMMA WalkTame ==
  ASSUME NEW q, NEW a, NEW n \in Nat, NEW max \in Nat \ {0}
  PROVE  TameSeq(q, ReadWalk(a, n, max))
<1>1. PICK c \in Nat : c = Len(Chunks(n, max)) BY ChunkCount
<1> DEFINE f == [i \in 1..c |-> ReadHolding(a + (i - 1) * max, Chunks(n, max)[i])]
<1>2. ReadWalk(a, n, max) = f BY <1>1 DEF ReadWalk
<1>3. f = [i \in 1..c |-> f[i]] /\ \A i \in 1..c : Tame(q, f[i]) BY ReadTame
<1> HIDE DEF f
<1>4. QED BY <1>2, <1>3, TameList

\* The cells of the overlay are numbered row by row.
LEMMA GridCell ==
  /\ OSD_CELLS \in Nat \ {0}
  /\ \A row, col : OnGrid(row, col) => row * OSD_COLS + col \in 0..OSD_CELLS-1
<1>1. PICK C \in Nat \ {0}, R \in Nat \ {0} : C = OSD_COLS /\ R = OSD_ROWS BY ScreenAssumption
<1>2. OSD_CELLS = C * R /\ C * R \in Nat \ {0} BY <1>1 DEF OSD_CELLS
<1>3. ASSUME NEW row \in 0..R-1, NEW col \in 0..C-1 PROVE row * C + col \in 0..C*R-1
  <2>1. row * C \in Nat BY <1>1
  <2>2. row * C <= (R - 1) * C BY <1>1
  <2>3. (R - 1) * C = C * R - C BY <1>1
  <2>4. QED BY <1>1, <1>2, <2>1, <2>2, <2>3
<1>4. QED BY <1>1, <1>2, <1>3 DEF OnGrid

Codes == {osd_byte(ch) : ch \in Chars}
TextOps == {Raise} \cup {WriteSingle(REG_OSD_ADDR, v) : v \in 0..OSD_CELLS-1}
             \cup {WriteSingle(REG_OSD_DATA, v) : v \in Codes}

LEMMA TextSeq ==
  ASSUME NEW row, NEW col, NEW text \in Seq(Chars)
  PROVE  osd_write_text(row, col, text) \in Seq(TextOps)
<1>1. CASE ~ OnGrid(row, col)
  <2>1. Raise \in TextOps BY DEF TextOps
  <2>2. QED BY <1>1, <2>1 DEF osd_write_text
<1>2. CASE OnGrid(row, col)
  <2> DEFINE w == WriteSingle(REG_OSD_ADDR, row * OSD_COLS + col)
             d(i) == WriteSingle(REG_OSD_DATA, osd_byte(text[i]))
             ds == [i \in 1..Len(text) |-> d(i)]
  <2>1. w \in TextOps
    <3>1. row * OSD_COLS + col \in 0..OSD_CELLS-1 BY <1>2, GridCell
    <3>2. QED BY <3>1 DEF TextOps
  <2>2. \A i \in 1..Len(text) : d(i) \in TextOps
    <3>1. SUFFICES ASSUME NEW i \in 1..Len(text) PROVE d(i) \in TextOps OBVIOUS
    <3>2. text[i] \in Chars OBVIOUS
    <3>3. osd_byte(text[i]) \in Codes BY <3>2 DEF Codes
    <3>4. QED BY <3>3 DEF TextOps
  <2>3. osd_write_text(row, col, text) = <<w>> \o ds BY <1>2 DEF osd_write_text
  <2>4. Len(text) \in Nat OBVIOUS
  <2> HIDE DEF w, d
  <2>5. ds \in Seq(TextOps) BY <2>2, <2>4
  <2>6. <<w>> \in Seq(TextOps) BY <2>1
  <2> HIDE DEF ds
  <2>7. QED BY <2>3, <2>5, <2>6, JoinSeq
<1>3. QED BY <1>1, <1>2

\* The lines of a post, each written in its row.
LineTexts(q) == [i \in 1..Min({Len(q.lines), OSD_ROWS}) |-> osd_write_text(i - 1, 0, q.lines[i])]

LEMMA LineSeq ==
  ASSUME NEW q, q.lines \in Seq(Seq(Chars))
  PROVE  /\ Min({Len(q.lines), OSD_ROWS}) \in Nat
         /\ Min({Len(q.lines), OSD_ROWS}) <= Len(q.lines) /\ Min({Len(q.lines), OSD_ROWS}) <= OSD_ROWS
         /\ LineTexts(q) \in Seq(Seq(TextOps))
         /\ Len(LineTexts(q)) = Min({Len(q.lines), OSD_ROWS})
<1>1. Len(q.lines) \in Nat /\ OSD_ROWS \in Nat BY ScreenAssumption
<1>2. PICK n \in Nat : n = Min({Len(q.lines), OSD_ROWS}) /\ n <= Len(q.lines) /\ n <= OSD_ROWS
  BY <1>1, MinOfTwo
<1>3. \A i \in 1..n : osd_write_text(i - 1, 0, q.lines[i]) \in Seq(TextOps)
  <2>1. SUFFICES ASSUME NEW i \in 1..n PROVE osd_write_text(i - 1, 0, q.lines[i]) \in Seq(TextOps) OBVIOUS
  <2>2. i \in 1..Len(q.lines) BY <1>1, <1>2
  <2>3. q.lines[i] \in Seq(Chars) BY <2>2
  <2>4. QED BY <2>3, TextSeq
<1> DEFINE T == Seq(TextOps)
<1>4. LineTexts(q) = [i \in 1..n |-> osd_write_text(i - 1, 0, q.lines[i])] BY <1>2 DEF LineTexts
<1>5. \A i \in 1..n : LineTexts(q)[i] \in T BY <1>3, <1>4
<1>6. LineTexts(q) = [i \in 1..n |-> LineTexts(q)[i]] BY <1>4
<1> HIDE DEF T
<1>7. LineTexts(q) \in Seq(T) /\ Len(LineTexts(q)) = n BY <1>5, <1>6, IsSequence
<1>8. QED BY <1>2, <1>7 DEF T

LEMMA OsdPostTame ==
  ASSUME NEW q, q.route = "osd_post", Typed(q)
  PROVE  TameSeq(q, api_osd_post(q))
<1> DEFINE clear == IF q.clear THEN osd_clear ELSE <<>>
           lines == FlattenSeq(LineTexts(q))
           text == IF q.text # <<>> THEN osd_write_text(q.row, q.col, q.text[1]) ELSE <<>>
           on == IF q.enabled # <<>> THEN osd_set_enabled(q.enabled[1]) ELSE <<>>
<1>1. api_osd_post(q) = clear \o lines \o text \o on \o osd_enabled BY DEF api_osd_post, PostLines, PostText, PostEnabled, LineTexts
<1>2. (q.text # <<>> => q.text[1] \in Seq(Chars)) /\ q.lines \in Seq(Seq(Chars)) BY DEF Typed
<1>3. /\ REG_OSD_CTRL \in Touches(q) /\ REG_OSD_ADDR \in Touches(q) /\ REG_OSD_DATA \in Touches(q)
      /\ REG_OSD_CTRL \notin CamRegs /\ REG_OSD_ADDR \notin CamRegs /\ REG_OSD_DATA \notin CamRegs
      /\ REG_OSD_CTRL # REG_OSD_ADDR /\ REG_OSD_DATA # REG_OSD_ADDR
  BY CamLow DEF Touches, REG_OSD_CTRL, REG_OSD_ADDR, REG_OSD_DATA
<1>4. \A v : Tame(q, WriteSingle(REG_OSD_CTRL, v)) BY <1>3, WriteTame
<1>5. \A op \in TextOps : Tame(q, op)
  <2>1. \A v : Tame(q, WriteSingle(REG_OSD_DATA, v)) BY <1>3, WriteTame
  <2>2. \A v \in 0..OSD_CELLS-1 : Tame(q, WriteSingle(REG_OSD_ADDR, v)) BY <1>3, WriteTame
  <2>3. QED BY <2>1, <2>2, RaiseTame DEF TextOps
<1>6. TameSeq(q, clear)
  <2>1. TameSeq(q, <<WriteSingle(REG_OSD_CTRL, 2)>>) BY <1>4, TameOne
  <2>2. QED BY <2>1, NoneTame DEF osd_clear
<1>7. TameSeq(q, lines)
  <2>1. LineTexts(q) \in Seq(Seq(TextOps)) BY <1>2, LineSeq
  <2>2. FlattenSeq(LineTexts(q)) \in Seq(TextOps) BY <2>1, FlattenType
  <2>3. QED BY <1>5, <2>2, TameOf
<1>8. TameSeq(q, text)
  <2>1. CASE q.text # <<>>
    <3>1. osd_write_text(q.row, q.col, q.text[1]) \in Seq(TextOps) BY <1>2, <2>1, TextSeq
    <3>2. TameSeq(q, osd_write_text(q.row, q.col, q.text[1])) BY <1>5, <3>1, TameOf
    <3>3. QED BY <2>1, <3>2
  <2>2. CASE q.text = <<>> BY <2>2, NoneTame
  <2>3. QED BY <2>1, <2>2
<1>9. TameSeq(q, on)
  <2>1. \A v : TameSeq(q, <<WriteSingle(REG_OSD_CTRL, v)>>) BY <1>4, TameOne
  <2>2. QED BY <2>1, NoneTame DEF osd_set_enabled
<1>10. TameSeq(q, osd_enabled) BY ReadTame, TameOne DEF osd_enabled
<1> HIDE DEF clear, lines, text, on
<1>11. TameSeq(q, clear \o lines) BY <1>6, <1>7, TameJoin
<1>12. TameSeq(q, clear \o lines \o text) BY <1>8, <1>11, TameJoin
<1>13. TameSeq(q, clear \o lines \o text \o on) BY <1>9, <1>12, TameJoin
<1>14. QED BY <1>1, <1>10, <1>13, TameJoin

LEMMA UploadTame ==
  ASSUME NEW q, q.route = "upload", Typed(q)
  PROVE  TameSeq(q, serv_boot_load(q.words))
<1> DEFINE W == {WaitIdle(REG_BOOT_STATUS)} \cup {WriteSingle(REG_BOOT_DATA, v) : v \in Nat}
           part(i) == <<WaitIdle(REG_BOOT_STATUS), WriteSingle(REG_BOOT_DATA, q.words[i])>>
           parts == [i \in 1..Len(q.words) |-> part(i)]
           first == <<WriteSingle(REG_MCU_RESET, 1)>>
           size == <<WriteSingle(REG_BOOT_LEN, Len(q.words))>>
<1>1. serv_boot_load(q.words) = first \o size \o FlattenSeq(parts) BY DEF serv_boot_load, serv_mcu_reset
<1>2. q.words \in Seq(Nat) /\ Len(q.words) \in Nat
  <2>1. q.words \in Seq(Nat) BY DEF Typed
  <2>2. QED BY <2>1
<1>3. /\ {REG_MCU_RESET, REG_BOOT_LEN, REG_BOOT_DATA} \subseteq Touches(q)
      /\ {REG_MCU_RESET, REG_BOOT_LEN, REG_BOOT_DATA} \cap (CamRegs \cup {REG_OSD_ADDR}) = {}
  BY CamLow DEF Touches, REG_MCU_RESET, REG_BOOT_LEN, REG_BOOT_DATA, REG_OSD_ADDR
<1>4. \A a \in {REG_MCU_RESET, REG_BOOT_LEN, REG_BOOT_DATA} : \A v : Tame(q, WriteSingle(a, v))
  BY <1>3, WriteTame
<1>5. \A op \in W : Tame(q, op) BY <1>4, WaitTame
<1>6. \A i \in 1..Len(q.words) : part(i) \in Seq(W)
  <2>1. SUFFICES ASSUME NEW i \in 1..Len(q.words) PROVE part(i) \in Seq(W) OBVIOUS
  <2>2. q.words[i] \in Nat BY <1>2
  <2>3. WriteSingle(REG_BOOT_DATA, q.words[i]) \in W /\ WaitIdle(REG_BOOT_STATUS) \in W BY <2>2
  <2> HIDE DEF W
  <2>4. QED BY <2>3
<1> HIDE DEF W, part
<1>7. parts \in Seq(Seq(W)) BY <1>2, <1>6
<1> HIDE DEF parts
<1>8. FlattenSeq(parts) \in Seq(W) BY <1>7, FlattenType
<1>9. TameSeq(q, FlattenSeq(parts)) BY <1>5, <1>8, TameOf
<1>10. TameSeq(q, first) /\ TameSeq(q, size) BY <1>4, TameOne
<1> HIDE DEF first, size
<1>11. TameSeq(q, first \o size) BY <1>10, TameJoin
<1>12. QED BY <1>1, <1>9, <1>11, TameJoin

LEMMA ProgramTame ==
  ASSUME NEW q, Typed(q), ~ Refused(q), q.route # "state", NEW got, Heard(q, got)
  PROVE  TameSeq(q, Program(q, got))
<1> DEFINE P == Program(q, got)
<1>1. \A a, n : TameSeq(q, <<ReadHolding(a, n)>>) BY ReadTame, TameOne
<1>2. \A a : TameSeq(q, <<ReadReg(a)>>) BY <1>1 DEF ReadReg
<1>3. TameSeq(q, _matrix_payload)
  <2>1. _matrix_payload = [i \in 1..7 |-> ReadReg(Append(MTX_REGS, MTXS_REG)[i])] BY DEF _matrix_payload
  <2>2. QED BY <2>1, ReadsTame
<1>4. FRAME_PIXELS \in Nat /\ OSD_CELLS \in Nat /\ DUMP_READ \in Nat \ {0} /\ CAM_REG_MAX + 1 \in Nat
  BY StreamAssumption, GridCell DEF CAM_REG_MAX
<1>5. REG_OSD_ADDR \notin CamRegs BY CamLow DEF REG_OSD_ADDR
<1>6. CASE q.route = "health"
  <2>1. P = <<ReadReg(\hF0), ReadHolding(\hF1, 2)>> \o read_health BY <1>6 DEF Program, api_health
  <2>2. read_health = <<ReadHolding(\hF9, 1)>> BY DEF read_health
  <2> DEFINE r == ReadReg(\hF0)
             s == ReadHolding(\hF1, 2)
  <2>3. Tame(q, r) /\ Tame(q, s) BY ReadTame DEF ReadReg
  <2> HIDE DEF r, s
  <2>4. <<r, s>> \in Seq({r, s}) OBVIOUS
  <2>5. TameSeq(q, <<r, s>>) BY <2>3, <2>4, TameOf
  <2>6. TameSeq(q, <<r, s>> \o read_health) BY <1>1, <2>2, <2>5, TameJoin
  <2>7. QED BY <2>1, <2>6 DEF r, s
<1>7. CASE q.route = "connect" BY <1>2, <1>7 DEF Program, api_connect
<1>8. CASE q.route = "disconnect" BY <1>8, NoneTame DEF Program, api_disconnect
<1>9. CASE q.route = "settings"
  <2>1. IsFiniteSet(0..\hC9)
    <3>1. PICK z \in Int, m \in Int : z = 0 /\ m = \hC9 OBVIOUS
    <3>2. IsFiniteSet(z..m) BY FS_Interval
    <3>3. QED BY <3>1, <3>2
  <2>2. NeededRegs \subseteq 0..\hC9 BY CamLow DEF CamRegs
  <2>3. Cardinality(NeededRegs) \in Nat BY <2>1, <2>2, FS_Subset, FS_CardinalityType
  <2>4. PICK n \in Nat : n = Cardinality(NeededRegs) BY <2>3
  <2>5. DOMAIN needed_registers = 1..n BY <2>4 DEF needed_registers
  <2>6. P = [i \in 1..n |-> ReadReg(needed_registers[i])]
    BY <1>9, <2>5 DEF Program, api_settings, _read_snapshot
  <2>7. QED BY <2>6, ReadsTame
<1>10. CASE q.route = "control"
  <2>1. P = api_control(q, got) BY <1>10 DEF Program
  <2>2. QED BY <1>10, <2>1, ControlTame
<1>11. CASE q.route = "gamma_device"
  <2>1. PICK n \in Nat : DOMAIN gamma_register_addrs = 1..n
    <3> DEFINE b == [i \in 1..15 |-> GAM_BASE + i - 1]
               a == <<SLOP_REG>>
    <3>1. gamma_register_addrs = a \o b BY DEF gamma_register_addrs, Knees, GAM_BREAKPOINTS
    <3>2. a \in Seq(Int) /\ b \in Seq(Int) BY DEF SLOP_REG, GAM_BASE
    <3> HIDE DEF a, b
    <3>3. a \o b \in Seq(Int) BY <3>2, JoinSeq
    <3>4. PICK g \in Seq(Int) : g = gamma_register_addrs BY <3>1, <3>3
    <3>5. DOMAIN g = 1..Len(g) /\ Len(g) \in Nat OBVIOUS
    <3>6. QED BY <3>4, <3>5
  <2>2. P = [i \in 1..n |-> ReadReg(gamma_register_addrs[i])] BY <1>11, <2>1 DEF Program, api_gamma_device
  <2>3. QED BY <2>2, ReadsTame
<1>12. CASE q.route = "matrix" BY <1>3, <1>12 DEF Program, api_matrix
<1>13. CASE q.route = "coeff"
  <2> DEFINE reg == MTX_REGS[q.index + 1]
             w == WriteSingle(reg, Magnitude(q.value))
             r == ReadReg(MTXS_REG)
             s == WriteSingle(MTXS_REG, SetBits(Answer(got, 2), {q.index}, q.value < 0))
  <2>1. P = <<w, r, s>> \o _matrix_payload BY <1>13 DEF Program, api_matrix_coeff
  <2>2. Len(MTX_REGS) = 6 BY DEF MTX_REGS
  <2>3. q.index \in Coeffs /\ q.index \in 0..7 BY <1>13, <2>2 DEF Refused, Coeffs
  <2>4. reg \in CamRegs /\ MTXS_REG \in CamRegs BY <2>3, CamHas
  <2>5. reg \in Touches(q) /\ MTXS_REG \in Touches(q) BY <1>13 DEF Touches
  <2>6. Magnitude(q.value) \subseteq 0..7 BY DEF Magnitude, Bits
  <2>7. Answer(got, 2) \subseteq 0..7
    <3>1. 2 \in Reading(q) BY <1>13 DEF Reading
    <3>2. QED BY <3>1, AnswerFits
  <2>8. SetBits(Answer(got, 2), {q.index}, q.value < 0) \subseteq 0..7 BY <2>3, <2>7, BitsFit
  <2> HIDE DEF reg
  <2>9. Tame(q, w) BY <1>5, <2>4, <2>5, <2>6, WriteTame
  <2>10. Tame(q, s) BY <1>5, <2>4, <2>5, <2>8, WriteTame
  <2>11. Tame(q, r) BY ReadTame DEF ReadReg
  <2> HIDE DEF w, r, s
  <2>12. <<w, r, s>> \in Seq({w, r, s}) OBVIOUS
  <2>13. TameSeq(q, <<w, r, s>>) BY <2>9, <2>10, <2>11, <2>12, TameOf
  <2>14. QED BY <1>3, <2>1, <2>13, TameJoin
<1>14. CASE q.route = "center"
  <2> DEFINE r == ReadReg(MTXS_REG)
             w == WriteSingle(MTXS_REG, SetBits(Answer(got, 1), MTXS_AUTO_CONTRAST, q.value))
  <2>1. P = SubSeq(<<r, w, r>>, 1, 2) \o _matrix_payload
    BY <1>14 DEF Program, api_matrix_contrast_center, ReadModifyWrite
  <2>2. MTXS_REG \in CamRegs /\ MTXS_REG \in Touches(q) BY <1>14, CamHas DEF Touches
  <2>3. Answer(got, 1) \subseteq 0..7
    <3>1. 1 \in Reading(q) BY <1>14 DEF Reading
    <3>2. QED BY <3>1, AnswerFits
  <2>4. MTXS_AUTO_CONTRAST \subseteq 0..7 BY DEF MTXS_AUTO_CONTRAST
  <2>5. SetBits(Answer(got, 1), MTXS_AUTO_CONTRAST, q.value) \subseteq 0..7 BY <2>3, <2>4, BitsFit
  <2>6. Tame(q, w) BY <1>5, <2>2, <2>5, WriteTame
  <2>7. Tame(q, r) BY ReadTame DEF ReadReg
  <2> HIDE DEF w, r
  <2>8. SubSeq(<<r, w, r>>, 1, 2) \in Seq({r, w})
    <3>1. <<r, w, r>> \in Seq({r, w}) OBVIOUS
    <3>2. QED BY <3>1
  <2>9. TameSeq(q, SubSeq(<<r, w, r>>, 1, 2)) BY <2>6, <2>7, <2>8, TameOf
  <2>10. QED BY <1>3, <2>1, <2>9, TameJoin
<1>15. CASE q.route = "grab"
  <2> DEFINE w == WriteSingle(REG_GRAB, 1)
             x == WaitIdle(REG_GRAB)
             y == WriteSingle(REG_STREAM, 1)
  <2>1. P = <<w, x, y>> \o ReadStream(STREAM_BASE, FRAME_PIXELS) BY <1>15 DEF Program, api_grab, grab_frame
  <2>2. /\ {REG_GRAB, REG_STREAM} \subseteq Touches(q)
        /\ {REG_GRAB, REG_STREAM} \cap (CamRegs \cup {REG_OSD_ADDR}) = {}
    BY <1>15, CamLow DEF Touches, REG_GRAB, REG_STREAM, REG_OSD_ADDR
  <2>3. Tame(q, w) /\ Tame(q, x) /\ Tame(q, y) BY <2>2, WriteTame, WaitTame
  <2> HIDE DEF w, x, y
  <2>4. <<w, x, y>> \in Seq({w, x, y}) OBVIOUS
  <2>5. TameSeq(q, <<w, x, y>>) BY <2>3, <2>4, TameOf
  <2>6. QED BY <1>4, <2>1, <2>5, StreamTame, TameJoin
<1>16. CASE q.route = "dump"
  <2>1. P = ReadWalk(0, CAM_REG_MAX + 1, DUMP_READ) BY <1>16 DEF Program, api_dump, dump_registers
  <2>2. QED BY <1>4, <2>1, WalkTame
<1>17. CASE q.route = "reset_defaults"
  <2>1. P = <<WriteSingle(REG_REINIT, 1)>> BY <1>17 DEF Program, api_reset_defaults, reset_to_defaults
  <2>2. REG_REINIT \in Touches(q) /\ REG_REINIT \notin CamRegs \cup {REG_OSD_ADDR}
    BY <1>17, CamLow DEF Touches, REG_REINIT, REG_OSD_ADDR
  <2>3. QED BY <2>1, <2>2, WriteTame, TameOne
<1>18. CASE q.route = "upload"
  <2>1. P = serv_boot_load(q.words) BY <1>18 DEF Program, api_serv_upload
  <2>2. QED BY <1>18, <2>1, UploadTame
<1>19. CASE q.route = "serv_reset"
  <2>1. P = <<WriteSingle(REG_MCU_RESET, 1)>> BY <1>19 DEF Program, api_serv_reset, serv_mcu_reset
  <2>2. REG_MCU_RESET \in Touches(q) /\ REG_MCU_RESET \notin CamRegs \cup {REG_OSD_ADDR}
    BY <1>19, CamLow DEF Touches, REG_MCU_RESET, REG_OSD_ADDR
  <2>3. QED BY <2>1, <2>2, WriteTame, TameOne
<1>20. CASE q.route = "osd"
  <2> DEFINE w == WriteSingle(REG_OSD_ADDR, 0)
             str == ReadStream(OSD_STREAM_BASE, OSD_CELLS)
  <2>1. P = osd_enabled \o (<<w>> \o str) BY <1>20 DEF Program, api_osd_get, osd_read_text
  <2>2. TameSeq(q, osd_enabled) BY <1>1 DEF osd_enabled
  <2>3. REG_OSD_ADDR \in Touches(q) BY <1>20 DEF Touches
  <2>4. 0 \in 0..OSD_CELLS-1 BY GridCell
  <2>5. TameSeq(q, <<w>>) BY <1>5, <2>3, <2>4, WriteTame, TameOne
  <2>6. TameSeq(q, str) BY <1>4, StreamTame
  <2> HIDE DEF w, str
  <2>7. TameSeq(q, <<w>> \o str) BY <2>5, <2>6, TameJoin
  <2>8. QED BY <2>1, <2>2, <2>7, TameJoin
<1>21. CASE q.route = "osd_post"
  <2>1. P = api_osd_post(q) BY <1>21 DEF Program
  <2>2. QED BY <1>21, <2>1, OsdPostTame
<1>22. CASE q.route = "raw"
  <2>1. P = <<ReadHolding(q.addr, q.count)>> BY <1>22 DEF Program, api_raw_get
  <2>2. QED BY <1>1, <2>1
<1>23. CASE q.route = "raw_post"
  <2> DEFINE w == WriteSingle(q.addr, q.value)
             r == ReadReg(q.addr)
  <2>1. P = <<w, r>> BY <1>23 DEF Program, api_raw_post
  <2>2. q.addr \in Touches(q) BY <1>23 DEF Touches
  <2>3. (q.addr \in CamRegs => q.value \subseteq 0..7) /\ (q.addr = REG_OSD_ADDR => q.value \in 0..OSD_CELLS-1)
    BY <1>23 DEF Typed
  <2>4. Tame(q, w) BY <2>2, <2>3, WriteTame
  <2>5. Tame(q, r) BY ReadTame DEF ReadReg
  <2> HIDE DEF w, r
  <2>6. <<w, r>> \in Seq({w, r}) OBVIOUS
  <2>7. QED BY <2>1, <2>4, <2>5, <2>6, TameOf
<1>24. q.route \in Routes \ {"state"} BY DEF Typed
<1>25. TameSeq(q, Program(q, got))
  BY <1>6, <1>7, <1>8, <1>9, <1>10, <1>11, <1>12, <1>13, <1>14, <1>15, <1>16, <1>17, <1>18, <1>19, <1>20,
     <1>21, <1>22, <1>23, <1>24 DEF Routes
<1>26. QED BY <1>25

\* The operation a program is at is one of its own, or there are no more.
LEMMA OpTame ==
  ASSUME NEW q, Typed(q), ~ Refused(q), q.route # "state", NEW got, Heard(q, got), NEW op, op = OpAfter(q, got)
  PROVE  /\ Len(got) \in Nat /\ Len(Program(q, got)) \in Nat
         /\ op.fn # "end" => /\ Len(got) < Len(Program(q, got)) /\ op = Program(q, got)[Len(got) + 1]
                             /\ Tame(q, op)
         /\ op.fn = "end" => Len(got) >= Len(Program(q, got)) /\ op = End
<1> DEFINE P == Program(q, got)
<1>1. TameSeq(q, P) BY ProgramTame
<1>2. op = IF Len(got) < Len(P) THEN P[Len(got) + 1] ELSE End BY DEF OpAfter
<1> HIDE DEF P
<1>3. Len(P) \in Nat /\ Len(got) \in Nat
  <2>1. PICK S, T : P \in Seq(S) /\ got \in Seq(T) BY <1>1 DEF TameSeq, Heard, IsSeq
  <2>2. QED BY <2>1
<1>4. CASE Len(got) < Len(P)
  <2>1. Len(got) + 1 \in 1..Len(P) BY <1>3, <1>4
  <2>2. op = P[Len(got) + 1] /\ Tame(q, op) BY <1>1, <1>2, <1>4, <2>1 DEF TameSeq
  <2>3. op.fn # "end" BY <2>2 DEF Tame
  <2>4. QED BY <1>3, <1>4, <2>2, <2>3 DEF P
<1>5. CASE ~ (Len(got) < Len(P))
  <2>1. op = End /\ End.fn = "end" BY <1>2, <1>5 DEF End, Raise
  <2>2. QED BY <1>3, <1>5, <2>1 DEF P
<1>6. QED BY <1>4, <1>5

ReadFrom(q, i) ==
  CASE q.route = "control" -> IF CONTROLS[q.id].type = "bit" THEN CONTROLS[q.id].reg
                              ELSE PATTERN_REGS[IF i = 1 THEN 1 ELSE 2]
    [] OTHER -> MTXS_REG

LEMMA ReadFromCam ==
  ASSUME NEW q, Typed(q), ~ Refused(q), NEW i \in Reading(q)
  PROVE  ReadFrom(q, i) \in CamRegs /\ i \in {1, 2, 4} /\ q.route \in {"control", "coeff", "center"}
<1>1. q.route \in {"control", "coeff", "center"} BY DEF Reading
<1>2. CASE q.route = "control"
  <2> DEFINE c == CONTROLS[q.id]
  <2>1. q.id \in Ids BY <1>2 DEF Refused, Ids
  <2>2. RegsOf(c) \subseteq CamRegs BY <2>1, CamHas
  <2>3. \/ c.type = "byte" /\ RegsOf(c) = {c.reg}
        \/ c.type = "bit" /\ RegsOf(c) = {c.reg} /\ c.mask \subseteq 0..7
        \/ c.type = "gamma" /\ RegsOf(c) = {c.sample_reg}
        \/ c.type = "pattern" /\ RegsOf(c) = Range(PATTERN_REGS)
    BY <2>1, Kinds
  <2>4. Reading(q) = CASE c.type = "bit" -> {1} [] c.type = "pattern" -> {1, 4} [] OTHER -> {}
    BY <1>2 DEF Reading
  <2>5. ReadFrom(q, i) = IF c.type = "bit" THEN c.reg ELSE PATTERN_REGS[IF i = 1 THEN 1 ELSE 2]
    BY <1>2 DEF ReadFrom
  <2>6. PATTERN_REGS[1] \in Range(PATTERN_REGS) /\ PATTERN_REGS[2] \in Range(PATTERN_REGS)
    BY DEF PATTERN_REGS, Range
  <2> HIDE DEF c
  <2>7. c.type = "bit" \/ c.type = "pattern" BY <2>3, <2>4
  <2>8. QED BY <1>2, <2>2, <2>3, <2>4, <2>5, <2>6, <2>7
<1>3. CASE q.route \in {"coeff", "center"} BY <1>3, CamHas DEF Reading, ReadFrom
<1>4. QED BY <1>1, <1>2, <1>3

\* A program reads the register whose value it goes on from.
LEMMA ReadsThere ==
  ASSUME NEW q, Typed(q), ~ Refused(q), NEW i \in Reading(q), NEW got, IsSeq(got), Len(got) + 1 = i,
         OpAfter(q, got).fn \notin {"raise", "end"}
  PROVE  OpAfter(q, got) = ReadReg(ReadFrom(q, i))
<1>1. Len(got) \in Nat /\ i \in {1, 2, 4} /\ q.route \in {"control", "coeff", "center"}
  <2>1. PICK S : got \in Seq(S) BY DEF IsSeq
  <2>2. QED BY <2>1, ReadFromCam
<1> DEFINE P == Program(q, got)
<1>2. OpAfter(q, got) = IF Len(got) < Len(P) THEN P[Len(got) + 1] ELSE End BY DEF OpAfter
<1>3. End.fn = "end" /\ Raise.fn = "raise" BY DEF End, Raise
<1> DEFINE Right == P[i] = ReadReg(ReadFrom(q, i)) \/ P[i] = Raise
<1>4. \A reg, mask, on, k : \E w : /\ ReadModifyWrite(reg, mask, on, got, k) = <<ReadReg(reg), w, ReadReg(reg)>>
                                   /\ w = WriteSingle(reg, SetBits(Answer(got, k), mask, on))
  BY DEF ReadModifyWrite
<1>5. IsSeq(_matrix_payload) /\ Len(_matrix_payload) = 7
  <2>1. PICK f : f = _matrix_payload OBVIOUS
  <2>2. f = [k \in 1..7 |-> f[k]] BY <2>1 DEF _matrix_payload
  <2> DEFINE S == {f[k] : k \in 1..7}
  <2>3. \A k \in 1..7 : f[k] \in S OBVIOUS
  <2> HIDE DEF S
  <2>4. f \in Seq(S) /\ Len(f) = 7 BY <2>2, <2>3, IsSequence
  <2>5. QED BY <2>1, <2>4 DEF IsSeq
<1>6. \A x, y, z : /\ IsSeq(<<x, y, z>>) /\ Len(<<x, y, z>>) = 3
                   /\ <<x, y, z>>[1] = x /\ <<x, y, z>>[2] = y
  <2>1. SUFFICES ASSUME NEW x, NEW y, NEW z PROVE IsSeq(<<x, y, z>>) OBVIOUS
  <2>2. <<x, y, z>> \in Seq({x, y, z}) OBVIOUS
  <2>3. QED BY <2>2 DEF IsSeq
<1>7. ASSUME q.route = "control" PROVE Right
  <2> DEFINE c == CONTROLS[q.id]
             v == q.value
  <2>1. P = _apply_control(c, v, got) BY <1>7 DEF Program, api_control
  <2>2. Reading(q) = CASE c.type = "bit" -> {1} [] c.type = "pattern" -> {1, 4} [] OTHER -> {}
    BY <1>7 DEF Reading
  <2>3. ReadFrom(q, i) = IF c.type = "bit" THEN c.reg ELSE PATTERN_REGS[IF i = 1 THEN 1 ELSE 2]
    BY <1>7 DEF ReadFrom
  <2>4. q.id \in Ids BY <1>7 DEF Refused, Ids
  <2>5. c.type \in {"byte", "bit", "gamma", "pattern"} BY <2>4, Kinds
  <2> HIDE DEF c
  <2>6. CASE c.type = "bit"
    <3>1. P = ReadModifyWrite(c.reg, c.mask, v, got, 1) BY <2>1, <2>6 DEF _apply_control
    <3> HIDE DEF P
    <3>2. i = 1 /\ ReadFrom(q, i) = c.reg BY <2>2, <2>3, <2>6
    <3>3. PICK w : P = <<ReadReg(c.reg), w, ReadReg(c.reg)>> BY <1>4, <3>1
    <3>4. Right BY <1>6, <3>2, <3>3
    <3>5. QED BY <3>4
  <2>7. CASE c.type = "pattern"
    <3>1. CASE v \in DOMAIN PATTERN_OPTIONS
      <4> DEFINE x == ReadModifyWrite(PATTERN_REGS[1], {7}, PATTERN_OPTIONS[v].xsc, got, 1)
                 y == ReadModifyWrite(PATTERN_REGS[2], {7}, PATTERN_OPTIONS[v].ysc, got, 4)
      <4>1. P = x \o y BY <2>1, <2>7, <3>1 DEF _apply_control
      <4>2. PICK w : x = <<ReadReg(PATTERN_REGS[1]), w, ReadReg(PATTERN_REGS[1])>> BY <1>4
      <4>3. PICK z : y = <<ReadReg(PATTERN_REGS[2]), z, ReadReg(PATTERN_REGS[2])>> BY <1>4
      <4>4. /\ IsSeq(x) /\ Len(x) = 3 /\ x[1] = ReadReg(PATTERN_REGS[1])
            /\ IsSeq(y) /\ Len(y) = 3 /\ y[1] = ReadReg(PATTERN_REGS[2])
        BY <1>6, <4>2, <4>3
      <4> HIDE DEF x, y, P
      <4>5. /\ Len(x \o y) = 6
            /\ \A k \in 1..3 : (x \o y)[k] = x[k]
            /\ \A k \in 4..6 : (x \o y)[k] = y[k - 3]
        <5>1. /\ Len(x \o y) = Len(x) + Len(y)
              /\ \A k \in 1..Len(x) : (x \o y)[k] = x[k]
              /\ \A k \in Len(x)+1..Len(x)+Len(y) : (x \o y)[k] = y[k - Len(x)]
          BY <4>4, SeqJoin
        <5>2. QED BY <4>4, <5>1
      <4>6. i \in {1, 4} BY <2>2, <2>7
      <4>7. P[1] = x[1] /\ P[4] = y[1] /\ Len(P) = 6 BY <4>1, <4>5
      <4>8. QED BY <2>3, <2>7, <4>4, <4>6, <4>7
    <3>2. CASE v \notin DOMAIN PATTERN_OPTIONS
      <4>1. P = <<Raise>> BY <2>1, <2>7, <3>2 DEF _apply_control
      <4>2. i \in {1, 4} BY <2>2, <2>7
      <4>3. QED BY <1>1, <1>2, <1>3, <4>1, <4>2
    <3>3. QED BY <3>1, <3>2
  <2>8. CASE c.type \in {"byte", "gamma"} BY <2>2, <2>8
  <2>9. QED BY <2>5, <2>6, <2>7, <2>8
<1>8. ASSUME q.route = "coeff" PROVE Right
  <2> DEFINE w == WriteSingle(MTX_REGS[q.index + 1], Magnitude(q.value))
             r == ReadReg(MTXS_REG)
             s == WriteSingle(MTXS_REG, SetBits(Answer(got, 2), {q.index}, q.value < 0))
  <2>1. P = <<w, r, s>> \o _matrix_payload BY <1>8 DEF Program, api_matrix_coeff
  <2>2. i = 2 /\ ReadFrom(q, i) = MTXS_REG BY <1>8 DEF Reading, ReadFrom
  <2> HIDE DEF w, s, P
  <2>3. PICK x : x = <<w, r, s>> OBVIOUS
  <2>4. IsSeq(x) /\ Len(x) = 3 /\ x[2] = r BY <1>6, <2>3
  <2>5. \A k \in 1..Len(x) : (x \o _matrix_payload)[k] = x[k] BY <1>5, <2>4, SeqJoin
  <2>6. P[2] = r BY <2>1, <2>3, <2>4, <2>5
  <2>7. QED BY <2>2, <2>6
<1>9. ASSUME q.route = "center" PROVE Right
  <2> DEFINE r == ReadReg(MTXS_REG)
             w == WriteSingle(MTXS_REG, SetBits(Answer(got, 1), MTXS_AUTO_CONTRAST, q.value))
  <2>1. P = SubSeq(<<r, w, r>>, 1, 2) \o _matrix_payload
    BY <1>9 DEF Program, api_matrix_contrast_center, ReadModifyWrite
  <2>2. i = 1 /\ ReadFrom(q, i) = MTXS_REG BY <1>9 DEF Reading, ReadFrom
  <2> HIDE DEF w, P
  <2>3. PICK x : x = SubSeq(<<r, w, r>>, 1, 2) OBVIOUS
  <2>4. x \in Seq({r, w}) /\ Len(x) = 2 /\ x[1] = r
    <3>1. <<r, w, r>> \in Seq({r, w}) /\ Len(<<r, w, r>>) = 3 /\ <<r, w, r>>[1] = r OBVIOUS
    <3>2. QED BY <2>3, <3>1
  <2>5. IsSeq(x) BY <2>4 DEF IsSeq
  <2>6. \A k \in 1..Len(x) : (x \o _matrix_payload)[k] = x[k] BY <1>5, <2>5, SeqJoin
  <2>7. P[1] = r BY <2>1, <2>3, <2>4, <2>6
  <2>8. QED BY <2>2, <2>7
<1>10. Right BY <1>1, <1>7, <1>8, <1>9
<1> HIDE DEF P
<1>11. OpAfter(q, got) = P[i] BY <1>1, <1>2, <1>3
<1>12. QED BY <1>3, <1>10, <1>11

-----------------------------------------------------------------------------
(* The registers of the camera and of the overlay *)

\* What a read never changes.
Face(d) == <<d.cam, d.initing, d.on, d.cells>>

\* The camera's registers hold bytes, and the cursor is on a cell.
Healthy(d) ==
  /\ DOMAIN d = BoardFields
  /\ DOMAIN d.cam = CamRegs /\ \A a \in CamRegs : d.cam[a] \subseteq 0..7
  /\ d.cursor \in 0..OSD_CELLS-1 /\ DOMAIN d.cells = 0..OSD_CELLS-1

FaceRegs == CamRegs \cup {REG_REINIT, REG_OSD_CTRL, REG_OSD_ADDR, REG_OSD_DATA}

Wrote(d, a, v, e) ==
  /\ a \in CamRegs => e = [d EXCEPT !.cam[a] = v]
  /\ a = REG_REINIT => e = [d EXCEPT !.initing = TRUE]
  /\ a = REG_OSD_CTRL => e = OsdControl(d, v)
  /\ a = REG_OSD_ADDR => e = [d EXCEPT !.cursor = v]
  /\ a = REG_OSD_DATA => e = Advance([d EXCEPT !.cells[d.cursor] = v])
  /\ a \notin FaceRegs => DOMAIN e = BoardFields /\ Face(e) = Face(d) /\ e.cursor = d.cursor

LEMMA WriteFace ==
  ASSUME NEW d, DOMAIN d = BoardFields, NEW a, NEW v
  PROVE  Wrote(d, a, v, WriteReg(d, a, v))
<1>0. PICK e : e = WriteReg(d, a, v) OBVIOUS
<1> DEFINE lo == [d EXCEPT !.addr = @ - (@ % ADDR_LO_SPAN) + v]
           hi == [d EXCEPT !.addr = v * ADDR_LO_SPAN + (@ % ADDR_LO_SPAN)]
           init == [d EXCEPT !.initing = TRUE]
           cursor == [d EXCEPT !.cursor = v]
           data == Advance([d EXCEPT !.cells[d.cursor] = v])
           boot == [d EXCEPT !.pending = TRUE]
           cam == [d EXCEPT !.cam[a] = v]
           Like(x) == DOMAIN x = BoardFields /\ Face(x) = Face(d) /\ x.cursor = d.cursor
<1>1. e = CASE a \in CamRegs -> cam
            [] a = REG_GRAB /\ v = 1 -> ArmGrab(d)
            [] a = REG_GRAB /\ v = 2 -> ReadBurst(d, d.addr)
            [] a = REG_GRAB_ADDR_LO -> lo
            [] a = REG_GRAB_ADDR_HI -> hi
            [] a = REG_STREAM      -> Rewind(d)
            [] a = REG_REINIT      -> init
            [] a = REG_OSD_CTRL    -> OsdControl(d, v)
            [] a = REG_OSD_ADDR    -> cursor
            [] a = REG_OSD_DATA    -> data
            [] a = REG_BOOT_DATA   -> boot
            [] OTHER               -> d
  BY <1>0 DEF WriteReg
<1>2. Like(ArmGrab(d)) BY DEF ArmGrab, BoardFields, Face
<1>3. \A at : Like(ReadBurst(d, at)) BY DEF ReadBurst, BoardFields, Face
<1>4. Like(lo) /\ Like(hi)
  <2>1. \A y : Like([d EXCEPT !.addr = y]) BY DEF BoardFields, Face
  <2>2. QED BY <2>1
<1>5. Like(Rewind(d)) BY DEF Rewind, BoardFields, Face
<1>6. Like(boot) /\ Like(d) BY DEF BoardFields, Face
<1> HIDE DEF lo, hi, init, cursor, data, boot, cam, Like
<1>7. {REG_REINIT, REG_OSD_CTRL, REG_OSD_ADDR, REG_OSD_DATA} \cap CamRegs = {}
  BY CamLow DEF REG_REINIT, REG_OSD_CTRL, REG_OSD_ADDR, REG_OSD_DATA
<1>8. a \in CamRegs => e = cam
  <2>1. a \in CamRegs => a \notin {REG_GRAB, REG_GRAB_ADDR_LO, REG_GRAB_ADDR_HI, REG_STREAM, REG_REINIT,
                                  REG_OSD_CTRL, REG_OSD_ADDR, REG_OSD_DATA, REG_BOOT_DATA}
    BY CamLow DEF REG_REINIT, REG_OSD_CTRL, REG_OSD_ADDR, REG_OSD_DATA, REG_GRAB, REG_GRAB_ADDR_LO,
                  REG_GRAB_ADDR_HI, REG_STREAM, REG_BOOT_DATA
  <2>2. QED BY <1>1, <2>1
<1>9. a \notin CamRegs => e = CASE a = REG_GRAB /\ v = 1 -> ArmGrab(d)
            [] a = REG_GRAB /\ v = 2 -> ReadBurst(d, d.addr)
            [] a = REG_GRAB_ADDR_LO -> lo
            [] a = REG_GRAB_ADDR_HI -> hi
            [] a = REG_STREAM      -> Rewind(d)
            [] a = REG_REINIT      -> init
            [] a = REG_OSD_CTRL    -> OsdControl(d, v)
            [] a = REG_OSD_ADDR    -> cursor
            [] a = REG_OSD_DATA    -> data
            [] a = REG_BOOT_DATA   -> boot
            [] OTHER               -> d
  BY <1>1
<1>10. a \notin FaceRegs => Like(e) BY <1>2, <1>3, <1>4, <1>5, <1>6, <1>9 DEF FaceRegs
<1>11. /\ a = REG_REINIT => e = init
       /\ a = REG_OSD_CTRL => e = OsdControl(d, v)
       /\ a = REG_OSD_ADDR => e = cursor
       /\ a = REG_OSD_DATA => e = data
  <2>1. ASSUME a \in {REG_REINIT, REG_OSD_CTRL, REG_OSD_ADDR, REG_OSD_DATA}
        PROVE  e = CASE a = REG_REINIT      -> init
                     [] a = REG_OSD_CTRL    -> OsdControl(d, v)
                     [] a = REG_OSD_ADDR    -> cursor
                     [] a = REG_OSD_DATA    -> data
    <3>1. a \notin {REG_GRAB, REG_GRAB_ADDR_LO, REG_GRAB_ADDR_HI, REG_STREAM, REG_BOOT_DATA}
      BY <2>1 DEF REG_REINIT, REG_OSD_CTRL, REG_OSD_ADDR, REG_OSD_DATA, REG_GRAB, REG_GRAB_ADDR_LO,
                  REG_GRAB_ADDR_HI, REG_STREAM, REG_BOOT_DATA
    <3>2. QED BY <1>7, <1>9, <2>1, <3>1
  <2>2. REG_REINIT # REG_OSD_CTRL /\ REG_REINIT # REG_OSD_ADDR /\ REG_REINIT # REG_OSD_DATA
        /\ REG_OSD_CTRL # REG_OSD_ADDR /\ REG_OSD_CTRL # REG_OSD_DATA /\ REG_OSD_ADDR # REG_OSD_DATA
    BY DEF REG_REINIT, REG_OSD_CTRL, REG_OSD_ADDR, REG_OSD_DATA
  <2>3. QED BY <2>1, <2>2
<1>12. Wrote(d, a, v, e) BY <1>8, <1>10, <1>11 DEF init, cursor, data, cam, Like, Wrote
<1>13. QED BY <1>0, <1>12

\* A cell further on, from the last to the first.
LEMMA NextCell == ASSUME NEW k \in Nat PROVE k % OSD_CELLS \in 0..OSD_CELLS-1
<1>1. PICK c \in Nat \ {0} : c = OSD_CELLS BY GridCell
<1>2. k % c \in 0..c-1 BY Quotient
<1>3. QED BY <1>1, <1>2

LEMMA WroteHealthy ==
  ASSUME NEW d, Healthy(d), NEW a, NEW v, a \in CamRegs => v \subseteq 0..7,
         a = REG_OSD_ADDR => v \in 0..OSD_CELLS-1, NEW e, Wrote(d, a, v, e)
  PROVE  Healthy(e)
<1>1. /\ a \in CamRegs => e = [d EXCEPT !.cam[a] = v]
      /\ a = REG_REINIT => e = [d EXCEPT !.initing = TRUE]
      /\ a = REG_OSD_CTRL => e = OsdControl(d, v)
      /\ a = REG_OSD_ADDR => e = [d EXCEPT !.cursor = v]
      /\ a = REG_OSD_DATA => e = Advance([d EXCEPT !.cells[d.cursor] = v])
      /\ a \notin FaceRegs => DOMAIN e = BoardFields /\ Face(e) = Face(d) /\ e.cursor = d.cursor
  BY DEF Wrote
<1>2. CASE a \in CamRegs BY <1>1, <1>2 DEF Healthy, BoardFields
<1>3. CASE a = REG_REINIT BY <1>1, <1>3 DEF Healthy, BoardFields
<1>4. CASE a = REG_OSD_CTRL
  <2>1. 0 \in 0..OSD_CELLS-1 BY GridCell
  <2>2. Healthy(OsdControl(d, v)) BY <2>1 DEF Healthy, OsdControl, BoardFields
  <2>3. QED BY <1>1, <1>4, <2>2
<1>5. CASE a = REG_OSD_ADDR BY <1>1, <1>5 DEF Healthy, BoardFields
<1>6. CASE a = REG_OSD_DATA
  <2>1. PICK x : x = [d EXCEPT !.cells[d.cursor] = v] OBVIOUS
  <2>2. Healthy(x) BY <2>1 DEF Healthy, BoardFields
  <2>3. x.cursor + 1 \in Nat BY <2>2, GridCell DEF Healthy
  <2>4. (x.cursor + 1) % OSD_CELLS \in 0..OSD_CELLS-1 BY <2>3, NextCell
  <2>5. Healthy(Advance(x)) BY <2>2, <2>4 DEF Advance, Healthy, BoardFields
  <2>6. QED BY <1>1, <1>6, <2>1, <2>5
<1>7. CASE a \notin FaceRegs BY <1>1, <1>7 DEF Healthy, Face
<1>8. QED BY <1>2, <1>3, <1>4, <1>5, <1>6, <1>7 DEF FaceRegs

LEMMA WriteHealthy ==
  ASSUME NEW d, Healthy(d), NEW a, NEW v, a \in CamRegs => v \subseteq 0..7,
         a = REG_OSD_ADDR => v \in 0..OSD_CELLS-1
  PROVE  Healthy(WriteReg(d, a, v))
<1>1. Wrote(d, a, v, WriteReg(d, a, v)) BY WriteFace DEF Healthy
<1>2. QED BY <1>1, WroteHealthy

Streams(a) == a = REG_OSD_DATA \/ (a >= OSD_STREAM_BASE /\ ~ (a >= STREAM_BASE))

LEMMA ReadFace ==
  ASSUME NEW d, DOMAIN d = BoardFields, NEW a, NEW n, NEW e, e = ReadRegs(d, a, n)[2]
  PROVE  /\ DOMAIN e = BoardFields /\ Face(e) = Face(d)
         /\ e.cursor \in {d.cursor, (d.cursor + n) % OSD_CELLS}
         /\ ~ Streams(a) => e.cursor = d.cursor
         /\ Streams(a) /\ ~ (a >= STREAM_BASE) => e.cursor = (d.cursor + n) % OSD_CELLS
<1> DEFINE Like(x) == DOMAIN x = BoardFields /\ Face(x) = Face(d)
<1>1. CASE a >= STREAM_BASE
  <2> DEFINE BurstOf(i) == d.baddr + BURST * ((d.widx + i - 1) \div BURST)
             Has(i) == d.loaded /\ BurstOf(i) = d.baddr
             end == IF Has(n) THEN d ELSE ReadBurst(d, BurstOf(n))
  <2>1. Like(end) /\ end.cursor = d.cursor
    <3>1. \A at : Like(ReadBurst(d, at)) /\ ReadBurst(d, at).cursor = d.cursor
      BY DEF ReadBurst, BoardFields, Face
    <3>2. QED BY <3>1
  <2>2. \E w, x, y, z : ServePixels(d, n)[2] = [end EXCEPT !.widx = w, !.loaded = x, !.baddr = y, !.burst = z]
    BY DEF ServePixels
  <2>3. e = ServePixels(d, n)[2] BY <1>1 DEF ReadRegs
  <2> HIDE DEF end
  <2>4. Like(e) /\ e.cursor = d.cursor BY <2>1, <2>2, <2>3 DEF BoardFields, Face
  <2>5. Streams(a) => a = REG_OSD_DATA BY <1>1 DEF Streams
  <2>6. QED BY <1>1, <2>4, <2>5
<1>2. CASE ~ (a >= STREAM_BASE) /\ (a = REG_OSD_DATA \/ a >= OSD_STREAM_BASE)
  <2>1. e = [d EXCEPT !.cursor = (@ + n) % OSD_CELLS] BY <1>2 DEF ReadRegs, ReadCells
  <2>2. Like(e) /\ e.cursor = (d.cursor + n) % OSD_CELLS BY <2>1 DEF BoardFields, Face
  <2>3. Streams(a) BY <1>2 DEF Streams
  <2>4. QED BY <2>2, <2>3
<1>3. CASE ~ (a >= STREAM_BASE) /\ ~ (a = REG_OSD_DATA \/ a >= OSD_STREAM_BASE)
  <2>1. e = d BY <1>3 DEF ReadRegs
  <2>2. ~ Streams(a) BY <1>3 DEF Streams
  <2>3. QED BY <2>1, <2>2
<1>4. QED BY <1>1, <1>2, <1>3

LEMMA ReadHealthy ==
  ASSUME NEW d, Healthy(d), NEW a, NEW n \in Nat
  PROVE  Healthy(ReadRegs(d, a, n)[2])
<1> DEFINE e == ReadRegs(d, a, n)[2]
<1>1. DOMAIN e = BoardFields /\ Face(e) = Face(d) /\ e.cursor \in {d.cursor, (d.cursor + n) % OSD_CELLS}
  BY ReadFace DEF Healthy
<1>2. d.cursor + n \in Nat BY GridCell DEF Healthy
<1>3. (d.cursor + n) % OSD_CELLS \in 0..OSD_CELLS-1 BY <1>2, NextCell
<1> HIDE DEF e
<1>4. Healthy(e) BY <1>1, <1>3 DEF Healthy, Face
<1>5. QED BY <1>4 DEF e

LEMMA ExecuteHealthy ==
  ASSUME NEW d, Healthy(d), NEW q, NEW op, Tame(q, op)
  PROVE  Healthy(Execute(d, op)[2])
<1>1. CASE op.fn = "write"
  <2>1. Execute(d, op)[2] = WriteReg(d, op.addr, op.value) BY <1>1 DEF Execute
  <2>2. QED BY <1>1, <2>1, WriteHealthy DEF Tame, Fits
<1>2. CASE op.fn # "write"
  <2>1. Execute(d, op)[2] = ReadRegs(d, op.addr, op.count)[2] BY <1>2 DEF Execute
  <2>2. op.count \in Nat BY <1>2 DEF Tame
  <2>3. QED BY <2>1, <2>2, ReadHealthy
<1>3. QED BY <1>1, <1>2

LEMMA AfterHealthy ==
  ASSUME NEW d, Healthy(d), NEW q, NEW op, Tame(q, op), NEW n \in Nat
  PROVE  Healthy(After(d, op, n))
<1>1. PICK f : /\ f[0] = d
               /\ \A i \in Nat : i < n => f[i+1] = Execute(f[i], op)[2]
               /\ After(d, op, n) = f[n]
  BY AfterRuns
<1> DEFINE N == {i \in Nat : i <= n => Healthy(f[i])}
<1>2. 0 \in N BY <1>1
<1>3. ASSUME NEW i \in Nat, i \in N PROVE i + 1 \in N
  <2>1. SUFFICES ASSUME i + 1 <= n PROVE Healthy(f[i+1]) OBVIOUS
  <2>2. i < n /\ Healthy(f[i]) BY <1>3, <2>1
  <2>3. QED BY <1>1, <2>2, ExecuteHealthy
<1> HIDE DEF N
<1>4. Nat \subseteq N BY <1>2, <1>3, Induction
<1>5. QED BY <1>1, <1>4 DEF N

LEMMA AnswerHealthy ==
  ASSUME NEW d, Healthy(d), NEW q, NEW op, Tame(q, op), NEW n \in Nat \ {0}
  PROVE  Healthy(Answered(d, op, n)[2])
<1>1. CASE op.fn = "wait" BY <1>1 DEF Answered
<1>2. CASE op.fn # "wait"
  <2>1. n - 1 \in Nat OBVIOUS
  <2>2. Healthy(After(d, op, n - 1)) BY <2>1, AfterHealthy
  <2>3. Healthy(Execute(After(d, op, n - 1), op)[2]) BY <2>2, ExecuteHealthy
  <2>4. Answered(d, op, n) = Execute(After(d, op, n - 1), op) BY <1>2 DEF Answered
  <2>5. QED BY <2>3, <2>4
<1>3. QED BY <1>1, <1>2

\* A register of the camera is read as it is, however often.
LEMMA CamRead ==
  ASSUME NEW d, NEW a \in CamRegs, NEW n \in Nat \ {0}
  PROVE  Answered(d, ReadReg(a), n) = <<<<d.cam[a]>>, d>>
<1> DEFINE op == ReadReg(a)
<1>1. op = [fn |-> "read", addr |-> a, count |-> 1, value |-> 0] BY DEF ReadReg, ReadHolding
<1>2. a \in 0..\hC9 BY CamLow
<1>3. ~ (a >= STREAM_BASE) /\ ~ (a = REG_OSD_DATA \/ a >= OSD_STREAM_BASE)
  BY <1>2 DEF STREAM_BASE, REG_OSD_DATA, OSD_STREAM_BASE
<1>4. ReadRegs(d, a, 1) = <<<<d.cam[a]>>, d>>
  <2>1. ReadRegs(d, a, 1) = <<[i \in 1..1 |-> ReadOne(d, a + i - 1)], d>> BY <1>3 DEF ReadRegs
  <2>2. \A i \in 1..1 : ReadOne(d, a + i - 1) = d.cam[a]
    <3>1. SUFFICES ASSUME NEW i \in 1..1 PROVE ReadOne(d, a + i - 1) = d.cam[a] OBVIOUS
    <3>2. a + i - 1 = a BY <1>2
    <3>3. a \notin {REG_GRAB, REG_BOOT_STATUS, REG_GRAB_DATA_HI, REG_GRAB_DATA_LO, REG_OSD_CTRL}
      BY <1>2 DEF REG_GRAB, REG_BOOT_STATUS, REG_GRAB_DATA_HI, REG_GRAB_DATA_LO, REG_OSD_CTRL
    <3>4. ReadOne(d, a) = d.cam[a] BY <3>3 DEF ReadOne
    <3>5. QED BY <3>2, <3>4
  <2>3. [i \in 1..1 |-> ReadOne(d, a + i - 1)] = <<d.cam[a]>> BY <2>2
  <2>4. QED BY <2>1, <2>3
<1>5. Execute(d, op) = <<<<d.cam[a]>>, d>> BY <1>1, <1>4 DEF Execute
<1>6. op.fn # "wait" BY <1>1
<1> HIDE DEF op
<1>7. PICK U : /\ d \in U
               /\ \A V \in SUBSET U :
                    d \in V /\ (\A x \in V : Execute(x, op)[2] \in U => Execute(x, op)[2] \in V)
                    => \E x \in V : Answered(d, op, n) = Execute(x, op)
  BY <1>6, Often
<1>8. \E x \in {d} : Answered(d, op, n) = Execute(x, op)
  <2>1. {d} \in SUBSET U BY <1>7
  <2>2. \A x \in {d} : Execute(x, op)[2] \in {d} BY <1>5
  <2>3. QED BY <1>7, <2>1, <2>2
<1>9. QED BY <1>5, <1>8 DEF op

LEMMA PowerHealthy ==
  ASSUME NEW calib, NEW serv
  PROVE  Healthy(PowerOn(calib, serv)) /\ \A s : Healthy([PowerOn(calib, serv) EXCEPT !.shot = s])
<1>1. \A a \in CamRegs : CamReset(a) \subseteq 0..7 BY DEF CamReset, IDENTITY, Bits
<1>2. 0 \in 0..OSD_CELLS-1 BY GridCell
<1>3. Healthy(PowerOn(calib, serv)) BY <1>1, <1>2 DEF Healthy, PowerOn, BoardFields
<1>4. QED BY <1>3 DEF Healthy, BoardFields

\* The board by itself changes the camera's registers when their initialisation
\* is over, and the overlay never.
LEMMA MovesFace ==
  ASSUME NEW d, Healthy(d), NEW e \in BoardSteps(d)
  PROVE  /\ Healthy(e) /\ e.on = d.on /\ e.cursor = d.cursor /\ e.cells = d.cells
         /\ e.initing => d.initing
         /\ ~ d.initing => e.cam = d.cam
<1>1. \A a \in CamRegs : CamReset(a) \subseteq 0..7 BY DEF CamReset, IDENTITY, Bits
<1>2. e = CaptureStarts(d) \/ e = CaptureEnds(d) \/ (e = InitEnds(d) /\ d.initing) \/ e = Drains(d)
  BY DEF BoardSteps
<1>3. ASSUME NEW x, NEW y, NEW z, e = [d EXCEPT !.engine = x, !.shot = y, !.mem = z]
      PROVE  Healthy(e) /\ Face(e) = Face(d) /\ e.cursor = d.cursor
  BY <1>3 DEF Healthy, BoardFields, Face
<1>4. ASSUME NEW x, NEW y, NEW z, e = [d EXCEPT !.engine = x, !.busy = y, !.mem = z]
      PROVE  Healthy(e) /\ Face(e) = Face(d) /\ e.cursor = d.cursor
  BY <1>4 DEF Healthy, BoardFields, Face
<1>5. CASE e = CaptureStarts(d)
  <2>1. \E x, y, z : e = [d EXCEPT !.engine = x, !.shot = y, !.mem = z] BY <1>5 DEF CaptureStarts
  <2>2. QED BY <1>3, <2>1 DEF Face
<1>6. CASE e = CaptureEnds(d)
  <2>1. \E x, y, z : e = [d EXCEPT !.engine = x, !.busy = y, !.mem = z] BY <1>6 DEF CaptureEnds
  <2>2. QED BY <1>4, <2>1 DEF Face
<1>7. CASE e = InitEnds(d) /\ d.initing
  <2> DEFINE cam == [a \in CamRegs |-> CamReset(a)]
  <2>1. e = [d EXCEPT !.initing = FALSE, !.cam = cam] BY <1>7 DEF InitEnds
  <2>2. DOMAIN cam = CamRegs /\ \A a \in CamRegs : cam[a] \subseteq 0..7 BY <1>1
  <2> HIDE DEF cam
  <2>3. QED BY <1>7, <2>1, <2>2 DEF Healthy, BoardFields
<1>8. CASE e = Drains(d) BY <1>8 DEF Drains, Healthy, BoardFields, Face
<1>9. QED BY <1>2, <1>5, <1>6, <1>7, <1>8

-----------------------------------------------------------------------------
(* The course of a request *)

Places == {"idle", "lock", "test", "require", "state", "describe", "drop", "close", "clear", "open", "body",
           "fetch", "leave"}
Early == {"lock", "test", "require"}
Busy == Early \cup {"drop", "close", "clear", "open", "body", "fetch"}

\* A request is a typed one; the operation it is at follows from the answers it
\* has, and it was answered only when there are no more.
Course(t) ==
  LET th == thread[t]
  IN  /\ th.at \in Places
      /\ th.at # "idle" => Typed(th.q) /\ ~ Refused(th.q)
      /\ th.at \in {"state", "describe"} => th.q.route = "state"
      /\ th.at \in Busy => th.q.route # "state" /\ th.res # "ok"
      /\ th.at \in Early => th.got = <<>>
      /\ th.at = "open" => th.q.route = "connect"
      /\ th.at \in Busy => Heard(th.q, th.got) /\ th.op = OpAfter(th.q, th.got)
      /\ th.at = "leave" /\ th.res = "ok" /\ th.q.route # "state" =>
           /\ Heard(th.q, th.got) /\ th.op = OpAfter(th.q, th.got) /\ th.op.fn = "end"
           /\ th.q.route # "grab" => lock = t

CourseInv == session \in Sessions /\ Healthy(board) /\ \A t \in Threads : Course(t)

LEMMA HeardNothing == ASSUME NEW q PROVE Heard(q, <<>>)
<1>1. IsSeq(<<>>) BY DEF IsSeq
<1>2. QED BY <1>1 DEF Heard

\* One more answer, from the register that it is read from.
LEMMA HeardMore ==
  ASSUME NEW q, Typed(q), ~ Refused(q), NEW got, Heard(q, got), NEW op, op = OpAfter(q, got),
         op.fn \notin {"raise", "end"}, NEW d, Healthy(d), NEW n \in Nat \ {0}
  PROVE  Heard(q, Append(got, Answered(d, op, n)[1]))
<1> DEFINE r == Answered(d, op, n)[1]
<1>1. PICK S : got \in Seq(S) BY DEF Heard, IsSeq
<1>2. Append(got, r) \in Seq(S \cup {r})
  <2>1. got \in Seq(S \cup {r}) /\ r \in S \cup {r} BY <1>1
  <2> HIDE DEF r
  <2>2. QED BY <2>1
<1>3. IsSeq(Append(got, r)) BY <1>2 DEF IsSeq
<1>4. ASSUME NEW i \in Reading(q), Len(got) + 1 = i PROVE r[1] \subseteq 0..7
  <2>1. IsSeq(got) BY DEF Heard
  <2>2. OpAfter(q, got) = ReadReg(ReadFrom(q, i)) BY <1>4, <2>1, ReadsThere
  <2>3. ReadFrom(q, i) \in CamRegs BY ReadFromCam
  <2>4. r = <<d.cam[ReadFrom(q, i)]>> BY <2>2, <2>3, CamRead
  <2>5. QED BY <2>3, <2>4 DEF Healthy
<1> HIDE DEF r
<1>5. /\ Len(got) \in Nat /\ Len(Append(got, r)) = Len(got) + 1
      /\ \A i \in 1..Len(got) : Append(got, r)[i] = got[i]
      /\ Append(got, r)[Len(got) + 1] = r
  BY <1>1
<1>6. ASSUME NEW i \in Reading(q), i \in 1..Len(Append(got, r)) PROVE Append(got, r)[i][1] \subseteq 0..7
  <2>1. CASE i = Len(got) + 1 BY <1>4, <1>5, <2>1
  <2>2. CASE i # Len(got) + 1
    <3>1. i \in 1..Len(got) BY <1>5, <1>6, <2>2
    <3>2. QED BY <1>5, <3>1 DEF Heard
  <2>3. QED BY <2>1, <2>2
<1>7. QED BY <1>3, <1>6 DEF Heard, r

LEMMA StepKeeps == ASSUME NEW t \in Threads, Step(t) PROVE session' = session
<1>1. Operates(t) => session' = session
  BY DEF Operates, Rejected, Deadline, Loses, Looks, Completes, Answers, TimesOut, Fault, Budget
<1>2. QED BY <1>1 DEF Step, StateConnected, StateDescribe, Acquire, Test, _require_client, Drop, Close, Clear, Open, Leave, Budget

LEMMA CourseTurn ==
  ASSUME ThreadRecords, LockInv, CourseInv, NEW t \in Threads, OthersKept(t), session' = session,
         \/ Walks(t) \/ Takes(t) \/ GivesUp(t) \/ LooksOn(t) \/ Succeeds(t) \/ Goes(t)
         \/ \E n \in 1..Resends+1 : Hears(t, n)
  PROVE  CourseInv'
<1> USE DEF Places, Busy, Early
<1>1. Healthy(board) /\ Course(t) BY DEF CourseInv
<1> DEFINE th == thread[t]
<1>2. CASE Walks(t)
  <2>1. board' = board BY <1>2 DEF Walks, Untouched
  <2>2. Course(t)'
    <3>1. /\ th.q = thread'[t].q /\ th.got = thread'[t].got /\ th.op = thread'[t].op BY <1>2 DEF Walks, Same
    <3>2. CASE Asks(t) BY <1>1, <3>1, <3>2 DEF Course, Asks
    <3>3. CASE Locks(t) BY <1>1, <3>1, <3>3 DEF Course, Locks
    <3>4. CASE Tests(t) BY <1>1, <3>1, <3>4 DEF Course, Tests
    <3>5. CASE Drops(t) BY <1>1, <3>1, <3>5 DEF Course, Drops
    <3>6. CASE Opens(t) BY <1>1, <3>1, <3>6 DEF Course, Opens
    <3>7. QED BY <1>2, <3>2, <3>3, <3>4, <3>5, <3>6 DEF Walks
  <2>3. lock' = lock \/ lock \in {t, NoThread}
    <3>1. CASE Tests(t)
      <4>1. Uses(t) BY <3>1 DEF Tests, Uses
      <4>2. QED BY <4>1 DEF LockInv
    <3>2. QED BY <1>2, <3>1 DEF Walks, Asks, Locks, Drops, Opens
  <2>4. \A u \in Threads \ {t} : Course(u)' BY <2>1, <2>3, LockAssumption DEF CourseInv, OthersKept, Course
  <2>5. QED BY <1>1, <2>1, <2>2, <2>4 DEF CourseInv
<1>3. CASE Takes(t)
  <2>1. board' = board /\ lock' = lock BY <1>3 DEF Takes, Untouched
  <2>2. Course(t)'
    <3>1. /\ thread'[t].at = "body" /\ thread'[t].res = th.res /\ th.at = "require"
          /\ thread'[t].q = th.q /\ thread'[t].got = th.got /\ thread'[t].op = th.op
      BY <1>3 DEF Takes, Same
    <3>2. QED BY <1>1, <3>1 DEF Course
  <2>3. QED BY <2>1, <2>2 DEF CourseInv, OthersKept, Course
<1>4. CASE GivesUp(t)
  <2>1. lock = t
    <3>1. Uses(t) BY <1>4 DEF GivesUp, InBody, Uses
    <3>2. QED BY <3>1 DEF LockInv
  <2>2. Healthy(board')
    <3>1. CASE board' = board BY <1>1, <3>1
    <3>2. CASE Calling(t) /\ \E n \in Nat : board' = After(board, thread[t].op, n)
      <4>1. PICK n \in Nat : board' = After(board, th.op, n) BY <3>2
      <4>2. Typed(th.q) /\ ~ Refused(th.q) /\ th.q.route # "state" /\ Heard(th.q, th.got)
            /\ th.op = OpAfter(th.q, th.got)
        BY <1>1, <1>4 DEF Course, GivesUp, InBody
      <4>3. th.op.fn # "end" BY <3>2 DEF Calling
      <4>4. Tame(th.q, th.op) BY <4>2, <4>3, OpTame
      <4>5. QED BY <1>1, <4>1, <4>4, AfterHealthy
    <3>3. QED BY <1>4, <3>1, <3>2 DEF GivesUp, Untouched
  <2>3. Course(t)'
    <3>1. /\ thread'[t].at \in {"drop", "leave"} /\ thread'[t].res \in {"error", "lost", "cancelled"}
          /\ thread'[t].q = th.q /\ thread'[t].got = th.got /\ thread'[t].op = th.op
          /\ th.at \in {"body", "fetch"}
      BY <1>4 DEF GivesUp, Same, InBody
    <3>2. QED BY <1>1, <3>1 DEF Course
  <2>4. \A u \in Threads \ {t} : Course(u)' BY <2>1 DEF CourseInv, OthersKept, Course
  <2>5. QED BY <2>2, <2>3, <2>4 DEF CourseInv
<1>5. CASE LooksOn(t)
  <2>1. board' = board /\ lock' = lock BY <1>5 DEF LooksOn, Untouched
  <2>2. Course(t)'
    <3>1. /\ thread'[t].at = "fetch" /\ thread'[t].res = th.res
          /\ thread'[t].q = th.q /\ thread'[t].got = th.got /\ thread'[t].op = th.op
          /\ th.at \in {"body", "fetch"}
      BY <1>5 DEF LooksOn, Same, InBody
    <3>2. QED BY <1>1, <3>1 DEF Course
  <2>3. QED BY <2>1, <2>2 DEF CourseInv, OthersKept, Course
<1>6. CASE Succeeds(t)
  <2>1. lock = t
    <3>1. Uses(t) BY <1>6 DEF Succeeds, InBody, Uses
    <3>2. QED BY <3>1 DEF LockInv
  <2>2. board' = board /\ lock' = IF th.q.route = "grab" THEN NoThread ELSE lock BY <1>6 DEF Succeeds, Freed
  <2>3. Course(t)'
    <3>1. /\ thread'[t].at = "leave" /\ thread'[t].res = "ok" /\ th.op.fn = "end"
          /\ thread'[t].q = th.q /\ thread'[t].got = th.got /\ thread'[t].op = th.op
          /\ th.at \in {"body", "fetch"}
      BY <1>6 DEF Succeeds, Same, InBody
    <3>2. QED BY <1>1, <2>1, <2>2, <3>1 DEF Course
  <2>4. \A u \in Threads \ {t} : Course(u)' BY <2>1 DEF CourseInv, OthersKept, Course
  <2>5. QED BY <1>1, <2>2, <2>3, <2>4 DEF CourseInv
<1>7. CASE Goes(t)
  <2>1. board' = board /\ lock' = IF lock = t THEN NoThread ELSE lock BY <1>7 DEF Goes, Untouched
  <2>2. Course(t)'
    <3>1. thread'[t] = Idle BY <1>7 DEF Goes
    <3>2. Idle.at = "idle" BY DEF Idle
    <3>3. QED BY <3>1, <3>2 DEF Course
  <2>3. \A u \in Threads \ {t} : Course(u)' BY <2>1 DEF CourseInv, OthersKept, Course
  <2>4. QED BY <1>1, <2>1, <2>2, <2>3 DEF CourseInv
<1>8. CASE \E n \in 1..Resends+1 : Hears(t, n)
  <2>1. PICK n \in 1..Resends+1 : Hears(t, n) BY <1>8
  <2> DEFINE r == Answered(board, th.op, n)
  <2>2. /\ board' = r[2] /\ lock' = lock /\ n \in Nat \ {0} /\ th.op.fn \notin {"raise", "end"}
        /\ th.at \in {"body", "fetch"}
        /\ thread'[t].q = th.q /\ thread'[t].got = Append(th.got, r[1])
        /\ thread'[t].op = OpAfter(th.q, Append(th.got, r[1]))
        /\ thread'[t].at = "body" /\ thread'[t].res = th.res
    BY <2>1 DEF Hears, Calling, InBody
  <2>3. Typed(th.q) /\ ~ Refused(th.q) /\ th.q.route # "state" /\ Heard(th.q, th.got)
        /\ th.op = OpAfter(th.q, th.got)
    BY <1>1, <2>2 DEF Course
  <2>4. Tame(th.q, th.op) BY <2>2, <2>3, OpTame
  <2>5. Healthy(board') BY <1>1, <2>2, <2>4, AnswerHealthy
  <2>6. Heard(th.q, Append(th.got, r[1])) BY <1>1, <2>2, <2>3, HeardMore
  <2> HIDE DEF r
  <2>7. Course(t)' BY <1>1, <2>2, <2>3, <2>6 DEF Course
  <2>8. \A u \in Threads \ {t} : Course(u)' BY <2>2 DEF CourseInv, OthersKept, Course
  <2>9. QED BY <2>5, <2>7, <2>8 DEF CourseInv
<1>9. QED BY <1>2, <1>3, <1>4, <1>5, <1>6, <1>7, <1>8

LEMMA CourseKept ==
  ASSUME NEW t \in Threads, Course(t), lock' = lock,
         thread'[t].at = thread[t].at, thread'[t].q = thread[t].q, thread'[t].conn = thread[t].conn,
         thread'[t].op = thread[t].op, thread'[t].got = thread[t].got, thread'[t].res = thread[t].res
  PROVE  Course(t)'
BY DEF Course

LEMMA CourseAsk ==
  ASSUME ThreadRecords, CourseInv, NEW t \in Threads, NEW q \in session.may, Ask(t, q) PROVE CourseInv'
<1> DEFINE both == {u \in Threads : q.route = "grab" /\ Grabbing(u)}
           at == IF q.route = "state" THEN "state" ELSE "lock"
           new == [Idle EXCEPT !.at = at, !.q = q, !.op = OpAfter(q, <<>>), !.since = board.shot]
           mine == [new EXCEPT !.odd = IF both = {} THEN {} ELSE {"shared"}]
<1>1. /\ thread' = [u \in Threads |->
           IF u = t THEN mine
           ELSE IF u \in both THEN [thread[u] EXCEPT !.odd = @ \cup {"shared"}] ELSE thread[u]]
      /\ lock' = lock /\ board' = board /\ session' = session /\ ~ Refused(q)
  BY DEF Ask, Board
<1>2. /\ mine.at = at /\ mine.q = q /\ mine.got = <<>> /\ mine.res = "none" /\ mine.op = OpAfter(q, <<>>)
  BY DEF Idle
<1>3. at \in {"state", "lock"} /\ (at = "state" <=> q.route = "state") OBVIOUS
<1>4. Typed(q) /\ Heard(q, <<>>) BY RequestAssumption, HeardNothing DEF CourseInv
<1> HIDE DEF mine, both, at
<1>5. Course(t)'
  <2>1. thread'[t] = mine BY <1>1
  <2>2. QED BY <1>1, <1>2, <1>3, <1>4, <2>1 DEF Course, Places, Busy, Early
<1>6. ASSUME NEW u \in Threads \ {t} PROVE Course(u)'
  <2>1. thread'[u] = [thread[u] EXCEPT !.odd = @ \cup {"shared"}] \/ thread'[u] = thread[u]
    BY <1>1, <1>6
  <2>2. /\ thread'[u].at = thread[u].at /\ thread'[u].q = thread[u].q /\ thread'[u].conn = thread[u].conn
        /\ thread'[u].op = thread[u].op /\ thread'[u].got = thread[u].got /\ thread'[u].res = thread[u].res
    BY <2>1 DEF ThreadRecords
  <2>3. QED BY <1>1, <2>2, CourseKept DEF CourseInv
<1>7. QED BY <1>1, <1>5, <1>6 DEF CourseInv

LEMMA CourseInductive == LockInv /\ CourseInv /\ [Next]_vars => CourseInv'
<1> SUFFICES ASSUME LockInv, CourseInv, [Next]_vars PROVE CourseInv' OBVIOUS
<1>1. ThreadRecords /\ Healthy(board) BY DEF LockInv, CourseInv
<1>2. ASSUME Healthy(board'), session' = session, lock' = lock,
             \A t \in Threads :
               /\ thread'[t].at = thread[t].at /\ thread'[t].q = thread[t].q /\ thread'[t].conn = thread[t].conn
               /\ thread'[t].op = thread[t].op /\ thread'[t].got = thread[t].got
               /\ thread'[t].res = thread[t].res
      PROVE  CourseInv'
  <2>1. \A t \in Threads : Course(t)' BY <1>2, CourseKept DEF CourseInv
  <2>2. QED BY <1>2, <2>1 DEF CourseInv
<1>3. CASE UNCHANGED vars BY <1>1, <1>2, <1>3 DEF vars
<1>4. CASE \E t \in Threads : (\E q \in session.may : Ask(t, q)) \/ Step(t)
  <2>1. PICK t \in Threads : (\E q \in session.may : Ask(t, q)) \/ Step(t) BY <1>4
  <2>2. CASE Step(t)
    <3>1. session' = session BY <2>2, StepKeeps
    <3>2. QED BY <1>1, <2>2, <3>1, Turns, CourseTurn
  <2>3. QED BY <1>1, <2>1, <2>2, CourseAsk
<1>5. CASE PostCancel
  <2>1. board' = board /\ lock' = lock /\ session' = session BY <1>5 DEF PostCancel, Board
  <2>2. ASSUME NEW t \in Threads
        PROVE  /\ thread'[t].at = thread[t].at /\ thread'[t].q = thread[t].q
               /\ thread'[t].conn = thread[t].conn /\ thread'[t].op = thread[t].op
               /\ thread'[t].got = thread[t].got /\ thread'[t].res = thread[t].res
    <3> DEFINE x == Min({thread[t].asked, Len(Pixels(thread[t].got))})
    <3>1. thread'[t] = [thread[t] EXCEPT !.asked = x] \/ thread'[t] = thread[t]
      BY <1>5 DEF PostCancel
    <3> HIDE DEF x
    <3>2. QED BY <1>1, <3>1 DEF ThreadRecords
  <2>3. QED BY <1>1, <1>2, <2>1, <2>2
<1>6. CASE BoardMoves
  <2>1. board' \in BoardSteps(board) /\ lock' = lock /\ thread' = thread /\ session' = session
    BY <1>6 DEF BoardMoves, Budget
  <2>2. Healthy(board') BY <1>1, <2>1, MovesFace
  <2>3. QED BY <1>2, <2>1, <2>2
<1>7. CASE Watchdog
  <2>1. board' = WatchdogEnds(board) /\ Marked("watchdog") /\ lock' = lock /\ session' = session
    BY <1>7, WatchdogMarks DEF Watchdog, Fault
  <2>2. Healthy(board') BY <1>1, <2>1 DEF WatchdogEnds, Healthy, BoardFields
  <2>3. QED BY <1>1, <1>2, <2>1, <2>2, MarkedFields
<1>8. CASE Unplug
  <2>1. /\ board' = [PowerOn(board.calib, board.serv) EXCEPT !.shot = board.shot] /\ Marked("restarted")
        /\ lock' = lock /\ session' = session
    BY <1>8, UnplugMarks DEF Unplug, Fault
  <2>2. Healthy(board') BY <2>1, PowerHealthy
  <2>3. QED BY <1>1, <1>2, <2>1, <2>2, MarkedFields
<1>9. CASE Replug
  <2>1. board' = board /\ thread' = thread /\ lock' = lock /\ session' = session BY <1>9 DEF Replug, Board, Budget
  <2>2. QED BY <1>1, <1>2, <2>1
<1>10. QED BY <1>3, <1>4, <1>5, <1>6, <1>7, <1>8, <1>9 DEF Next

LEMMA CourseInit == Init => CourseInv
<1> SUFFICES ASSUME Init PROVE CourseInv OBVIOUS
<1>1. \A t \in Threads : thread[t] = Idle BY DEF Init
<1>2. Idle.at = "idle" BY DEF Idle
<1>3. \A t \in Threads : Course(t) BY <1>1, <1>2 DEF Course, Places, Busy, Early
<1>4. Healthy(board) BY PowerHealthy DEF Init
<1>5. QED BY <1>3, <1>4 DEF Init, CourseInv

\* Only open connections are live, and none without the port.
WireInv ==
  /\ live \subseteq handles /\ (~ port => live = {})
  /\ lock \in Threads \cup {NoThread}
  /\ progress.done \in 0..FRAME_PIXELS

WireKept ==
  /\ live \subseteq handles => live' \subseteq handles'
  /\ (~ port => live = {}) => (~ port' => live' = {})

LEMMA WireStep == ASSUME NEW t \in Threads, Step(t) PROVE WireKept
<1>1. CASE UNCHANGED <<port, handles, live>> BY <1>1 DEF WireKept
<1>2. CASE \/ StateConnected(t) \/ StateDescribe(t) \/ Acquire(t) \/ Test(t) \/ _require_client(t)
           \/ Drop(t) \/ Clear(t) \/ Leave(t)
  BY <1>1, <1>2 DEF StateConnected, StateDescribe, Acquire, Test, _require_client, Drop, Clear, Leave, Wire
<1>3. CASE Close(t) BY <1>3 DEF Close, WireKept
<1>4. CASE Open(t) BY <1>4 DEF Open, WireKept
<1>5. ASSUME Reopened(t), Reaches(t) PROVE WireKept BY <1>5 DEF Reopened, Reaches, WireKept
<1>6. CASE Operates(t)
  <2>1. CASE Rejected(t) BY <2>1 DEF Rejected, WireKept
  <2>2. CASE Deadline(t) BY <1>5, <2>2 DEF Deadline
  <2>3. CASE Loses(t) BY <2>3 DEF Loses, WireKept
  <2>4. CASE Looks(t) \/ Completes(t) BY <1>1, <2>4 DEF Looks, Completes, Wire
  <2>5. CASE \E n \in 1..Resends+1 : Answers(t, n) BY <1>5, <2>5 DEF Answers
  <2>6. CASE \E n \in 0..Resends+1 : TimesOut(t, n) BY <2>6 DEF TimesOut, Reaches, WireKept
  <2>7. QED BY <1>6, <2>1, <2>2, <2>3, <2>4, <2>5, <2>6 DEF Operates
<1>7. QED BY <1>2, <1>3, <1>4, <1>6 DEF Step

LEMMA LockTurn ==
  ASSUME LockInv, NEW t \in Threads, Step(t), lock \in Threads \cup {NoThread}
  PROVE  lock' \in Threads \cup {NoThread}
<1>1. ThreadRecords BY DEF LockInv
<1>2. \/ Walks(t) \/ Takes(t) \/ GivesUp(t) \/ LooksOn(t) \/ Succeeds(t) \/ Goes(t)
      \/ \E n \in 1..Resends+1 : Hears(t, n)
  BY <1>1, Turns
<1>3. lock' \in {lock, t, NoThread}
  BY <1>2 DEF Walks, Asks, Locks, Tests, Drops, Opens, Takes, GivesUp, LooksOn, Succeeds, Goes, Hears, Freed
<1>4. QED BY <1>3

\* The progress only counts pixels that are there.
LEMMA DoneTurn ==
  ASSUME Records, CancelInv', NEW t \in Threads, Step(t), progress.done \in 0..FRAME_PIXELS
  PROVE  progress'.done \in 0..FRAME_PIXELS
<1>1. CASE progress' = progress BY <1>1
<1>2. CASE \/ StateConnected(t) \/ StateDescribe(t) \/ Acquire(t) \/ Test(t) \/ _require_client(t)
           \/ Drop(t) \/ Close(t) \/ Clear(t) \/ Open(t)
  BY <1>1, <1>2 DEF StateConnected, StateDescribe, Acquire, Test, _require_client, Drop, Close, Clear, Open
<1>3. CASE Leave(t) BY <1>3 DEF Leave, GrabOver, Records
<1>4. CASE InBody(t) /\ Operates(t)
  <2>1. CASE Rejected(t) \/ Deadline(t) \/ Loses(t) \/ Looks(t) \/ Completes(t)
    BY <1>1, <2>1 DEF Rejected, Deadline, Loses, Looks, Completes
  <2>2. CASE \E n \in 0..Resends+1 : TimesOut(t, n) BY <1>1, <2>2 DEF TimesOut
  <2>3. CASE \E n \in 1..Resends+1 : Answers(t, n)
    <3>1. PICK n \in 1..Resends+1 : Answers(t, n) BY <2>3
    <3> DEFINE got == Append(thread[t].got, Answered(board, thread[t].op, n)[1])
    <3>2. Hears(t, n) BY <1>4, <3>1, AnswersHears DEF Records
    <3>3. thread'[t].got = got /\ thread'[t].q = thread[t].q /\ thread'[t].at = "body" BY <3>2 DEF Hears
    <3>4. progress' = IF Chunk(t) THEN [progress EXCEPT !.done = Len(Pixels(got))] ELSE progress
      BY <3>1 DEF Answers
    <3>5. CASE ~ Chunk(t) BY <1>1, <3>4, <3>5
    <3>6. CASE Chunk(t)
      <4>1. Grabbing(t)' BY <3>3, <3>6 DEF Chunk, Grabbing
      <4>2. Collected(thread[t].got)' BY <4>1 DEF CancelInv, CancelOf
      <4>3. Collected(thread'[t].got) BY <4>2 DEF Collected, IsSeq, Pixels, NChunks
      <4>4. Collected(got) BY <3>3, <4>3
      <4>5. Len(Pixels(got)) \in 0..FRAME_PIXELS BY <4>4, HaveRange
      <4> HIDE DEF got
      <4>6. progress'.done = Len(Pixels(got)) BY <3>4, <3>6 DEF Records
      <4>7. QED BY <4>5, <4>6
    <3>7. QED BY <3>5, <3>6
  <2>4. QED BY <1>4, <2>1, <2>2, <2>3 DEF Operates
<1>5. QED BY <1>2, <1>3, <1>4 DEF Step

LEMMA WireInductive == Inv /\ LockInv /\ CancelInv' /\ WireInv /\ [Next]_vars => WireInv'
<1> SUFFICES ASSUME Inv, LockInv, CancelInv', WireInv, [Next]_vars PROVE WireInv' OBVIOUS
<1>1. Records BY DEF Inv
<1>2. ASSUME WireKept, lock' = lock, progress'.done \in {progress.done, 0} PROVE WireInv'
  BY <1>2, StreamAssumption DEF WireKept, WireInv
<1>3. CASE UNCHANGED vars BY <1>2, <1>3 DEF vars, WireKept
<1>4. CASE \E t \in Threads : (\E q \in session.may : Ask(t, q)) \/ Step(t)
  <2>1. PICK t \in Threads : (\E q \in session.may : Ask(t, q)) \/ Step(t) BY <1>4
  <2>2. CASE Step(t)
    <3>1. WireKept BY <2>2, WireStep
    <3>2. lock' \in Threads \cup {NoThread} BY <2>2, LockTurn DEF WireInv
    <3>3. progress'.done \in 0..FRAME_PIXELS BY <1>1, <2>2, DoneTurn DEF WireInv
    <3>4. QED BY <3>1, <3>2, <3>3 DEF WireInv, WireKept
  <2>3. CASE \E q \in session.may : Ask(t, q)
    <3>1. PICK q : Ask(t, q) BY <2>3
    <3>2. lock' = lock /\ port' = port /\ live' = live /\ handles' = handles BY <3>1 DEF Ask
    <3>3. progress' = IF q.route = "grab" THEN [active |-> TRUE, done |-> 0, cancel |-> FALSE] ELSE progress
      BY <3>1 DEF Ask
    <3>4. QED BY <1>2, <3>2, <3>3 DEF WireKept
  <2>4. QED BY <2>1, <2>2, <2>3
<1>5. CASE PostCancel BY <1>1, <1>2, <1>5 DEF PostCancel, Wire, WireKept, Records
<1>6. CASE BoardMoves BY <1>2, <1>6 DEF BoardMoves, Wire, WireKept
<1>7. CASE Watchdog BY <1>2, <1>7 DEF Watchdog, Wire, WireKept
<1>8. CASE Unplug BY <1>2, <1>8 DEF Unplug, WireKept
<1>9. CASE Replug BY <1>2, <1>9 DEF Replug, WireKept
<1>10. QED BY <1>3, <1>4, <1>5, <1>6, <1>7, <1>8, <1>9 DEF Next

LEMMA WireInit == Init => WireInv
BY StreamAssumption DEF Init, WireInv

\* Every variable keeps its type, whatever requests come and fail: registers of
\* the camera are bytes, the cursor is on the screen, the live connections are
\* open ones, and the grab's counter is within a frame.
THEOREM WebTypes == Spec => []TypeOK
<1>1. CourseInv /\ FrameInv /\ WireInv => TypeOK
  <2> SUFFICES ASSUME CourseInv, FrameInv, WireInv PROVE TypeOK OBVIOUS
  <2>1. board.cursor \in 0..OSD_CELLS-1 /\ \A a \in CamRegs : board.cam[a] \subseteq 0..7
    BY DEF CourseInv, Healthy
  <2>2. board.engine \in {"idle", "wait", "capture"} BY DEF FrameInv, Shape
  <2>3. \A t \in Threads : thread[t].at \in Places BY DEF CourseInv, Course
  <2>4. QED BY <2>1, <2>2, <2>3 DEF WireInv, TypeOK, Places
<1>2. QED BY <1>1, Initially, Inductive, LockInit, LockInductive, CancelInit, CancelInductive,
             FrameInit, FrameInductive, CourseInit, CourseInductive, WireInit, WireInductive, PTL DEF Spec
=============================================================================
