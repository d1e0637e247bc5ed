-------------------------- MODULE DownloadRowCache --------------------------
(***************************************************************************)
(* src/DownloadRowCache.sv: on start, fetches the rows of a frame from     *)
(* memory one burst at a time, into two row banks used in turn; a full     *)
(* bank is drained by FrameDownloader and handed back with row_release.    *)
(* The source row advances by one or two rows per fetched row, chosen by   *)
(* the rounding DDA of src/resize/PositionScaler_vert.sv.                  *)
(*                                                                         *)
(* Tick(start, base, ack, dataValid, release) is one clock edge.  A burst  *)
(* address is <<buffer, source row, burst within the row>>.                *)
(***************************************************************************)
EXTENDS Naturals

CONSTANTS
  FETCH_ROWS,      \* output rows of a frame (the cache's FRAME_HEIGHT)
  BURSTS_PER_ROW,
  BURST_CYCLES,    \* words of a burst
  SOURCE_PIXELS,   \* output and source height of the vertical scaler
  TARGET_PIXELS

VARIABLES
  fstate,
  cur_addr,      \* <<buffer, source row, burst>> of the current burst
  read_counter, burst_in_row, rows_fetched,
  fill_bank, front_bank, bank_full,
  read_rq, mem_rd_en,
  active,
  resid          \* the scaler's residual

fetchVars == <<fstate, cur_addr, read_counter, burst_in_row, rows_fetched, read_rq,
               mem_rd_en, active, resid>>
bankVars == <<fill_bank, front_bank, bank_full>>

Banks == 0 .. 1

row_avail == bank_full[front_bank] = 1

-----------------------------------------------------------------------------
\* The vertical scaler: how far to the next source row, and its residual.

ScalerInit == SOURCE_PIXELS \div 2

take2 == resid + TARGET_PIXELS >= 2 * SOURCE_PIXELS

\* Mutant: the stride is the rounded-up ratio for every row.
position_incrementUp == IF TARGET_PIXELS > SOURCE_PIXELS THEN 2 ELSE 1

position_increment == IF take2 THEN 2 ELSE 1

resid_n == resid + TARGET_PIXELS - position_increment * SOURCE_PIXELS

-----------------------------------------------------------------------------

Reset ==
  /\ fstate = "F_IDLE"
  /\ cur_addr = <<0, 0, 0>>
  /\ read_counter = 0 /\ burst_in_row = 0 /\ rows_fetched = 0
  /\ fill_bank = 0 /\ front_bank = 0
  /\ bank_full = [k \in Banks |-> 0]
  /\ read_rq = 0 /\ mem_rd_en = 0
  /\ active = 0
  /\ resid = ScalerInit

\* Mutant: the count of fetched rows survives the start of a frame.
StartCounted(base) ==
  /\ fstate' = "F_IDLE"
  /\ cur_addr' = <<base, 0, 0>>
  /\ read_counter' = 0 /\ burst_in_row' = 0
  /\ fill_bank' = 0 /\ front_bank' = 0
  /\ bank_full' = [k \in Banks |-> 0]
  /\ read_rq' = 0 /\ mem_rd_en' = 0
  /\ active' = 1
  /\ resid' = ScalerInit
  /\ UNCHANGED rows_fetched

\* A new frame, whatever the cache was doing.
Start(base) ==
  /\ fstate' = "F_IDLE"
  /\ cur_addr' = <<base, 0, 0>>
  /\ read_counter' = 0 /\ burst_in_row' = 0 /\ rows_fetched' = 0
  /\ fill_bank' = 0 /\ front_bank' = 0
  /\ bank_full' = [k \in Banks |-> 0]
  /\ read_rq' = 0 /\ mem_rd_en' = 0
  /\ active' = 1
  /\ resid' = ScalerInit

\* The row just fetched becomes available, the other bank is next.
Publishes ==
  /\ fstate = "F_DATA"
  /\ read_counter = BURST_CYCLES
  /\ burst_in_row = BURSTS_PER_ROW - 1

\* Draining side and filling side in one edge: the release frees the front
\* bank, a completed row fills the fill bank.
SwapBanks(release) ==
  /\ bank_full' = [k \in Banks |->
       IF Publishes /\ k = fill_bank THEN 1
       ELSE IF release /\ k = front_bank THEN 0
       ELSE bank_full[k]]
  /\ front_bank' = IF release THEN 1 - front_bank ELSE front_bank
  /\ fill_bank' = IF Publishes THEN 1 - fill_bank ELSE fill_bank

-----------------------------------------------------------------------------
\* The fill machine.

FetchIdle ==
  /\ fstate = "F_IDLE"
  /\ \/ /\ active = 1 /\ rows_fetched = FETCH_ROWS
        /\ active' = 0
        /\ fstate' = "F_DONE"
        /\ UNCHANGED burst_in_row
     \/ /\ active = 1 /\ rows_fetched # FETCH_ROWS /\ bank_full[fill_bank] = 0
        /\ burst_in_row' = 0
        /\ fstate' = "F_REQ"
        /\ UNCHANGED active
     \/ /\ active = 0 \/ (rows_fetched # FETCH_ROWS /\ bank_full[fill_bank] = 1)
        /\ UNCHANGED <<active, fstate, burst_in_row>>
  /\ UNCHANGED <<cur_addr, read_counter, rows_fetched, read_rq, mem_rd_en, resid>>

FetchRequest ==
  /\ fstate = "F_REQ"
  /\ read_rq' = 1
  /\ fstate' = "F_WAIT"
  /\ UNCHANGED <<cur_addr, read_counter, burst_in_row, rows_fetched, mem_rd_en, active, resid>>

FetchWait(ack) ==
  /\ fstate = "F_WAIT"
  /\ IF ack
       THEN mem_rd_en' = 1 /\ read_counter' = 0 /\ fstate' = "F_DATA"
       ELSE UNCHANGED <<mem_rd_en, read_counter, fstate>>
  /\ UNCHANGED <<cur_addr, burst_in_row, rows_fetched, read_rq, active, resid>>

FetchWord(dataValid) ==
  /\ fstate = "F_DATA"
  /\ read_counter # BURST_CYCLES
  /\ mem_rd_en' = 0
  /\ read_counter' = IF dataValid THEN read_counter + 1 ELSE read_counter
  /\ UNCHANGED <<fstate, cur_addr, burst_in_row, rows_fetched, read_rq, active, resid>>

FetchNextBurst ==
  /\ fstate = "F_DATA"
  /\ read_counter = BURST_CYCLES
  /\ burst_in_row # BURSTS_PER_ROW - 1
  /\ mem_rd_en' = 0
  /\ read_rq' = 0
  /\ burst_in_row' = burst_in_row + 1
  /\ cur_addr' = <<cur_addr[1], cur_addr[2], cur_addr[3] + 1>>
  /\ fstate' = "F_REQ"
  /\ UNCHANGED <<read_counter, rows_fetched, active, resid>>

FetchRowDone ==
  /\ Publishes
  /\ mem_rd_en' = 0
  /\ read_rq' = 0
  /\ rows_fetched' = rows_fetched + 1
  /\ cur_addr' = <<cur_addr[1], cur_addr[2] + position_increment, 0>>
  /\ resid' = resid_n
  /\ fstate' = "F_IDLE"
  /\ UNCHANGED <<read_counter, burst_in_row, active>>

FetchDone ==
  /\ fstate = "F_DONE"
  /\ read_rq' = 0 /\ mem_rd_en' = 0
  /\ UNCHANGED <<fstate, cur_addr, read_counter, burst_in_row, rows_fetched, active, resid>>

Fetch(ack, dataValid) ==
  \/ FetchIdle
  \/ FetchRequest
  \/ FetchWait(ack)
  \/ FetchWord(dataValid)
  \/ FetchNextBurst
  \/ FetchRowDone
  \/ FetchDone

Tick(start, base, ack, dataValid, release) ==
  \/ start /\ Start(base)
  \/ ~start /\ SwapBanks(release) /\ Fetch(ack, dataValid)

TypeOK ==
  /\ fstate \in {"F_IDLE", "F_REQ", "F_WAIT", "F_DATA", "F_DONE"}
  /\ read_counter \in 0 .. BURST_CYCLES
  /\ burst_in_row \in 0 .. BURSTS_PER_ROW - 1
  /\ rows_fetched \in 0 .. FETCH_ROWS
  /\ fill_bank \in Banks /\ front_bank \in Banks
  /\ bank_full \in [Banks -> 0 .. 1]
  /\ read_rq \in 0 .. 1 /\ mem_rd_en \in 0 .. 1 /\ active \in 0 .. 1
  /\ resid \in 0 .. SOURCE_PIXELS - 1

=============================================================================
