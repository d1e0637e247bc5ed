----------------------------- MODULE RoiPipeline -----------------------------
(***************************************************************************)
(* From labelled samples to a face detector on the board: collect_samples  *)
(* writes the file, train_tm.py reads it, trains a Tsetlin machine and     *)
(* exports it, and the overlay roi_tm classifies frames with it.           *)
(*                                                                         *)
(* The trainer runs while the collector does not.  Its augmentations, its  *)
(* synthetic data and its accuracy report are left out; so is how roi_tm   *)
(* gets its frame, of which it takes the same cells as the collector, and  *)
(* what it writes on the screen.                                           *)
(***************************************************************************)
EXTENDS SampleCollector, TsetlinMachine

CONSTANTS
  Colour(_, _),   \* RGB565 of a pixel of a capture
  Scenes,         \* captures roi_tm may see
  Thresholds,     \* of the command line
  EPOCHS

THRESHOLD == 0
ValSplit(n) == CHOOSE v \in 0..n : /\ 2 * (4 * v - n) \in -4..4
                                   /\ 2 * (4 * v - n) \in {-4, 4} => v % 2 = 0

ASSUME PipelineAssumption == /\ GridCols = ROI_COLS /\ GridRows = ROI_ROWS
                             /\ EPOCHS \in Nat \ {0}
\* Red has five bits, green six, blue five.
ASSUME ColourAssumption ==
  \A shot \in Scenes, p \in 0..FRAME_PIXELS-1 : Colour(shot, p) \in 0 .. 32 * 64 * 32 - 1

VARIABLES
  at,           \* where the trainer is
  trn,          \* the samples it trains on: features and label
  todo, epoch,  \* those left in this epoch
  model,        \* tm_model.h
  scene, heartbeat   \* the last capture roi_tm classified, and its answer

trainerVars == <<at, trn, todo, epoch, ta, model, scene, heartbeat>>
pipelineVars == <<collectorVars, trainerVars>>

NoModel == [clause_len |-> <<>>, lit |-> <<>>, threshold |-> 0]

\* The region of a capture as RGB565.
Rgb565(roi565) == [k \in DOMAIN roi565 |-> Colour(roi565[k][1], roi565[k][2])]
RoiOf(shot) == [k \in 1..GridCells |-> Colour(shot, CellAddr(k) + 1)]

PipelineInit ==
  /\ Init /\ TsetlinInit
  /\ at = "idle" /\ trn = <<>> /\ todo = {} /\ epoch = 0
  /\ model = NoModel /\ scene = 0 /\ heartbeat = 0

\* An empty file, or one that can not be parsed, ends the trainer.
Readable == ~ file.torn /\ file.lines # <<>>

load_samples ==
  /\ at = "idle" /\ pc = "down" /\ Readable
  /\ \E val \in kSubset(ValSplit(Len(file.lines)), DOMAIN file.lines) :
       trn' = [i \in DOMAIN file.lines \ val |->
                 [x |-> featurize(Rgb565(file.lines[i].roi565)), y |-> file.lines[i].label]]
  /\ at' = "fit" /\ todo' = DOMAIN trn' /\ epoch' = 1
  /\ ta' = [j \in Clauses |-> [L \in 0..NLIT-1 |-> STATES]]
  /\ UNCHANGED <<collectorVars, model, scene, heartbeat>>

\* fit: every sample once in each epoch, in any order.
Fit ==
  /\ at = "fit"
  /\ \E i \in todo : /\ _update_one(trn[i].x, trn[i].y)
                     /\ todo' = IF todo = {i} /\ epoch < EPOCHS THEN DOMAIN trn ELSE todo \ {i}
                     /\ epoch' = IF todo = {i} /\ epoch < EPOCHS THEN epoch + 1 ELSE epoch
  /\ UNCHANGED <<collectorVars, at, trn, model, scene, heartbeat>>

\* Written, built into the overlay and loaded.
Export ==
  /\ at = "fit" /\ todo = {}
  /\ at' = "deployed"
  /\ \E threshold \in Thresholds : model' = export_header(masks(ta), threshold)
  /\ UNCHANGED <<collectorVars, trn, todo, epoch, ta, scene, heartbeat>>

\* One turn of roi_tm's loop.
Classify ==
  /\ at = "deployed"
  /\ scene' \in Scenes
  /\ heartbeat' = HeartbeatOf(model, RoiOf(scene'))
  /\ UNCHANGED <<collectorVars, at, trn, todo, epoch, ta, model>>

Collects == at = "idle" /\ CollectorNext /\ UNCHANGED trainerVars

PipelineNext == Collects \/ load_samples \/ Fit \/ Export \/ Classify
PipelineSpec == PipelineInit /\ [][PipelineNext]_pipelineVars
-----------------------------------------------------------------------------
(* Properties *)

\* The heartbeat of the board says what the host's inference says of the
\* same region with the model just trained: the decision at the exported
\* threshold, and the vote.  So do, during the training, the clauses as
\* they are evaluated and the packed masks, on every sample.
DeployedAgrees ==
  /\ heartbeat # 0 =>
       LET host == infer_packed(masks(ta), pack_literals(featurize(RoiOf(scene))), model.threshold)
       IN  host.predict = (heartbeat >= 128) /\ host.vote = (heartbeat % 128) - 64
  /\ at = "fit" =>
       \A i \in DOMAIN trn :
         infer_packed(masks(ta), pack_literals(trn[i].x), THRESHOLD).vote = Vote(ta, trn[i].x)
=============================================================================
