---------------------------- MODULE DispatchPlans ----------------------------
(* The dispatch builder (src/dispatch/runner.py, output.py) and the reader  *)
(* of its plans (analysis/dispatch_link.py).  A build learns from past      *)
(* consignments or loads the model the last build cached, predicts the runs *)
(* of the orders that are open, and writes the plan directory one file      *)
(* after the other.  It is a process of its own: it may stop anywhere, and  *)
(* the directory may be read while it is being written.                     *)
(*                                                                          *)
(* Left out: carrier orders (no caller passes a carrier rule), the zone     *)
(* named in a reason, and the workbooks and the summary, which no program   *)
(* reads.                                                                   *)
EXTENDS RunPrediction

CONSTANTS
  History,     \* the consignments of the last 90 days, in the order of the search
  NoModel,     \* no cached model
  Torn,        \* a run label of which a reader saw only the beginning
  MaxPlans     \* bound: how many plans are built

ASSUME HistoryAssumption == History \in Seq(Consignments) /\ ~IsModel(NoModel)

VARIABLES
  open,      \* open orders, in the order CartonCloud returns them
  addressOf, \* the delivery address of every order
  cache,     \* data/dispatch/run_history.parquet
  builder,   \* where the builder is
  model,     \* the model the builder predicts from
  plans      \* the plan directories by age; each holds a suggested_runs.csv

planVars == <<open, addressOf, cache, builder, model, plans>>

(* How far a plan is written: in suggested_runs.csv, after it, in           *)
(* review.csv, after it.                                                    *)
PlanStages == <<"suggested", "between", "review", "whole">>

StageAfter(stage) == PlanStages[1 + SelectInSeq(PlanStages, LAMBDA s : s = stage)]

----------------------------------------------------------------------------
(* A new order comes in.                                                    *)
Arrive(so) ==
  /\ so \notin ToSet(open)
  /\ open' = Append(open, so)
  /\ UNCHANGED <<addressOf, cache, builder, model, plans>>

(* --skip-learn takes the cached model when there is one.                   *)
Learn(skip) ==
  /\ builder = "idle" /\ Len(plans) < MaxPlans
  /\ IF skip /\ cache # NoModel
     THEN model' = cache /\ UNCHANGED cache
     ELSE model' = ComputeRunHistory(History) /\ cache' = model'
  /\ builder' = "predict"
  /\ UNCHANGED <<open, addressOf, plans>>

(* The open orders are pulled, the directory is made and its first file     *)
(* opened.                                                                  *)
PredictOpen ==
  /\ builder = "predict"
  /\ LET plan == PredictRuns(open, addressOf, model)
     IN  plans' = Append(plans, [suggested |-> plan.suggested, review |-> plan.review,
                                 stage |-> "suggested"])
  /\ builder' = "write"
  /\ UNCHANGED <<open, addressOf, cache, model>>

WritePlan ==
  /\ builder = "write"
  /\ plans' = [plans EXCEPT ![Len(plans)].stage = StageAfter(@)]
  /\ IF plans'[Len(plans)].stage = "whole"
     THEN builder' = "idle" /\ model' = NoModel
     ELSE UNCHANGED <<builder, model>>
  /\ UNCHANGED <<open, addressOf, cache>>

\* Mutant: the next build would find the model of the one that failed.
BuildFailsKeepsModel ==
  /\ builder # "idle"
  /\ builder' = "idle"
  /\ UNCHANGED <<open, addressOf, cache, model, plans>>

(* The pull or a write raises: run_dispatch_job reports it and what is      *)
(* written stays.                                                           *)
BuildFails ==
  /\ builder # "idle"
  /\ builder' = "idle"
  /\ model' = NoModel
  /\ UNCHANGED <<open, addressOf, cache, plans>>

Build == (\E skip \in BOOLEAN : Learn(skip)) \/ PredictOpen \/ WritePlan \/ BuildFails

----------------------------------------------------------------------------
(* What reading a file yields: all its rows when it is written, else any    *)
(* beginning of it.  A row may be cut after its so_id, in or after its run  *)
(* or in its flag; a missing cell becomes no_run.  A file cut at its first  *)
(* byte or in a quoted cell cannot be parsed.                               *)
TornFlag == "torn"

CutRows(r) ==
  {Row(r.so_id, NoRun, "no_run"), Row(r.so_id, r.predicted_run, "no_run"),
   Row(r.so_id, r.predicted_run, TornFlag)}
  \union (IF r.predicted_run # NoRun THEN {Row(r.so_id, Torn, "no_run")} ELSE {})

Beginnings(rows) ==
  Prefixes(rows) \union
  UNION {{Append(SubSeq(rows, 1, i - 1), cut) : cut \in CutRows(rows[i])} : i \in DOMAIN rows}

SuggestedReadings(plan) ==
  IF plan.stage = "suggested" THEN Beginnings(plan.suggested) ELSE {plan.suggested}

ReviewReadings(plan) ==
  IF plan.stage \in {"suggested", "between"} THEN {<<>>}
  ELSE IF plan.stage = "review" THEN Beginnings(plan.review) ELSE {plan.review}

SuggestedUnreadable(plan) == plan.stage = "suggested"
ReviewUnreadable(plan) == plan.stage = "review"

(* The first row of an order counts, and an order without one gets no run.  *)
AttachRun(so, rows) ==
  LET i == SelectInSeq(rows, LAMBDA r : r.so_id = so)
  IN  IF i = 0 THEN Row(so, NoRun, "no_run") ELSE rows[i]
=============================================================================
