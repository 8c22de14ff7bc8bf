------------------------------- MODULE WaveRun -------------------------------
(* One wave generation (src/wave_runner.py, run_wave_generation): the open  *)
(* orders are pulled, the newest dispatch plan is linked to them, every     *)
(* order is classified, sheets are made and written one after the other,    *)
(* then the index and the manifest.  The dispatch builder runs beside it in *)
(* another process, and orders come in.  A run that raises ends as failed   *)
(* and leaves what it has written.  The consoles list a run by its manifest *)
(* (src/web/runs.py), so whether it can be parsed is part of the state.     *)
EXTENDS DispatchPlans, WaveSheets

CONSTANTS
  Orders,      \* sales orders
  States,      \* delivery states
  Worlds,      \* the beginnings checked: open orders, cached model, and the inputs
  Settings     \* the settings checked: run_group_col, include_pallet_sheets

OrderForms ==
  [address : Addresses \union {NoAddress}, consignee : Consignees, state : States,
   lines : Seq([sku : Skus, qty : Nat])]

(* Any orders, each pulled once; any rules; no model or some model.  An     *)
(* order without items has no rows in the pull and is none of Orders.       *)
ASSUME WorldsAssumption ==
  \A w \in Worlds :
    /\ w.inputs.book \in [Orders -> OrderForms]
    /\ \A so \in Orders : w.inputs.book[so].lines # <<>>
    /\ w.inputs.rules \in Seq([consignee : Consignees, override : STRING, min_cartons : Nat])
    /\ w.open \in Seq(Orders) /\ IsInjective(w.open)
    /\ w.cache = NoModel \/ IsModel(w.cache)
ASSUME SettingsAssumption ==
  Settings \subseteq [run_group_col : {"predicted_run", "delivery_state"},
                       include_pallet_sheets : BOOLEAN]

VARIABLES
  inputs,    \* the orders' data, the stock, the roles of the export, the rules
  stage,     \* where the run is
  settings,  \* its settings
  pulled,    \* the orders it pulled
  plan,      \* the plan it links, 0 for none
  rows,      \* the rows of the plan it has read
  group,     \* run group and stream of every pulled order
  sheets,    \* the sheets, in the order they are written
  written,   \* how many of them are done with
  files,     \* wave ids with a PDF and its two CSV files
  pdf_failed,\* wave ids whose PDF raised; their CSV files are skipped
  index,     \* index.md is written
  manifest,  \* manifest.json: "none", "torn" or "whole"
  status     \* the run's result

runVars == <<settings, pulled, plan, rows, group, sheets, written, files, pdf_failed,
             index, manifest, status>>
vars == <<planVars, inputs, stage, runVars>>

NoSettings == [run_group_col |-> "none", include_pallet_sheets |-> FALSE]

Init ==
  /\ \E w \in Worlds : inputs = w.inputs /\ open = w.open /\ cache = w.cache
  /\ addressOf = [so \in Orders |-> inputs.book[so].address]
  /\ builder = "idle" /\ model = NoModel /\ plans = <<>>
  /\ stage = "idle" /\ settings = NoSettings
  /\ pulled = <<>> /\ plan = 0 /\ rows = <<>>
  /\ group = <<>> /\ sheets = <<>> /\ written = 0
  /\ files = {} /\ pdf_failed = {}
  /\ index = FALSE /\ manifest = "none" /\ status = "none"

----------------------------------------------------------------------------
Start(s) ==
  /\ stage = "idle"
  /\ stage' = "pull"
  /\ settings' = s
  /\ UNCHANGED <<planVars, inputs, pulled, plan, rows, group, sheets, written, files,
                 pdf_failed, index, manifest, status>>

(* Without open orders only the index and an empty manifest are written.    *)
PullOpenOrders ==
  /\ stage = "pull"
  /\ pulled' = open
  /\ stage' = IF open = <<>> THEN "write" ELSE "load"
  /\ UNCHANGED <<planVars, inputs, settings, plan, rows, group, sheets, written, files,
                 pdf_failed, index, manifest, status>>

(* Products, dims and consignee rules; an invalid rules file fails the run. *)
LoadRules ==
  /\ stage = "load" /\ RulesValid(inputs.rules)
  /\ stage' = "link"
  /\ UNCHANGED <<planVars, inputs, runVars>>

(* Waving by predicted run needs a plan; by state it does without.          *)
FindLatestDispatchPlan ==
  /\ stage = "link"
  /\ plans # <<>> \/ settings.run_group_col # "predicted_run"
  /\ plan' = Len(plans)
  /\ stage' = IF plans = <<>> THEN "classify" ELSE "suggested"
  /\ UNCHANGED <<planVars, inputs, settings, pulled, rows, group, sheets, written, files,
                 pdf_failed, index, manifest, status>>

ReadSuggested ==
  /\ stage = "suggested"
  /\ rows' \in SuggestedReadings(plans[plan])
  /\ stage' = "review"
  /\ UNCHANGED <<planVars, inputs, settings, pulled, plan, group, sheets, written, files,
                 pdf_failed, index, manifest, status>>

ReadReview ==
  /\ stage = "review"
  /\ \E more \in ReviewReadings(plans[plan]) : rows' = rows \o more
  /\ stage' = "classify"
  /\ UNCHANGED <<planVars, inputs, settings, pulled, plan, group, sheets, written, files,
                 pdf_failed, index, manifest, status>>

DispatchFlag(so) == IF plan = 0 THEN "no_plan" ELSE AttachRun(so, rows).flag

RunGroup(so) ==
  IF settings.run_group_col = "predicted_run" THEN AttachRun(so, rows).predicted_run
  ELSE inputs.book[so].state

ClassifyStreams ==
  /\ stage = "classify"
  /\ group' = [so \in ToSet(pulled) |->
       LET order == inputs.book[so]
       IN  [run_group |-> RunGroup(so),
            stream |-> ClassifyStream(order, RuleFor(inputs.rules, order.consignee),
                                      DispatchFlag(so))]]
  /\ stage' = "generate"
  /\ UNCHANGED <<planVars, inputs, settings, pulled, plan, rows, sheets, written, files,
                 pdf_failed, index, manifest, status>>

(* The stock report is kept to the products of the pulled orders; a run     *)
(* with nothing placed is refused.                                          *)
StockOf(stock, skus) == SelectSeq(stock, LAMBDA item : item.sku \in skus)

Wanted == {l.sku : l \in UNION {ToSet(inputs.book[so].lines) : so \in ToSet(pulled)}}

Placed == StockOf(inputs.stock, Wanted)

Generate ==
  /\ stage = "generate" /\ Placed # <<>>
  /\ sheets' = SetToSeq(GenerateSheets(
                 PlanWaves(pulled, inputs.book, group, settings.include_pallet_sheets),
                 inputs.book, Placed, inputs.exported))
  /\ stage' = "write"
  /\ UNCHANGED <<planVars, inputs, settings, pulled, plan, rows, group, written, files,
                 pdf_failed, index, manifest, status>>

(* A sheet whose PDF raises is left without its CSV files, and the run goes *)
(* on with the next.                                                        *)
WriteSheet ==
  /\ stage = "write" /\ written < Len(sheets)
  /\ written' = written + 1
  /\ \/ files' = files \union {sheets[written'].wave_id} /\ UNCHANGED pdf_failed
     \/ pdf_failed' = pdf_failed \union {sheets[written'].wave_id} /\ UNCHANGED files
  /\ UNCHANGED <<planVars, inputs, stage, settings, pulled, plan, rows, group, sheets,
                 index, manifest, status>>

\* Mutant: the index and the manifest do not wait for the sheets.
BuildIndexEarly ==
  /\ stage = "write"
  /\ index' = TRUE
  /\ stage' = "manifest"
  /\ UNCHANGED <<planVars, inputs, settings, pulled, plan, rows, group, sheets, written,
                 files, pdf_failed, manifest, status>>

BuildIndex ==
  /\ stage = "write" /\ written = Len(sheets)
  /\ index' = TRUE
  /\ stage' = "manifest"
  /\ UNCHANGED <<planVars, inputs, settings, pulled, plan, rows, group, sheets, written,
                 files, pdf_failed, manifest, status>>

(* write_text truncates the file, then fills it.                            *)
OpenManifest ==
  /\ stage = "manifest"
  /\ manifest' = "torn"
  /\ stage' = "fill"
  /\ UNCHANGED <<planVars, inputs, settings, pulled, plan, rows, group, sheets, written,
                 files, pdf_failed, index, status>>

Finish ==
  /\ stage = "fill"
  /\ manifest' = "whole"
  /\ status' = IF pulled = <<>> THEN "empty" ELSE "success"
  /\ stage' = "done"
  /\ UNCHANGED <<planVars, inputs, settings, pulled, plan, rows, group, sheets, written,
                 files, pdf_failed, index>>

(* What makes a run fail whatever the weather.                              *)
Refused ==
  \/ stage = "load" /\ ~RulesValid(inputs.rules)
  \/ stage = "link" /\ plans = <<>> /\ settings.run_group_col = "predicted_run"
  \/ stage = "generate" /\ Placed = <<>>

(* Any call may raise until the manifest is written.                        *)
MayRaise ==
  \/ stage \in {"pull", "load", "generate", "write", "manifest", "fill"}
  \/ stage = "suggested" /\ SuggestedUnreadable(plans[plan])
  \/ stage = "review" /\ ReviewUnreadable(plans[plan])

Fail ==
  /\ Refused \/ MayRaise
  /\ status' = "failed"
  /\ stage' = "done"
  /\ UNCHANGED <<planVars, inputs, settings, pulled, plan, rows, group, sheets, written,
                 files, pdf_failed, index, manifest>>

RunStep ==
  \/ Fail \/ PullOpenOrders \/ LoadRules \/ FindLatestDispatchPlan \/ ReadSuggested
  \/ ReadReview \/ ClassifyStreams \/ WriteSheet \/ BuildIndex \/ OpenManifest
  \/ Finish \/ Generate

Next ==
  \/ \E s \in Settings : Start(s)
  \/ RunStep
  \/ Build /\ UNCHANGED <<inputs, stage, runVars>>
  \/ \E so \in Orders : Arrive(so) /\ UNCHANGED <<inputs, stage, runVars>>

Spec == Init /\ [][Next]_vars
----------------------------------------------------------------------------
(* Properties.                                                              *)
Labels == Runs \union DateLabels \union {NoRun, Torn} \union States
PlanFlags == Flags \union {"no_run", TornFlag}
PlanRows == [so_id : Orders, predicted_run : Labels, flag : PlanFlags]
Groups == [run_group : Labels, stream : Streams]

IsSeqOf(s, S) == DOMAIN s = 1..Len(s) /\ ToSet(s) \subseteq S

(* Every variable keeps the shape the code gives it.                        *)
TypeOK ==
  /\ IsSeqOf(open, Orders) /\ IsSeqOf(pulled, Orders)
  /\ builder \in {"idle", "predict", "write"}
  /\ builder = "idle" <=> model = NoModel
  /\ \A i \in DOMAIN plans : /\ plans[i].stage \in ToSet(PlanStages)
                             /\ IsSeqOf(plans[i].suggested, PlanRows)
                             /\ IsSeqOf(plans[i].review, PlanRows)
  /\ stage \in {"idle", "pull", "load", "link", "suggested", "review", "classify",
                "generate", "write", "manifest", "fill", "done"}
  /\ plan \in 0..Len(plans) /\ IsSeqOf(rows, PlanRows)
  /\ DOMAIN group \subseteq ToSet(pulled)
  /\ \A so \in DOMAIN group : group[so] \in Groups
  /\ written \in 0..Len(sheets)
  /\ files \union pdf_failed \subseteq {sheets[i].wave_id : i \in 1..written}
  /\ index \in BOOLEAN
  /\ manifest \in {"none", "torn", "whole"}
  /\ status \in {"none", "empty", "success", "failed"}
  /\ status # "none" <=> stage = "done"

Done == status = "success"

Overridden(so) ==
  RuleFor(inputs.rules, inputs.book[so].consignee).override # NoOverride

WavedTogether(so, s) == so \in s.orders /\ s.stream \in Waved /\ ~Overridden(so)

TornAt(so) == \E i \in DOMAIN rows : rows[i].so_id = so /\ rows[i].flag = TornFlag

(* An order that nobody sent to the bench or past it by name is waved there *)
(* only on a stable prediction of the plan the run linked, and when runs    *)
(* are the groups, only with the orders of the run predicted for it, however *)
(* far the builder was when its files were read, and whatever orders came   *)
(* since (analysis/dispatch_link.py, attach_dispatch_runs; routing.py, R2b). *)
(* The one exception is a review.csv read while it was cut in that order's  *)
(* very flag.                                                               *)
UncertainToPallet ==
  Done /\ plan > 0 =>
    \A i \in DOMAIN sheets : \A so \in Orders : WavedTogether(so, sheets[i]) =>
      \E r \in ToSet(plans[plan].suggested \o plans[plan].review) :
        /\ r.so_id = so
        /\ r.flag = "stable" \/ TornAt(so)
        /\ settings.run_group_col = "predicted_run" =>
             r.predicted_run = sheets[i].run_group

(* What a picker takes for a row, in the unit it was ordered in.            *)
Units(row) ==
  IF row.uom = "CTN" THEN row.qty * Dims[row.sku].inner_pack_qty ELSE row.qty

Ordered(orders, sku) ==
  SumFunction([so \in orders |->
    Total(inputs.book[so], LAMBDA l : IF l.sku = sku THEN l.qty ELSE 0)])

Picked(sku) ==
  SumFunction([i \in DOMAIN sheets |->
    SumFunction([r \in sheets[i].pick_lines |-> IF r.sku = sku THEN Units(r) ELSE 0])])

Due == DueOrders(pulled, group, settings.include_pallet_sheets)

(* Over all sheets of a run every product is picked as often as it was      *)
(* ordered: the split, the waves, a missing location and the consolidation  *)
(* lose and repeat nothing.                                                 *)
CountedOnce == Done => \A sku \in Skus : Picked(sku) = Ordered(Due, sku)

(* And every order with something to pick is on one sheet, where the rows   *)
(* of its products name it.                                                 *)
OrderOnOneSheet ==
  Done => \A so \in Due : TotalCartons(inputs.book[so]) > 0 =>
    \E i \in DOMAIN sheets :
      /\ \A j \in DOMAIN sheets : so \in sheets[j].orders <=> i = j
      /\ \A l \in ToSet(inputs.book[so].lines) : l.qty > 0 =>
           \E r \in sheets[i].pick_lines : r.sku = l.sku /\ so \in r.so_refs

(* A run the console lists is complete: it did not fail, its index is       *)
(* there, and every sheet has its files unless its PDF raised.              *)
ListedRunWhole ==
  manifest = "whole" =>
    /\ status \in {"success", "empty"} /\ index
    /\ \A i \in DOMAIN sheets : sheets[i].wave_id \in files \union pdf_failed
=============================================================================
