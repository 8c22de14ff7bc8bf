--------------------------- MODULE RunPrediction ---------------------------
(* How the dispatch builder predicts the delivery run of an order           *)
(* (src/dispatch/consignments.py, history.py and predict.py): consignments  *)
(* of the past weigh less the older they are, the run with the most weight  *)
(* is the prediction, and a flag says how far it may be trusted.            *)
(*                                                                          *)
(* Ages are counted in half-lives of 30 days, and weights in eighths of the *)
(* youngest delivery's.  A run last seen more than one half-life ago is     *)
(* stale.                                                                   *)
EXTENDS Integers, Sequences, FiniteSets, SequencesExt

CONSTANTS
  Runs,       \* names of delivery runs and of run sheets
  Addresses,  \* delivery addresses, by their normalised key
  NoAddress,  \* an order or consignment without an address
  NoRun       \* no run: the label the wave runner gives to such an order

ASSUME NoneAssumption == NoAddress \notin Addresses /\ NoRun \notin Runs

Window == 3     \* history_days / half_life_days: 90 days of 30
StableMinN == 3

----------------------------------------------------------------------------
(* A consignment carries the name of its delivery run, that of its run      *)
(* sheet, either or both, and the age of the run sheet.  Without any name   *)
(* the label is the bare date, which then passes for a run.  Run sheets     *)
(* may lie in the future.                                                   *)
Consignments ==
  [address : Addresses \union {NoAddress},
   delivery_run : Runs \union {NoRun},
   run_sheet : Runs \union {NoRun},
   age : -1..Window]

DateLabels == {<<"date", k>> : k \in -1..Window}

RunOf(c) ==
  IF c.delivery_run # NoRun THEN c.delivery_run
  ELSE IF c.run_sheet # NoRun THEN c.run_sheet
  ELSE <<"date", c.age>>

Weights == <<8, 4, 2, 1>>  \* by age: 0.5^age, in eighths

Weight(c) == Weights[1 + Max({c.age, 0})]

(* The candidate runs of one address: total weight, number of deliveries,   *)
(* the youngest of them, and the first that was met, which breaks ties.     *)
Candidate(history, at, run) ==
  LET mine == {i \in at : RunOf(history[i]) = run}
  IN  [run |-> run,
       score |-> SumFunction([i \in mine |-> Weight(history[i])]),
       n |-> Cardinality(mine),
       last_seen |-> Min({history[i].age : i \in mine}),
       first |-> Min(mine)]

RunCandidates ==
  [run : Runs \union DateLabels, score : Nat, n : Nat, last_seen : -1..Window, first : Nat]

IsModel(m) ==
  m \in [Addresses -> SUBSET RunCandidates] /\ \A a \in Addresses : IsFiniteSet(m[a])

ComputeRunHistory(history) ==
  [a \in Addresses |->
     LET at == {i \in DOMAIN history : history[i].address = a}
     IN  {Candidate(history, at, run) : run \in {RunOf(history[i]) : i \in at}}]

----------------------------------------------------------------------------
Flags == {"stable", "mixed", "stale", "new_address", "no_address"}

Best(cands) ==
  CHOOSE c \in cands : \A d \in cands :
    c.score > d.score \/ (c.score = d.score /\ c.first <= d.first)

(* At least three deliveries and four fifths of the weight. *)
IsStable(best, cands) ==
  /\ best.n >= StableMinN
  /\ 10 * best.score >= 8 * SumFunction([c \in cands |-> c.score])

Trust(best, cands) ==
  IF best.last_seen > 1 THEN "stale"
  ELSE IF IsStable(best, cands) THEN "stable" ELSE "mixed"

(* The row of an order in the plan. *)
Row(so, run, flag) == [so_id |-> so, predicted_run |-> run, flag |-> flag]

Predict(so, address, model) ==
  IF address = NoAddress THEN Row(so, NoRun, "no_address")
  ELSE IF model[address] = {} THEN Row(so, NoRun, "new_address")
  ELSE LET best == Best(model[address])
       IN  Row(so, best.run, Trust(best, model[address]))

(* What the plan files hold: stable predictions in suggested_runs.csv, all  *)
(* the others in review.csv, both in the order the orders were pulled.      *)
PredictRuns(orders, addressOf, model) ==
  LET rows == [i \in DOMAIN orders |-> Predict(orders[i], addressOf[orders[i]], model)]
      only(trusted) == FlattenSeq([i \in DOMAIN rows |->
                         IF rows[i].flag = "stable" <=> trusted THEN <<rows[i]>> ELSE <<>>])
  IN  [suggested |-> only(TRUE), review |-> only(FALSE)]
=============================================================================
