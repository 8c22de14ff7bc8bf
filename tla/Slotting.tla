------------------------------- MODULE Slotting -------------------------------
(***************************************************************************)
(* What analyze_v2.py makes of the metrics: a recommendation for the pick  *)
(* face and its replenishment for each product (analysis/slotting.py), and *)
(* zones of products that are ordered together (analysis/zoning.py).       *)
(***************************************************************************)
EXTENDS Velocity

CONSTANTS
  WindowDays,     \* the days the sale orders span
  TopSkus,        \* how many products are put into zones
  TargetZoneSize  \* the most a zone may hold

ASSUME SlottingAssumption == WindowDays \in Nat \ {0} /\ TopSkus \in Nat /\ TargetZoneSize \in Nat \ {0}

(* The columns of the sheet that recommend_slotting takes along.           *)
DimCols ==
  {"product_code", "outer_h_mm", "cartons_per_pallet", "inner_pack_qty",
   "measurement_complete", "pickbench", "pallet_height_bucket", "bay_height_mm"}

Column(dims, name) == IF name \in DimCols THEN dims[name] ELSE NaN

(* Of the pallet as it is stacked, the layers that fit the bay, with a     *)
(* tolerance of a tenth if it is the whole pallet.                         *)
PickFaceCartons(cartons, layers, height, bay) ==
  IF NaN \in {cartons, layers, height} THEN 0
  ELSE IF 0 \in {cartons, layers, height} THEN 0
  ELSE IF 10 * height * layers <= 11 * bay THEN cartons
  ELSE (cartons * (bay \div height)) \div layers

(* Less than two days at the face: fill it up; else a set quantity.        *)
ReplenBench(units, face, inner) ==
  IF units = NaN THEN "manual"
  ELSE IF units <= 0 \/ face <= 0 THEN "manual"
  ELSE IF face * inner * WindowDays < 2 * units THEN "fill_to_max" ELSE "set_qty"

ReplenBypass(units, cartons) ==
  IF NaN \in {units, cartons} THEN "manual"
  ELSE IF units <= 0 \/ cartons <= 0 THEN "manual" ELSE "whole_pallet"

ToBench(dims) == dims.measurement_complete /\ dims.bay_height_mm # NaN /\ dims.pickbench # FALSE

(* A product that is not on the sheet has no measurement_complete either,  *)
(* and what is missing counts as true: it waits for a bay, not for dims.   *)
Strategy(metric, dims) ==
  LET inner == OrZero(Column(dims, "inner_pack_qty"))
      face == PickFaceCartons(Column(dims, "cartons_per_pallet"), Column(dims, "layers_per_pallet"),
                              Column(dims, "outer_h_mm"), dims.bay_height_mm)
  IN  IF ~dims.measurement_complete THEN "awaiting_dims"
      ELSE IF dims.bay_height_mm = NaN THEN "awaiting_bay"
      ELSE IF ToBench(dims) THEN ReplenBench(metric.units, face, Max({1, inner}))
      ELSE ReplenBypass(metric.units, Column(dims, "cartons_per_pallet"))

NotOnSheet == [measurement_complete |-> TRUE, bay_height_mm |-> NaN]

Recommend(metric, rows) ==
  [j \in DOMAIN rows |-> [sku |-> metric.sku, replen_strategy |-> Strategy(metric, rows[j])]]

(* A row for every row of the metrics and each of its rows on the sheet.   *)
RecommendSlotting(metrics, dims) ==
  FlattenSeq([k \in DOMAIN metrics |->
    LET rows == RowsFor(dims, metrics[k].sku)
    IN  Recommend(metrics[k], IF rows = <<>> THEN <<NotOnSheet>> ELSE rows)])

(* Of a product that goes by the bench it is asked whether it has an inner *)
(* pack quantity.                                                          *)
RecommendationRaises(metrics, dims) ==
  \E k \in DOMAIN metrics : \E j \in DOMAIN dims :
    /\ dims[j].product_code = metrics[k].sku
    /\ ToBench(dims[j]) /\ dims[j].inner_pack_qty = NA
-----------------------------------------------------------------------------
OrdersWith(lines, sku) == {lines[k].order : k \in {j \in DOMAIN lines : lines[j].sku = sku}}

(* Of the orders of the one with fewer, how many have both: [both, least]. *)
Lift(lines, a, b) ==
  LET least == Min({Cardinality(OrdersWith(lines, a)), Cardinality(OrdersWith(lines, b))})
      both == Cardinality(OrdersWith(lines, a) \intersect OrdersWith(lines, b))
  IN  [both |-> both, least |-> Max({least, 1})]

AtLeast(x, y) == x.both * y.least >= y.both * x.least

\* Mutant: a lift at the limit is not enough.
PassesAbove(lift) == 10 * lift.both > 4 * lift.least

Passes(lift) == 10 * lift.both >= 4 * lift.least

Score(lines, sku, zone) ==
  LET lifts == {Lift(lines, sku, zone[k]) : k \in DOMAIN zone}
  IN  CHOOSE x \in lifts : \A y \in lifts : AtLeast(x, y)

Claimed(zones) == UNION {ToSet(zones[z]) : z \in DOMAIN zones}

Left(skus, zones, zone) ==
  RowsAt(skus, {k \in DOMAIN skus : skus[k] \notin Claimed(zones) \union ToSet(zone)})

\* Mutant: the zone takes the first product left, whatever its lift.
GrowWithNext(lines, skus, zones, zone) ==
  LET left == Left(skus, zones, zone)
  IN  IF left = <<>> \/ Len(zone) >= TargetZoneSize THEN zone ELSE Append(zone, left[1])

(* The unclaimed product of the highest lift with any member joins, the    *)
(* first of equals, if its lift passes and the zone is not full.           *)
Grow(lines, skus, zones, zone) ==
  LET left == Left(skus, zones, zone)
      score == [k \in DOMAIN left |-> Score(lines, left[k], zone)]
      best == CHOOSE k \in DOMAIN left :
                /\ \A j \in DOMAIN left : AtLeast(score[k], score[j])
                /\ \A j \in 1 .. k - 1 : ~AtLeast(score[j], score[k])
  IN  IF left = <<>> \/ Len(zone) >= TargetZoneSize THEN zone
      ELSE IF Passes(score[best]) THEN Append(zone, left[best]) ELSE zone

(* A zone that did not grow would not grow later, so that as many tries as *)
(* it may have members are enough.                                         *)
GrowZone(lines, skus, zones, seed) ==
  FoldLeft(LAMBDA zone, k : Grow(lines, skus, zones, zone), <<seed>>, [k \in 1 .. TargetZoneSize |-> k])

GreedyCluster(lines, skus) ==
  FoldLeft(LAMBDA zones, seed :
             IF seed \in Claimed(zones) THEN zones
             ELSE Append(zones, GrowZone(lines, skus, zones, seed)),
           <<>>, skus)

(* The rows at the top of the metrics: a product with two rows is there    *)
(* twice.                                                                  *)
TopOf(metrics) ==
  LET rows == SubSeq(metrics, 1, Min({TopSkus, Len(metrics)}))
  IN  [k \in DOMAIN rows |-> rows[k].sku]

ComputeZoning(lines, metrics) == GreedyCluster(lines, TopOf(metrics))

(* The summary of the zones can be written only if there is a zone, and    *)
(* every product in one has a name and one row of metrics: of two, neither *)
(* lift nor name is one.                                                   *)
ZoningRaises(metrics) ==
  LET top == ToSet(TopOf(metrics))
      rows == {k \in DOMAIN metrics : metrics[k].sku \in top}
  IN  \/ top = {}
      \/ \E k \in rows : metrics[k].name = NaN
      \/ \E j, k \in rows : j # k /\ metrics[j].sku = metrics[k].sku
=============================================================================
