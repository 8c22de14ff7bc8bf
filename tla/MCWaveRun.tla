------------------------------ MODULE MCWaveRun ------------------------------
(* Small instances of WaveRun.  Two orders drawn from templates that reach  *)
(* every stream and every flag, a product that splits into cartons, one     *)
(* that does not and one nobody has measured, stock at a pick face and at   *)
(* two reserves.  Five cartons release a wave, a pallet is fifty.           *)
EXTENDS WaveRun

CONSTANTS o1, o2, north, south, street, corner, lane, yard, shop, hub, vic,
          combo, single, odd, face, r1, r2

MCDims ==
  combo :> [inner_pack_qty |-> 2, cartons_per_pallet |-> 10, cube |-> 1,
            pickbench |-> "yes", full_pallet_brand |-> FALSE] @@
  single :> [inner_pack_qty |-> 1, cartons_per_pallet |-> 5, cube |-> 1,
             pickbench |-> "no", full_pallet_brand |-> TRUE] @@
  odd :> [inner_pack_qty |-> 0, cartons_per_pallet |-> 0, cube |-> 3,
          pickbench |-> "unknown", full_pallet_brand |-> FALSE]

(* The name of r2 is that of a pick face; the export may know better. *)
MCLayout ==
  face :> [walk |-> 3, pick_face |-> TRUE] @@
  r1 :> [walk |-> 2, pick_face |-> FALSE] @@
  r2 :> [walk |-> 1, pick_face |-> TRUE]

(* street: always north; corner: always south; lane: mixed; yard: north, but *)
(* long ago.  The fifth consignment has no run name at all.                 *)
Delivery(a, run, age) ==
  [address |-> a, delivery_run |-> run, run_sheet |-> NoRun, age |-> age]
MCHistory ==
  <<Delivery(lane, north, 0), Delivery(lane, south, 0), Delivery(street, north, -1),
    Delivery(street, north, 0), Delivery(lane, NoRun, 1), Delivery(street, north, 2),
    Delivery(corner, south, 0), Delivery(corner, south, 1), Delivery(corner, south, 1),
    Delivery(corner, north, 3), Delivery(yard, north, 2), Delivery(yard, north, 3)>>

(* A model learned before the street changed its run. *)
OldModel == ComputeRunHistory([i \in 1..3 |-> Delivery(street, south, 1)])

Line(sku, qty) == [sku |-> sku, qty |-> qty]
Order(a, c, lines) == [address |-> a, consignee |-> c, state |-> vic, lines |-> lines]

TemplateSeq ==
  << Order(street, shop, <<Line(combo, 5)>>),
    Order(corner, shop, <<Line(combo, 4), Line(odd, 0)>>),
    Order(street, shop, <<Line(single, 2), Line(single, 1)>>),
    Order(lane, shop, <<Line(combo, 4), Line(single, 1)>>),
    Order(NoAddress, hub, <<Line(combo, 3)>>),
    Order(yard, shop, <<Line(single, 5)>>),
    Order(street, shop, <<Line(odd, 1), Line(combo, 1)>>) >>

Item(sku, loc, qty) == [sku |-> sku, loc |-> loc, qty |-> qty]
NoExport == [l \in {} |-> TRUE]
Export == [l \in {r2} |-> FALSE]

NoRules == <<>>
HubToBench ==
  <<[consignee |-> hub, override |-> "pallet", min_cartons |-> 0],
    [consignee |-> hub, override |-> "bench", min_cartons |-> 0],
    [consignee |-> shop, override |-> NoOverride, min_cartons |-> 9]>>
BadRules == <<[consignee |-> hub, override |-> "van", min_cartons |-> 0]>>

Input(a, b, stock, exported, rules) ==
  [book |-> o1 :> a @@ o2 :> b, stock |-> stock, exported |-> exported, rules |-> rules]

Full == <<Item(combo, face, 9), Item(combo, r1, 4), Item(combo, r2, Unknown), Item(single, face, 9)>>
FacesOnly == <<Item(combo, face, 3), Item(single, r1, 2)>>
Tied == <<Item(combo, r1, 4), Item(combo, r2, 4)>>

World(data, opened, cached) == [inputs |-> data, open |-> opened, cache |-> cached]

(* The second order comes in at any time, before the plan is built or after.*)
MCWorlds ==
  UNION {{World(Input(TemplateSeq[i], TemplateSeq[j], Full, Export, HubToBench), <<o1>>, OldModel) :
            j \in i..7} : i \in {1, 4}}
  \union {World(Input(t, t, stock, e, NoRules), <<o1, o2>>, NoModel) :
            t \in {TemplateSeq[1], TemplateSeq[3]}, stock \in {FacesOnly, Tied},
            e \in {NoExport, Export}}
  \union {World(Input(TemplateSeq[1], TemplateSeq[1], Full, NoExport, rules), <<>>, NoModel) :
            rules \in {NoRules, BadRules}}

Setting(col, all) == [run_group_col |-> col, include_pallet_sheets |-> all]
MCSettings ==
  {Setting("predicted_run", TRUE), Setting("predicted_run", FALSE),
   Setting("delivery_state", TRUE)}

Distinct(label) == label

(* Two names that differ only in characters a slug does not keep.           *)
Colliding(label) == IF label \in Runs THEN "run" ELSE label

TwoRuns ==
  {World(Input(TemplateSeq[1], Order(corner, shop, <<Line(combo, 4)>>), Full, Export, NoRules), <<o1, o2>>, NoModel)}
=============================================================================
