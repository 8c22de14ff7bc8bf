----------------------------- MODULE SlottingRun -----------------------------
(***************************************************************************)
(* The offline pipeline: scripts/extract.py pulls orders and products from *)
(* CartonCloud and leaves them in three files, and scripts/analyze_v2.py   *)
(* or scripts/assign.py takes the newest file of each kind                 *)
(* (analysis/loaders.py), a capture sheet and, to assign, an export of the *)
(* locations.  The two are processes of their own, share nothing but the   *)
(* directory of the files, and either may be stopped at any moment.        *)
(*                                                                         *)
(* CartonCloud is Eras[cc], which moves on while it is being pulled.  An   *)
(* extract keeps, for each kind, the era it pulled that kind in; a file is *)
(* [of, era, whole], of being the number of its extract.                   *)
(***************************************************************************)
EXTENDS Slotting, Assignment

CONSTANTS
  Options,      \* the options of an extract: products, customer by name, dry run
  Eras,         \* what CartonCloud holds, one state after the other
  Sheets,       \* capture sheets
  Exports,      \* exports of the locations
  NoFile,       \* no sheet, or no export
  MaxExtracts   \* bound: extracts that are started

VARIABLES
  cc,         \* the state of CartonCloud, an index into Eras
  files,      \* the files of each kind, in the order of their modification
  extracts,   \* the number of extracts started
  extract,    \* the extract under way: its place, options, what it has pulled
  excused,    \* has an extract been stopped between files, or left one out
  sheet, export,  \* the sheet and the export in use
  run         \* the analysis: its script, place, the files found, what it published

vars == <<cc, files, extracts, extract, excused, sheet, export, run>>
extractVars == <<files, extracts, extract, excused>>

Kinds == <<"so_lines", "po_lines", "products">>

NoOption == [with_products |-> FALSE, named |-> FALSE, dry |-> FALSE]

OrderItems == [sku : Codes \union {NaN}, name : {NaN} \union STRING, qty : Int \union {NaN}]
GoodItems == [sku : Codes \union {NaN}, qty : Int \union {NaN}, item_status : STRING]

(* CartonCloud holds something from the start; of an item, the product and *)
(* the quantity may be missing.                                            *)
ASSUME ErasAssumption ==
  /\ Eras \in Seq(ToSet(Eras)) /\ Eras # <<>> /\ MaxExtracts \in Nat
  /\ \A era \in ToSet(Eras) :
       /\ era.outbound \in Seq([id : Nat, items : Seq(OrderItems)])
       /\ era.inbound \in Seq([items : Seq(GoodItems)])

(* Any sheet, and any export whose aisles have their place in the order.   *)
ASSUME InputsAssumption ==
  /\ \A s \in Sheets : s.rows \in Seq(ToSet(s.rows))
  /\ \A locs \in Exports :
       /\ locs \in Seq(ToSet(locs))
       /\ \A l \in DOMAIN locs : Valid(locs[l].name) =>
            locs[l].name[1] \in ToSet(AisleOrder) /\ locs[l].name[2] \in Int
ASSUME OptionsAssumption == Options \subseteq [with_products : BOOLEAN, named : BOOLEAN, dry : BOOLEAN]

NoExtract == [at |-> "idle", asked |-> NoOption,
              pulled |-> [k \in DOMAIN Kinds |-> 0], next |-> 1, open |-> FALSE]

NoRun == [script |-> "none", at |-> "none", next |-> 1, found |-> [k \in DOMAIN Kinds |-> 0],
          quiet |-> TRUE, published |-> <<>>]

Init ==
  /\ cc = 1 /\ extracts = 0 /\ extract = NoExtract /\ excused = FALSE
  /\ files = [k \in DOMAIN Kinds |-> <<>>]
  /\ sheet = NoFile /\ export = NoFile
  /\ run = NoRun

(* Somebody works on CartonCloud.                                          *)
Trade ==
  /\ cc < Len(Eras)
  /\ cc' = cc + 1
  /\ UNCHANGED <<extractVars, sheet, export, run>>
-----------------------------------------------------------------------------
(* An order becomes a line for each of its items, and none if it has none. *)
FlattenOutbound(orders) ==
  FlattenSeq([k \in DOMAIN orders |->
    [i \in DOMAIN orders[k].items |->
       LET item == orders[k].items[i]
       IN  [order |-> orders[k].id, sku |-> item.sku, name |-> item.name, qty |-> item.qty]]])

FlattenInbound(orders) == FlattenSeq([k \in DOMAIN orders |-> orders[k].items])

(* The rows of a kind pulled in an era; 0 is a kind that was not pulled.   *)
Rows(kind, era) ==
  IF era = 0 THEN <<>>
  ELSE CASE kind = 1 -> FlattenOutbound(Eras[era].outbound)
         [] kind = 2 -> FlattenInbound(Eras[era].inbound)
         [] kind = 3 -> Eras[era].products

Pulls == {"sale_orders", "purchase_orders", "customer", "product_search"}

StartExtract ==
  /\ extract.at = "idle" /\ extracts < MaxExtracts
  /\ extracts' = extracts + 1
  /\ \E asked \in Options : extract' = [NoExtract EXCEPT !.at = "sale_orders", !.asked = asked]
  /\ UNCHANGED <<cc, files, excused, sheet, export, run>>

PlaceAfter(pull) ==
  CASE pull = "sale_orders" -> "purchase_orders"
    [] pull = "purchase_orders" ->
         IF ~extract.asked.with_products THEN "writing" ELSE IF extract.asked.named THEN "customer" ELSE "product_search"
    [] pull = "customer" -> "product_search"
    [] pull = "product_search" -> "writing"

PulledBy(pull) ==
  CASE pull = "sale_orders" -> {1} [] pull = "purchase_orders" -> {2}
    [] pull = "customer" -> {} [] pull = "product_search" -> {3}

Pull ==
  /\ extract.at \in Pulls
  /\ extract' = [extract EXCEPT !.at = PlaceAfter(extract.at),
       !.pulled = [k \in DOMAIN Kinds |-> IF k \in PulledBy(extract.at) THEN cc ELSE @[k]]]
  /\ UNCHANGED <<cc, files, extracts, excused, sheet, export, run>>

\* Mutant: what was pulled before the failure is written nevertheless.
PullFailsAndWrites ==
  /\ extract.at \in Pulls
  /\ extract' = [extract EXCEPT !.at = "writing"]
  /\ UNCHANGED <<cc, files, extracts, excused, sheet, export, run>>

(* A search fails, or no customer has the name: the script ends with 1 and *)
(* has written nothing.                                                    *)
PullFails ==
  /\ extract.at \in Pulls
  /\ extract' = NoExtract
  /\ UNCHANGED <<cc, files, extracts, excused, sheet, export, run>>

DryRun ==
  /\ extract.at = "writing" /\ extract.asked.dry
  /\ extract' = NoExtract
  /\ UNCHANGED <<cc, files, extracts, excused, sheet, export, run>>

Writing(k) == extract.at = "writing" /\ ~extract.asked.dry /\ extract.next = k /\ k \in DOMAIN Kinds

(* A kind without rows, or that was not asked for, gets no file.           *)
SkipFile(k) ==
  /\ Writing(k) /\ Rows(k, extract.pulled[k]) = <<>>
  /\ extract' = [extract EXCEPT !.next = k + 1]
  /\ excused' = (excused \/ extract.pulled[k] # 0 \/ ~extract.asked.with_products)
  /\ UNCHANGED <<cc, files, extracts, sheet, export, run>>

\* Mutant: a kind without rows gets a file as well.
OpenEmptyFile(k) ==
  /\ Writing(k) /\ ~extract.open
  /\ files' = [files EXCEPT ![k] = Append(@, [of |-> extracts, era |-> extract.pulled[k], whole |-> FALSE])]
  /\ extract' = [extract EXCEPT !.open = TRUE]
  /\ run' = [run EXCEPT !.quiet = FALSE]
  /\ UNCHANGED <<cc, extracts, excused, sheet, export>>

OpenFile(k) ==
  /\ Writing(k) /\ ~extract.open /\ Rows(k, extract.pulled[k]) # <<>>
  /\ files' = [files EXCEPT ![k] = Append(@, [of |-> extracts, era |-> extract.pulled[k], whole |-> FALSE])]
  /\ extract' = [extract EXCEPT !.open = TRUE]
  /\ run' = [run EXCEPT !.quiet = FALSE]
  /\ UNCHANGED <<cc, extracts, excused, sheet, export>>

CloseFile(k) ==
  /\ Writing(k) /\ extract.open
  /\ files' = [files EXCEPT ![k][Len(files[k])].whole = TRUE]
  /\ extract' = [extract EXCEPT !.open = FALSE, !.next = k + 1]
  /\ run' = [run EXCEPT !.quiet = FALSE]
  /\ UNCHANGED <<cc, extracts, excused, sheet, export>>

WriteManifest ==
  /\ extract.at = "writing" /\ ~extract.asked.dry /\ extract.next > Len(Kinds)
  /\ extract' = NoExtract
  /\ UNCHANGED <<cc, files, extracts, excused, sheet, export, run>>

StopExtract ==
  /\ extract.at # "idle"
  /\ extract' = NoExtract
  /\ excused' = (excused \/ extract.next > 1 \/ extract.open)
  /\ UNCHANGED <<cc, files, extracts, sheet, export, run>>

Extract ==
  \/ StartExtract \/ Pull \/ PullFails \/ DryRun \/ WriteManifest \/ StopExtract
  \/ \E k \in DOMAIN Kinds : SkipFile(k) \/ OpenFile(k) \/ CloseFile(k)
-----------------------------------------------------------------------------
RunEnds(how) == run' = [run EXCEPT !.at = how]

StartRun ==
  /\ run.at = "none"
  /\ \E script \in {"assign", "analyze"} :
       run' = [NoRun EXCEPT !.script = script, !.at = "finding",
                            !.quiet = extract.at # "writing"]
  /\ UNCHANGED <<cc, extractVars, sheet, export>>

Latest(k) == Len(files[k])

(* The newest file of each kind, whichever extract it is of; without one,  *)
(* the run raises.                                                         *)
FindLatest ==
  /\ run.at = "finding"
  /\ IF files[run.next] = <<>> THEN RunEnds("raised")
     ELSE run' = [run EXCEPT !.found[run.next] = Latest(run.next),
                             !.at = IF run.next = Len(Kinds) THEN "reading" ELSE "finding",
                             !.next = IF run.next = Len(Kinds) THEN 1 ELSE run.next + 1]
  /\ UNCHANGED <<cc, extractVars, sheet, export>>

Found(k) == files[k][run.found[k]]

(* A file that is not whole cannot be read.                                *)
ReadParquet ==
  /\ run.at = "reading"
  /\ IF ~Found(run.next).whole THEN RunEnds("raised")
     ELSE run' = [run EXCEPT !.at = IF run.next = Len(Kinds) THEN "loading" ELSE "reading",
                             !.next = IF run.next = Len(Kinds) THEN 1 ELSE run.next + 1]
  /\ UNCHANGED <<cc, extractVars, sheet, export>>

Loaded(k) == Rows(k, Found(k).era)

(* The newest sheet and export, whatever they hold; the export is needed   *)
(* to assign only.                                                         *)
LoadSheet ==
  /\ run.at = "loading"
  /\ sheet' \in Sheets \union {NoFile}
  /\ export' \in IF run.script = "assign" THEN Exports \union {NoFile} ELSE {NoFile}
  /\ IF sheet' = NoFile THEN RunEnds("refused")
     ELSE IF ColumnsMissing(sheet') THEN RunEnds("raised")
     ELSE IF run.script = "assign" /\ export' = NoFile THEN RunEnds("refused")
     ELSE RunEnds("computing")
  /\ UNCHANGED <<cc, extractVars>>

RawVelocity == ComputeVelocity(Loaded(1), Loaded(2), Loaded(3))

FlaggedLines ==
  LET dims == LoadDimensions(sheet)
  IN  DetectFullPalletLines(Loaded(1), dims, ApplyTags(RawVelocity, dims))

CleanedMetrics(lines) ==
  ApplyTags(ComputeVelocity(Kept(lines), Loaded(2), Loaded(3)), LoadDimensions(sheet))

Publish(result) == run' = [run EXCEPT !.at = "published", !.published = result]

(* Nothing but the operator reads what a script writes: its files are one  *)
(* step.                                                                   *)
Assign ==
  /\ run.at = "computing" /\ run.script = "assign"
  /\ LET lines == FlaggedLines
         metrics == CleanedMetrics(lines)
         dims == LoadDimensions(sheet)
         placing == AssignSkusToLocations(metrics, dims, LoadCCLocations(export))
     IN  \/ InferenceMayRaise(Demand(metrics, dims)) /\ RunEnds("raised")
         \/ /\ ~InferenceRaises(Demand(metrics, dims))
            /\ Publish([lines |-> lines, metrics |-> metrics,
                        assignments |-> placing.assignments, unassigned |-> placing.unassigned,
                        coverage |-> placing.coverage, unused |-> placing.unused])
  /\ UNCHANGED <<cc, extractVars, sheet, export>>

Analyze ==
  /\ run.at = "computing" /\ run.script = "analyze"
  /\ LET lines == FlaggedLines
         metrics == CleanedMetrics(lines)
         dims == LoadDimensions(sheet)
     IN  IF ZoningRaises(metrics) \/ RecommendationRaises(metrics, dims) THEN RunEnds("raised")
         ELSE Publish([lines |-> lines, metrics |-> metrics,
                       recommendations |-> RecommendSlotting(metrics, dims),
                       zones |-> ComputeZoning(PatternLines(Loaded(1), Flagged(lines)), metrics)])
  /\ UNCHANGED <<cc, extractVars, sheet, export>>

StopRun ==
  /\ run.at \in {"finding", "reading", "loading", "computing"}
  /\ RunEnds("stopped")
  /\ UNCHANGED <<cc, extractVars, sheet, export>>

Over == run.at \in {"published", "raised", "refused", "stopped"}

(* Bound: what happens once the run has its files in memory does not       *)
(* concern it.                                                             *)
InMemory == Over \/ run.at \in {"loading", "computing"}

Next ==
  \/ ~InMemory /\ (Trade \/ Extract)
  \/ StartRun \/ FindLatest \/ ReadParquet \/ LoadSheet \/ Assign \/ Analyze \/ StopRun

Spec == Init /\ [][Next]_vars
-----------------------------------------------------------------------------
TypeOK ==
  /\ cc \in DOMAIN Eras /\ extracts \in 0 .. MaxExtracts /\ excused \in BOOLEAN
  /\ extract \in [at : Pulls \union {"idle", "writing"}, asked : Options \union {NoOption}, pulled : [DOMAIN Kinds -> 0 .. Len(Eras)], next : 1 .. Len(Kinds) + 1,
                   open : BOOLEAN]
  /\ \A k \in DOMAIN Kinds : \A i \in DOMAIN files[k] :
       /\ files[k][i].of \in 1 .. extracts
       /\ files[k][i].era \in DOMAIN Eras
       /\ Rows(k, files[k][i].era) # <<>>
       /\ ~files[k][i].whole => excused \/ (extract.open /\ k = extract.next /\ i = Len(files[k]))
  /\ run.script \in {"none", "assign", "analyze"} /\ (Over \/ run.at \in {"none", "finding", "reading", "loading", "computing"})
  /\ \A k \in DOMAIN Kinds : run.found[k] \in 0 .. Len(files[k])

(* A run that looks while no extract is writing finds the three files of   *)
(* one extract, however many extracts failed before: a search that fails   *)
(* ends the script before it writes.  Only an extract that was stopped     *)
(* between two files or had no rows of a kind leaves the kinds apart.      *)
OneSnapshot ==
  run.quiet /\ ~excused /\ (\A k \in DOMAIN Kinds : run.found[k] > 0)
    => \A k \in DOMAIN Kinds : Found(k).of = Found(1).of
-----------------------------------------------------------------------------
OneRowEach == \A i, j \in DOMAIN sheet.rows : sheet.rows[i].code = sheet.rows[j].code => i = j

Published(script) == run.at = "published" /\ run.script = script

Times(rows, sku) == Cardinality({k \in DOMAIN rows : rows[k].sku = sku})

(* What was sold is in the metrics or left as full pallets.                *)
UnitsConserved ==
  LET metrics == run.published.metrics
      sold == Loaded(1)
  IN  SumFunctionOnSet([k \in DOMAIN sold |-> OrZero(sold[k].qty)],
                       {k \in DOMAIN sold : sold[k].sku # NaN})
        = SumFunctionOnSet([k \in DOMAIN metrics |-> OrZero(metrics[k].units)], DOMAIN metrics)
          + TotalQty(Flagged(run.published.lines))

Moved == SkusOf(Clean(Kept(run.published.lines))) \union SkusOf(Received(Loaded(2)))

(* To be placed: measured, with a bay.                                     *)
ToPlace(sku) ==
  \E k \in DOMAIN sheet.rows :
    LET row == LoadRow(sheet.rows[k], sheet.cols)
    IN  row.product_code = sku /\ row.measurement_complete /\ row.pallet_height_bucket # NaN

CoverageAddsUp ==
  \A c \in run.published.coverage :
    c.supply - c.demand =
      Cardinality({l \in run.published.unused : FaceKey(LoadCCLocations(export)[l]) = c.key})
      - Cardinality({k \in DOMAIN run.published.unassigned : run.published.unassigned[k].key = c.key})

(* With one row for each product on the sheet, as assignment.py has it     *)
(* ("one row per SKU"), nothing is lost or counted twice on the way from   *)
(* the files to what is published: the units sold are in the metrics or    *)
(* flagged as full pallets, every product that moved has one line of       *)
(* metrics and one recommendation, and one that was measured is either     *)
(* placed or listed as unassigned, to which the coverage adds up.          *)
NothingLost ==
  run.at = "published" /\ OneRowEach =>
    /\ UnitsConserved
    /\ \A sku \in Moved : Times(run.published.metrics, sku) = 1
    /\ run.script = "analyze" => \A sku \in Moved : Times(run.published.recommendations, sku) = 1
    /\ run.script = "assign" =>
         /\ \A sku \in Moved :
              Times(run.published.assignments, sku) + Times(run.published.unassigned, sku)
                = IF ToPlace(sku) THEN 1 ELSE 0
         /\ CoverageAddsUp

(* What a pick face has to be, told from CartonCloud's export itself.      *)
Suits(loc, key) ==
  /\ loc.efficiency # NaN /\ loc.efficiency >= 21
  /\ loc.product_type = key[1]
  /\ \/ Len(loc.name) = 3 /\ loc.name[3] = key[2] /\ loc.name[3] < 3
     \/ Len(loc.name) = 4 /\ loc.name[3] = 1 /\ loc.name[4] = key[2] /\ loc.name[4] < 3
  /\ loc.name[1] = "DO" => loc.name[3] = 1

(* What the sheet says of the product: measured, for that position, and of *)
(* that type if it is tagged with one.                                     *)
Wants(sku, key) ==
  \E k \in DOMAIN sheet.rows :
    LET row == LoadRow(sheet.rows[k], sheet.cols)
    IN  /\ row.product_code = sku /\ row.measurement_complete
        /\ row.pallet_height_bucket = key[2] /\ key[2] # NaN
        /\ row.tag \in ProductTypes => key[1] = row.tag

NoSlower(a, b) == b.units = NaN \/ (a.units # NaN /\ a.units >= b.units)

(* Whatever the sheet and the export hold: a face is given once, to a      *)
(* product that was measured and wants that position and, if tagged, that  *)
(* type, and is a pick face of that type and position; and a product goes  *)
(* without only if every face that would suit it went to one that moves no *)
(* slower.                                                                 *)
PlacedRight ==
  Published("assign") =>
    LET placed == run.published.assignments
        refused == run.published.unassigned
    IN  /\ \A i, j \in DOMAIN placed : placed[i].face = placed[j].face => i = j
        /\ \A i \in DOMAIN placed :
             /\ Wants(placed[i].sku, placed[i].key)
             /\ placed[i].face \in DOMAIN export /\ Suits(export[placed[i].face], placed[i].key)
        /\ \A i \in DOMAIN refused :
             /\ Wants(refused[i].sku, refused[i].key)
             /\ \A l \in DOMAIN export : Suits(export[l], refused[i].key) =>
                  \E j \in DOMAIN placed : placed[j].face = l /\ NoSlower(placed[j], refused[i])

(* Zones part the top products among them and keep to their size; whoever  *)
(* joined is ordered often enough with somebody who was there before; and  *)
(* a zone with room left nobody out who is.                                *)
ZonesCohere ==
  Published("analyze") =>
    LET zones == run.published.zones
        lines == PatternLines(Loaded(1), Flagged(run.published.lines))
        together(a, b) ==
          LET both == Cardinality(OrdersWith(lines, a) \intersect OrdersWith(lines, b))
          IN  \E c \in {a, b} : both > 0 /\ 10 * both >= 4 * Cardinality(OrdersWith(lines, c))
    IN  /\ Claimed(zones) = ToSet(TopOf(run.published.metrics))
        /\ \A y, z \in DOMAIN zones : y # z => ToSet(zones[y]) \intersect ToSet(zones[z]) = {}
        /\ \A z \in DOMAIN zones :
             /\ Len(zones[z]) <= TargetZoneSize
             /\ \A k \in 2 .. Len(zones[z]) : \E j \in 1 .. k - 1 : together(zones[z][k], zones[z][j])
             /\ Len(zones[z]) < TargetZoneSize =>
                  \A y \in z + 1 .. Len(zones) : \A a \in ToSet(zones[y]) :
                    \A b \in ToSet(zones[z]) : ~together(a, b)
=============================================================================
