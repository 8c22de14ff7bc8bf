----------------------------- MODULE WaveSheets -----------------------------
(* The pure part of wave generation: an order's lines are split into carton *)
(* and each picks (analysis/carton_split.py), the order is classified into  *)
(* a pick stream (full_pallet.py, routing.py), the orders of a run and a    *)
(* stream are gathered into waves (routing.py), and every wave becomes a    *)
(* sheet of consolidated picks with a location each (wave_picks.py, and     *)
(* build_sku_location_candidates of wave_runner.py).                        *)
(*                                                                          *)
(* An order is [address, consignee, state, lines] with lines a sequence of  *)
(* [sku, qty].  Quantities are whole numbers; fractions of a pallet are     *)
(* percentages.  All orders are received on one day, so the date, which is  *)
(* part of every group and wave id, is left out, and so is the walk order   *)
(* of the picks.                                                            *)
EXTENDS Integers, Sequences, FiniteSets, SequencesExt, FiniteSetsExt

CONSTANTS
  Skus,            \* product codes
  Dims,            \* what the dims file says of a product
  Locations,       \* names of warehouse locations
  Layout,          \* what the name of a location says: its place on the walk, its role
  Unallocated,     \* the location of a pick without stock
  Consignees,      \* delivery companies, by their normalised name
  Slug(_),         \* a label as a path segment: other labels may give the same
  Threshold,       \* pallet_fraction_threshold, in percent
  EarlyRelease,    \* early_release_cartons
  MinFullCartons   \* min_full_cartons

Bench == {"yes", "no", "unknown"}

Unknown == -1  \* a stock quantity that is missing, as fillna ranks it

(* cube is the percentage of a pallet's volume one unit takes.  Zero stands *)
(* for a missing value.                                                     *)
ASSUME DimsAssumption ==
  /\ Dims \in [Skus -> [inner_pack_qty : Nat, cartons_per_pallet : Nat,
                        cube : Nat, pickbench : Bench, full_pallet_brand : BOOLEAN]]
  /\ \A s \in Skus : LET c == Dims[s].cartons_per_pallet IN c > 0 => 100 % c = 0
ASSUME LayoutAssumption == Layout \in [Locations -> [walk : Nat, pick_face : BOOLEAN]]
ASSUME ReleaseAssumption == EarlyRelease \in Nat /\ Threshold \in Nat
ASSUME SplitAssumption == MinFullCartons \in Nat /\ Unallocated \notin Locations

----------------------------------------------------------------------------
(* Carton split.  eaches is what a carton pick covers, 0 on an each pick.   *)
Converts(l) ==
  LET pack == Dims[l.sku].inner_pack_qty
  IN  pack > 1 /\ l.qty >= pack * Max({MinFullCartons, 1})

Part(l, uom, qty, eaches) == [sku |-> l.sku, uom |-> uom, qty |-> qty, eaches |-> eaches]

Remainder(l) == l.qty % Dims[l.sku].inner_pack_qty

\* Mutant: what does not fill a carton is left out.
SplitLineToCartons(l) ==
  IF Converts(l)
  THEN {Part(l, "CTN", l.qty \div Dims[l.sku].inner_pack_qty, l.qty - Remainder(l))}
  ELSE {Part(l, "EA", l.qty, 0)}

SplitLine(l) ==
  IF Converts(l)
  THEN {Part(l, "CTN", l.qty \div Dims[l.sku].inner_pack_qty, l.qty - Remainder(l))}
       \union (IF Remainder(l) > 0 THEN {Part(l, "EA", Remainder(l), 0)} ELSE {})
  ELSE {Part(l, "EA", l.qty, 0)}

----------------------------------------------------------------------------
(* Order metrics, from the lines as they were ordered.                      *)
Total(order, of(_)) ==
  SumFunction([i \in DOMAIN order.lines |-> of(order.lines[i])])

TotalCartons(order) == Total(order, LAMBDA l : l.qty)

Cube(order) == Total(order, LAMBDA l : l.qty * Dims[l.sku].cube)

LinePositions(l) ==
  LET c == Dims[l.sku].cartons_per_pallet IN IF c > 0 THEN l.qty * (100 \div c) ELSE 0

PalletFraction(order) == Max({Cube(order), Total(order, LinePositions)})

IsFullPalletLine(l) ==
  /\ Dims[l.sku].full_pallet_brand
  /\ Dims[l.sku].cartons_per_pallet > 0
  /\ 10 * l.qty >= 9 * Dims[l.sku].cartons_per_pallet

Benches(order) == {Dims[order.lines[i].sku].pickbench : i \in DOMAIN order.lines}

----------------------------------------------------------------------------
(* Consignee rules: the last row of a consignee counts, a row without a     *)
(* valid stream makes the whole file invalid.  Zero is no minimum.          *)
Streams == {"pallet", "bypass", "bench", "unclassified"}
NoOverride == "none"

RulesValid(rules) ==
  \A i \in DOMAIN rules : rules[i].override \in {"pallet", "bypass", "bench", NoOverride}

NoRule == [override |-> NoOverride, min_cartons |-> 0]

RuleFor(rules, consignee) ==
  LET i == SelectLastInSeq(rules, LAMBDA r : r.consignee = consignee)
  IN  IF i = 0 THEN NoRule
      ELSE [override |-> rules[i].override, min_cartons |-> rules[i].min_cartons]

\* Mutant: an order the plan does not know is taken as predicted.
FlaggedDispatchOfPlan == {"mixed", "new_address", "stale", "no_address"}

(* Dispatch flags of a prediction that is not to be trusted; no_run is the  *)
(* flag of an order the plan does not know.                                 *)
FlaggedDispatch == {"mixed", "new_address", "stale", "no_address", "no_run"}

GoesToPallet(order, rule, flag) ==
  \/ rule.min_cartons > 0 /\ TotalCartons(order) >= rule.min_cartons
  \/ flag \in FlaggedDispatch
  \/ \E i \in DOMAIN order.lines : IsFullPalletLine(order.lines[i])
  \/ PalletFraction(order) >= Threshold

ClassifyStream(order, rule, flag) ==
  IF rule.override # NoOverride THEN rule.override
  ELSE IF GoesToPallet(order, rule, flag) THEN "pallet"
  ELSE IF "unknown" \in Benches(order) THEN "unclassified"
  ELSE IF "yes" \in Benches(order) THEN "bench" ELSE "bypass"

----------------------------------------------------------------------------
(* Waves.  group is what the runner knows of every order it pulled: its run *)
(* group and its stream.                                                    *)
Waved == {"bypass", "bench"}

MakeWaveId(run, stream, idx) == <<Slug(run), stream, idx>>

Emit(run, stream, idx, orders) ==
  [id |-> MakeWaveId(run, stream, idx), run_group |-> run, stream |-> stream,
   orders |-> orders]

(* Orders accumulate until their cartons reach EarlyRelease.                *)
NothingReleased == [released |-> <<>>, wave |-> {}, cartons |-> 0]

Accumulate(acc, so, cartons) ==
  LET wave == acc.wave \union {so}
      sum == acc.cartons + cartons
  IN  IF sum >= EarlyRelease
      THEN [NothingReleased EXCEPT !.released = Append(acc.released, wave)]
      ELSE [acc EXCEPT !.wave = wave, !.cartons = sum]

(* The orders of a group, in the order they were pulled.                    *)
Accumulated(orders, pulled, book) ==
  FoldLeft(LAMBDA acc, so : IF so \in orders THEN Accumulate(acc, so, TotalCartons(book[so]))
                            ELSE acc,
           NothingReleased, pulled)

\* Mutant: the wave that is not full at the end is not released.
ReleasedFullOnly(orders, pulled, book) == Accumulated(orders, pulled, book).released

Released(orders, pulled, book) ==
  LET end == Accumulated(orders, pulled, book)
  IN  IF end.wave = {} THEN end.released ELSE Append(end.released, end.wave)

GroupWaves(orders, pulled, book, g) ==
  LET waves == IF g.stream \in Waved THEN Released(orders, pulled, book) ELSE <<orders>>
  IN  {Emit(g.run_group, g.stream, i, waves[i]) : i \in DOMAIN waves}

DueOrders(pulled, group, include_immediate) ==
  {so \in ToSet(pulled) : include_immediate \/ group[so].stream \in Waved}

PlanWaves(pulled, book, group, include_immediate) ==
  LET due == DueOrders(pulled, group, include_immediate)
  IN  UNION {GroupWaves({so \in due : group[so] = g}, pulled, book, g) :
               g \in {group[so] : so \in due}}

----------------------------------------------------------------------------
(* Locations.  stock is the sequence of rows of the stock-on-hand report,   *)
(* exported the roles of the locations the CartonCloud export names.        *)
IsPickFace(loc, exported) ==
  IF loc \in DOMAIN exported THEN exported[loc] ELSE Layout[loc].pick_face

Candidates(stock, exported, sku) ==
  LET rank(i) == <<IF IsPickFace(stock[i].loc, exported) THEN 0 ELSE 1,
                   Layout[stock[i].loc].walk, i>>
      before(i, j) == \E k \in 1..3 : /\ rank(i)[k] < rank(j)[k]
                                      /\ \A m \in 1..(k - 1) : rank(i)[m] = rank(j)[m]
      sorted == SetToSortSeq({i \in DOMAIN stock : stock[i].sku = sku}, before)
  IN  [k \in DOMAIN sorted |-> stock[sorted[k]]]

(* Each picks, and carton picks without a reserve, go to the best candidate, *)
(* carton picks to the fullest reserve, the first of equals.                *)
SelectLocation(cands, exported, uom) ==
  LET reserves == {i \in DOMAIN cands : ~IsPickFace(cands[i].loc, exported)}
      fullest == {i \in reserves : \A j \in reserves : cands[i].qty >= cands[j].qty}
  IN  IF uom = "EA" \/ reserves = {} THEN cands[1] ELSE cands[Min(fullest)]

ReserveUnavailable(cands, exported, uom) ==
  uom = "CTN" /\ \A i \in DOMAIN cands : IsPickFace(cands[i].loc, exported)

(* A line knows it is short only at a reserve.                              *)
LineShort(at, part, exported) ==
  /\ part.uom = "CTN" /\ ~IsPickFace(at.loc, exported)
  /\ at.qty # Unknown /\ at.qty < part.eaches

Pick(so, line, part, stock, exported) ==
  LET cands == Candidates(stock, exported, part.sku)
      at == SelectLocation(cands, exported, part.uom)
  IN  IF cands = <<>>
      THEN [so |-> so, line |-> line, part |-> part, loc |-> Unallocated, loc_qty |-> Unknown,
            no_reserve |-> FALSE, short |-> FALSE]
      ELSE [so |-> so, line |-> line, part |-> part, loc |-> at.loc, loc_qty |-> at.qty,
            no_reserve |-> ReserveUnavailable(cands, exported, part.uom),
            short |-> LineShort(at, part, exported)]

(* The picks of an order: the parts of its lines that have a quantity.      *)
OrderPicks(so, order, stock, exported) ==
  UNION {{Pick(so, i, part, stock, exported) :
            part \in {p \in SplitLine(order.lines[i]) : p.qty > 0}} : i \in DOMAIN order.lines}

RowOf(pick) == <<pick.loc, pick.part.sku, pick.part.uom>>

(* One row per location, product and unit.  A row is short when a line was, *)
(* or when the lines together ask more than the location is known to hold,  *)
(* of which every line of the row was told the same.                        *)
Consolidate(picks, key) ==
  LET mine == {p \in picks : RowOf(p) = key}
      eaches == SumFunction([p \in mine |-> p.part.eaches])
      loc_qty == (CHOOSE p \in mine : TRUE).loc_qty
  IN  [location |-> key[1], sku |-> key[2], uom |-> key[3],
       qty |-> SumFunction([p \in mine |-> p.part.qty]),
       eaches |-> eaches,
       so_refs |-> {p.so : p \in mine},
       reserve_unavailable |-> \E p \in mine : p.no_reserve,
       qty_short |-> \/ \E p \in mine : p.short
                     \/ key[3] = "CTN" /\ loc_qty # Unknown /\ eaches > loc_qty]

PickLines(picks) == {Consolidate(picks, key) : key \in {RowOf(p) : p \in picks}}

(* The orders of a sheet are looked up by wave id: two waves with one id    *)
(* get the orders of both.  A wave without picks gets no sheet.             *)
WaveOrders(waves, id) == UNION {w.orders : w \in {v \in waves : v.id = id}}

PicksOf(orders, book, stock, exported) ==
  UNION {OrderPicks(so, book[so], stock, exported) : so \in orders}

Sheet(wave, waves, book, stock, exported) ==
  LET orders == WaveOrders(waves, wave.id)
  IN  [wave_id |-> wave.id, stream |-> wave.stream, run_group |-> wave.run_group,
       orders |-> orders, pick_lines |-> PickLines(PicksOf(orders, book, stock, exported))]

GenerateSheets(waves, book, stock, exported) ==
  {s \in {Sheet(w, waves, book, stock, exported) : w \in waves} : s.pick_lines # {}}
=============================================================================
