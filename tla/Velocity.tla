------------------------------- MODULE Velocity -------------------------------
(***************************************************************************)
(* How fast each product moves, with and without the lines that leave as   *)
(* full pallets: analysis/velocity.py, tagging.py, full_pallet.py and the  *)
(* cleaning that scripts/analyze_v2.py does for the order patterns.        *)
(*                                                                         *)
(* A line is [order, sku, qty], a product [sku, name].  Tables are         *)
(* sequences of rows, as a join on a code repeats a row once for every     *)
(* match.  The rates per day all divide by the same window, so totals      *)
(* compare as they do.  Of a name only the kind of goods it gives away is  *)
(* kept.                                                                   *)
(***************************************************************************)
EXTENDS CaptureSheet, FiniteSets, FiniteSetsExt

CONSTANTS
  CodeOrder,         \* the product codes in alphabetical order
  Brand,             \* the brand a code begins with
  FullPalletBrands,  \* brands that ship by the full pallet
  Lost               \* item states of goods that did not arrive well

Codes == ToSet(CodeOrder)

ASSUME VelocityAssumption ==
  CodeOrder \in Seq(Codes) /\ IsInjective(CodeOrder) /\ DOMAIN Brand = Codes /\ NaN \notin Codes

Code(sku) == CHOOSE k \in DOMAIN CodeOrder : CodeOrder[k] = sku

(* The rows of a table that have a number of rows, in the order they have. *)
RowsAt(table, rows) ==
  FlattenSeq([k \in DOMAIN table |-> IF k \in rows THEN <<table[k]>> ELSE <<>>])

(* A set in the order of before, the pairs of a strict total order on it.  *)
Sorted(S, before) ==
  [n \in 1 .. Cardinality(S) |->
     CHOOSE x \in S : Cardinality({y \in S : <<y, x>> \in before}) = n - 1]

Clean(lines) == RowsAt(lines, {k \in DOMAIN lines : NaN \notin {lines[k].sku, lines[k].qty}})

LinesOf(lines, sku) == RowsAt(lines, {k \in DOMAIN lines : lines[k].sku = sku})

TotalQty(lines) == SumFunction([k \in DOMAIN lines |-> lines[k].qty])

SkusOf(lines) == {lines[k].sku : k \in DOMAIN lines}

Received(po) ==
  LET clean == Clean(po)
  IN  RowsAt(clean, {k \in DOMAIN clean : clean[k].item_status \notin Lost})

(* Units of a product that was received and not sold are missing, not 0.   *)
UnitsOf(so, sku) ==
  LET lines == LinesOf(Clean(so), sku) IN IF lines = <<>> THEN NaN ELSE TotalQty(lines)

(* The name in the product master, of which the first row counts, or else  *)
(* the first on a sale order.                                              *)
NameOf(so, products, sku) ==
  LET master == LinesOf(products, sku)
      sold == LinesOf(Clean(so), sku)
      named == RowsAt(sold, {k \in DOMAIN sold : sold[k].name # NaN})
  IN  IF master # <<>> /\ master[1].name # NaN THEN master[1].name
      ELSE IF named # <<>> THEN named[1].name
      ELSE NaN

OrZero(n) == IF n = NaN THEN 0 ELSE n

(* By units, most first; what is missing last; a tie by code.              *)
Faster(a, b) ==
  \/ a.units # NaN /\ b.units = NaN
  \/ a.units = b.units /\ Code(a.sku) < Code(b.sku)
  \/ a.units # NaN /\ b.units # NaN /\ a.units > b.units

(* Pareto classes: A up to 80 % of all units in descending order, B up to  *)
(* 95 %.  The product that crosses a limit is in the class below.          *)
AbcClass(rows, k) ==
  LET upTo(n) == SumFunctionOnSet([j \in DOMAIN rows |-> OrZero(rows[j].units)], 1 .. n)
      total == upTo(Len(rows))
  IN  IF total = 0 THEN "Z"
      ELSE IF 100 * upTo(k) <= 80 * total THEN "A"
      ELSE IF 100 * upTo(k) <= 95 * total THEN "B"
      ELSE "C"

(* One row for every product sold or received, the fastest first.          *)
ComputeVelocity(so, po, products) ==
  LET skus == SkusOf(Clean(so)) \union SkusOf(Received(po))
      moved == {[sku |-> s, units |-> UnitsOf(so, s), name |-> NameOf(so, products, s)] : s \in skus}
      rows == Sorted(moved, {p \in moved \X moved : Faster(p[1], p[2])})
  IN  [k \in DOMAIN rows |-> [sku |-> rows[k].sku, units |-> rows[k].units,
                              name |-> rows[k].name, abc |-> AbcClass(rows, k)]]
-----------------------------------------------------------------------------
RowsFor(dims, sku) == RowsAt(dims, {k \in DOMAIN dims : dims[k].product_code = sku})

(* Size and tag are joined from the sheet one after the other: a code with *)
(* n rows there is n times n rows of metrics afterwards.                   *)
Repeats(dims, sku) == LET n == Max({1, Len(RowsFor(dims, sku))}) IN n * n

ApplyTags(metrics, dims) ==
  FlattenSeq([k \in DOMAIN metrics |-> [j \in 1 .. Repeats(dims, metrics[k].sku) |-> metrics[k]]])

(* At least nine tenths of a pallet, of a brand that ships so.             *)
IsFullPallet(sku, qty, cartons) ==
  /\ cartons # NaN /\ qty > 0 /\ 10 * qty >= 9 * cartons
  /\ Brand[sku] \in FullPalletBrands

(* A line is joined to the rows of the sheet and to the tagged metrics.  A *)
(* missing quantity has become 0.                                          *)
DetectLine(line, dims, tagged) ==
  LET rows == RowsFor(dims, line.sku)
      cartons == IF rows = <<>> THEN <<NaN>> ELSE [k \in DOMAIN rows |-> rows[k].cartons_per_pallet]
      copies == Max({1, Cardinality({k \in DOMAIN tagged : tagged[k].sku = line.sku})})
      flagged(c) == [order |-> line.order, sku |-> line.sku, name |-> line.name, qty |-> OrZero(line.qty),
                     is_full_pallet_line |-> line.sku # NaN /\ IsFullPallet(line.sku, OrZero(line.qty), c)]
  IN  FlattenSeq([k \in DOMAIN cartons |-> [j \in 1 .. copies |-> flagged(cartons[k])]])

DetectFullPalletLines(so, dims, tagged) ==
  FlattenSeq([k \in DOMAIN so |-> DetectLine(so[k], dims, tagged)])

Flagged(lines) == RowsAt(lines, {k \in DOMAIN lines : lines[k].is_full_pallet_line})

\* Mutant: every line of a product with a flagged line is taken out.
KeptWithoutFlagged(lines) ==
  RowsAt(lines, {k \in DOMAIN lines : lines[k].sku \notin SkusOf(Flagged(lines))})

Kept(lines) == RowsAt(lines, {k \in DOMAIN lines : ~lines[k].is_full_pallet_line})

(* The order patterns and zones drop a line if any line of its order and   *)
(* product is flagged.                                                     *)
PatternLines(so, flagged) ==
  RowsAt(so, {j \in DOMAIN so :
    ~ \E k \in DOMAIN flagged : flagged[k].order = so[j].order /\ flagged[k].sku = so[j].sku})
=============================================================================
