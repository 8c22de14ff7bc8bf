----------------------------- MODULE CaptureSheet -----------------------------
(***************************************************************************)
(* The capture sheet as the slotting scripts read it (dim_loader.py):      *)
(* columns are found by headers that operators edit by hand, cells are     *)
(* numbers, free text or empty.                                            *)
(*                                                                         *)
(* A header is the sequence of its parts, so that a header that begins     *)
(* with another is a sequence with that prefix.  A cell is a kind and a    *)
(* value: <<"number", n>>, <<"text", t>>, <<"layers", n>> ("n layers per   *)
(* pallet"), <<"tihi", hi>> ("ti x hi") or <<"blank">>.  Length stands for *)
(* width, which is read in the same way.                                   *)
(***************************************************************************)
EXTENDS Integers, Sequences, SequencesExt

CONSTANTS
  NaN,   \* a missing value
  NA     \* pd.NA, missing as well: to ask whether it is true raises

ASSUME NaNAssumption == NaN \notin Int /\ NA \notin Int \union {NaN}

(* The only heights an operator may assign: bucket 1, 2 or 3.              *)
PalletHeightToBay == <<800, 1100, 1500>>

NoColumn == <<>>

(* An exact match of any candidate goes before a match of its beginning,   *)
(* and of each, the candidates go in order.                                *)
FindCol(cols, candidates) ==
  LET begins(k) == {j \in DOMAIN cols : IsPrefix(candidates[k], cols[j])}
      exact == {k \in DOMAIN candidates : Contains(cols, candidates[k])}
      begun == {k \in DOMAIN candidates : begins(k) # {}}
      first(S) == CHOOSE k \in S : \A j \in S : k <= j
  IN  IF exact # {} THEN candidates[first(exact)]
      ELSE IF begun # {} THEN cols[first(begins(first(begun)))]
      ELSE NoColumn

LengthCol(cols) == FindCol(cols, <<<<"Each L">>, <<"Outer L">>>>)
HeightCol(cols) == FindCol(cols, <<<<"Each H">>, <<"Outer H">>>>)
InnerCol(cols) == FindCol(cols, <<<<"Inner Pack Qty">>>>)
CartonsCol(cols) ==
  FindCol(cols, <<<<"CT Qty per pallet">>, <<"Outer Carton Qty", "per pallet">>, <<"Outer Carton Qty">>>>)
LayersCol(cols) ==
  FindCol(cols, <<<<"layers per pallet">>, <<"total leyers per pallet">>, <<"total layers per pallet">>>>)
NotesCol(cols) == FindCol(cols, <<<<"Notes">>>>)
TiHiCol(cols) == FindCol(cols, <<<<"Pallet TI x HI">>>>)
BucketCol(cols) ==
  FindCol(cols, <<<<"Pallet height", "1, 2 or 3">>, <<"Pallet height">>>>)
PickbenchCol(cols) ==
  FindCol(cols, <<<<"Pickbench", "for repack (Y/N)">>, <<"Pickbench", "(Y/N)">>, <<"Pickbench">>>>)
TagCol(cols) == FindCol(cols, <<<<"Tag">>>>)
-----------------------------------------------------------------------------
Cell(row, col) == IF col = NoColumn THEN <<"blank">> ELSE row.cells[col]

Numeric(cell) == IF cell[1] = "number" THEN cell[2] ELSE NaN

ParseLayers(cell) ==
  IF cell[1] = "layers" \/ (cell[1] = "number" /\ cell[2] \in 1 .. 50) THEN cell[2] ELSE NaN

ParseTiHi(cell) == IF cell[1] = "tihi" THEN cell[2] ELSE NaN

ParsePickbench(cell) ==
  IF cell = <<"text", "Y">> THEN TRUE ELSE IF cell = <<"text", "N">> THEN FALSE ELSE NaN

ParseBucket(cell) ==
  IF cell[1] = "number" /\ cell[2] \in 1 .. 3 THEN cell[2] ELSE NaN

(* A column for the layers hides the notes, and notes hide the TI x HI,    *)
(* also where they are empty.                                              *)
Layers(row, cols) ==
  IF LayersCol(cols) # NoColumn THEN ParseLayers(Cell(row, LayersCol(cols)))
  ELSE IF NotesCol(cols) # NoColumn THEN ParseLayers(Cell(row, NotesCol(cols)))
  ELSE ParseTiHi(Cell(row, TiHiCol(cols)))

Bay(bucket) == IF bucket = NaN THEN NaN ELSE PalletHeightToBay[bucket]

(* Without the column the quantities are pd.NA, not NaN.                   *)
InnerPackQty(row, cols) ==
  IF InnerCol(cols) = NoColumn THEN NA ELSE Numeric(Cell(row, InnerCol(cols)))

Tag(cell) == IF cell[1] = "text" THEN cell[2] ELSE ""

(* The sheet cannot be used without the columns for dims and cartons.      *)
ColumnsMissing(sheet) ==
  NoColumn \in {LengthCol(sheet.cols), HeightCol(sheet.cols), CartonsCol(sheet.cols)}

LoadRow(row, cols) ==
  LET l == Numeric(Cell(row, LengthCol(cols)))
      h == Numeric(Cell(row, HeightCol(cols)))
      cpp == Numeric(Cell(row, CartonsCol(cols)))
      bucket == ParseBucket(Cell(row, BucketCol(cols)))
  IN  [product_code |-> row.code,
       outer_h_mm |-> h,
       inner_pack_qty |-> InnerPackQty(row, cols),
       cartons_per_pallet |-> cpp,
       layers_per_pallet |-> Layers(row, cols),
       pickbench |-> ParsePickbench(Cell(row, PickbenchCol(cols))),
       pallet_height_bucket |-> bucket,
       bay_height_mm |-> Bay(bucket),
       tag |-> Tag(Cell(row, TagCol(cols))),
       measurement_complete |-> NaN \notin {l, h, cpp}]

(* Every row of the sheet, also a second one for the same code.            *)
LoadDimensions(sheet) == [k \in DOMAIN sheet.rows |-> LoadRow(sheet.rows[k], sheet.cols)]
=============================================================================
