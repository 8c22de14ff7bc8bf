---------------------------- MODULE MCSlottingRun ----------------------------
(* A small range: the chips FA and FB, of which FB has a rival in speed    *)
(* once trade goes on; RK, with a zone of its own; TC, which ships by the  *)
(* pallet; and NX, a new product that has been received and not yet sold.  *)
EXTENDS SlottingRun

MCCodeOrder == <<"FA", "FB", "NX", "RK", "TC">>
MCBrand == [FA |-> "FO", FB |-> "FO", NX |-> "FO", RK |-> "RK", TC |-> "TC"]
MCAisleOrder == <<"AA", "DJ", "DO">>
MCWindowDays == 10
MCTopSkus == 4
MCTargetZoneSize == 2

MCOptions ==
  {[with_products |-> TRUE, named |-> TRUE, dry |-> FALSE],
   [with_products |-> TRUE, named |-> FALSE, dry |-> TRUE],
   [with_products |-> FALSE, named |-> FALSE, dry |-> FALSE]}

Item(sku, qty) == [sku |-> sku, name |-> NaN, qty |-> qty]
Named(sku, name, qty) == [sku |-> sku, name |-> name, qty |-> qty]
Good(sku, qty) == [sku |-> sku, qty |-> qty, item_status |-> "OK"]
Damaged(sku, qty) == [sku |-> sku, qty |-> qty, item_status |-> "DAMAGED"]
Product(sku, name) == [sku |-> sku, name |-> name]

FirstOrders ==
  <<[id |-> 1, items |-> <<Named("FA", "PLAIN", 6), Item("FB", 4), Named("TC", "PLAIN", 48), Named("TC", "PLAIN", 2)>>],
    [id |-> 2, items |-> <<Item("FA", 3), Item("FB", NaN), Named("RK", "PLAIN", 2), Item(NaN, 1)>>],
    [id |-> 3, items |-> <<>>]>>

(* FA and FB, with five orders each, have two in common.                   *)
LaterOrders ==
  FirstOrders \o <<[id |-> 4, items |-> <<Named("FB", "CHILLED", 5), Item("RK", 9)>>],
                   [id |-> 5, items |-> <<Item("TC", 3), Item("RK", 9)>>],
                   [id |-> 6, items |-> <<Item("FA", 1)>>],
                   [id |-> 7, items |-> <<Item("FA", 1)>>],
                   [id |-> 8, items |-> <<Item("FA", 1)>>],
                   [id |-> 9, items |-> <<Item("FB", 2)>>],
                   [id |-> 10, items |-> <<Item("FB", 1)>>]>>

(* FB has no name until somebody orders it by one: its first row counts.   *)
FirstProducts == <<Product("FA", "PLAIN"), Product("FB", NaN), Product("FB", "FROZEN"), Product("TC", NaN)>>

(* Nothing has been received in the first era: there is no inbound file.   *)
MCEras ==
  <<[outbound |-> FirstOrders, inbound |-> <<[items |-> <<>>]>>, products |-> FirstProducts],
    [outbound |-> LaterOrders,
     inbound |-> <<[items |-> <<Good("FA", 20), Damaged("RK", 5)>>], [items |-> <<Good("NX", 20)>>]>>,
     products |-> Append(FirstProducts, Product("NX", "PLAIN"))]>>

N(n) == <<"number", n>>
T(t) == <<"text", t>>
Blank == <<"blank">>

L2 == <<"Each L">>
H2 == <<"Each H">>
C2 == <<"CT Qty per pallet">>
Layers2 == <<"layers per pallet">>
Bucket2 == <<"Pallet height", "1, 2 or 3">>
Bench2 == <<"Pickbench", "for repack (Y/N)">>
Inner2 == <<"Inner Pack Qty", "per outer">>
Tag2 == <<"Tag">>
Cols2 == <<L2, H2, C2, Layers2, Bucket2, Bench2, Inner2, Tag2>>

Row2(code, l, cartons, bucket, bench, tag) ==
  [code |-> code,
   cells |-> L2 :> l @@ H2 :> N(250) @@ C2 :> cartons @@ Layers2 :> N(4) @@ Bucket2 :> bucket
             @@ Bench2 :> bench @@ Inner2 :> N(2) @@ Tag2 :> tag]

FA2 == Row2("FA", N(300), N(40), N(1), T("Y"), Blank)

(* Measured: all but RK, which the second sheet has; NX and TC share the   *)
(* position of FA.                                                         *)
SheetV2 ==
  [cols |-> Cols2,
   rows |-> <<FA2, Row2("FB", N(300), N(40), N(2), T("N"), T("CHILLED")),
              Row2("NX", N(300), N(40), N(1), Blank, Blank),
              Row2("RK", Blank, N(40), N(1), T("Y"), Blank),
              Row2("TC", N(300), N(50), N(1), T("N"), Blank)>>]

(* A code twice, a bucket without faces, cells that are no numbers.        *)
SheetTwice ==
  [cols |-> Cols2,
   rows |-> <<FA2, Row2("FA", N(310), N(40), N(2), T("?"), Blank),
              Row2("RK", N(300), N(40), N(3), T("Y"), Blank),
              Row2("TC", N(300), T("50"), N(7), T("N"), Blank)>>]

(* The first template: no bays, the layers in the notes or as TI x HI.     *)
L1 == <<"Outer L">>
H1 == <<"Outer H">>
C1 == <<"Outer Carton Qty">>
Bench1 == <<"Pickbench", "(Y/N)">>
SheetV1 ==
  [cols |-> <<L1, H1, C1, <<"Notes">>, Bench1>>,
   rows |-> <<[code |-> "FA", cells |-> L1 :> N(300) @@ H1 :> N(250) @@ C1 :> N(40)
                                        @@ <<"Notes">> :> <<"layers", 4>> @@ Bench1 :> T("Y")],
              [code |-> "TC", cells |-> L1 :> N(300) @@ H1 :> N(250) @@ C1 :> N(50)
                                        @@ <<"Notes">> :> Blank @@ Bench1 :> T("N")]>>]

SheetTiHi ==
  [cols |-> <<L1, H1, C1, <<"Pallet TI x HI">>, <<"Pallet height">>>>,
   rows |-> <<[code |-> "FB", cells |-> L1 :> N(300) @@ H1 :> N(250) @@ C1 :> N(40)
                                        @@ <<"Pallet TI x HI">> :> <<"tihi", 5>>
                                        @@ <<"Pallet height">> :> N(2)]>>]

SheetWithoutCartons == [cols |-> <<L1, H1>>, rows |-> <<>>]

MCSheets == {SheetV2, SheetTwice, SheetV1, SheetTiHi, SheetWithoutCartons}

Loc(name, type, efficiency) == [name |-> name, product_type |-> type, efficiency |-> efficiency]

(* One lower face for dry goods; the face DO-02-02 would be a second upper *)
(* one, were the aisle not stale, and AA-04-01 a second lower one, were    *)
(* it efficient enough.                                                    *)
ExportTight ==
  <<Loc(<<"DO", 2, 2>>, "DRY", 30), Loc(<<"AA", 1, 1>>, "DRY", 30), Loc(<<"AA", 4, 1>>, "DRY", 20),
    Loc(<<"DJ", 1, 1, 2>>, "CHILLED", 21), Loc(<<"DJ", 1, 1, 3>>, "CHILLED", 30),
    Loc(<<"AA", 1, 3>>, "DRY", 30), Loc(<<"FLOOR">>, "DRY", 30), Loc(<<"AA", 2, 1>>, NaN, 30),
    Loc(<<"AA", 3, 1>>, "A-RK", NaN)>>

ExportAmple ==
  <<Loc(<<"DO", 2, 1>>, "DRY", 30), Loc(<<"AA", 1, 1>>, "DRY", 30), Loc(<<"AA", 1, 2>>, "DRY", 30),
    Loc(<<"AA", 2, 1>>, "DRY", 25), Loc(<<"AA", 2, 1, 1>>, "DRY", 21),
    Loc(<<"AA", 3, 1>>, "A-RK", 30), Loc(<<"AA", 3, 2>>, "CHILLED", 30)>>

MCExports == {ExportTight, ExportAmple}
=============================================================================
