----------------------------- MODULE MCDimsRuns -----------------------------
(* Small instances of DimsRuns: two products that between them fall into    *)
(* every bucket of every script, an each and a carton unit of measure, one  *)
(* token a minute so that a second write without a pause is refused, two    *)
(* runs of any scripts in any environment and one edit by somebody else.    *)
EXTENDS DimsRuns

CONSTANTS ea, ct, len, wgt, v1, m1, m2, a1, a2, sa1, sb1, p1, p2

(* m1 is ten times v1 and m2 ten times m1, so m1 is also v1 left in mm.    *)
MCToCm == [m \in {m1, m2} |-> IF m = m1 THEN v1 ELSE m1]
MCStrip == [c \in {sa1, sb1} |-> IF c = sa1 THEN a1 ELSE a2]
MCPrefix == [c \in {a1, a2, sa1, sb1} |-> IF c \in {a1, a2} THEN "a" ELSE "s"]
MCCodeRank == [c \in {a1, a2, sa1, sb1} |->
                 CASE c = a1 -> 1 [] c = a2 -> 2 [] c = sa1 -> 3 [] c = sb1 -> 4]

SheetRow(c, l, w) == [code |-> c, dims |-> [f \in {len, wgt} |-> IF f = len THEN l ELSE w]]
Weighed == <<SheetRow(a1, m1, v1), SheetRow(a2, m1, NaN)>>
Twice == <<SheetRow(a1, m1, NaN), SheetRow(sa1, m2, NaN), SheetRow(a1, Unset, NaN)>>

Listed(owner, code, order) ==
  [owner |-> owner, code |-> code, uoms |-> {ea, ct}, default |-> ea, badly_named |-> {},
   order |-> order]
Pair(a, b) == [i \in Ids |-> IF i = p1 THEN a ELSE b]

Blank == [i \in Ids |-> [u \in Uoms |-> [f \in Fields |-> Unset]]]
Stale == [Blank EXCEPT ![p1] = [u \in Uoms |-> [f \in Fields |-> IF f = len THEN m1 ELSE Unset]]]
Right == [Blank EXCEPT ![p1] = [u \in Uoms |-> [f \in Fields |-> IF f = len THEN v1 ELSE Unset]]]

Catalogue(products, stored, rows) == [product |-> products, store |-> stored, rows |-> rows]

Good(owner, c, d) == Pair(Listed(owner, c, 1), Listed(owner, d, 2))

(* All good; a carton badly named; no carton; no default; a code of which   *)
(* nothing was captured; products that are right already or were stored in  *)
(* millimetres; one product of each customer.                               *)
MCCatalogues ==
  { Catalogue(Good(Live, a1, a2), Blank, Weighed),
    Catalogue(Good(Sandbox, sa1, sb1), Stale, Weighed),
    Catalogue(Good(Sandbox, sa1, sb1), Right, Twice),
    Catalogue([Good(Live, a2, a1) EXCEPT ![p1].badly_named = {ct}], Stale, Weighed),
    Catalogue([Good(Live, a1, sb1) EXCEPT ![p2].uoms = {ea}], Right, Weighed),
    Catalogue([Good(Live, a1, a2) EXCEPT ![p1].default = NoUom, ![p1].uoms = {ct}], Blank, Twice),
    Catalogue(Pair(Listed(Live, a1, 2), Listed(Sandbox, sa1, 1)), Blank, Weighed) }

Environment(promoted, client) ==
  [write_enabled |-> TRUE, secret_set |-> TRUE, allowlist |-> {Sandbox},
   live_promotion |-> promoted, client_enabled |-> client]

MCEnvironments ==
  { Environment(TRUE, TRUE), Environment(FALSE, TRUE), Environment(TRUE, FALSE),
    [Environment(TRUE, TRUE) EXCEPT !.allowlist = {Sandbox, Live}] }

MCScopes == {{}, {a2}, {sb1}}

ArmedOnly == {Environment(TRUE, TRUE)}
GoodOnly == {Catalogue(Good(Live, a1, a2), Blank, Weighed), Catalogue(Good(Live, sa1, a2), Right, Twice)}
=============================================================================
