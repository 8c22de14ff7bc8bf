----------------------------- MODULE CaptureTable -----------------------------
(***************************************************************************)
(* From the rows of a capture sheet to what the write runs want on         *)
(* CartonCloud: capture.py, which converts millimetres to centimetres, and *)
(* the lookup of roundtrip.py, from the code of a product to its row.      *)
(***************************************************************************)
EXTENDS Integers, Sequences, DimsData

CONSTANTS
  Lengths,   \* the fields measured in millimetres: length, width, height
  Measures,  \* what may be measured, in millimetres
  ToCm,      \* mm_to_cm: Measures to Values
  Codes,     \* product codes
  Strip,     \* codes that begin with an s, to the same code without it
  NoBase     \* no captured base code

ASSUME TableAssumption ==
  /\ Lengths \subseteq Fields /\ Lengths # {}
  /\ ToCm \in [Measures -> Values]
  /\ DOMAIN Strip \subseteq Codes /\ NoBase \notin Codes

(* A row of the sheet: lengths in millimetres, weights, blanks, or what is *)
(* no number.                                                              *)
Row ==
  [code : Codes,
   dims : {d \in [Fields -> Measures \union Values \union {Unset, NaN}] :
             \A f \in Fields \ Lengths : d[f] \in Values \union {Unset, NaN}}]

FullyMeasured(row) == \A f \in Lengths : row.dims[f] \in Measures

CcDims(row) == [f \in Fields |-> IF f \in Lengths THEN ToCm[row.dims[f]] ELSE row.dims[f]]

(* Rows without all three lengths are dropped; of two rows for one code    *)
(* the later one counts.  A missing weight stays in the row.               *)
CcDimsTable(rows) ==
  LET full == {k \in DOMAIN rows : FullyMeasured(rows[k])}
      last(c) == CHOOSE k \in full : rows[k].code = c /\ \A j \in full : rows[j].code = c => j <= k
  IN  [c \in {rows[k].code : k \in full} |-> CcDims(rows[last(c)])]

\* Mutant: the s is taken off a code that has a row of its own, too.
ResolveBaseCodeStripsFirst(code, table) ==
  IF code \in DOMAIN Strip /\ Strip[code] \in DOMAIN table THEN Strip[code]
  ELSE IF code \in DOMAIN table THEN code
  ELSE NoBase

(* The code itself if it was captured, else the code without its s.        *)
ResolveBaseCode(code, table) ==
  IF code \in DOMAIN table THEN code
  ELSE IF code \in DOMAIN Strip /\ Strip[code] \in DOMAIN table THEN Strip[code]
  ELSE NoBase
=============================================================================
