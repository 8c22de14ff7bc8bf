------------------------------ MODULE Locations ------------------------------
(***************************************************************************)
(* The warehouse locations that CartonCloud exports: which are pick faces, *)
(* by CartonCloud's efficiency, and at which position, by the grammar of   *)
(* their names (locations/grammar.py, locations/cc_loader.py).             *)
(*                                                                         *)
(* A name is the sequence of its segments: <<aisle, bay, level>>,          *)
(* <<aisle, bay, level, sublevel>> in a split bay, or anything else.       *)
(***************************************************************************)
EXTENDS Integers, Sequences

CONSTANT NaN   \* a missing value

MinPickFaceEfficiency == 21

(* Aisles whose efficiency in CartonCloud is stale: the levels picked from. *)
PickLevelOverrides == [DO |-> {1}]

Valid(name) == Len(name) \in {3, 4}

IsSplitBay(name) == Len(name) = 4

(* Split bays are split at level 1 only; without a split, level 3 and      *)
(* above are reserve.                                                      *)
GrammarPosition(name) ==
  IF ~Valid(name) THEN NaN
  ELSE IF IsSplitBay(name)
       THEN IF name[3] = 1 /\ name[4] \in {1, 2} THEN name[4] ELSE NaN
       ELSE IF name[3] \in {1, 2} THEN name[3] ELSE NaN

PositionToHeight(name, position) ==
  IF position = NaN THEN NaN
  ELSE IF position = 1 THEN 750 ELSE IF IsSplitBay(name) THEN 1100 ELSE 1500

Demoted(name) ==
  /\ Valid(name)
  /\ name[1] \in DOMAIN PickLevelOverrides
  /\ name[3] \notin PickLevelOverrides[name[1]]

\* Mutant: the override of the stale aisle is left out.
IsPickFaceByEfficiency(loc) == loc.efficiency # NaN /\ loc.efficiency >= MinPickFaceEfficiency

(* CartonCloud's efficiency has the say, the override the last word.       *)
IsPickFace(loc) ==
  /\ loc.efficiency # NaN /\ loc.efficiency >= MinPickFaceEfficiency
  /\ ~Demoted(loc.name)

(* What the grammar guessed of a location that is no pick face is blanked. *)
LoadLocation(loc) ==
  LET position == IF IsPickFace(loc) THEN GrammarPosition(loc.name) ELSE NaN
  IN  [name |-> loc.name,
       product_type |-> loc.product_type,
       is_pick_face |-> IsPickFace(loc),
       position |-> position,
       bay_height_mm |-> PositionToHeight(loc.name, position)]

LoadCCLocations(export) == [k \in DOMAIN export |-> LoadLocation(export[k])]
=============================================================================
