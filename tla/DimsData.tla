------------------------------ MODULE DimsData ------------------------------
(***************************************************************************)
(* The data every dims write is about: the dimensions of one unit of       *)
(* measure, the diff of current against desired dims, and the effect of a  *)
(* JSON-Patch of `add` operations.                                         *)
(***************************************************************************)
CONSTANTS
  Fields,   \* DIM_FIELDS: length, width, height, weight
  Values,   \* finite numbers, the ones CartonCloud accepts
  Unset,    \* None: the GET omits a dim that is not set
  NaN       \* a captured value that is not a finite number

ASSUME DimsAssumption == Unset \notin Values /\ NaN \notin Values /\ NaN # Unset

(* What CartonCloud holds for one unit of measure, as dims_for_uom reads it. *)
Dims == [Fields -> Values \union {Unset}]

(* A captured row, which may lack a field or hold something unwritable, and  *)
(* the dims filtered from it, which may not.                                 *)
Captured == UNION {[S -> Values \union {Unset, NaN}] : S \in SUBSET Fields}
Desired == UNION {[S -> Values] : S \in SUBSET Fields}

IsWritableValue(v) == v \notin {Unset, NaN}

\* Mutant: a field that is not in the current state is not part of the diff.
ComputeDiffOfPresent(current, desired) ==
  [f \in {g \in DOMAIN desired : g \in DOMAIN current /\ current[g] \notin {desired[g], Unset}}
     |-> desired[f]]

\* Mutant: the fields nobody asked for are part of the diff, as None.
ComputeDiffWhole(current, desired) ==
  [f \in DOMAIN current \union DOMAIN desired |->
     IF f \in DOMAIN desired THEN desired[f] ELSE Unset]

ComputeDiff(current, desired) ==
  [f \in {g \in DOMAIN desired : g \in DOMAIN current => current[g] # desired[g]}
     |-> desired[f]]

IsEmpty(diff) == DOMAIN diff = {}

\* Mutant: unset and non-finite values go through to the PATCH.
WritableUnfiltered(captured) == captured

(* The dict comprehension of approve_dims_write and its callers. *)
Writable(captured) ==
  [f \in {g \in DOMAIN captured : IsWritableValue(captured[g])} |-> captured[f]]

(* `add` creates a member or replaces it: the diff overrides, field by field. *)
Patched(dims, diff) ==
  [f \in DOMAIN dims \union DOMAIN diff |->
     IF f \in DOMAIN diff THEN diff[f] ELSE dims[f]]

Holds(dims, desired) == \A f \in DOMAIN desired : f \in DOMAIN dims /\ dims[f] = desired[f]
=============================================================================
