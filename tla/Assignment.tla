------------------------------ MODULE Assignment ------------------------------
(***************************************************************************)
(* The greedy assignment of products to pick faces (analysis/assignment.py)*)
(* with the coverage, the products left over and the faces left over.      *)
(***************************************************************************)
EXTENDS Velocity

CONSTANT AisleOrder   \* the aisles in alphabetical order

ASSUME AislesAssumption == AisleOrder \in Seq(ToSet(AisleOrder))

INSTANCE Locations

ProductTypes == {"CHILLED", "FROZEN", "AMBIENT", "DRY", "A-RK"}

(* A name is the kind of goods that it gives away, "PLAIN", or missing.    *)
InferProductType(sku, name, tag) ==
  IF tag \in ProductTypes THEN tag
  ELSE IF Brand[sku] = "RK" THEN "A-RK"
  ELSE IF name \in {"CHILLED", "FROZEN", "AMBIENT"} THEN name
  ELSE "DRY"

Wanted(d) == d.measurement_complete /\ d.pallet_height_bucket # NaN

(* The fastest first, as the metrics are; a row for each row of the sheet. *)
Demand(metrics, dims) ==
  FlattenSeq([k \in DOMAIN metrics |->
    LET m == metrics[k]
        rows == RowsAt(dims, {j \in DOMAIN dims : dims[j].product_code = m.sku /\ Wanted(dims[j])})
    IN  [j \in DOMAIN rows |->
           [sku |-> m.sku, units |-> m.units, bucket |-> rows[j].pallet_height_bucket,
            name |-> m.name, tag |-> rows[j].tag]]])

Key(d) == <<InferProductType(d.sku, d.name, d.tag), d.bucket>>

(* Without a tag or a brand that tells, the inference asks for a name.     *)
Nameless(d) == d.tag \notin ProductTypes /\ Brand[d.sku] # "RK" /\ d.name = NaN

(* What is missing for want of any sale is NaN, of which upper() raises;   *)
(* the first name of sales without one is NaN or None by the version of    *)
(* pandas, and None is as good as empty.                                   *)
InferenceRaises(demand) == \E k \in DOMAIN demand : Nameless(demand[k]) /\ demand[k].units = NaN

InferenceMayRaise(demand) == \E k \in DOMAIN demand : Nameless(demand[k])

(* A location is the number of its row, as it is its id in the code: two   *)
(* rows may have one name.                                                 *)
Supply(locations) ==
  {l \in DOMAIN locations : locations[l].is_pick_face /\ locations[l].position # NaN}

FaceKey(loc) == <<loc.product_type, loc.position>>

Faces(locations, key) == {l \in Supply(locations) : FaceKey(locations[l]) = key}

Aisle(name) == CHOOSE k \in DOMAIN AisleOrder : AisleOrder[k] = name[1]

(* By aisle, then by bay; the faces of a bay stay as they are.             *)
FromTheFront(locations, l, m) ==
  LET a == locations[l].name
      b == locations[m].name
  IN  \/ Aisle(a) < Aisle(b)
      \/ Aisle(a) = Aisle(b) /\ (a[2] < b[2] \/ (a[2] = b[2] /\ l < m))

Pool(locations, key) ==
  LET faces == Faces(locations, key)
  IN  Sorted(faces, {p \in faces \X faces : FromTheFront(locations, p[1], p[2])})

Rank(demand, k) == Cardinality({j \in 1 .. k : Key(demand[j]) = Key(demand[k])})

(* Each product takes the first face left of its type and position.        *)
Taken(demand, locations, k) ==
  LET pool == Pool(locations, Key(demand[k]))
  IN  IF Rank(demand, k) <= Len(pool) THEN pool[Rank(demand, k)] ELSE NaN

Placement(demand, locations) ==
  [k \in DOMAIN demand |->
     [sku |-> demand[k].sku, units |-> demand[k].units, key |-> Key(demand[k]),
      face |-> Taken(demand, locations, k)]]

CoverageOf(demand, locations, key) ==
  [key |-> key,
   supply |-> Cardinality(Faces(locations, key)),
   demand |-> Cardinality({k \in DOMAIN demand : Key(demand[k]) = key})]

(* Faces of no product type belong to no group.                            *)
Coverage(demand, locations) ==
  {CoverageOf(demand, locations, key) :
     key \in {Key(demand[k]) : k \in DOMAIN demand}
             \union {FaceKey(locations[l]) : l \in {m \in Supply(locations) : locations[m].product_type # NaN}}}

(* Without any demand all pick faces are listed, with a position or not.   *)
Unused(demand, locations) ==
  IF demand = <<>> THEN {l \in DOMAIN locations : locations[l].is_pick_face}
  ELSE Supply(locations) \ {Taken(demand, locations, k) : k \in DOMAIN demand}

AssignSkusToLocations(metrics, dims, locations) ==
  LET demand == Demand(metrics, dims)
      rows == Placement(demand, locations)
  IN  [assignments |-> RowsAt(rows, {k \in DOMAIN rows : rows[k].face # NaN}),
       unassigned |-> RowsAt(rows, {k \in DOMAIN rows : rows[k].face = NaN}),
       coverage |-> IF demand = <<>> THEN {} ELSE Coverage(demand, locations),
       unused |-> Unused(demand, locations)]
=============================================================================
