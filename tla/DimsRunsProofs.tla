--------------------------- MODULE DimsRunsProofs ---------------------------
(***************************************************************************)
(* The scripts that write dims, for any number of runs, products, units of *)
(* measure and edits by others: what a PATCH may be about, what the        *)
(* operator agreed to, what exit code 0 means, that a second run resumes   *)
(* the first, and that a report accounts for every product.                *)
(***************************************************************************)
EXTENDS DimsRuns, SequenceTheorems, FiniteSetTheorems, WellFoundedInduction,
        TLAPS

(* Diffs and patches: a patch of the diff is one of what was desired.      *)
LEMMA DesiredType ==
  ASSUME NEW d \in Desired
  PROVE  DOMAIN d \subseteq Fields /\ d \in [DOMAIN d -> Values]
BY DEF Desired

LEMMA DesiredIntro ==
  ASSUME NEW S \in SUBSET Fields, NEW d \in [S -> Values]
  PROVE  d \in Desired
BY DEF Desired

LEMMA ComputeDiffType ==
  ASSUME NEW s, NEW d \in Desired
  PROVE  ComputeDiff(s, d) \in Desired
<1> DEFINE S == {g \in DOMAIN d : g \in DOMAIN s => s[g] # d[g]}
<1>1. S \in SUBSET Fields /\ \A f \in S : d[f] \in Values
  BY DesiredType
<1>2. [f \in S |-> d[f]] \in [S -> Values]
  BY <1>1
<1> QED BY <1>1, <1>2, DesiredIntro DEF ComputeDiff

LEMMA PatchedType ==
  ASSUME NEW s \in Dims, NEW d \in Desired
  PROVE  Patched(s, d) \in Dims
<1>1. /\ DOMAIN s = Fields /\ DOMAIN d \subseteq Fields
      /\ \A f \in Fields : s[f] \in Values \union {Unset}
      /\ \A f \in DOMAIN d : d[f] \in Values
  BY DesiredType DEF Dims
<1>2. DOMAIN s \union DOMAIN d = Fields
  BY <1>1
<1> QED BY <1>1, <1>2 DEF Patched, Dims

(* compute_diff is empty exactly when there is nothing to write.           *)
LEMMA EmptyIffHolds ==
  ASSUME NEW s \in Dims, NEW d \in Desired
  PROVE  IsEmpty(ComputeDiff(s, d)) <=> Holds(s, d)
<1>1. DOMAIN s = Fields /\ DOMAIN d \subseteq Fields
  BY DesiredType DEF Dims
<1> QED BY <1>1 DEF IsEmpty, ComputeDiff, Holds

Writing == {"checking", "reading", "deciding", "awaiting", "verifying"}

UomFor(k, i) == IF k = "carton" THEN Carton ELSE product[i].default

-----------------------------------------------------------------------------
(* The invariant: what is planned ...                                      *)
(* Only badly_named of a product ever changes.                             *)
ProductsOK == \A i \in Ids : product[i].default \in product[i].uoms \union {NoUom}

CandsOK == \A k \in 1 .. Len(cands) : product[cands[k]].owner = CustomerOf(kind)

(* An item is a product of the run's customer with what was captured for   *)
(* it, on the unit of measure of the script once that is read.             *)
ItemOK(x) ==
  /\ product[x.id].owner = CustomerOf(kind)
  /\ BaseCode(x.id) # NoBase
  /\ x.want = Wanted(x.id)
  /\ x.uom # NoUom => x.uom = UomFor(kind, x.id)

ItemsOK == \A k \in 1 .. Len(plan.to_write) : ItemOK(plan.to_write[k])

(* The proving run reads the unit of measure of an item when its turn      *)
(* comes, the others read all of them.                                     *)
UomsRead ==
  \A k \in 1 .. Len(plan.to_write) :
    /\ kind # "proving" \/ k <= done => plan.to_write[k].uom # NoUom
    /\ k = done + 1 /\ phase \in Writing \union {"confirming"} => plan.to_write[k].uom # NoUom
    /\ kind = "proving" /\ k > done + 1 => plan.to_write[k].uom = NoUom

(* ... where the run is ...                                                *)
PhasesOK ==
  /\ phase \in Writing => done < Len(plan.to_write) /\ reply = "go"
  /\ phase = "confirming" /\ kind = "proving" => done < Len(plan.to_write)
  /\ runs = 0 => phase = "idle"
  /\ phase = "planning" => done = 0
  /\ phase = "confirming" /\ kind # "proving" => done = 0
  /\ phase = "planning" /\ kind = "proving" => plan.to_write = <<>>
  /\ phase = "between" /\ kind # "proving" => reply = "go"
  /\ phase = "deciding" => CustomerCleared(config, product[Item.id].owner)

(* ... what is on its way to CartonCloud ...                               *)
WireOK ==
  \A m \in wire :
    /\ product[m.id].owner = CustomerOf(m.kind)
    /\ product[m.id].owner = Live => m.armed
    /\ m.uom = UomFor(m.kind, m.id)
    /\ BaseCode(m.id) # NoBase
    /\ Holds(Wanted(m.id), m.ops)
    /\ m.run <= runs

(* ... of this run, the PATCH of the item at hand at most, which it awaits *)
(* or has given up by failing.                                             *)
Halted ==
  \/ phase \in {"raised", "crashed"}
  \/ phase = "reported" /\ report.failed # <<>>

InHand(m) ==
  /\ phase = "awaiting" \/ Halted
  /\ done < Len(plan.to_write) /\ reply = "go"
  /\ m.id = Item.id /\ m.uom = Item.uom /\ Holds(Item.want, m.ops)

CurrentOK ==
  /\ \A m \in wire : m.run = runs => InHand(m)
  /\ \A m, n \in wire : m.run = runs /\ n.run = runs => m = n

(* ... what a report says ...                                              *)
ReportOK ==
  /\ phase # "reported" => report = NoReport
  /\ kind \notin BulkKinds => report.failed = <<>>
  /\ report.failed = <<>> /\ ~report.aborted => report.untouched = <<>>

Paced ==
  kind \in BulkKinds =>
    /\ phase = "checking" => tokens >= Minute
    /\ phase \in {"planning", "confirming"} => tokens = Capacity
    /\ report.error # "rate_limited"

Unpoisoned ==
  kind = "each" /\ edits = 0 =>
    /\ \A k \in 1 .. Len(plan.to_write) : product[plan.to_write[k].id].badly_named = {}
    /\ report.error # "poisoned"

(* ... and what runs have settled.                                         *)
SettledOK ==
  /\ \A i \in Ids, u \in Uoms : <<i, u>> \in settled => Holds(DimsOf(i, u), Wanted(i))
  /\ phase \in {"planning", "confirming"} =>
       \A k \in done + 1 .. Len(plan.to_write) :
         <<plan.to_write[k].id, plan.to_write[k].uom>> \notin settled

PlanInv == ProductsOK /\ CandsOK /\ ItemsOK /\ UomsRead /\ PhasesOK

IInv ==
  /\ TypeOK /\ PlanInv /\ WireOK /\ CurrentOK
  /\ ReportOK /\ Paced /\ Unpoisoned /\ SettledOK

USE DEF setup, cloud, BulkKinds, SandboxKinds, LiveKinds, Kinds, Writing

Item1 == [id : Ids, uom : Uoms \union {NoUom}, want : Desired]
Plans == [to_write : Seq(Item1), no_ops : Seq(Ids), skipped : Seq(Ids)]
Reports ==
  [written : Seq(Ids), no_ops : Seq(Ids), skipped : Seq(Ids), failed : Seq(Ids),
   error : Errors, aborted : BOOLEAN, untouched : Seq(Ids)]
-----------------------------------------------------------------------------
(* Constants: the capture table, and the sizes of the limiter.             *)
LEMMA LastExists ==
  ASSUME NEW n \in Nat, NEW S, S \subseteq 1 .. n, S # {}
  PROVE  \E k \in S : \A j \in S : j <= k
<1> DEFINE T == {n - k : k \in S}
           R == {r \in Nat \X Nat : r[1] < r[2]}
<1>1. IsWellFoundedOn(R, Nat)
  BY NatLessThanWellFounded DEF OpToRel
<1>2. T \subseteq Nat /\ T # {}
  <2>1. \A k \in S : n - k \in Nat
    OBVIOUS
  <2> QED BY <2>1
<1>3. PICK x \in T : \A y \in T : ~(<<y, x>> \in R)
  <2> HIDE DEF T, R
  <2> QED BY <1>1, <1>2, WFMin
<1>4. \A y \in T : ~(y < x)
  BY <1>2, <1>3
<1>5. PICK k \in S : x = n - k
  BY <1>3
<1>6. \A j \in S : ~(n - j < n - k)
  BY <1>4, <1>5
<1> QED BY <1>5, <1>6

LEMMA TableType ==
  ASSUME NEW rows \in Seq(Row)
  PROVE  /\ DOMAIN CcDimsTable(rows) \subseteq Codes
         /\ \A c \in DOMAIN CcDimsTable(rows) : CcDimsTable(rows)[c] \in Captured
<1> DEFINE full == {k \in DOMAIN rows : FullyMeasured(rows[k])}
           Latest(c, k) == rows[k].code = c /\ \A j \in full : rows[j].code = c => j <= k
           last(c) == CHOOSE k \in full : Latest(c, k)
           table1 == CcDimsTable(rows)
<1>1. Len(rows) \in Nat /\ DOMAIN rows = 1 .. Len(rows) /\ \A k \in full : rows[k] \in Row
  OBVIOUS
<1>2. /\ DOMAIN table1 = {rows[k].code : k \in full}
      /\ \A c \in DOMAIN table1 : table1[c] = CcDims(rows[last(c)])
  BY DEF CcDimsTable
<1>3. ASSUME NEW c \in DOMAIN table1 PROVE last(c) \in full
  <2> DEFINE S == {k \in full : rows[k].code = c}
  <2>1. S \subseteq 1 .. Len(rows) /\ S # {}
    BY <1>1, <1>2, <1>3
  <2>2. PICK k \in S : \A j \in S : j <= k
    <3> HIDE DEF S
    <3> QED BY <1>1, <2>1, LastExists
  <2>3. k \in full /\ Latest(c, k)
    BY <2>2
  <2> HIDE DEF full, Latest
  <2> QED BY <2>3
<1>4. ASSUME NEW k \in full PROVE CcDims(rows[k]) \in Captured
  <2>1. /\ rows[k].dims \in [Fields -> Measures \union Values \union {Unset, NaN}]
        /\ \A f \in Fields \ Lengths : rows[k].dims[f] \in Values \union {Unset, NaN}
        /\ \A f \in Lengths : rows[k].dims[f] \in Measures
    BY <1>1, <1>4 DEF Row, FullyMeasured
  <2>2. \A m \in Measures : ToCm[m] \in Values
    BY TableAssumption
  <2>3. \A f \in Fields :
          (IF f \in Lengths THEN ToCm[rows[k].dims[f]] ELSE rows[k].dims[f])
            \in Values \union {Unset, NaN}
    BY <2>1, <2>2
  <2>4. CcDims(rows[k]) \in [Fields -> Values \union {Unset, NaN}]
    BY <2>3 DEF CcDims
  <2> QED BY <2>4 DEF Captured
<1>5. \A k \in full : rows[k].code \in Codes
  BY <1>1 DEF Row
<1> HIDE DEF full, last, table1
<1>6. DOMAIN table1 \subseteq Codes
  BY <1>2, <1>5
<1>7. \A c \in DOMAIN table1 : table1[c] \in Captured
  BY <1>2, <1>3, <1>4
<1> QED BY <1>6, <1>7 DEF table1

LEMMA WritableType ==
  ASSUME NEW captured \in Captured
  PROVE  Writable(captured) \in Desired
<1>1. PICK S \in SUBSET Fields : captured \in [S -> Values \union {Unset, NaN}]
  BY DEF Captured
<1> DEFINE D == {g \in DOMAIN captured : IsWritableValue(captured[g])}
<1>2. D \in SUBSET Fields /\ \A f \in D : captured[f] \in Values
  BY <1>1 DEF IsWritableValue
<1>3. [f \in D |-> captured[f]] \in [D -> Values]
  BY <1>2
<1> QED BY <1>2, <1>3, DesiredIntro DEF Writable

LEMMA CapacityCovers == Capacity \in Nat /\ Minute <= Capacity
<1>1. PerMinute \in Nat /\ Minute \in Nat /\ PerMinute >= 1
  BY ItemAssumption
<1>2. PerMinute * Minute >= Minute
  BY <1>1
<1> QED BY <1>1, <1>2 DEF Capacity

(* The limiter's pause is worth a write.                                   *)
LEMMA RefillType ==
  ASSUME tokens \in 0 .. Capacity
  PROVE  Refill(Pace) \in 0 .. Capacity /\ Refill(Pace) >= Minute
<1>1. Pace * PerMinute \in Nat /\ Pace * PerMinute >= Minute /\ Minute \in Nat
  BY ItemAssumption
<1>2. Capacity \in Nat /\ Minute <= Capacity
  BY CapacityCovers
<1> DEFINE gain == Pace * PerMinute
<1> HIDE DEF gain
<1>3. gain \in Nat /\ gain >= Minute
  BY <1>1 DEF gain
<1>4. Refill(Pace) = IF tokens + gain <= Capacity THEN tokens + gain ELSE Capacity
  BY DEF Refill, gain
<1> QED BY <1>1, <1>2, <1>3, <1>4
-----------------------------------------------------------------------------
(* The plan and the report.                                                *)
LEMMA PlanFacts ==
  ASSUME TypeOK
  PROVE  /\ plan \in Plans /\ plan.to_write \in Seq(Item1)
         /\ Len(plan.to_write) \in Nat /\ done \in Nat /\ done <= Len(plan.to_write)
         /\ done < Len(plan.to_write) => Item \in Item1 /\ done + 1 \in 1 .. Len(plan.to_write)
         /\ Remaining \in Seq(Item1)
         /\ Remaining # <<>> <=> done < Len(plan.to_write)
<1>1. plan \in Plans /\ done \in 0 .. Len(plan.to_write)
  BY DEF TypeOK, Plans, Item1
<1>2. plan.to_write \in Seq(Item1) /\ Len(plan.to_write) \in Nat
  BY <1>1 DEF Plans
<1>3. done \in Nat /\ done <= Len(plan.to_write)
  BY <1>1, <1>2
<1> DEFINE s == plan.to_write
<1>4. \A i \in done + 1 .. Len(s) : s[i] \in Item1
  BY <1>2, <1>3
<1> HIDE DEF s
<1>5. /\ SubSeq(s, done + 1, Len(s)) \in Seq(Item1)
      /\ Len(SubSeq(s, done + 1, Len(s))) =
           IF done + 1 <= Len(s) THEN Len(s) - (done + 1) + 1 ELSE 0
  <2>1. done + 1 \in Int /\ Len(s) \in Int
    BY <1>2, <1>3 DEF s
  <2> QED BY <1>4, <2>1, SubSeqProperties
<1>6. Remaining \in Seq(Item1) /\ (Remaining # <<>> <=> done < Len(s))
  <2>1. Remaining = SubSeq(s, done + 1, Len(s))
    BY DEF Remaining, s
  <2>2. Len(Remaining) > 0 <=> done < Len(s)
    BY <1>2, <1>3, <1>5, <2>1 DEF s
  <2>3. Remaining = <<>> <=> Len(Remaining) = 0
    BY <1>5, <2>1, EmptySeq
  <2>4. Len(Remaining) \in Nat
    BY <1>5, <2>1
  <2> QED BY <1>5, <2>1, <2>2, <2>3, <2>4
<1>7. done < Len(s) => Item \in Item1 /\ done + 1 \in 1 .. Len(s)
  BY <1>2, <1>3 DEF Item, s
<1> QED BY <1>1, <1>2, <1>3, <1>6, <1>7 DEF s

LEMMA Removed ==
  ASSUME NEW S, NEW s \in Seq(S), NEW n \in 1 .. Len(s)
  PROVE  /\ RemoveAt(s, n) \in Seq(S)
         /\ Len(RemoveAt(s, n)) = Len(s) - 1
         /\ \A k \in 1 .. n - 1 : RemoveAt(s, n)[k] = s[k]
         /\ \A k \in n .. Len(s) - 1 : RemoveAt(s, n)[k] = s[k + 1]
<1> DEFINE a == SubSeq(s, 1, n - 1)
           b == SubSeq(s, n + 1, Len(s))
<1>1. Len(s) \in Nat /\ n \in Nat /\ 1 <= n /\ n <= Len(s)
  OBVIOUS
<1>2. a \in Seq(S) /\ Len(a) = n - 1 /\ \A k \in 1 .. n - 1 : a[k] = s[k]
  <2>1. \A i \in 1 .. n - 1 : s[i] \in S
    BY <1>1
  <2>2. /\ a \in Seq(S) /\ Len(a) = IF 1 <= n - 1 THEN n - 1 - 1 + 1 ELSE 0
        /\ \A i \in 1 .. n - 1 - 1 + 1 : a[i] = s[1 + i - 1]
    BY <1>1, <2>1, SubSeqProperties
  <2> HIDE DEF a
  <2> QED BY <1>1, <2>2
<1>3. b \in Seq(S) /\ Len(b) = Len(s) - n /\ \A k \in 1 .. Len(s) - n : b[k] = s[n + k]
  <2>1. \A i \in n + 1 .. Len(s) : s[i] \in S
    BY <1>1
  <2>2. /\ b \in Seq(S) /\ Len(b) = IF n + 1 <= Len(s) THEN Len(s) - (n + 1) + 1 ELSE 0
        /\ \A i \in 1 .. Len(s) - (n + 1) + 1 : b[i] = s[n + 1 + i - 1]
    BY <1>1, <2>1, SubSeqProperties
  <2> HIDE DEF b
  <2> QED BY <1>1, <2>2
<1>4. RemoveAt(s, n) = a \o b
  BY DEF RemoveAt
<1> HIDE DEF a, b
<1>5. /\ a \o b \in Seq(S) /\ Len(a \o b) = Len(a) + Len(b)
      /\ \A i \in 1 .. Len(a) + Len(b) :
           (a \o b)[i] = IF i <= Len(a) THEN a[i] ELSE b[i - Len(a)]
  BY <1>2, <1>3, ConcatProperties
<1>6. ASSUME NEW k \in n .. Len(s) - 1 PROVE (a \o b)[k] = s[k + 1]
  <2>1. k \in Nat /\ n <= k /\ k <= Len(s) - 1 /\ k \in 1 .. Len(a) + Len(b)
        /\ k - (n - 1) \in 1 .. Len(s) - n
    BY <1>1, <1>2, <1>3, <1>6
  <2>2. (a \o b)[k] = b[k - (n - 1)]
    BY <1>1, <1>2, <1>5, <2>1
  <2>3. b[k - (n - 1)] = s[n + (k - (n - 1))]
    BY <1>3, <2>1
  <2> QED BY <1>1, <2>1, <2>2, <2>3
<1>7. ASSUME NEW k \in 1 .. n - 1 PROVE (a \o b)[k] = s[k]
  BY <1>1, <1>2, <1>3, <1>5, <1>7
<1>8. Len(a \o b) = Len(s) - 1
  BY <1>1, <1>2, <1>3, <1>5
<1> QED BY <1>4, <1>5, <1>6, <1>7, <1>8

(* The item at hand leaves the list, those after it move up.               *)
LEMMA SkipFacts ==
  ASSUME TypeOK, done < Len(plan.to_write), Skip
  PROVE  /\ plan' \in Plans
         /\ Len(plan'.to_write) = Len(plan.to_write) - 1
         /\ \A k \in 1 .. done : plan'.to_write[k] = plan.to_write[k]
         /\ \A k \in done + 1 .. Len(plan'.to_write) : plan'.to_write[k] = plan.to_write[k + 1]
<1> DEFINE s == plan.to_write
<1>1. /\ s \in Seq(Item1) /\ Len(s) \in Nat /\ done \in Nat /\ done + 1 \in 1 .. Len(s)
      /\ Item \in Item1 /\ plan \in Plans
  BY PlanFacts
<1>2. plan' = [plan EXCEPT !.to_write = RemoveAt(s, done + 1),
                           !.skipped = Append(plan.skipped, Item.id)]
  BY DEF Skip
<1> HIDE DEF s
<1>3. /\ RemoveAt(s, done + 1) \in Seq(Item1) /\ Len(RemoveAt(s, done + 1)) = Len(s) - 1
      /\ \A k \in 1 .. done + 1 - 1 : RemoveAt(s, done + 1)[k] = s[k]
      /\ \A k \in done + 1 .. Len(s) - 1 : RemoveAt(s, done + 1)[k] = s[k + 1]
  BY <1>1, Removed
<1>4. Append(plan.skipped, Item.id) \in Seq(Ids)
  <2>1. Item.id \in Ids /\ plan.skipped \in Seq(Ids)
    BY <1>1 DEF Item1, Plans
  <2> QED BY <2>1, AppendProperties
<1>5. plan'.to_write = RemoveAt(s, done + 1)
  BY <1>1, <1>2 DEF Plans
<1>6. plan' \in Plans
  BY <1>1, <1>2, <1>3, <1>4 DEF Plans
<1>7. done + 1 - 1 = done
  BY <1>1
<1>8. Len(plan'.to_write) = Len(s) - 1
  BY <1>3, <1>5
<1> QED BY <1>3, <1>5, <1>6, <1>7, <1>8 DEF s

LEMMA IdsType ==
  ASSUME NEW items \in Seq(Item1)
  PROVE  IdsOf(items) \in Seq(Ids) /\ Len(IdsOf(items)) = Len(items)
<1>1. ASSUME NEW k \in 1 .. Len(items) PROVE items[k].id \in Ids
  <2>1. items[k] \in Item1
    OBVIOUS
  <2> QED BY <2>1 DEF Item1
<1>2. IdsOf(items) = [k \in 1 .. Len(items) |-> items[k].id] /\ Len(items) \in Nat
  BY DEF IdsOf
<1> QED BY <1>1, <1>2

LEMMA ReportType ==
  ASSUME TypeOK, NEW failed \in Seq(Ids), NEW error \in Errors, NEW aborted \in BOOLEAN,
         NEW untouched \in Seq(Item1), Report(failed, error, aborted, untouched)
  PROVE  /\ report' \in Reports /\ report'.failed = failed /\ report'.error = error
         /\ report'.aborted = aborted
         /\ untouched = <<>> => report'.untouched = <<>>
<1>1. plan \in Plans /\ plan.to_write \in Seq(Item1) /\ done \in Nat /\ done <= Len(plan.to_write)
      /\ Len(plan.to_write) \in Nat
  BY PlanFacts
<1> DEFINE ids == IdsOf(plan.to_write)
<1>2. ids \in Seq(Ids) /\ Len(ids) = Len(plan.to_write)
  BY <1>1, IdsType
<1> HIDE DEF ids
<1>3. SubSeq(ids, 1, done) \in Seq(Ids)
  <2>1. \A i \in 1 .. done : ids[i] \in Ids
    BY <1>1, <1>2
  <2> QED BY <1>1, <2>1, SubSeqProperties
<1>4. IdsOf(untouched) \in Seq(Ids) /\ Len(IdsOf(untouched)) = Len(untouched)
  BY IdsType
<1>5. report' = [written |-> SubSeq(ids, 1, done), no_ops |-> plan.no_ops,
                 skipped |-> plan.skipped, failed |-> failed, error |-> error,
                 aborted |-> aborted, untouched |-> IdsOf(untouched)]
  BY DEF Report, ids
<1>6. plan.no_ops \in Seq(Ids) /\ plan.skipped \in Seq(Ids)
  BY <1>1 DEF Plans
<1>7. report' \in Reports
  BY <1>3, <1>4, <1>5, <1>6 DEF Reports
<1>8. untouched = <<>> => IdsOf(untouched) = <<>>
  <2>1. untouched = <<>> => Len(IdsOf(untouched)) = 0
    BY <1>4
  <2> QED BY <1>4, <2>1, EmptySeq
<1> QED BY <1>5, <1>7, <1>8

LEMMA FailType ==
  ASSUME TypeOK, done < Len(plan.to_write), NEW error \in Errors, Fail(error)
  PROVE  /\ report' \in Reports
         /\ kind \in BulkKinds =>
              /\ phase' = "reported" /\ report'.failed # <<>>
              /\ report'.error = error
         /\ kind \notin BulkKinds => phase' \in {"raised", "crashed"} /\ report' = report
<1>1. /\ Item \in Item1 /\ Remaining \in Seq(Item1) /\ Remaining # <<>>
  BY PlanFacts
<1>2. <<Item.id>> \in Seq(Ids) /\ <<Item.id>> # <<>>
  BY <1>1 DEF Item1
<1>3. Tail(Remaining) \in Seq(Item1)
  BY <1>1, HeadTailProperties
<1>4. CASE kind \in BulkKinds
  <2>1. phase' = "reported" /\ Report(<<Item.id>>, error, FALSE, Tail(Remaining))
    BY <1>4 DEF Fail
  <2>2. report' \in Reports /\ report'.failed = <<Item.id>> /\ report'.error = error
    BY <1>2, <1>3, <2>1, ReportType
  <2> QED BY <1>2, <1>4, <2>1, <2>2
<1>5. CASE kind \notin BulkKinds
  BY <1>5 DEF Fail, TypeOK, Reports
<1> QED BY <1>4, <1>5
-----------------------------------------------------------------------------
(* Types.                                                                  *)
LEMMA WantedType ==
  ASSUME TypeOK, NEW i \in Ids, BaseCode(i) # NoBase
  PROVE  Wanted(i) \in Desired
<1>1. BaseCode(i) \in DOMAIN table
  BY DEF BaseCode, ResolveBaseCode
<1> QED BY <1>1, WritableType DEF TypeOK, Wanted

LEMMA DimsOfType ==
  ASSUME TypeOK, NEW i \in Ids, NEW u
  PROVE  DimsOf(i, u) \in Dims
<1>1. product[i].uoms \subseteq Uoms /\ store[i] \in [Uoms -> Dims]
  BY DEF TypeOK, Product
<1>2. [f \in Fields |-> Unset] \in Dims
  BY DEF Dims
<1> QED BY <1>1, <1>2 DEF DimsOf

LEMMA InitTypes == Init => TypeOK
<1> SUFFICES ASSUME Init PROVE TypeOK
  OBVIOUS
<1>1. PICK cat \in Catalogues :
        product = cat.product /\ store = cat.store /\ table = CcDimsTable(cat.rows)
  BY DEF Init
<1>2. /\ product \in [Ids -> Product] /\ store \in [Ids -> [Uoms -> Dims]]
      /\ DOMAIN table \subseteq Codes /\ \A c \in DOMAIN table : table[c] \in Captured
  BY <1>1, CatalogueAssumption, TableType
<1>3. /\ <<>> \in Seq(Ids) /\ <<>> \in Seq(Item1) /\ Len(<<>>) = 0
  OBVIOUS
<1>4. plan \in Plans /\ Len(plan.to_write) = 0
  BY <1>3 DEF Init, NoPlan, Plans
<1>5. report \in Reports
  BY <1>3 DEF Init, NoReport, Reports, Errors
<1>6. /\ kind \in Kinds /\ config \in Configs /\ scope \subseteq Codes
      /\ wire = {} /\ phase = "idle" /\ cands = <<>> /\ done = 0 /\ reply = "" /\ read = None
      /\ tokens = Capacity /\ runs = 0 /\ edits = 0 /\ settled = {}
  BY RunsAssumption DEF Init
<1>7. tokens \in 0 .. Capacity /\ runs \in 0 .. MaxRuns /\ edits \in 0 .. MaxEdits
  <2>1. tokens = Capacity /\ runs = 0 /\ edits = 0
    BY <1>6
  <2> QED BY <2>1, CapacityCovers, RunsAssumption
<1>8. done \in 0 .. Len(plan.to_write)
  <2>1. done = 0
    BY <1>6
  <2> QED BY <1>4, <2>1
<1> QED BY <1>2, <1>3, <1>4, <1>5, <1>6, <1>7, <1>8 DEF TypeOK, Phases, Plans, Item1, Reports

(* A new plan or report, with whatever else an action leaves in its type,  *)
(* is all that has to be looked at.                                        *)
Steady ==
  /\ UNCHANGED <<setup, product, store, edits>>
  /\ phase' \in Phases /\ reply' \in {"", "go", "no"}
  /\ cands' \in Seq(Ids) /\ wire' \subseteq Patch
  /\ read' \in Dims \union {None} /\ tokens' \in 0 .. Capacity
  /\ settled' \subseteq Ids \X Uoms

LEMMA SteadyTypes ==
  ASSUME TypeOK, Steady, plan' \in Plans, done' \in 0 .. Len(plan'.to_write), report' \in Reports
  PROVE  TypeOK'
BY DEF TypeOK, Steady, Plans, Item1, Reports

LEMMA PlanSame ==
  ASSUME TypeOK, plan' = plan, done' = done
  PROVE  plan' \in Plans /\ done' \in 0 .. Len(plan'.to_write)
BY DEF TypeOK, Plans, Item1

LEMMA ReportSame ==
  ASSUME TypeOK, report' = report
  PROVE  report' \in Reports
BY DEF TypeOK, Reports

LEMMA StartTypes ==
  ASSUME TypeOK, Start
  PROVE  TypeOK'
<1>1. /\ kind' \in Kinds /\ config' \in Configs /\ scope' \subseteq Codes
      /\ UNCHANGED <<product, store, wire, edits, table, settled>>
      /\ done' = 0 /\ reply' = "" /\ read' = None /\ tokens' = Capacity
      /\ runs' = runs + 1 /\ runs < MaxRuns
      /\ plan' = NoPlan /\ report' = NoReport
  BY RunsAssumption DEF Start
<1>2. <<>> \in Seq(Ids) /\ <<>> \in Seq(Item1) /\ Len(<<>>) = 0
  OBVIOUS
<1>3. plan' \in Plans /\ Len(plan'.to_write) = 0 /\ report' \in Reports
  BY <1>1, <1>2 DEF NoPlan, NoReport, Plans, Reports, Errors
<1>4. phase' \in Phases
  BY DEF Start, FirstPhase, Phases, Ended
<1>5. cands' \in Seq(Ids)
  <2>1. Candidates(kind', scope') \subseteq Ids /\ IsFiniteSet(Ids)
    BY RunsAssumption DEF Candidates
  <2>2. Cardinality(Candidates(kind', scope')) \in Nat
    BY <2>1, FS_Subset, FS_CardinalityType
  <2>3. InSearchOrder(Candidates(kind', scope')) \subseteq Seq(Ids)
    BY <2>1, <2>2 DEF InSearchOrder
  <2> QED BY <1>2, <2>3 DEF Start
<1>6. tokens' \in 0 .. Capacity /\ runs' \in 0 .. MaxRuns /\ done' \in 0 .. Len(plan'.to_write)
  <2>1. tokens' = Capacity /\ runs' = runs + 1 /\ runs < MaxRuns /\ done' = 0
        /\ Len(plan'.to_write) = 0 /\ runs \in 0 .. MaxRuns
    BY <1>1, <1>3 DEF TypeOK
  <2> QED BY <2>1, CapacityCovers, RunsAssumption
<1> QED BY <1>1, <1>3, <1>4, <1>5, <1>6 DEF TypeOK, Plans, Item1, Reports

(* The next candidate, and the item planned of it.                         *)
LEMMA NextCandidate ==
  ASSUME TypeOK, cands # <<>>
  PROVE  /\ Head(cands) \in Ids /\ Tail(cands) \in Seq(Ids)
         /\ \A u : u \in Uoms \union {NoUom} /\ BaseCode(Head(cands)) # NoBase =>
              [id |-> Head(cands), uom |-> u, want |-> Wanted(Head(cands))] \in Item1
<1>1. Head(cands) \in Ids /\ Tail(cands) \in Seq(Ids)
  BY HeadTailProperties DEF TypeOK
<1> QED BY <1>1, WantedType DEF Item1

LEMMA UomType ==
  ASSUME TypeOK, NEW i \in Ids
  PROVE  TargetUom(i) \in Uoms \union {NoUom} /\ product[i].default \in Uoms \union {NoUom}
BY ItemAssumption DEF TypeOK, Product, TargetUom

LEMMA PlanTypes ==
  ASSUME TypeOK, PlanInv, PlanNext \/ Planned \/ SelectNext \/ NoneSelected
  PROVE  TypeOK'
<1>0. /\ plan \in Plans /\ plan.to_write \in Seq(Item1) /\ plan.no_ops \in Seq(Ids)
      /\ plan.skipped \in Seq(Ids) /\ done \in Nat /\ done <= Len(plan.to_write)
      /\ Len(plan.to_write) \in Nat
  BY PlanFacts DEF Plans
<1>1. CASE PlanNext
  <2> DEFINE i == Head(cands)
             item == [id |-> i, uom |-> TargetUom(i), want |-> Wanted(i)]
  <2>1. cands # <<>> /\ i \in Ids /\ Tail(cands) \in Seq(Ids)
    BY <1>1, NextCandidate DEF PlanNext
  <2>2. CASE Blocked(i)
    <3>1. plan' = [plan EXCEPT !.skipped = Append(plan.skipped, i)]
      BY <1>1, <2>2 DEF PlanNext
    <3>2. Append(plan.skipped, i) \in Seq(Ids)
      BY <1>0, <2>1, AppendProperties
    <3>3. plan' \in Plans /\ plan'.to_write = plan.to_write
      BY <1>0, <3>1, <3>2 DEF Plans
    <3> QED BY <1>0, <1>1, <2>1, <3>3, SteadyTypes, ReportSame
            DEF PlanNext, Steady, TypeOK
  <2>3. CASE ~Blocked(i) /\ IsEmpty(ComputeDiff(DimsOf(i, TargetUom(i)), Wanted(i)))
    <3>1. plan' = [plan EXCEPT !.no_ops = Append(plan.no_ops, i)]
      BY <1>1, <2>3 DEF PlanNext
    <3>2. Append(plan.no_ops, i) \in Seq(Ids)
      BY <1>0, <2>1, AppendProperties
    <3>3. plan' \in Plans /\ plan'.to_write = plan.to_write
      BY <1>0, <3>1, <3>2 DEF Plans
    <3> QED BY <1>0, <1>1, <2>1, <3>3, SteadyTypes, ReportSame
            DEF PlanNext, Steady, TypeOK
  <2>4. CASE ~Blocked(i) /\ ~IsEmpty(ComputeDiff(DimsOf(i, TargetUom(i)), Wanted(i)))
    <3>1. plan' = [plan EXCEPT !.to_write = Append(plan.to_write, item)]
      BY <1>1, <2>4 DEF PlanNext
    <3>2. item \in Item1
      BY <2>1, <2>4, NextCandidate, UomType DEF Blocked
    <3>3. /\ Append(plan.to_write, item) \in Seq(Item1)
          /\ Len(Append(plan.to_write, item)) = Len(plan.to_write) + 1
      BY <1>0, <3>2, AppendProperties
    <3>4. plan' \in Plans /\ Len(plan'.to_write) = Len(plan.to_write) + 1
      BY <1>0, <3>1, <3>3 DEF Plans
    <3>5. done' = done /\ done' \in 0 .. Len(plan'.to_write)
      BY <1>0, <1>1, <3>4 DEF PlanNext
    <3> QED BY <1>1, <2>1, <3>4, <3>5, SteadyTypes, ReportSame
            DEF PlanNext, Steady, TypeOK
  <2> QED BY <2>2, <2>3, <2>4
<1>2. CASE Planned
  BY <1>2, SteadyTypes, PlanSame, ReportSame DEF Planned, Steady, TypeOK, Phases, Ended
<1>3. CASE SelectNext
  <2> DEFINE i == Head(cands)
             u == product[i].default
             item == [id |-> i, uom |-> u, want |-> Wanted(i)]
  <2>1. cands # <<>> /\ i \in Ids /\ Tail(cands) \in Seq(Ids) /\ done' = done /\ done = 0
    BY <1>3, NextCandidate DEF SelectNext, PlanInv, PhasesOK
  <2>2. plan' \in Plans
    <3>1. CASE plan' = [plan EXCEPT !.skipped = Append(plan.skipped, i)]
      <4>1. Append(plan.skipped, i) \in Seq(Ids)
        BY <1>0, <2>1, AppendProperties
      <4> QED BY <1>0, <3>1, <4>1 DEF Plans
    <3>2. CASE BaseCode(i) # NoBase /\ plan' = [plan EXCEPT !.to_write = <<item>>]
      <4>1. item \in Item1
        BY <2>1, <3>2, NextCandidate, UomType
      <4>2. <<item>> \in Seq(Item1)
        BY <4>1
      <4> QED BY <1>0, <3>2, <4>2 DEF Plans
    <3> QED BY <1>3, <3>1, <3>2 DEF SelectNext
  <2>3. done' \in 0 .. Len(plan'.to_write)
    <3>1. Len(plan'.to_write) \in Nat
      BY <2>2 DEF Plans
    <3> QED BY <2>1, <3>1
  <2>4. phase' \in Phases
    BY <1>3 DEF SelectNext, TypeOK, Phases
  <2> QED BY <1>3, <2>1, <2>2, <2>3, <2>4, SteadyTypes, ReportSame
          DEF SelectNext, Steady, TypeOK
<1>4. CASE NoneSelected
  BY <1>4, SteadyTypes, PlanSame, ReportSame DEF NoneSelected, Steady, TypeOK, Phases, Ended
<1> QED BY <1>1, <1>2, <1>3, <1>4

(* The plan of a proving run, all at once.                                 *)
LEMMA Proved ==
  ASSUME TypeOK, PlanProving
  PROVE  /\ plan' \in Plans
         /\ \A k \in 1 .. Len(plan'.to_write) :
              /\ plan'.to_write[k].id \in Resolvable
              /\ plan'.to_write[k].want = Wanted(plan'.to_write[k].id)
              /\ plan'.to_write[k].uom = NoUom
<1>1. Selected \subseteq Resolvable /\ Resolvable \subseteq Ids
  BY DEF Selected, Representatives, Resolvable, LiveCandidates
<1>2. Cardinality(Selected) \in Nat
  BY <1>1, RunsAssumption, FS_Subset, FS_CardinalityType
<1>3. PICK s \in [1 .. Cardinality(Selected) -> Selected] :
        plan' = [plan EXCEPT !.to_write =
                   [k \in DOMAIN s |-> [id |-> s[k], uom |-> NoUom, want |-> Wanted(s[k])]]]
  BY DEF PlanProving, InCodeOrder
<1> DEFINE n == Cardinality(Selected)
           items == [k \in 1 .. n |-> [id |-> s[k], uom |-> NoUom, want |-> Wanted(s[k])]]
<1>4. ASSUME NEW k \in 1 .. n PROVE items[k] \in Item1
  <2>1. s[k] \in Ids /\ BaseCode(s[k]) # NoBase
    BY <1>1, <1>3, <1>4 DEF Resolvable, LiveCandidates
  <2> QED BY <1>4, <2>1, WantedType DEF Item1
<1>5. plan' = [plan EXCEPT !.to_write = items]
  BY <1>3
<1>6. items = [k \in 1 .. n |-> items[k]]
  OBVIOUS
<1>7. \A k \in 1 .. n : /\ items[k].id \in Resolvable
                        /\ items[k].want = Wanted(items[k].id) /\ items[k].uom = NoUom
  BY <1>1
<1> HIDE DEF items
<1>8. items \in Seq(Item1) /\ Len(items) = n
  BY <1>2, <1>4, <1>6
<1>9. plan \in Plans
  BY PlanFacts
<1>10. plan' \in Plans /\ plan'.to_write = items
  BY <1>5, <1>8, <1>9 DEF Plans
<1> QED BY <1>7, <1>8, <1>10

LEMMA ProvingTypes ==
  ASSUME TypeOK, PlanInv, PlanProving \/ NextTarget \/ TypeCode
  PROVE  TypeOK'
<1>0. /\ plan \in Plans /\ plan.to_write \in Seq(Item1)
      /\ done \in Nat /\ done <= Len(plan.to_write) /\ Len(plan.to_write) \in Nat
  BY PlanFacts
<1>1. CASE PlanProving
  <2>1. plan' \in Plans
    BY <1>1, Proved
  <2>2. done' = done /\ done = 0
    BY <1>1 DEF PlanProving, PlanInv, PhasesOK
  <2>3. done' \in 0 .. Len(plan'.to_write)
    <3>1. Len(plan'.to_write) \in Nat
      BY <2>1 DEF Plans
    <3> QED BY <2>2, <3>1
  <2>4. phase' \in Phases
    BY <1>1 DEF PlanProving, Phases, Ended
  <2> QED BY <1>1, <2>1, <2>3, <2>4, SteadyTypes, ReportSame DEF PlanProving, Steady, TypeOK
<1>2. ASSUME Skip, done < Len(plan.to_write), done' = done
      PROVE  plan' \in Plans /\ done' \in 0 .. Len(plan'.to_write)
  <2>1. plan' \in Plans /\ Len(plan'.to_write) = Len(plan.to_write) - 1
    BY <1>2, SkipFacts
  <2> QED BY <1>0, <1>2, <2>1
<1>3. CASE NextTarget
  <2>1. done < Len(plan.to_write) /\ Item \in Item1 /\ done + 1 \in 1 .. Len(plan.to_write)
    BY <1>3, PlanFacts DEF NextTarget
  <2>2. done' = done /\ phase' \in Phases
    BY <1>3 DEF NextTarget, TypeOK, Phases
  <2>3. plan' \in Plans /\ done' \in 0 .. Len(plan'.to_write)
    <3>1. CASE Skip
      BY <1>2, <2>1, <2>2, <3>1
    <3>2. CASE plan' = [plan EXCEPT !.to_write[done + 1].uom = product[Item.id].default]
      <4> DEFINE u == product[Item.id].default
                 s == [plan.to_write EXCEPT ![done + 1].uom = u]
      <4>1. u \in Uoms \union {NoUom}
        BY <2>1, UomType DEF Item1
      <4>2. plan.to_write[done + 1] \in Item1
        BY <2>1 DEF Item
      <4>3. [plan.to_write[done + 1] EXCEPT !.uom = u] \in Item1
        BY <4>1, <4>2 DEF Item1
      <4>4. s = [plan.to_write EXCEPT ![done + 1] = [plan.to_write[done + 1] EXCEPT !.uom = u]]
        BY <1>0, <2>1
      <4>5. s \in Seq(Item1) /\ Len(s) = Len(plan.to_write)
        BY <1>0, <2>1, <4>3, <4>4, ExceptSeq
      <4>6. plan' = [plan EXCEPT !.to_write = s]
        BY <1>0, <3>2 DEF Plans
      <4> HIDE DEF s
      <4>7. plan' \in Plans /\ plan'.to_write = s
        BY <1>0, <4>5, <4>6 DEF Plans
      <4> QED BY <1>0, <2>2, <4>5, <4>7
    <3> QED BY <1>3, <3>1, <3>2 DEF NextTarget
  <2> QED BY <1>3, <2>2, <2>3, SteadyTypes, ReportSame DEF NextTarget, Steady, TypeOK
<1>4. CASE TypeCode
  <2>1. done < Len(plan.to_write) /\ done' = done
    BY <1>4 DEF TypeCode, PlanInv, PhasesOK
  <2>2. plan' \in Plans /\ done' \in 0 .. Len(plan'.to_write)
    <3>1. CASE Skip
      BY <1>2, <2>1, <3>1
    <3>2. CASE plan' = plan
      BY <2>1, <3>2, PlanSame
    <3> QED BY <1>4, <3>1, <3>2 DEF TypeCode
  <2>3. tokens' \in 0 .. Capacity
    <3>1. tokens' \in {tokens, Refill(Pace)} /\ tokens \in 0 .. Capacity
      BY <1>4 DEF TypeCode, TypeOK
    <3> QED BY <3>1, RefillType
  <2>4. phase' \in Phases /\ reply' \in {"", "go", "no"}
    BY <1>4 DEF TypeCode, Phases
  <2> QED BY <1>4, <2>2, <2>3, <2>4, SteadyTypes, ReportSame DEF TypeCode, Steady, TypeOK
<1> QED BY <1>1, <1>3, <1>4

LEMMA LoopTypes ==
  ASSUME TypeOK, Confirm \/ NextItem \/ Complete
  PROVE  TypeOK'
<1>0. <<>> \in Seq(Ids) /\ <<>> \in Seq(Item1) /\ "" \in Errors /\ plan.to_write \in Seq(Item1)
  BY PlanFacts DEF Errors
<1>1. CASE Confirm
  <2>1. report' \in Reports
    <3>1. CASE Report(<<>>, "", TRUE, plan.to_write)
      BY <1>0, <3>1, ReportType
    <3>2. CASE report' = report
      BY <3>2, ReportSame
    <3> QED BY <1>1, <3>1, <3>2 DEF Confirm
  <2>2. phase' \in Phases /\ reply' \in {"", "go", "no"}
    BY <1>1 DEF Confirm, Phases, Ended
  <2> QED BY <1>1, <2>1, <2>2, SteadyTypes, PlanSame DEF Confirm, Steady, TypeOK
<1>2. CASE NextItem
  <2>1. tokens' \in 0 .. Capacity
    BY <1>2, RefillType DEF NextItem, TypeOK
  <2> QED BY <1>2, <2>1, SteadyTypes, PlanSame, ReportSame DEF NextItem, Steady, TypeOK, Phases
<1>3. CASE Complete
  <2>1. report' \in Reports
    BY <1>0, <1>3, ReportType DEF Complete
  <2> QED BY <1>3, <2>1, SteadyTypes, PlanSame DEF Complete, Steady, TypeOK, Phases, Ended
<1> QED BY <1>1, <1>2, <1>3

(* An item at hand that fails.                                             *)
LEMMA FailTypes ==
  ASSUME TypeOK, PlanInv, phase \in Writing, NEW error \in Errors, Fail(error)
  PROVE  report' \in Reports /\ phase' \in Phases
<1>1. done < Len(plan.to_write)
  BY DEF PlanInv, PhasesOK
<1> QED BY <1>1, FailType DEF Phases, Ended

LEMMA ItemTypes ==
  ASSUME TypeOK, PlanInv, WriteItem
  PROVE  TypeOK'
<1>1. /\ "rate_limited" \in Errors /\ "unreadable" \in Errors /\ "write_refused" \in Errors
      /\ "timed_out" \in Errors /\ "mismatch" \in Errors
  BY DEF Errors
<1>2. phase \in Writing => Item \in Item1 /\ Item.uom # NoUom /\ done < Len(plan.to_write)
  BY PlanFacts DEF PlanInv, PhasesOK, UomsRead, Item
<1>3. phase \in Writing => Item.id \in Ids /\ Item.uom \in Uoms /\ Item.want \in Desired
  BY <1>2 DEF Item1
<1>4. CASE CheckRate
  <2>1. tokens' \in 0 .. Capacity
    <3>1. tokens' = tokens \/ (tokens >= Minute /\ tokens' = tokens - Minute)
      BY <1>4 DEF CheckRate
    <3>2. tokens \in 0 .. Capacity /\ Minute \in Nat /\ Capacity \in Nat
      BY ItemAssumption, CapacityCovers DEF TypeOK
    <3> QED BY <3>1, <3>2
  <2>2. report' \in Reports /\ phase' \in Phases
    <3>1. CASE Fail("rate_limited")
      BY <1>1, <1>4, <3>1, FailTypes DEF CheckRate
    <3>2. CASE report' = report /\ phase' = "reading"
      BY <3>2, ReportSame DEF Phases
    <3> QED BY <1>4, <3>1, <3>2 DEF CheckRate
  <2> QED BY <1>4, <2>1, <2>2, SteadyTypes, PlanSame DEF CheckRate, Steady, TypeOK
<1>5. CASE ReadItem
  <2>1. report' \in Reports /\ phase' \in Phases
    <3>1. CASE Fail("unreadable")
      BY <1>1, <1>5, <3>1, FailTypes DEF ReadItem
    <3>2. CASE report' = report /\ phase' = "deciding"
      BY <3>2, ReportSame DEF Phases
    <3> QED BY <1>5, <3>1, <3>2 DEF ReadItem
  <2>2. read' \in Dims \union {None}
    <3>1. read' = read \/ read' = DimsOf(Item.id, Item.uom)
      BY <1>5 DEF ReadItem
    <3>2. Item.id \in Ids
      BY <1>3, <1>5 DEF ReadItem
    <3>3. DimsOf(Item.id, Item.uom) \in Dims
      BY <3>2, DimsOfType
    <3>4. read \in Dims \union {None}
      BY DEF TypeOK
    <3> QED BY <3>1, <3>3, <3>4
  <2> QED BY <1>5, <2>1, <2>2, SteadyTypes, PlanSame DEF ReadItem, Steady, TypeOK
<1>6. CASE SendItem
  <2> DEFINE patch == [id |-> Item.id, uom |-> Item.uom, ops |-> ComputeDiff(read, Item.want),
                       run |-> runs, kind |-> kind, armed |-> config.live_promotion]
  <2>1. report' \in Reports /\ phase' \in Phases
    <3>1. CASE Fail("write_refused")
      BY <1>1, <1>6, <3>1, FailTypes DEF SendItem
    <3>2. CASE report' = report /\ phase' \in {"verifying", "awaiting"}
      BY <3>2, ReportSame DEF Phases
    <3> QED BY <1>6, <3>1, <3>2 DEF SendItem
  <2>2. wire' \subseteq Patch
    <3>1. runs \in 1 .. MaxRuns
      <4>1. runs \in 0 .. MaxRuns /\ MaxRuns \in Nat /\ runs # 0
        BY <1>6, RunsAssumption DEF SendItem, TypeOK, PlanInv, PhasesOK
      <4> QED BY <4>1
    <3>2. ComputeDiff(read, Item.want) \in Desired
      BY <1>3, <1>6, ComputeDiffType DEF SendItem
    <3>3. config.live_promotion \in BOOLEAN /\ kind \in Kinds
      BY DEF TypeOK, Configs
    <3>4. patch \in Patch
      BY <1>3, <1>6, <3>1, <3>2, <3>3 DEF SendItem, Patch
    <3>5. wire' = wire \/ wire' = wire \union {patch}
      BY <1>6 DEF SendItem
    <3> QED BY <3>4, <3>5 DEF TypeOK
  <2> QED BY <1>6, <2>1, <2>2, SteadyTypes, PlanSame DEF SendItem, Steady, TypeOK
<1>7. CASE TimeOut
  <2>1. report' \in Reports /\ phase' \in Phases
    BY <1>1, <1>7, FailTypes DEF TimeOut
  <2> QED BY <1>7, <2>1, SteadyTypes, PlanSame DEF TimeOut, Steady, TypeOK
<1>8. CASE Verify
  <2>1. report' \in Reports /\ phase' \in Phases
    <3>1. CASE Fail("mismatch") \/ Fail("unreadable")
      BY <1>1, <1>8, <3>1, FailTypes DEF Verify
    <3>2. CASE report' = report /\ phase' = "between"
      BY <3>2, ReportSame DEF Phases
    <3> QED BY <1>8, <3>1, <3>2 DEF Verify
  <2>2. plan' \in Plans /\ done' \in 0 .. Len(plan'.to_write)
    <3>1. done' = done \/ done' = done + 1
      BY <1>8 DEF Verify
    <3>2. plan' = plan /\ done < Len(plan.to_write) /\ Len(plan.to_write) \in Nat /\ done \in Nat
          /\ plan \in Plans
      BY <1>2, <1>8, PlanFacts DEF Verify
    <3> QED BY <3>1, <3>2
  <2>3. settled' \subseteq Ids \X Uoms
    <3>1. settled' = settled \/ settled' = settled \union {<<Item.id, Item.uom>>}
      BY <1>8 DEF Verify
    <3>2. Item.id \in Ids /\ Item.uom \in Uoms
      BY <1>3, <1>8 DEF Verify
    <3>3. <<Item.id, Item.uom>> \in Ids \X Uoms /\ settled \subseteq Ids \X Uoms
      BY <3>2 DEF TypeOK
    <3> QED BY <3>1, <3>3
  <2> QED BY <1>8, <2>1, <2>2, <2>3, SteadyTypes DEF Verify, Steady, TypeOK
<1>9. CASE Crash
  BY <1>9, SteadyTypes, PlanSame, ReportSame DEF Crash, Steady, TypeOK, Phases, Ended
<1> QED BY <1>4, <1>5, <1>6, <1>7, <1>8, <1>9 DEF WriteItem

LEMMA StoreType ==
  ASSUME NEW st \in [Ids -> [Uoms -> Dims]], NEW i \in Ids, NEW u \in Uoms, NEW d \in Dims
  PROVE  [st EXCEPT ![i][u] = d] \in [Ids -> [Uoms -> Dims]]
OBVIOUS

LEMMA KeptType ==
  ASSUME NEW ops \in Desired, NEW dropped
  PROVE  [f \in DOMAIN ops \ dropped |-> ops[f]] \in Desired
<1>1. DOMAIN ops \subseteq Fields /\ \A f \in DOMAIN ops : ops[f] \in Values
  BY DesiredType
<1> DEFINE D == DOMAIN ops \ dropped
<1>2. D \in SUBSET Fields /\ [f \in D |-> ops[f]] \in [D -> Values]
  BY <1>1
<1> QED BY <1>2, DesiredIntro

LEMMA OthersTypes ==
  ASSUME TypeOK, PlanInv, Others
  PROVE  TypeOK'
<1>0. /\ store \in [Ids -> [Uoms -> Dims]] /\ product \in [Ids -> Product]
      /\ \A m \in wire : m.id \in Ids /\ m.uom \in Uoms /\ m.ops \in Desired
  BY DEF TypeOK, Patch
<1>1. ASSUME NEW m \in wire, Land(m) PROVE TypeOK'
  <2>1. PICK dropped \in SUBSET (Droppable \intersect DOMAIN m.ops) :
          LET kept == [f \in DOMAIN m.ops \ dropped |-> m.ops[f]]
          IN  store' = [store EXCEPT ![m.id][m.uom] = Patched(store[m.id][m.uom], kept)]
    BY <1>1 DEF Land
  <2> DEFINE kept == [f \in DOMAIN m.ops \ dropped |-> m.ops[f]]
             d == Patched(store[m.id][m.uom], kept)
  <2>2. d \in Dims
    <3>1. kept \in Desired
      BY <1>0, KeptType
    <3> HIDE DEF kept
    <3> QED BY <1>0, <3>1, PatchedType
  <2>3. store' = [store EXCEPT ![m.id][m.uom] = d]
    BY <2>1
  <2> HIDE DEF d
  <2>4. store' \in [Ids -> [Uoms -> Dims]]
    BY <1>0, <2>2, <2>3, StoreType
  <2> QED BY <1>1, <2>4 DEF Land, TypeOK, Phases
<1>2. ASSUME NEW m \in wire, RejectPoisoned(m) PROVE TypeOK'
  <2>1. report' \in Reports /\ phase' \in Phases
    <3>1. CASE Awaited(m) /\ Fail("poisoned")
      <4>1. "poisoned" \in Errors /\ phase \in Writing
        BY <3>1 DEF Errors, Awaited
      <4> QED BY <3>1, <4>1, FailTypes
    <3>2. CASE UNCHANGED <<phase, report>>
      BY <3>2, ReportSame DEF TypeOK
    <3> QED BY <1>2, <3>1, <3>2 DEF RejectPoisoned
  <2>2. wire' \subseteq Patch
    BY <1>2 DEF RejectPoisoned, TypeOK
  <2> QED BY <1>2, <2>1, <2>2, SteadyTypes, PlanSame DEF RejectPoisoned, Steady, TypeOK
<1>3. ASSUME NEW m \in wire, Lose(m) PROVE TypeOK'
  BY <1>3 DEF Lose, TypeOK
<1>4. ASSUME NEW i \in Ids, NEW u \in Uoms, NEW f \in Fields, NEW v \in Values \union {Unset},
             EditDims(i, u, f, v)
      PROVE  TypeOK'
  <2>1. store' = [store EXCEPT ![i][u] = [store[i][u] EXCEPT ![f] = v]]
    BY <1>0, <1>4 DEF EditDims
  <2>2. [store[i][u] EXCEPT ![f] = v] \in Dims
    BY <1>0, <1>4 DEF Dims
  <2>3. store' \in [Ids -> [Uoms -> Dims]]
    BY <1>0, <1>4, <2>1, <2>2, StoreType
  <2>4. edits' \in 0 .. MaxEdits
    <3>1. edits' = edits + 1 /\ edits < MaxEdits
      BY <1>4 DEF EditDims
    <3>2. edits \in 0 .. MaxEdits /\ MaxEdits \in Nat
      BY RunsAssumption DEF TypeOK
    <3> QED BY <3>1, <3>2
  <2>5. settled' \subseteq Ids \X Uoms
    BY <1>4 DEF EditDims, TypeOK
  <2> QED BY <1>4, <2>3, <2>4, <2>5 DEF EditDims, TypeOK
<1>5. ASSUME NEW i \in Ids, NEW u \in Uoms, Rename(i, u) PROVE TypeOK'
  <2> DEFINE names == product[i].badly_named
             renamed == IF u \in names THEN names \ {u} ELSE names \union {u}
  <2>1. product' = [product EXCEPT ![i] = [product[i] EXCEPT !.badly_named = renamed]]
    BY <1>0, <1>5 DEF Rename
  <2>2. [product[i] EXCEPT !.badly_named = renamed] \in Product
    <3>1. product[i] \in Product /\ renamed \subseteq Uoms
      BY <1>0, <1>5 DEF Product
    <3> HIDE DEF renamed
    <3> QED BY <3>1 DEF Product
  <2>3. product' \in [Ids -> Product]
    BY <1>0, <2>1, <2>2
  <2>4. edits' \in 0 .. MaxEdits
    <3>1. edits' = edits + 1 /\ edits < MaxEdits
      BY <1>5 DEF Rename
    <3>2. edits \in 0 .. MaxEdits /\ MaxEdits \in Nat
      BY RunsAssumption DEF TypeOK
    <3> QED BY <3>1, <3>2
  <2> QED BY <1>5, <2>3, <2>4 DEF Rename, TypeOK
<1> QED BY <1>1, <1>2, <1>3, <1>4, <1>5 DEF Others

LEMMA TypesKept ==
  ASSUME TypeOK, PlanInv, Next
  PROVE  TypeOK'
BY StartTypes, PlanTypes, ProvingTypes, LoopTypes, ItemTypes, OthersTypes
   DEF Next, Run, Operator
-----------------------------------------------------------------------------
(* The plan.                                                               *)
(* What no step changes: the captured table, and of a product all but the  *)
(* names of its units of measure.                                          *)
SameProduct(i) ==
  /\ product'[i].owner = product[i].owner /\ product'[i].code = product[i].code
  /\ product'[i].uoms = product[i].uoms /\ product'[i].default = product[i].default

Constant == table' = table /\ \A i \in Ids : SameProduct(i)

LEMMA ConstantKept ==
  ASSUME TypeOK, Next
  PROVE  Constant
<1>1. CASE UNCHANGED <<table, product>>
  BY <1>1 DEF Constant, SameProduct
<1>2. ASSUME NEW j \in Ids, NEW u \in Uoms, Rename(j, u) PROVE Constant
  <2>1. product \in [Ids -> Product] /\ UNCHANGED table
    BY <1>2 DEF Rename, TypeOK
  <2> DEFINE renamed == IF u \in product[j].badly_named THEN product[j].badly_named \ {u}
                        ELSE product[j].badly_named \union {u}
  <2>2. product' = [product EXCEPT ![j].badly_named = renamed]
    BY <1>2 DEF Rename
  <2> HIDE DEF renamed
  <2>3. ASSUME NEW i \in Ids PROVE SameProduct(i)
    BY <2>1, <2>2, <2>3 DEF SameProduct, Product
  <2> QED BY <2>1, <2>3 DEF Constant
<1>3. \/ UNCHANGED <<table, product>>
      \/ \E j \in Ids, u \in Uoms : Rename(j, u)
  BY DEF Next, Run, Operator, Others, Start, PlanNext, Planned, SelectNext, NoneSelected,
         PlanProving, NextItem, NextTarget, WriteItem, CheckRate, ReadItem, SendItem, TimeOut,
         Verify, Crash, Complete, Confirm, TypeCode, Land, RejectPoisoned, Lose, EditDims
<1> QED BY <1>1, <1>2, <1>3

LEMMA SameMeaning ==
  ASSUME Constant, NEW i \in Ids
  PROVE  /\ BaseCode(i)' = BaseCode(i) /\ Wanted(i)' = Wanted(i)
         /\ \A k : UomFor(k, i)' = UomFor(k, i)
<1>1. SameProduct(i) /\ table' = table
  BY DEF Constant
<1>2. BaseCode(i)' = BaseCode(i)
  BY <1>1 DEF BaseCode, SameProduct
<1>3. Wanted(i)' = Wanted(i)
  BY <1>1, <1>2 DEF Wanted
<1> QED BY <1>1, <1>2, <1>3 DEF UomFor, SameProduct

LEMMA ItemStays ==
  ASSUME TypeOK, Constant, kind' = kind, NEW x \in Item1, ItemOK(x)
  PROVE  ItemOK(x)'
<1>1. x.id \in Ids
  BY DEF Item1
<1>2. SameProduct(x.id)
  BY <1>1 DEF Constant
<1> QED BY <1>1, <1>2, SameMeaning DEF ItemOK, SameProduct, CustomerOf

LEMMA ProductsKept ==
  ASSUME ProductsOK, Constant
  PROVE  ProductsOK'
BY DEF ProductsOK, Constant, SameProduct

(* New items, each what it should be before the step, are so after it.     *)
LEMMA ItemsFrom ==
  ASSUME TypeOK, Constant, kind' = kind, plan' \in Plans,
         \A k \in 1 .. Len(plan'.to_write) : ItemOK(plan'.to_write[k])
  PROVE  ItemsOK'
<1>1. PICK items \in Seq(Item1) :
        plan'.to_write = items /\ \A k \in 1 .. Len(items) : ItemOK(items[k])
  BY DEF Plans
<1>2. ASSUME NEW k \in 1 .. Len(items) PROVE ItemOK(items[k])'
  BY <1>1, <1>2, ItemStays
<1> QED BY <1>1, <1>2 DEF ItemsOK, ItemOK

LEMMA CandsFrom ==
  ASSUME TypeOK, Constant, kind' = kind, cands' \in Seq(Ids),
         \A k \in 1 .. Len(cands') : product[cands'[k]].owner = CustomerOf(kind)
  PROVE  CandsOK'
<1> SUFFICES ASSUME NEW k \in 1 .. Len(cands')
             PROVE  product'[cands'[k]].owner = CustomerOf(kind')
  BY DEF CandsOK, CustomerOf
<1>1. cands'[k] \in Ids
  OBVIOUS
<1> QED BY <1>1 DEF Constant, SameProduct

(* A step that leaves the list alone.                                      *)
LEMMA ListSame ==
  ASSUME TypeOK, PlanInv, Constant, UNCHANGED <<kind, plan, done, cands>>,
         kind = "proving" /\ phase' \in Writing \union {"confirming"}
           => phase \in Writing \union {"confirming"}
  PROVE  ProductsOK' /\ CandsOK' /\ ItemsOK' /\ UomsRead'
<1>1. CandsOK'
  BY CandsFrom DEF PlanInv, CandsOK, TypeOK
<1>2. ItemsOK'
  BY ItemsFrom, PlanFacts DEF PlanInv, ItemsOK
<1>3. UomsRead'
  BY DEF PlanInv, UomsRead
<1> QED BY <1>1, <1>2, <1>3, ProductsKept DEF PlanInv

(* The candidates of a run belong to its customer.                         *)
LEMMA PlanStarted ==
  ASSUME TypeOK, PlanInv, Constant, Start
  PROVE  PlanInv'
<1>1. Len(<<>>) = 0
  OBVIOUS
<1>2. plan'.to_write = <<>> /\ done' = 0 /\ product' = product /\ runs' = runs + 1
  BY DEF Start, NoPlan
<1>3. Len(plan'.to_write) = 0
  BY <1>1, <1>2
<1>4. phase' \in Ended \union {"planning"} /\ runs' # 0
  <2>1. runs \in 0 .. MaxRuns /\ MaxRuns \in Nat
    BY RunsAssumption DEF TypeOK
  <2>2. phase' \in Ended \union {"planning"}
    BY DEF Start, FirstPhase, Ended
  <2> QED BY <1>2, <2>1, <2>2
<1>5. ItemsOK' /\ UomsRead'
  BY <1>3 DEF ItemsOK, UomsRead
<1>6. PhasesOK'
  BY <1>2, <1>4 DEF PhasesOK, Ended
<1>7. CandsOK'
  <2>1. CASE cands' = <<>>
    BY <1>1, <2>1 DEF CandsOK
  <2>2. CASE cands' \in InSearchOrder(Candidates(kind', scope'))
    <3> DEFINE S == Candidates(kind', scope')
    <3>1. \A i \in S : product[i].owner = CustomerOf(kind')
      BY DEF Candidates
    <3>2. cands' \in [1 .. Cardinality(S) -> S] /\ Cardinality(S) \in Nat
      <4>1. S \in SUBSET Ids /\ IsFiniteSet(Ids)
        BY RunsAssumption DEF Candidates
      <4>2. Cardinality(S) \in Nat
        BY <4>1, FS_Subset, FS_CardinalityType
      <4> QED BY <2>2, <4>2 DEF InSearchOrder
    <3> HIDE DEF S
    <3>3. \A k \in 1 .. Len(cands') : cands'[k] \in S
      BY <3>2
    <3> QED BY <1>2, <3>1, <3>3 DEF CandsOK, CustomerOf
  <2> QED BY <2>1, <2>2 DEF Start
<1>8. ProductsOK'
  BY ProductsKept DEF PlanInv
<1> QED BY <1>5, <1>6, <1>7, <1>8 DEF PlanInv

LEMMA TailOwned ==
  ASSUME TypeOK, CandsOK, Constant, kind' = kind, cands # <<>>, cands' = Tail(cands)
  PROVE  CandsOK' /\ product[Head(cands)].owner = CustomerOf(kind)
<1>a. cands \in Seq(Ids)
  BY DEF TypeOK
<1>0. cands \in Seq(Ids) /\ Len(cands) \in Nat
  BY <1>a, LenProperties
<1>1. /\ Tail(cands) \in Seq(Ids) /\ Len(Tail(cands)) = Len(cands) - 1
      /\ \A k \in 1 .. Len(Tail(cands)) : Tail(cands)[k] = cands[k + 1]
      /\ Len(cands) \in Nat /\ cands \in Seq(Ids)
  BY <1>0, HeadTailProperties
<1>2. \A k \in 1 .. Len(Tail(cands)) : k + 1 \in 1 .. Len(cands)
  BY <1>1
<1>3. \A k \in 1 .. Len(cands') : product[cands'[k]].owner = CustomerOf(kind)
  BY <1>1, <1>2 DEF CandsOK
<1>4. Len(cands) >= 1 /\ Head(cands) = cands[1]
  <2>1. Len(cands) # 0
    BY <1>1, EmptySeq
  <2> QED BY <1>1, <2>1
<1>5. product[Head(cands)].owner = CustomerOf(kind)
  BY <1>1, <1>4 DEF CandsOK
<1> QED BY <1>1, <1>3, <1>5, CandsFrom

LEMMA PlanPlanned ==
  ASSUME TypeOK, PlanInv, Constant, PlanNext \/ Planned \/ SelectNext \/ NoneSelected
  PROVE  PlanInv'
<1>0. /\ plan \in Plans /\ plan.to_write \in Seq(Item1) /\ done = 0 /\ phase = "planning"
      /\ Len(plan.to_write) \in Nat /\ kind # "proving" /\ runs # 0
  BY PlanFacts DEF PlanInv, PhasesOK, PlanNext, Planned, SelectNext, NoneSelected
<1>1. UNCHANGED <<setup, done, reply>>
  BY DEF PlanNext, Planned, SelectNext, NoneSelected
<1>2. ProductsOK'
  BY ProductsKept DEF PlanInv
<1>3. PhasesOK'
  <2>1. phase' \in {"planning", "previewed", "confirming", "nothing"}
    BY DEF PlanNext, Planned, SelectNext, NoneSelected
  <2> QED BY <1>0, <1>1, <2>1 DEF PhasesOK
<1>4. CASE plan' = plan /\ cands' = cands
  <2>1. UomsRead'
    BY <1>0, <1>1, <1>4 DEF PlanInv, UomsRead
  <2>2. ItemsOK' /\ CandsOK'
    BY <1>0, <1>1, <1>4, ItemsFrom, CandsFrom DEF PlanInv, ItemsOK, CandsOK, TypeOK
  <2> QED BY <1>2, <1>3, <2>1, <2>2 DEF PlanInv
<1> DEFINE i == Head(cands)
<1>5. CASE plan'.to_write = plan.to_write /\ plan' \in Plans /\ cands # <<>>
           /\ cands' = Tail(cands)
  <2>1. UomsRead'
    BY <1>0, <1>1, <1>5 DEF PlanInv, UomsRead
  <2>2. ItemsOK' /\ CandsOK'
    BY <1>0, <1>1, <1>5, ItemsFrom, TailOwned DEF PlanInv, ItemsOK
  <2> QED BY <1>2, <1>3, <2>1, <2>2 DEF PlanInv
<1>6. ASSUME cands # <<>>, cands' = Tail(cands), plan' \in Plans, NEW n \in Nat,
             Len(plan'.to_write) = n + 1, n <= Len(plan.to_write),
             \A k \in 1 .. n : plan'.to_write[k] = plan.to_write[k],
             plan'.to_write[n + 1] =
               [id |-> i, uom |-> UomFor(kind, i), want |-> Wanted(i)],
             BaseCode(i) # NoBase, UomFor(kind, i) # NoUom
      PROVE  PlanInv'
  <2>1. CandsOK' /\ product[i].owner = CustomerOf(kind)
    BY <1>1, <1>6, TailOwned DEF PlanInv
  <2>2. \A k \in 1 .. n + 1 : k \in 1 .. n \/ k = n + 1
    BY <1>6
  <2>3. \A k \in 1 .. n : k \in 1 .. Len(plan.to_write)
    BY <1>0, <1>6
  <2>4. ItemOK(plan'.to_write[n + 1])
    BY <1>6, <2>1 DEF ItemOK
  <2>5. \A k \in 1 .. Len(plan'.to_write) : ItemOK(plan'.to_write[k])
    BY <1>6, <2>2, <2>3, <2>4 DEF PlanInv, ItemsOK
  <2>6. ItemsOK'
    BY <1>1, <1>6, <2>5, ItemsFrom
  <2>7. \A k \in 1 .. Len(plan'.to_write) : plan'.to_write[k].uom # NoUom
    BY <1>0, <1>6, <2>2, <2>3 DEF PlanInv, UomsRead
  <2>8. UomsRead'
    BY <1>0, <1>1, <2>7 DEF UomsRead
  <2> QED BY <1>2, <1>3, <2>1, <2>6, <2>8 DEF PlanInv
<1>7. CASE PlanNext
  <2> DEFINE u == TargetUom(i)
             item == [id |-> i, uom |-> u, want |-> Wanted(i)]
  <2>1. cands # <<>> /\ cands' = Tail(cands) /\ i \in Ids
    BY <1>7, NextCandidate DEF PlanNext
  <2>2. CASE plan' = [plan EXCEPT !.skipped = Append(plan.skipped, i)]
             \/ plan' = [plan EXCEPT !.no_ops = Append(plan.no_ops, i)]
    <3>1. Append(plan.skipped, i) \in Seq(Ids) /\ Append(plan.no_ops, i) \in Seq(Ids)
      BY <1>0, <2>1, AppendProperties DEF Plans
    <3> QED BY <1>0, <1>5, <2>1, <2>2, <3>1 DEF Plans
  <2>3. CASE plan' = [plan EXCEPT !.to_write = Append(plan.to_write, item)] /\ ~Blocked(i)
    <3>1. BaseCode(i) # NoBase /\ u # NoUom
      BY <2>3 DEF Blocked
    <3>2. u = UomFor(kind, i)
      BY <3>1 DEF TargetUom, UomFor
    <3>3. item \in Item1
      BY <2>1, <3>1, NextCandidate, UomType
    <3>4. plan'.to_write = Append(plan.to_write, item)
      BY <1>0, <2>3 DEF Plans
    <3>5. /\ Len(plan'.to_write) = Len(plan.to_write) + 1
          /\ \A k \in 1 .. Len(plan.to_write) : plan'.to_write[k] = plan.to_write[k]
          /\ plan'.to_write[Len(plan.to_write) + 1] = item
          /\ plan'.to_write \in Seq(Item1)
      BY <1>0, <3>3, <3>4, AppendProperties
    <3>6. plan' \in Plans
      BY <1>0, <2>3, <3>4, <3>5 DEF Plans
    <3>7. Len(plan.to_write) \in Nat /\ Len(plan.to_write) <= Len(plan.to_write)
      BY <1>0
    <3>8. plan'.to_write[Len(plan.to_write) + 1] =
            [id |-> i, uom |-> UomFor(kind, i), want |-> Wanted(i)]
      BY <3>2, <3>5
    <3>9. UomFor(kind, i) # NoUom
      BY <3>1, <3>2
    <3> HIDE DEF i
    <3> QED BY <1>6, <2>1, <3>1, <3>5, <3>6, <3>7, <3>8, <3>9
  <2> QED BY <1>7, <2>2, <2>3 DEF PlanNext
<1>8. CASE SelectNext
  <2> DEFINE u == product[i].default
             item == [id |-> i, uom |-> u, want |-> Wanted(i)]
  <2>1. cands # <<>> /\ cands' = Tail(cands) /\ i \in Ids
    BY <1>8, NextCandidate DEF SelectNext
  <2>2. CASE plan' = [plan EXCEPT !.skipped = Append(plan.skipped, i)]
    <3>1. Append(plan.skipped, i) \in Seq(Ids)
      BY <1>0, <2>1, AppendProperties DEF Plans
    <3> QED BY <1>0, <1>5, <2>1, <2>2, <3>1 DEF Plans
  <2>3. CASE plan' = [plan EXCEPT !.to_write = <<item>>] /\ BaseCode(i) # NoBase /\ u # NoUom
    <3>1. u = UomFor(kind, i)
      BY <1>8 DEF UomFor, SelectNext
    <3>2. item \in Item1
      BY <2>1, <2>3, NextCandidate, UomType
    <3>3. plan'.to_write = <<item>> /\ plan' \in Plans
      <4>1. <<item>> \in Seq(Item1)
        BY <3>2
      <4> HIDE DEF item
      <4> QED BY <1>0, <2>3, <4>1 DEF Plans
    <3>4. /\ Len(plan'.to_write) = 0 + 1 /\ 0 <= Len(plan.to_write)
          /\ plan'.to_write[0 + 1] = item /\ \A k \in 1 .. 0 : FALSE
      BY <1>0, <3>3
    <3> QED BY <1>6, <2>1, <2>3, <3>1, <3>3, <3>4
  <2> QED BY <1>8, <2>2, <2>3 DEF SelectNext
<1> QED BY <1>4, <1>7, <1>8 DEF Planned, NoneSelected

LEMMA SkipKept ==
  ASSUME TypeOK, PlanInv, Constant, Skip, kind = "proving", done < Len(plan.to_write),
         UNCHANGED <<kind, done, cands>>, phase' = "between"
  PROVE  ProductsOK' /\ CandsOK' /\ ItemsOK' /\ UomsRead'
<1>1. /\ plan' \in Plans /\ Len(plan'.to_write) = Len(plan.to_write) - 1
      /\ \A k \in 1 .. done : plan'.to_write[k] = plan.to_write[k]
      /\ \A k \in done + 1 .. Len(plan'.to_write) : plan'.to_write[k] = plan.to_write[k + 1]
  BY SkipFacts
<1>2. done \in Nat /\ Len(plan.to_write) \in Nat
  BY PlanFacts
<1>3. ASSUME NEW k \in 1 .. Len(plan'.to_write)
      PROVE  \/ k \in 1 .. done /\ k \in 1 .. Len(plan.to_write)
             \/ k \in done + 1 .. Len(plan'.to_write) /\ k + 1 \in 1 .. Len(plan.to_write)
                /\ k > done /\ k + 1 > done + 1
  BY <1>1, <1>2, <1>3
<1>4. \A k \in 1 .. Len(plan'.to_write) : ItemOK(plan'.to_write[k])
  BY <1>1, <1>3 DEF PlanInv, ItemsOK
<1>5. ItemsOK'
  BY <1>1, <1>4, ItemsFrom
<1>6. ASSUME NEW k \in 1 .. Len(plan'.to_write)
      PROVE  /\ k <= done => plan'.to_write[k].uom # NoUom
             /\ k > done => plan'.to_write[k].uom = NoUom
  <2>1. CASE k \in 1 .. done /\ k \in 1 .. Len(plan.to_write)
    BY <1>1, <1>2, <2>1 DEF PlanInv, UomsRead
  <2>2. CASE k \in done + 1 .. Len(plan'.to_write) /\ k + 1 \in 1 .. Len(plan.to_write)
             /\ k > done /\ k + 1 > done + 1
    <3>1. plan.to_write[k + 1].uom = NoUom
      BY <2>2 DEF PlanInv, UomsRead
    <3>2. ~(k <= done)
      BY <1>2, <2>2
    <3> QED BY <1>1, <2>2, <3>1, <3>2
  <2> QED BY <1>3, <2>1, <2>2
<1>7. UomsRead'
  <2>1. \A k \in 1 .. Len(plan'.to_write) : k > done + 1 => k > done
    BY <1>2
  <2> QED BY <1>6, <2>1 DEF UomsRead
<1>8. CandsOK'
  BY CandsFrom DEF PlanInv, CandsOK, TypeOK
<1> QED BY <1>5, <1>7, <1>8, ProductsKept DEF PlanInv

(* The unit of measure of the target at hand is filled in.                 *)
LEMMA TargetKept ==
  ASSUME TypeOK, PlanInv, Constant, kind = "proving", done < Len(plan.to_write),
         UNCHANGED <<kind, done, cands>>,
         product[Item.id].default # NoUom,
         plan' = [plan EXCEPT !.to_write[done + 1].uom = product[Item.id].default]
  PROVE  /\ ProductsOK' /\ CandsOK' /\ ItemsOK' /\ UomsRead'
         /\ Len(plan'.to_write) = Len(plan.to_write)
         /\ \A k \in 1 .. Len(plan.to_write) : plan'.to_write[k].id = plan.to_write[k].id
         /\ plan'.to_write[done + 1].uom = product[Item.id].default
         /\ plan'.to_write[done + 1].want = Item.want
<1>0. /\ plan \in Plans /\ plan.to_write \in Seq(Item1)
      /\ done \in Nat /\ done <= Len(plan.to_write) /\ Len(plan.to_write) \in Nat
      /\ Item \in Item1 /\ done + 1 \in 1 .. Len(plan.to_write)
  BY PlanFacts
<1> DEFINE u == product[Item.id].default
           y == [plan.to_write[done + 1] EXCEPT !.uom = u]
           s == [plan.to_write EXCEPT ![done + 1] = y]
<1>1. u \in Uoms \union {NoUom}
  BY <1>0, UomType DEF Item1
<1>2. plan.to_write[done + 1] \in Item1
  BY <1>0 DEF Item
<1>3. /\ y \in Item1 /\ y.id = Item.id /\ y.want = Item.want /\ y.uom = u
  BY <1>1, <1>2 DEF Item1, Item
<1>4. s \in Seq(Item1) /\ Len(s) = Len(plan.to_write)
  BY <1>0, <1>3, ExceptSeq
<1>5. s[done + 1] = y /\ \A k \in 1 .. Len(plan.to_write) : k # done + 1 => s[k] = plan.to_write[k]
  BY <1>0
<1>6. plan' = [plan EXCEPT !.to_write = s]
  BY <1>0 DEF Plans
<1> HIDE DEF s, y
<1>7. plan' \in Plans /\ plan'.to_write = s
  BY <1>0, <1>4, <1>6 DEF Plans
<1>8. ItemOK(plan.to_write[done + 1])
  BY <1>0 DEF PlanInv, ItemsOK
<1>9. ItemOK(y)
  BY <1>3, <1>8 DEF ItemOK, UomFor, Item
<1>10. \A k \in 1 .. Len(plan'.to_write) : ItemOK(plan'.to_write[k])
  BY <1>4, <1>5, <1>7, <1>9 DEF PlanInv, ItemsOK
<1>11. ItemsOK'
  BY <1>7, <1>10, ItemsFrom
<1>12. UomsRead'
  <2>1. \A k \in 1 .. Len(plan.to_write) :
          /\ k <= done => k # done + 1
          /\ k > done + 1 => k # done + 1
    BY <1>0
  <2>2. y.uom # NoUom
    BY <1>3
  <2> QED BY <1>4, <1>5, <1>7, <2>1, <2>2 DEF PlanInv, UomsRead
<1>13. CandsOK'
  BY CandsFrom DEF PlanInv, CandsOK, TypeOK
<1>14. \A k \in 1 .. Len(plan.to_write) : s[k].id = plan.to_write[k].id
  BY <1>3, <1>5 DEF Item
<1> QED BY <1>3, <1>4, <1>5, <1>7, <1>11, <1>12, <1>13, <1>14, ProductsKept DEF PlanInv

LEMMA ProvingPlanKept ==
  ASSUME TypeOK, PlanInv, Constant, PlanProving \/ NextTarget \/ TypeCode
  PROVE  PlanInv'
<1>0. /\ kind = "proving" /\ runs # 0 /\ UNCHANGED <<kind, config, runs, done, cands>>
      /\ Len(plan.to_write) \in Nat /\ done \in Nat
  BY PlanFacts DEF PlanProving, NextTarget, TypeCode, PlanInv, PhasesOK
<1>1. CASE PlanProving
  <2>1. phase' \in {"nothing", "previewed", "refused", "between"} /\ done = 0
    BY <1>1 DEF PlanProving, PlanInv, PhasesOK
  <2>2. /\ plan' \in Plans
        /\ \A k \in 1 .. Len(plan'.to_write) :
             /\ plan'.to_write[k].id \in Resolvable
             /\ plan'.to_write[k].want = Wanted(plan'.to_write[k].id)
             /\ plan'.to_write[k].uom = NoUom
    BY <1>1, Proved
  <2>3. \A k \in 1 .. Len(plan'.to_write) : ItemOK(plan'.to_write[k])
    BY <1>0, <2>2 DEF ItemOK, Resolvable, LiveCandidates, CustomerOf
  <2>4. ItemsOK'
    BY <1>0, <2>2, <2>3, ItemsFrom
  <2>5. UomsRead'
    <3>1. \A k \in 1 .. Len(plan'.to_write) : ~(k <= 0)
      OBVIOUS
    <3> QED BY <1>0, <2>1, <2>2, <3>1 DEF UomsRead
  <2>6. PhasesOK'
    BY <1>0, <2>1 DEF PhasesOK
  <2>7. CandsOK'
    BY <1>0, CandsFrom DEF PlanInv, CandsOK, TypeOK
  <2> QED BY <2>4, <2>5, <2>6, <2>7, ProductsKept DEF PlanInv
<1>2. CASE NextTarget
  <2>1. done < Len(plan.to_write)
    BY <1>2, PlanFacts DEF NextTarget
  <2>2. CASE Skip /\ phase' = phase
    <3>1. phase' = "between"
      BY <1>2, <2>2 DEF NextTarget
    <3>2. PhasesOK'
      BY <1>0, <3>1 DEF PhasesOK
    <3> QED BY <1>0, <2>1, <2>2, <3>1, <3>2, SkipKept DEF PlanInv
  <2>3. CASE /\ phase' = "confirming" /\ product[Item.id].default # NoUom
             /\ plan' = [plan EXCEPT !.to_write[done + 1].uom = product[Item.id].default]
    <3>1. /\ ProductsOK' /\ CandsOK' /\ ItemsOK' /\ UomsRead'
          /\ Len(plan'.to_write) = Len(plan.to_write)
      BY <1>0, <2>1, <2>3, TargetKept
    <3>2. PhasesOK'
      BY <1>0, <2>1, <2>3, <3>1 DEF PhasesOK
    <3> QED BY <3>1, <3>2 DEF PlanInv
  <2> QED BY <1>2, <2>2, <2>3 DEF NextTarget
<1>3. CASE TypeCode
  <2>1. done < Len(plan.to_write) /\ phase = "confirming"
    BY <1>3 DEF TypeCode, PlanInv, PhasesOK
  <2>2. CASE phase' = "between" /\ Skip
    <3>1. PhasesOK'
      BY <1>0, <2>2 DEF PhasesOK
    <3> QED BY <1>0, <2>1, <2>2, <3>1, SkipKept DEF PlanInv
  <2>3. CASE reply' = "go" /\ phase' = "checking" /\ plan' = plan
    <3>1. PhasesOK'
      BY <1>0, <2>1, <2>3 DEF PhasesOK
    <3> QED BY <1>0, <2>1, <2>3, <3>1, ListSame DEF PlanInv
  <2> QED BY <1>3, <2>2, <2>3 DEF TypeCode
<1> QED BY <1>1, <1>2, <1>3

LEMMA LoopPlanKept ==
  ASSUME TypeOK, PlanInv, Constant, Confirm \/ NextItem \/ Complete
  PROVE  PlanInv'
<1>0. /\ UNCHANGED <<kind, config, runs, plan, done, cands>> /\ runs # 0
      /\ phase \in {"confirming", "between"} /\ plan.to_write \in Seq(Item1)
      /\ done \in Nat /\ Len(plan.to_write) \in Nat
  BY PlanFacts DEF Confirm, NextItem, Complete, PlanInv, PhasesOK
<1>1. CASE Confirm
  <2>1. kind # "proving" /\ done = 0
    BY <1>1 DEF Confirm, PlanInv, PhasesOK
  <2>2. plan.to_write # <<>> => 0 < Len(plan.to_write)
    <3>1. plan.to_write # <<>> => Len(plan.to_write) # 0
      BY <1>0, EmptySeq
    <3> QED BY <1>0, <3>1
  <2>3. PhasesOK'
    BY <1>0, <1>1, <2>1, <2>2 DEF Confirm, PhasesOK
  <2> QED BY <1>0, <2>1, <2>3, ListSame DEF PlanInv
<1>2. CASE NextItem
  <2>1. kind # "proving" /\ done < Len(plan.to_write) /\ reply = "go"
    BY <1>2, PlanFacts DEF NextItem, PlanInv, PhasesOK
  <2>2. PhasesOK'
    BY <1>0, <1>2, <2>1 DEF NextItem, PhasesOK
  <2> QED BY <1>0, <2>1, <2>2, ListSame DEF PlanInv
<1>3. CASE Complete
  <2>1. PhasesOK' /\ phase' = "reported"
    BY <1>0, <1>3 DEF Complete, PhasesOK
  <2> QED BY <1>0, <2>1, ListSame DEF PlanInv
<1> QED BY <1>1, <1>2, <1>3

LEMMA ItemPlanKept ==
  ASSUME TypeOK, PlanInv, Constant, WriteItem
  PROVE  PlanInv'
<1>0. /\ UNCHANGED <<kind, config, runs, plan, cands, product, reply>> /\ runs # 0
      /\ done \in Nat /\ Len(plan.to_write) \in Nat
  BY PlanFacts DEF WriteItem, CheckRate, ReadItem, SendItem, TimeOut, Verify, Crash, PlanInv, PhasesOK
<1>1. \A e : Fail(e) => phase' \in {"reported", "raised", "crashed"}
  BY DEF Fail
<1>2. CASE CheckRate \/ ReadItem \/ SendItem \/ TimeOut
  <2>1. phase \in Writing /\ done' = done /\ done < Len(plan.to_write) /\ reply = "go"
    BY <1>2 DEF CheckRate, ReadItem, SendItem, TimeOut, PlanInv, PhasesOK
  <2>2. Item' = Item
    BY <1>0, <2>1 DEF Item
  <2>3. phase' \in {"reading", "deciding", "verifying", "awaiting", "reported", "raised", "crashed"}
    BY <1>1, <1>2 DEF CheckRate, ReadItem, SendItem, TimeOut
  <2>4. phase' = "deciding" => CustomerCleared(config, product[Item.id].owner)
    BY <1>1, <1>2 DEF CheckRate, ReadItem, SendItem, TimeOut
  <2>5. PhasesOK'
    BY <1>0, <2>1, <2>2, <2>3, <2>4 DEF PhasesOK
  <2> QED BY <1>0, <2>1, <2>5, ListSame DEF PlanInv
<1>3. CASE Verify /\ done' = done
  <2>1. phase' \in {"reported", "raised", "crashed"} /\ phase \in Writing
    <3>1. done + 1 # done
      BY <1>0
    <3> QED BY <1>1, <1>3, <3>1 DEF Verify
  <2>2. PhasesOK'
    BY <1>0, <2>1 DEF PhasesOK
  <2> QED BY <1>0, <1>3, <2>1, <2>2, ListSame DEF PlanInv
<1>4. CASE Verify /\ done' = done + 1 /\ phase' = "between"
  <2>1. phase \in Writing /\ reply = "go" /\ done < Len(plan.to_write)
    BY <1>4 DEF Verify, PlanInv, PhasesOK
  <2>2. PhasesOK'
    BY <1>0, <1>4, <2>1 DEF PhasesOK
  <2>3. ItemsOK'
    BY <1>0, ItemsFrom, PlanFacts DEF PlanInv, ItemsOK
  <2>4. CandsOK'
    BY <1>0, CandsFrom DEF PlanInv, CandsOK, TypeOK
  <2>5. \A k \in 1 .. Len(plan.to_write) :
          /\ k <= done + 1 => k <= done \/ k = done + 1
          /\ k > done + 1 + 1 => k > done + 1
    BY <1>0
  <2>6. UomsRead'
    BY <1>0, <1>4, <2>1, <2>5 DEF PlanInv, UomsRead
  <2> QED BY <2>2, <2>3, <2>4, <2>6, ProductsKept DEF PlanInv
<1>5. CASE Crash
  <2>1. PhasesOK'
    BY <1>0, <1>5 DEF Crash, PhasesOK
  <2> QED BY <1>0, <1>5, <2>1, ListSame DEF Crash, PlanInv
<1> QED BY <1>2, <1>3, <1>4, <1>5 DEF WriteItem, Verify

LEMMA OthersPlanKept ==
  ASSUME TypeOK, PlanInv, Constant, Others
  PROVE  PlanInv'
<1>0. /\ UNCHANGED <<kind, config, runs, plan, cands, done, reply>>
      /\ done \in Nat /\ Len(plan.to_write) \in Nat
  BY PlanFacts DEF Others, Land, RejectPoisoned, Lose, EditDims, Rename
<1>1. /\ phase' \in {"verifying", "reported", "raised", "crashed", phase}
      /\ phase' = "verifying" => phase \in Writing
      /\ phase' # phase => phase \in Writing
  BY DEF Others, Land, RejectPoisoned, Lose, EditDims, Rename, Awaited, Fail
<1>2. Item' = Item
  BY <1>0 DEF Item
<1>3. phase = "deciding" => product'[Item.id].owner = product[Item.id].owner
  <2>1. phase = "deciding" => Item.id \in Ids
    BY PlanFacts DEF PlanInv, PhasesOK, Item1
  <2> QED BY <2>1 DEF Constant, SameProduct
<1>4. runs = 0 => phase' = "idle"
  BY <1>1 DEF PlanInv, PhasesOK
<1>5. CASE phase' = phase
  <2>1. PhasesOK'
    BY <1>0, <1>2, <1>3, <1>4, <1>5 DEF PlanInv, PhasesOK
  <2> QED BY <1>0, <1>5, <2>1, ListSame DEF PlanInv
<1>6. CASE phase' # phase
  <2>1. /\ phase' \in {"verifying", "reported", "raised", "crashed"} /\ phase \in Writing
        /\ done < Len(plan.to_write) /\ reply = "go"
    BY <1>1, <1>6 DEF PlanInv, PhasesOK
  <2>2. PhasesOK'
    BY <1>0, <1>4, <2>1 DEF PhasesOK
  <2> QED BY <1>0, <2>1, <2>2, ListSame DEF PlanInv
<1> QED BY <1>5, <1>6

LEMMA PlanKept ==
  ASSUME TypeOK, PlanInv, Next
  PROVE  PlanInv'
BY ConstantKept, PlanStarted, PlanPlanned, ProvingPlanKept, LoopPlanKept, ItemPlanKept,
   OthersPlanKept DEF Next, Run, Operator
-----------------------------------------------------------------------------
(* What is on its way.                                                     *)
(* The item at hand, once its unit of measure is read.                     *)
LEMMA ItemAtHand ==
  ASSUME TypeOK, PlanInv, phase \in Writing
  PROVE  /\ done < Len(plan.to_write) /\ reply = "go" /\ runs # 0
         /\ Item \in Item1 /\ Item.id \in Ids /\ Item.uom \in Uoms /\ Item.want \in Desired
         /\ ItemOK(Item) /\ Item.uom = UomFor(kind, Item.id)
<1>1. /\ done < Len(plan.to_write) /\ reply = "go" /\ runs # 0
      /\ Item \in Item1 /\ done + 1 \in 1 .. Len(plan.to_write)
  BY PlanFacts DEF PlanInv, PhasesOK
<1>2. ItemOK(Item) /\ Item.uom # NoUom
  BY <1>1 DEF PlanInv, ItemsOK, UomsRead, Item
<1> QED BY <1>1, <1>2 DEF Item1, ItemOK

LEMMA RunNumbers ==
  ASSUME TypeOK
  PROVE  runs \in Nat /\ \A m \in wire : m.id \in Ids /\ m.run \in Nat
<1>1. runs \in 0 .. MaxRuns /\ MaxRuns \in Nat
  BY RunsAssumption DEF TypeOK
<1>2. ASSUME NEW m \in wire PROVE m.id \in Ids /\ m.run \in Nat
  <2>1. m \in Patch
    BY <1>2 DEF TypeOK
  <2>2. m.id \in Ids /\ m.run \in 1 .. MaxRuns
    BY <2>1 DEF Patch
  <2> QED BY <1>1, <2>2
<1> QED BY <1>1, <1>2

LEMMA WireShrinks ==
  ASSUME TypeOK, WireOK, Constant, wire' \subseteq wire, runs' = runs \/ runs' = runs + 1
  PROVE  WireOK'
<1>1. runs \in Nat /\ \A m \in wire : m.id \in Ids /\ m.run \in Nat
  BY RunNumbers
<1>2. ASSUME NEW m \in wire
      PROVE  /\ product'[m.id].owner = CustomerOf(m.kind)
             /\ product'[m.id].owner = Live => m.armed
             /\ m.uom = UomFor(m.kind, m.id)'
             /\ BaseCode(m.id)' # NoBase
             /\ Holds(Wanted(m.id)', m.ops)
             /\ m.run <= runs'
  <2>1. m.id \in Ids /\ SameProduct(m.id)
    BY <1>1, <1>2 DEF Constant
  <2>2. /\ BaseCode(m.id)' = BaseCode(m.id) /\ Wanted(m.id)' = Wanted(m.id)
        /\ UomFor(m.kind, m.id)' = UomFor(m.kind, m.id)
    BY <2>1, SameMeaning
  <2>3. m.run <= runs'
    <3>1. m.run <= runs
      BY <1>2 DEF WireOK
    <3> QED BY <1>1, <1>2, <3>1
  <2> QED BY <1>2, <2>1, <2>2, <2>3 DEF WireOK, SameProduct
<1> QED BY <1>2 DEF WireOK, CustomerOf, Holds

LEMMA WireKept ==
  ASSUME TypeOK, PlanInv, WireOK, Next
  PROVE  WireOK'
<1>1. Constant
  BY ConstantKept
<1>2. CASE SendItem /\ wire' # wire
  <2> DEFINE patch == [id |-> Item.id, uom |-> Item.uom, ops |-> ComputeDiff(read, Item.want),
                       run |-> runs, kind |-> kind, armed |-> config.live_promotion]
  <2>1. wire' = wire \union {patch} /\ phase = "deciding" /\ UNCHANGED <<setup, product>>
    BY <1>2 DEF SendItem
  <2>2. ItemOK(Item) /\ Item.uom = UomFor(kind, Item.id)
    BY <2>1, ItemAtHand
  <2>3. CustomerCleared(config, product[Item.id].owner)
    BY <2>1 DEF PlanInv, PhasesOK
  <2>4. product[Item.id].owner = Live => config.live_promotion
    BY <2>3 DEF CustomerCleared, IsCustomerAllowed
  <2>5. Holds(Item.want, ComputeDiff(read, Item.want))
    BY DEF Holds, ComputeDiff
  <2>6. runs <= runs
    BY RunNumbers
  <2>7. /\ product[patch.id].owner = CustomerOf(patch.kind)
        /\ product[patch.id].owner = Live => patch.armed
        /\ patch.uom = UomFor(patch.kind, patch.id)
        /\ BaseCode(patch.id) # NoBase
        /\ Holds(Wanted(patch.id), patch.ops)
        /\ patch.run <= runs
    BY <2>2, <2>4, <2>5, <2>6 DEF ItemOK
  <2>8. product' = product /\ table' = table /\ runs' = runs
    BY <2>1
  <2> HIDE DEF patch
  <2>9. \A m \in wire' : m \in wire \/ m = patch
    BY <2>1
  <2> QED BY <2>7, <2>8, <2>9 DEF WireOK, UomFor, Wanted, BaseCode
<1>3. CASE wire' \subseteq wire
  <2>1. runs' = runs \/ runs' = runs + 1
    BY DEF Next, Run, Operator, Others, Start, PlanNext, Planned, SelectNext, NoneSelected,
           PlanProving, NextItem, NextTarget, WriteItem, CheckRate, ReadItem, SendItem, TimeOut,
           Verify, Crash, Complete, Confirm, TypeCode, Land, RejectPoisoned, Lose, EditDims, Rename
  <2> QED BY <1>1, <1>3, <2>1, WireShrinks
<1>4. SendItem \/ wire' \subseteq wire
  BY DEF Next, Run, Operator, Others, Start, PlanNext, Planned, SelectNext, NoneSelected,
         PlanProving, NextItem, NextTarget, WriteItem, CheckRate, ReadItem, TimeOut,
         Verify, Crash, Complete, Confirm, TypeCode, Land, RejectPoisoned, Lose, EditDims, Rename
<1> QED BY <1>2, <1>3, <1>4

(* No PATCH of this run is under way.                                      *)
Quiet == \A m \in wire : m.run # runs

LEMMA QuietElsewhere ==
  ASSUME CurrentOK, phase # "awaiting", ~Halted
  PROVE  Quiet
BY DEF CurrentOK, InHand, Quiet

LEMMA QuietIsCurrent ==
  ASSUME Quiet'
  PROVE  CurrentOK'
BY DEF Quiet, CurrentOK

(* The PATCH at hand stays at hand.                                        *)
LEMMA HandKept ==
  ASSUME CurrentOK, wire' \subseteq wire, UNCHANGED <<runs, plan, done, reply>>,
         phase = "awaiting" \/ Halted => (phase = "awaiting" \/ Halted)'
  PROVE  CurrentOK'
BY DEF CurrentOK, InHand, Item

LEMMA CurrentKept ==
  ASSUME TypeOK, PlanInv, WireOK, CurrentOK, ReportOK, Next
  PROVE  CurrentOK'
<1>1. CASE Start
  <2>1. \A m \in wire : m.run # runs + 1
    <3>1. runs \in Nat /\ \A m \in wire : m.run \in Nat /\ m.run <= runs
      BY RunNumbers DEF WireOK
    <3> QED BY <3>1
  <2>2. Quiet'
    BY <1>1, <2>1 DEF Start, Quiet
  <2> QED BY <2>2, QuietIsCurrent
<1>2. CASE PlanNext \/ Planned \/ SelectNext \/ NoneSelected \/ PlanProving \/ NextItem
           \/ NextTarget \/ Complete \/ Confirm \/ TypeCode
           \/ CheckRate \/ ReadItem \/ Verify \/ Crash
  <2>1. /\ phase \notin {"awaiting", "raised", "crashed", "reported"}
        /\ UNCHANGED <<runs, wire>>
    BY <1>2 DEF PlanNext, Planned, SelectNext, NoneSelected, PlanProving, NextItem, NextTarget,
                Complete, Confirm, TypeCode, CheckRate, ReadItem, Verify, Crash
  <2>2. Quiet
    BY <2>1, QuietElsewhere DEF Halted
  <2>3. Quiet'
    BY <2>1, <2>2 DEF Quiet
  <2> QED BY <2>3, QuietIsCurrent
<1>3. CASE SendItem
  <2> DEFINE patch == [id |-> Item.id, uom |-> Item.uom, ops |-> ComputeDiff(read, Item.want),
                       run |-> runs, kind |-> kind, armed |-> config.live_promotion]
  <2>1. phase = "deciding" /\ UNCHANGED <<runs, plan, done, reply>>
    BY <1>3 DEF SendItem
  <2>2. Quiet
    BY <2>1, QuietElsewhere DEF Halted
  <2>3. CASE wire' = wire
    <3>1. Quiet'
      BY <2>1, <2>2, <2>3 DEF Quiet
    <3> QED BY <3>1, QuietIsCurrent
  <2>4. CASE wire' = wire \union {patch} /\ phase' = "awaiting"
    <3>1. done < Len(plan.to_write) /\ reply = "go"
      BY <2>1, ItemAtHand
    <3>2. /\ patch.id = Item.id /\ patch.uom = Item.uom /\ Holds(Item.want, patch.ops)
      BY DEF Holds, ComputeDiff
    <3> HIDE DEF patch
    <3>3. Item' = Item
      BY <2>1 DEF Item
    <3>4. \A m \in wire' : m.run = runs => m = patch
      BY <2>2, <2>4 DEF Quiet
    <3>5. \A m \in wire' : m.run = runs =>
            m.id = Item.id /\ m.uom = Item.uom /\ Holds(Item.want, m.ops)
      BY <3>2, <3>4
    <3>6. \A m \in wire' : m.run = runs => InHand(m)'
      BY <2>1, <2>4, <3>1, <3>3, <3>5 DEF InHand, Holds
    <3> QED BY <2>1, <3>4, <3>6 DEF CurrentOK
  <2> QED BY <1>3, <2>3, <2>4 DEF SendItem
<1>4. ASSUME NEW e \in Errors, Fail(e), phase \in Writing PROVE Halted'
  <2>1. done < Len(plan.to_write)
    BY <1>4, ItemAtHand
  <2>2. \/ phase' = "reported" /\ report'.failed # <<>>
        \/ phase' \in {"raised", "crashed"}
    BY <1>4, <2>1, FailType
  <2> QED BY <2>2 DEF Halted
<1>5. CASE TimeOut
  <2>1. Fail("timed_out") /\ phase \in Writing /\ UNCHANGED <<runs, wire, plan, done, reply>>
    BY <1>5 DEF TimeOut
  <2>2. Halted'
    BY <1>4, <2>1 DEF Errors
  <2> QED BY <2>1, <2>2, HandKept
<1>6. ASSUME NEW m \in wire, Awaited(m), wire' = wire \ {m}, runs' = runs PROVE CurrentOK'
  <2>1. \A n \in wire : n.run = runs => n = m
    BY <1>6 DEF CurrentOK, Awaited
  <2>2. Quiet'
    BY <1>6, <2>1 DEF Quiet
  <2> QED BY <2>2, QuietIsCurrent
<1>7. CASE Others /\ UNCHANGED <<phase, report>>
  <2>1. wire' \subseteq wire /\ UNCHANGED <<runs, plan, done, reply>>
    BY <1>7 DEF Others, Land, RejectPoisoned, Lose, EditDims, Rename
  <2> QED BY <1>7, <2>1, HandKept DEF Halted
<1>8. CASE Others /\ ~UNCHANGED <<phase, report>>
  <2>1. PICK m \in wire : Awaited(m) /\ wire' = wire \ {m} /\ runs' = runs
    BY <1>8 DEF Others, Land, RejectPoisoned, Lose, EditDims, Rename
  <2> QED BY <1>6, <2>1
<1> QED BY <1>1, <1>2, <1>3, <1>5, <1>7, <1>8 DEF Next, Run, Operator, WriteItem
-----------------------------------------------------------------------------
(* What a report says.                                                     *)
(* A step makes no report, starts afresh, or ends in one of these ways.    *)
Reporting ==
  \/ /\ phase \in Writing
     /\ \E e \in Errors : Fail(e)
  \/ /\ phase = "confirming" /\ kind # "proving" /\ phase' = "reported"
     /\ Report(<<>>, "", TRUE, plan.to_write)
  \/ /\ phase = "between" /\ phase' = "reported"
     /\ Report(<<>>, "", FALSE, <<>>)

LEMMA ReportSteps ==
  ASSUME Next
  PROVE  \/ report' = NoReport /\ phase' # "reported" /\ runs' = runs + 1
         \/ kind' = kind /\ report' = report /\ (phase' = "reported" <=> phase = "reported")
         \/ kind' = kind /\ Reporting
<1>1. CASE Start
  BY <1>1 DEF Start, FirstPhase
<1>2. CASE WriteItem
  BY <1>2 DEF WriteItem, CheckRate, ReadItem, SendItem, TimeOut, Verify, Crash, Reporting, Errors
<1>3. CASE Others
  BY <1>3 DEF Others, Land, RejectPoisoned, Lose, EditDims, Rename, Reporting, Errors, Awaited
<1>4. CASE Confirm \/ Complete
  BY <1>4 DEF Confirm, Complete, Reporting
<1>5. CASE PlanNext \/ Planned \/ SelectNext \/ NoneSelected \/ PlanProving \/ NextItem
           \/ NextTarget \/ TypeCode
  BY <1>5 DEF PlanNext, Planned, SelectNext, NoneSelected, PlanProving, NextItem, NextTarget,
              TypeCode
<1> QED BY <1>1, <1>2, <1>3, <1>4, <1>5 DEF Next, Run, Operator

LEMMA ReportKept ==
  ASSUME TypeOK, PlanInv, ReportOK, Next
  PROVE  ReportOK'
<1>1. CASE report' = NoReport /\ phase' # "reported"
  BY <1>1 DEF ReportOK, NoReport
<1>2. CASE kind' = kind /\ report' = report /\ (phase' = "reported" <=> phase = "reported")
  BY <1>2 DEF ReportOK
<1>3. CASE kind' = kind /\ Reporting
  <2>0. <<>> \in Seq(Ids) /\ <<>> \in Seq(Item1) /\ "" \in Errors /\ plan.to_write \in Seq(Item1)
    BY PlanFacts DEF Errors
  <2>1. ASSUME NEW e \in Errors, phase \in Writing, Fail(e) PROVE ReportOK'
    <3>1. done < Len(plan.to_write)
      BY <2>1, ItemAtHand
    <3>2. CASE kind \in BulkKinds
      <4>1. phase' = "reported" /\ report'.failed # <<>>
        BY <2>1, <3>1, <3>2, FailType
      <4>2. kind' \in BulkKinds
        BY <1>3, <3>2
      <4> QED BY <4>1, <4>2 DEF ReportOK
    <3>3. CASE kind \notin BulkKinds
      <4>1. phase' \in {"raised", "crashed"} /\ report' = report /\ phase # "reported"
        BY <2>1, <3>1, <3>3, FailType
      <4>2. report' = NoReport
        BY <4>1 DEF ReportOK
      <4>3. NoReport.failed = <<>> /\ NoReport.untouched = <<>>
        BY DEF NoReport
      <4>4. phase' # "reported"
        BY <4>1
      <4> QED BY <4>2, <4>3, <4>4 DEF ReportOK
    <3> QED BY <3>2, <3>3
  <2>2. CASE phase' = "reported" /\ Report(<<>>, "", TRUE, plan.to_write)
    <3>1. report'.failed = <<>> /\ report'.aborted = TRUE
      BY <2>0, <2>2, ReportType
    <3> QED BY <2>2, <3>1 DEF ReportOK
  <2>3. CASE phase' = "reported" /\ Report(<<>>, "", FALSE, <<>>)
    <3>1. report'.failed = <<>> /\ report'.untouched = <<>>
      BY <2>0, <2>3, ReportType
    <3> QED BY <2>3, <3>1 DEF ReportOK
  <2> QED BY <1>3, <2>1, <2>2, <2>3 DEF Reporting
<1> QED BY <1>1, <1>2, <1>3, ReportSteps

(* The error of a report comes from the item that failed.                  *)
LEMMA PacedKept ==
  ASSUME TypeOK, PlanInv, ReportOK, Paced, Next
  PROVE  Paced'
<1>1. Capacity \in Nat /\ Minute <= Capacity /\ Minute \in Nat /\ tokens \in 0 .. Capacity
  BY CapacityCovers, ItemAssumption DEF TypeOK
<1>2. CASE Start
  BY <1>1, <1>2 DEF Start, Paced, NoReport, FirstPhase
<1>3. CASE ~Start
  <2>0. kind' = kind
    BY <1>3 DEF Next, Run, Operator, Others, PlanNext, Planned, SelectNext, NoneSelected,
           PlanProving, NextItem, NextTarget, WriteItem, CheckRate, ReadItem, SendItem, TimeOut,
           Verify, Crash, Complete, Confirm, TypeCode, Land, RejectPoisoned, Lose, EditDims, Rename
  <2> DEFINE Goal == /\ phase' = "checking" => tokens' >= Minute
                     /\ phase' \in {"planning", "confirming"} => tokens' = Capacity
                     /\ report'.error # "rate_limited"
  <2> SUFFICES ASSUME kind \in BulkKinds PROVE Goal
    BY <2>0 DEF Paced
  <2>1. /\ phase = "checking" => tokens >= Minute
        /\ phase \in {"planning", "confirming"} => tokens = Capacity
        /\ report.error # "rate_limited"
    BY DEF Paced
  <2>2. ASSUME NEW e \in Errors \ {"rate_limited"}, phase \in Writing, Fail(e) PROVE Goal
    <3>1. done < Len(plan.to_write)
      BY <2>2, ItemAtHand
    <3>2. phase' = "reported" /\ report'.error = e
      BY <2>2, <3>1, FailType
    <3> QED BY <2>2, <3>2
  <2>3. CASE NextItem
    <3>1. tokens' >= Minute /\ phase' = "checking" /\ report' = report
      BY <1>1, <2>3, RefillType DEF NextItem
    <3> QED BY <2>1, <3>1
  <2>4. CASE CheckRate
    <3>1. ~(tokens < Minute)
      BY <1>1, <2>1, <2>4 DEF CheckRate
    <3> QED BY <2>1, <2>4, <3>1 DEF CheckRate
  <2>5. CASE PlanNext \/ Planned \/ Crash
    BY <2>1, <2>5 DEF PlanNext, Planned, Crash
  <2>6. CASE Confirm
    <3>1. <<>> \in Seq(Ids) /\ "" \in Errors /\ plan.to_write \in Seq(Item1) /\ TRUE \in BOOLEAN
      BY PlanFacts DEF Errors
    <3>2. CASE phase' = "checking" /\ UNCHANGED report
      BY <1>1, <2>1, <2>6, <3>2 DEF Confirm
    <3>3. CASE phase' = "reported" /\ Report(<<>>, "", TRUE, plan.to_write)
      <4>1. report'.error = ""
        BY <3>1, <3>3, ReportType
      <4> QED BY <3>3, <4>1
    <3> QED BY <2>6, <3>2, <3>3 DEF Confirm
  <2>7. CASE Complete
    <3>1. <<>> \in Seq(Ids) /\ "" \in Errors /\ <<>> \in Seq(Item1) /\ FALSE \in BOOLEAN
      BY DEF Errors
    <3>2. report'.error = "" /\ phase' = "reported"
      BY <2>7, <3>1, ReportType DEF Complete
    <3> QED BY <3>2
  <2>8. CASE ReadItem \/ SendItem \/ TimeOut \/ Verify
    <3>1. CASE Fail("unreadable") \/ Fail("write_refused") \/ Fail("timed_out") \/ Fail("mismatch")
      <4>1. phase \in Writing
        BY <2>8 DEF ReadItem, SendItem, TimeOut, Verify
      <4>2. {"unreadable", "write_refused", "timed_out", "mismatch"} \subseteq Errors \ {"rate_limited"}
        BY DEF Errors
      <4> QED BY <2>2, <3>1, <4>1, <4>2
    <3>2. CASE phase' \in {"deciding", "verifying", "awaiting", "between"} /\ report' = report
      BY <2>1, <3>2
    <3> QED BY <2>8, <3>1, <3>2 DEF ReadItem, SendItem, TimeOut, Verify
  <2>9. CASE Others
    <3>1. CASE phase \in Writing /\ Fail("poisoned")
      <4>1. "poisoned" \in Errors \ {"rate_limited"}
        BY DEF Errors
      <4> QED BY <2>2, <3>1, <4>1
    <3>2. CASE phase' \in {"verifying", phase} /\ UNCHANGED <<tokens, report>>
      BY <2>1, <3>2
    <3> QED BY <2>9, <3>1, <3>2
            DEF Others, Land, RejectPoisoned, Lose, EditDims, Rename, Awaited
  <2>10. ~(SelectNext \/ NoneSelected \/ PlanProving \/ NextTarget \/ TypeCode)
    BY DEF SelectNext, NoneSelected, PlanProving, NextTarget, TypeCode
  <2> HIDE DEF Goal
  <2> QED BY <1>3, <2>3, <2>4, <2>5, <2>6, <2>7, <2>8, <2>9, <2>10
          DEF Next, Run, Operator, WriteItem
<1> QED BY <1>2, <1>3

(* The each run writes no product with a badly named unit of measure.      *)
LEMMA UnpoisonedKept ==
  ASSUME TypeOK, PlanInv, CurrentOK, ReportOK, Unpoisoned, Next
  PROVE  Unpoisoned'
<1>1. CASE Start
  <2>1. plan'.to_write = <<>> /\ report'.error = ""
    BY <1>1 DEF Start, NoPlan, NoReport
  <2>2. Len(<<>>) = 0 /\ \A k \in 1 .. 0 : FALSE
    OBVIOUS
  <2>3. \A k \in 1 .. Len(plan'.to_write) : FALSE
    BY <2>1, <2>2
  <2> QED BY <2>1, <2>3 DEF Unpoisoned
<1>2. ASSUME NEW i \in Ids, NEW u \in Uoms,
             Rename(i, u) \/ \E f \in Fields, v \in Values \union {Unset} : EditDims(i, u, f, v)
      PROVE  Unpoisoned'
  <2>1. edits' = edits + 1 /\ edits \in 0 .. MaxEdits
    BY <1>2 DEF Rename, EditDims, TypeOK
  <2>2. edits' # 0
    BY <2>1, RunsAssumption
  <2> QED BY <2>2 DEF Unpoisoned
<1> DEFINE Goal == /\ \A k \in 1 .. Len(plan'.to_write) :
                        product[plan'.to_write[k].id].badly_named = {}
                   /\ report'.error # "poisoned"
           Clean == /\ \A k \in 1 .. Len(plan.to_write) :
                         product[plan.to_write[k].id].badly_named = {}
                    /\ report.error # "poisoned"
<1>3. ASSUME kind = "each", UNCHANGED product, Clean => Goal,
             UNCHANGED <<kind, edits>>
      PROVE  Unpoisoned'
  BY <1>3 DEF Unpoisoned
<1>4. ASSUME UNCHANGED <<kind, edits>>, kind # "each" PROVE Unpoisoned'
  BY <1>4 DEF Unpoisoned
<1>5. CASE PlanNext
  <2> DEFINE i == Head(cands)
             item == [id |-> i, uom |-> TargetUom(i), want |-> Wanted(i)]
  <2>1. /\ plan \in Plans /\ plan.to_write \in Seq(Item1) /\ Len(plan.to_write) \in Nat
        /\ UNCHANGED <<product, kind, edits, report>>
    BY <1>5, PlanFacts DEF PlanNext
  <2>2. CASE kind = "each" /\ plan'.to_write = plan.to_write
    <3>1. Clean => Goal
      BY <2>1, <2>2
    <3> HIDE DEF Clean, Goal, i
    <3> QED BY <1>3, <2>1, <2>2, <3>1
  <2>3. CASE kind = "each" /\ ~Blocked(i)
             /\ plan' = [plan EXCEPT !.to_write = Append(plan.to_write, item)]
    <3>1. product[i].badly_named = {} /\ item \in Item1
      BY <1>5, <2>3, NextCandidate, UomType DEF PlanNext, Blocked, Poisoned
    <3>2. plan'.to_write = Append(plan.to_write, item) /\ item.id = i
      BY <2>1, <2>3 DEF Plans
    <3> HIDE DEF item
    <3>3. /\ Len(plan'.to_write) = Len(plan.to_write) + 1
          /\ \A k \in 1 .. Len(plan.to_write) : plan'.to_write[k] = plan.to_write[k]
          /\ plan'.to_write[Len(plan.to_write) + 1] = item
      BY <2>1, <3>1, <3>2, AppendProperties
    <3>4. \A k \in 1 .. Len(plan'.to_write) :
            k \in 1 .. Len(plan.to_write) \/ k = Len(plan.to_write) + 1
      BY <2>1, <3>3
    <3>5. Clean => Goal
      BY <2>1, <3>1, <3>2, <3>3, <3>4
    <3> HIDE DEF Clean, Goal, i
    <3> QED BY <1>3, <2>1, <2>3, <3>5
  <2>4. \/ plan'.to_write = plan.to_write
        \/ ~Blocked(i) /\ plan' = [plan EXCEPT !.to_write = Append(plan.to_write, item)]
    BY <1>5, <2>1 DEF PlanNext, Plans
  <2> HIDE DEF Clean, Goal, i, item
  <2> QED BY <1>4, <2>1, <2>2, <2>3, <2>4
<1>6. CASE SelectNext \/ PlanProving \/ NextTarget \/ TypeCode \/ NoneSelected
  <2>1. UNCHANGED <<kind, edits>> /\ kind # "each"
    BY <1>6 DEF SelectNext, PlanProving, NextTarget, TypeCode, NoneSelected
  <2> QED BY <1>4, <2>1
<1>7. ASSUME UNCHANGED <<product, plan, kind, edits>>, report'.error # "poisoned"
             \/ report'.error = report.error
      PROVE  Unpoisoned'
  BY <1>7 DEF Unpoisoned
<1>8. ASSUME UNCHANGED <<product, plan, kind, edits>>, phase \in Writing,
             NEW e \in Errors, Fail(e), kind = "each" => e # "poisoned" \/ edits # 0
      PROVE  Unpoisoned'
  <2>1. CASE kind = "each"
    <3>1. done < Len(plan.to_write)
      BY <1>8, ItemAtHand
    <3>2. report'.error = e
      BY <1>8, <2>1, <3>1, FailType
    <3> QED BY <1>8, <2>1, <3>2 DEF Unpoisoned
  <2> QED BY <1>4, <1>8, <2>1
<1>9. CASE Confirm \/ Complete
  <2>1. <<>> \in Seq(Ids) /\ "" \in Errors /\ plan.to_write \in Seq(Item1)
        /\ TRUE \in BOOLEAN /\ FALSE \in BOOLEAN /\ <<>> \in Seq(Item1)
    BY PlanFacts DEF Errors
  <2>2. \A a \in BOOLEAN, s \in Seq(Item1) : Report(<<>>, "", a, s) => report'.error = ""
    BY <2>1, ReportType
  <2>3. report'.error = "" \/ report'.error = report.error
    BY <1>9, <2>1, <2>2 DEF Confirm, Complete
  <2>4. UNCHANGED <<product, plan, kind, edits>>
    BY <1>9 DEF Confirm, Complete
  <2> QED BY <1>7, <2>3, <2>4
<1>10. CASE Planned \/ NextItem \/ Crash
  BY <1>7, <1>10 DEF Planned, NextItem, Crash
<1>11. CASE CheckRate \/ ReadItem \/ SendItem \/ TimeOut \/ Verify
  <2>1. UNCHANGED <<product, plan, kind, edits>> /\ phase \in Writing
    BY <1>11 DEF CheckRate, ReadItem, SendItem, TimeOut, Verify
  <2>2. report' = report \/ \E e \in Errors \ {"poisoned"} : Fail(e)
    BY <1>11 DEF CheckRate, ReadItem, SendItem, TimeOut, Verify, Errors
  <2> QED BY <1>7, <1>8, <2>1, <2>2
<1>12. ASSUME NEW m \in wire, Land(m) \/ Lose(m) PROVE Unpoisoned'
  BY <1>7, <1>12 DEF Land, Lose
<1>13. ASSUME NEW m \in wire, RejectPoisoned(m) PROVE Unpoisoned'
  <2>1. UNCHANGED <<product, plan, kind, edits>> /\ product[m.id].badly_named # {}
    BY <1>13 DEF RejectPoisoned
  <2>2. CASE UNCHANGED report
    BY <1>7, <2>1, <2>2
  <2>3. CASE Awaited(m) /\ Fail("poisoned")
    <3>1. "poisoned" \in Errors /\ phase \in Writing /\ m.run = runs
      BY <2>3 DEF Errors, Awaited
    <3>2. m.id = plan.to_write[done + 1].id /\ done + 1 \in 1 .. Len(plan.to_write)
      BY <3>1, PlanFacts DEF CurrentOK, InHand, Item
    <3>3. kind = "each" => edits # 0
      BY <2>1, <3>2 DEF Unpoisoned
    <3> QED BY <1>8, <2>1, <2>3, <3>1, <3>3
  <2> QED BY <1>13, <2>2, <2>3 DEF RejectPoisoned
<1> QED BY <1>1, <1>2, <1>5, <1>6, <1>9, <1>10, <1>11, <1>12, <1>13
        DEF Next, Run, Operator, WriteItem, Others
-----------------------------------------------------------------------------
(* What runs have settled.                                                 *)

SettledHold == \A i \in Ids, u \in Uoms : <<i, u>> \in settled => Holds(DimsOf(i, u), Wanted(i))

LEMMA DimsSame ==
  ASSUME Constant, NEW i \in Ids, NEW u, store'[i][u] = store[i][u]
  PROVE  DimsOf(i, u)' = DimsOf(i, u)
BY DEF Constant, SameProduct, DimsOf

(* A PATCH that lands sets what was wanted of the product, whoever sent it.*)
LEMMA LandKeeps ==
  ASSUME TypeOK, WireOK, Constant, NEW m \in wire, Land(m), NEW i \in Ids, NEW u \in Uoms,
         Holds(DimsOf(i, u), Wanted(i))
  PROVE  Holds(DimsOf(i, u)', Wanted(i))
<1>1. /\ m.id \in Ids /\ m.uom \in Uoms /\ m.ops \in Desired /\ Holds(Wanted(m.id), m.ops)
      /\ store \in [Ids -> [Uoms -> Dims]]
  BY DEF TypeOK, WireOK, Patch
<1>2. PICK dropped :
        LET kept == [f \in DOMAIN m.ops \ dropped |-> m.ops[f]]
        IN  store' = [store EXCEPT ![m.id][m.uom] = Patched(store[m.id][m.uom], kept)]
  BY DEF Land
<1> DEFINE kept == [f \in DOMAIN m.ops \ dropped |-> m.ops[f]]
           old == store[m.id][m.uom]
           new == Patched(old, kept)
<1>3. store' = [store EXCEPT ![m.id][m.uom] = new]
  BY <1>2
<1>4. CASE i = m.id /\ u = m.uom
  <2>1. store'[i][u] = new
    <3> HIDE DEF new
    <3> QED BY <1>1, <1>3, <1>4
  <2>2. CASE u \notin product[i].uoms
    <3>1. DimsOf(i, u)' = DimsOf(i, u)
      BY <2>2 DEF DimsOf, Constant, SameProduct
    <3> QED BY <3>1
  <2>3. CASE u \in product[i].uoms
    <3>1. DimsOf(i, u) = old /\ DimsOf(i, u)' = new
      BY <1>4, <2>1, <2>3 DEF DimsOf, Constant, SameProduct
    <3>2. Holds(new, Wanted(i))
      <4>1. \A f \in DOMAIN Wanted(i) : f \in DOMAIN old /\ old[f] = Wanted(i)[f]
        BY <3>1 DEF Holds
      <4>2. \A f \in DOMAIN kept : f \in DOMAIN Wanted(i) /\ Wanted(i)[f] = kept[f]
        BY <1>1, <1>4 DEF Holds
      <4> HIDE DEF kept, old
      <4> QED BY <4>1, <4>2 DEF Holds, Patched
    <3> QED BY <3>1, <3>2
  <2> QED BY <2>2, <2>3
<1>5. CASE ~(i = m.id /\ u = m.uom)
  <2>1. store'[i][u] = store[i][u]
    <3> HIDE DEF new
    <3> QED BY <1>1, <1>3, <1>5
  <2> QED BY <2>1, DimsSame
<1> QED BY <1>4, <1>5

LEMMA SettledHoldKept ==
  ASSUME TypeOK, PlanInv, WireOK, SettledHold, Next
  PROVE  SettledHold'
<1>0. Constant
  BY ConstantKept
<1> SUFFICES ASSUME NEW i \in Ids, NEW u \in Uoms, <<i, u>> \in settled'
             PROVE  Holds(DimsOf(i, u)', Wanted(i)')
  BY DEF SettledHold, Holds
<1>1. Wanted(i)' = Wanted(i)
  BY <1>0, SameMeaning
<1>2. <<i, u>> \in settled => Holds(DimsOf(i, u), Wanted(i))
  BY DEF SettledHold
<1>3. CASE UNCHANGED <<store, settled>>
  BY <1>0, <1>1, <1>2, <1>3, DimsSame
<1>4. CASE Verify
  <2>1. UNCHANGED store /\ phase \in Writing
    BY <1>4 DEF Verify
  <2>2. DimsOf(i, u)' = DimsOf(i, u)
    BY <1>0, <2>1, DimsSame
  <2>3. CASE <<i, u>> \in settled
    BY <1>1, <1>2, <2>2, <2>3
  <2>4. CASE <<i, u>> \notin settled
    <3>1. i = Item.id /\ u = Item.uom /\ Holds(DimsOf(Item.id, Item.uom), Item.want)
      BY <1>4, <2>4 DEF Verify
    <3>2. Item.want = Wanted(Item.id)
      BY <2>1, ItemAtHand DEF ItemOK
    <3> QED BY <1>1, <2>2, <3>1, <3>2
  <2> QED BY <2>3, <2>4
<1>5. ASSUME NEW m \in wire, Land(m) PROVE Holds(DimsOf(i, u)', Wanted(i)')
  <2>1. settled' = settled
    BY <1>5 DEF Land
  <2> QED BY <1>0, <1>1, <1>2, <1>5, <2>1, LandKeeps
<1>6. ASSUME NEW j \in Ids, NEW w \in Uoms, NEW f \in Fields, NEW v \in Values \union {Unset},
             EditDims(j, w, f, v)
      PROVE  Holds(DimsOf(i, u)', Wanted(i)')
  <2>1. <<i, u>> \in settled /\ ~(i = j /\ u = w)
    BY <1>6 DEF EditDims
  <2>2. store'[i][u] = store[i][u]
    <3>1. store' = [store EXCEPT ![j] = [store[j] EXCEPT ![w] = [store[j][w] EXCEPT ![f] = v]]]
      BY <1>6 DEF EditDims, TypeOK
    <3> DEFINE d == [store[j][w] EXCEPT ![f] = v]
    <3>2. store' = [store EXCEPT ![j] = [store[j] EXCEPT ![w] = d]]
      BY <3>1
    <3> HIDE DEF d
    <3>3. store \in [Ids -> [Uoms -> Dims]]
      BY DEF TypeOK
    <3> QED BY <2>1, <3>2, <3>3
  <2> QED BY <1>0, <1>1, <1>2, <2>1, <2>2, DimsSame
<1>7. \/ UNCHANGED <<store, settled>> \/ Verify
      \/ \E m \in wire : Land(m)
      \/ \E j \in Ids, w \in Uoms, f \in Fields, v \in Values \union {Unset} : EditDims(j, w, f, v)
  BY DEF Next, Run, Operator, Others, Start, PlanNext, Planned, SelectNext, NoneSelected,
         PlanProving, NextItem, NextTarget, WriteItem, CheckRate, ReadItem, SendItem, TimeOut,
         Crash, Complete, Confirm, TypeCode, RejectPoisoned, Lose, Rename
<1> QED BY <1>3, <1>4, <1>5, <1>6, <1>7
SettledPlan ==
  phase \in {"planning", "confirming"} =>
    \A k \in done + 1 .. Len(plan.to_write) :
      <<plan.to_write[k].id, plan.to_write[k].uom>> \notin settled

(* What would change is not settled.                                       *)
LEMMA ChangeIsNew ==
  ASSUME TypeOK, SettledHold, NEW i \in Ids, NEW u, BaseCode(i) # NoBase,
         ~IsEmpty(ComputeDiff(DimsOf(i, u), Wanted(i)))
  PROVE  <<i, u>> \notin settled
<1>1. DimsOf(i, u) \in Dims /\ Wanted(i) \in Desired
  BY DimsOfType, WantedType
<1>2. ~Holds(DimsOf(i, u), Wanted(i))
  BY <1>1, EmptyIffHolds
<1>3. <<i, u>> \in settled => u \in Uoms
  BY DEF TypeOK
<1> QED BY <1>2, <1>3 DEF SettledHold

LEMMA SettledPlanKept ==
  ASSUME TypeOK, PlanInv, SettledHold, SettledPlan, Next
  PROVE  SettledPlan'
<1>0. /\ plan \in Plans /\ plan.to_write \in Seq(Item1) /\ Len(plan.to_write) \in Nat
      /\ done \in Nat
  BY PlanFacts
<1>1. ASSUME phase' \notin {"planning", "confirming"} PROVE SettledPlan'
  BY <1>1 DEF SettledPlan
<1>2. ASSUME plan'.to_write = plan.to_write, done' = done, settled' \subseteq settled,
             phase' \in {"planning", "confirming"} => phase \in {"planning", "confirming"}
      PROVE  SettledPlan'
  BY <1>2 DEF SettledPlan
<1>3. CASE Start
  <2>1. plan'.to_write = <<>> /\ done' = 0
    BY <1>3 DEF Start, NoPlan
  <2>2. Len(<<>>) = 0 /\ \A k \in 0 + 1 .. 0 : FALSE
    OBVIOUS
  <2>3. \A k \in done' + 1 .. Len(plan'.to_write) : FALSE
    BY <2>1, <2>2
  <2> QED BY <2>3 DEF SettledPlan
<1>4. CASE PlanNext
  <2> DEFINE i == Head(cands)
             u == TargetUom(i)
             item == [id |-> i, uom |-> u, want |-> Wanted(i)]
  <2>1. /\ phase = "planning" /\ UNCHANGED <<phase, done, settled>> /\ i \in Ids
    BY <1>4, NextCandidate DEF PlanNext
  <2>2. CASE plan'.to_write = plan.to_write
    BY <1>2, <2>1, <2>2
  <2>3. CASE /\ plan' = [plan EXCEPT !.to_write = Append(plan.to_write, item)]
             /\ ~Blocked(i) /\ ~IsEmpty(ComputeDiff(DimsOf(i, u), Wanted(i)))
    <3>1. item \in Item1 /\ item.id = i /\ item.uom = u /\ BaseCode(i) # NoBase
      BY <1>4, <2>3, NextCandidate, UomType DEF PlanNext, Blocked
    <3>2. <<i, u>> \notin settled
      BY <2>1, <2>3, <3>1, ChangeIsNew
    <3>3. plan'.to_write = Append(plan.to_write, item)
      BY <1>0, <2>3 DEF Plans
    <3> HIDE DEF item, i, u
    <3>4. /\ Len(plan'.to_write) = Len(plan.to_write) + 1
          /\ \A k \in 1 .. Len(plan.to_write) : plan'.to_write[k] = plan.to_write[k]
          /\ plan'.to_write[Len(plan.to_write) + 1] = item
      BY <1>0, <3>1, <3>3, AppendProperties
    <3>5. \A k \in done + 1 .. Len(plan'.to_write) :
            \/ k \in done + 1 .. Len(plan.to_write) /\ k \in 1 .. Len(plan.to_write)
            \/ k = Len(plan.to_write) + 1
      BY <1>0, <3>4
    <3> QED BY <2>1, <3>1, <3>2, <3>4, <3>5 DEF SettledPlan
  <2>4. \/ plan'.to_write = plan.to_write
        \/ /\ plan' = [plan EXCEPT !.to_write = Append(plan.to_write, item)]
           /\ ~Blocked(i) /\ ~IsEmpty(ComputeDiff(DimsOf(i, u), Wanted(i)))
    BY <1>0, <1>4 DEF PlanNext, Plans
  <2> HIDE DEF i, u, item
  <2> QED BY <2>2, <2>3, <2>4
<1>5. CASE SelectNext
  <2> DEFINE i == Head(cands)
             u == product[i].default
             item == [id |-> i, uom |-> u, want |-> Wanted(i)]
  <2>1. /\ phase = "planning" /\ UNCHANGED <<done, settled>> /\ i \in Ids
    BY <1>5, NextCandidate DEF SelectNext
  <2>2. CASE plan'.to_write = plan.to_write
    BY <1>2, <2>1, <2>2
  <2>3. CASE /\ plan'.to_write = <<item>> /\ BaseCode(i) # NoBase
             /\ ~IsEmpty(ComputeDiff(DimsOf(i, u), Wanted(i)))
    <3>1. <<i, u>> \notin settled
      BY <2>1, <2>3, ChangeIsNew
    <3>2. item.id = i /\ item.uom = u
      OBVIOUS
    <3> HIDE DEF item, i, u
    <3>3. Len(plan'.to_write) = 1 /\ plan'.to_write[1] = item
      BY <2>3
    <3>4. \A k \in done + 1 .. 1 : k = 1
      BY <1>0
    <3> QED BY <2>1, <3>1, <3>2, <3>3, <3>4 DEF SettledPlan
  <2>4. \/ plan'.to_write = plan.to_write
        \/ /\ plan'.to_write = <<item>> /\ BaseCode(i) # NoBase
           /\ ~IsEmpty(ComputeDiff(DimsOf(i, u), Wanted(i)))
    BY <1>0, <1>5 DEF SelectNext, Plans
  <2> HIDE DEF i, u, item
  <2> QED BY <2>2, <2>3, <2>4
<1>6. CASE NextTarget
  <2>1. /\ kind = "proving" /\ phase = "between" /\ UNCHANGED <<kind, done, cands, settled>>
        /\ done < Len(plan.to_write) /\ Item \in Item1 /\ done + 1 \in 1 .. Len(plan.to_write)
    BY <1>6, PlanFacts DEF NextTarget
  <2>2. CASE phase' = phase
    BY <1>1, <2>1, <2>2
  <2> DEFINE u == product[Item.id].default
  <2>3. CASE /\ u # NoUom /\ ~IsEmpty(ComputeDiff(DimsOf(Item.id, u), Item.want))
             /\ plan' = [plan EXCEPT !.to_write[done + 1].uom = u]
    <3>1. ItemOK(Item) /\ Item.id \in Ids
      BY <2>1 DEF PlanInv, ItemsOK, Item, Item1
    <3>2. <<Item.id, u>> \notin settled
      BY <2>3, <3>1, ChangeIsNew DEF ItemOK
    <3>3. /\ UomsRead' /\ Len(plan'.to_write) = Len(plan.to_write)
          /\ \A k \in 1 .. Len(plan.to_write) : plan'.to_write[k].id = plan.to_write[k].id
          /\ plan'.to_write[done + 1].uom = u
      BY <2>1, <2>3, ConstantKept, TargetKept
    <3>4. \A k \in 1 .. Len(plan.to_write) : k > done + 1 => plan'.to_write[k].uom = NoUom
      BY <2>1, <3>3 DEF UomsRead
    <3>5. \A i : <<i, NoUom>> \notin settled
      BY ItemAssumption DEF TypeOK
    <3>6. plan'.to_write[done + 1].id = Item.id
      BY <2>1, <3>3 DEF Item
    <3>7. \A k \in done + 1 .. Len(plan.to_write) :
            k = done + 1 \/ (k > done + 1 /\ k \in 1 .. Len(plan.to_write))
      BY <1>0
    <3> HIDE DEF u
    <3> QED BY <2>1, <3>2, <3>3, <3>4, <3>5, <3>6, <3>7 DEF SettledPlan
  <2> QED BY <1>6, <2>2, <2>3 DEF NextTarget
<1>7. CASE Planned \/ NoneSelected
  BY <1>2, <1>7 DEF Planned, NoneSelected
<1>8. CASE PlanProving \/ NextItem \/ Complete \/ Confirm \/ TypeCode
  BY <1>1, <1>8 DEF PlanProving, NextItem, Complete, Confirm, TypeCode
<1>9. CASE WriteItem
  BY <1>1, <1>9 DEF WriteItem, CheckRate, ReadItem, SendItem, TimeOut, Verify, Crash, Fail
<1>10. CASE Others
  <2>1. /\ UNCHANGED <<plan, done>> /\ settled' \subseteq settled
        /\ phase' \in {"verifying", "reported", "raised", "crashed", phase}
    BY <1>10 DEF Others, Land, RejectPoisoned, Lose, EditDims, Rename, Awaited, Fail
  <2> QED BY <1>2, <2>1
<1> QED BY <1>3, <1>4, <1>5, <1>6, <1>7, <1>8, <1>9, <1>10 DEF Next, Run, Operator
-----------------------------------------------------------------------------
(* The theorems.                                                           *)
LEMMA InitOK == Init => IInv
<1> SUFFICES ASSUME Init PROVE IInv
  OBVIOUS
<1>1. TypeOK
  BY InitTypes
<1>2. /\ wire = {} /\ phase = "idle" /\ cands = <<>> /\ plan.to_write = <<>> /\ done = 0
      /\ runs = 0 /\ report = NoReport /\ settled = {}
  BY DEF Init, NoPlan
<1>3. /\ Len(<<>>) = 0 /\ \A k \in 1 .. 0 : FALSE
      /\ NoReport.failed = <<>> /\ NoReport.untouched = <<>> /\ NoReport.error = ""
  BY DEF NoReport
<1>4. (\A k \in 1 .. Len(plan.to_write) : FALSE) /\ (\A k \in 1 .. Len(cands) : FALSE)
  BY <1>2, <1>3
<1>5. ProductsOK
  BY CatalogueAssumption DEF Init, ProductsOK
<1>6. CandsOK /\ ItemsOK /\ UomsRead
  BY <1>4 DEF CandsOK, ItemsOK, UomsRead
<1>7. PhasesOK
  BY <1>2 DEF PhasesOK
<1>8. WireOK /\ CurrentOK
  BY <1>2 DEF WireOK, CurrentOK
<1>9. ReportOK /\ Paced
  BY <1>2, <1>3 DEF ReportOK, Paced
<1>10. Unpoisoned
  BY <1>2, <1>3, <1>4 DEF Unpoisoned
<1>11. SettledOK
  BY <1>2 DEF SettledOK
<1> QED BY <1>1, <1>5, <1>6, <1>7, <1>8, <1>9, <1>10, <1>11 DEF IInv, PlanInv

LEMMA StepOK ==
  ASSUME IInv, [Next]_vars
  PROVE  IInv'
<1>1. CASE Next
  <2>1. SettledHold /\ SettledPlan
    BY DEF IInv, SettledOK, SettledHold, SettledPlan
  <2>2. SettledHold' /\ SettledPlan'
    BY <1>1, <2>1, SettledHoldKept, SettledPlanKept DEF IInv
  <2>3. SettledOK'
    BY <2>2 DEF SettledOK, SettledHold, SettledPlan
  <2> QED BY <1>1, <2>3, TypesKept, PlanKept, WireKept, CurrentKept, ReportKept, PacedKept,
             UnpoisonedKept DEF IInv
<1>2. CASE UNCHANGED vars
  <2>1. UNCHANGED <<kind, config, scope, product, store, table, wire, phase, cands, plan, done,
                    reply, report, read, tokens, runs, edits, settled>>
    BY <1>2 DEF vars
  <2>2. TypeOK'
    BY <2>1 DEF IInv, TypeOK
  <2>3. PlanInv'
    BY <2>1 DEF IInv, PlanInv, ProductsOK, CandsOK, ItemsOK, ItemOK, UomFor, BaseCode, Wanted,
                UomsRead, PhasesOK, Item, CustomerOf
  <2>4. WireOK' /\ CurrentOK'
    BY <2>1 DEF IInv, WireOK, CurrentOK, InHand, Halted, UomFor, BaseCode, Wanted, Item,
                CustomerOf, Holds
  <2>5. ReportOK' /\ Paced' /\ Unpoisoned'
    BY <2>1 DEF IInv, ReportOK, Paced, Unpoisoned
  <2>6. SettledOK'
    BY <2>1 DEF IInv, SettledOK, DimsOf, Wanted, BaseCode, Holds
  <2> QED BY <2>2, <2>3, <2>4, <2>5, <2>6 DEF IInv
<1> QED BY <1>1, <1>2

(* The inductive invariant holds of every sequence of runs.                *)
THEOREM Invariance == Spec => []IInv
BY InitOK, StepOK, PTL DEF Spec

(* Every variable keeps its type, whatever the runs and the others do.     *)
THEOREM TypeCorrect == Spec => []TypeOK
<1>1. IInv => TypeOK
  BY DEF IInv
<1> QED BY <1>1, Invariance, PTL

(* Every PATCH on its way is about a product of the customer its script    *)
(* works on, the live one only when armed, on the unit of measure meant,   *)
(* with the dims captured for its code or, failing that, for its base      *)
(* code.                                                                   *)
THEOREM StaysOnTarget == Spec => []OnTarget
<1>1. ASSUME IInv PROVE OnTarget
  <2>1. ASSUME NEW m \in wire
        PROVE  \E c \in DOMAIN table :
                 /\ \/ c = product[m.id].code
                    \/ /\ product[m.id].code \in DOMAIN Strip \ DOMAIN table
                       /\ c = Strip[product[m.id].code]
                 /\ Holds(table[c], m.ops)
    <3>1. BaseCode(m.id) # NoBase /\ Holds(Wanted(m.id), m.ops)
      BY <1>1, <2>1 DEF IInv, WireOK
    <3>2. /\ BaseCode(m.id) \in DOMAIN table
          /\ \/ BaseCode(m.id) = product[m.id].code
             \/ /\ product[m.id].code \in DOMAIN Strip \ DOMAIN table
                /\ BaseCode(m.id) = Strip[product[m.id].code]
      BY <3>1 DEF BaseCode, ResolveBaseCode
    <3>3. Holds(table[BaseCode(m.id)], m.ops)
      BY <3>1 DEF Wanted, Holds, Writable
    <3> QED BY <3>2, <3>3
  <2>2. \A m \in wire : /\ product[m.id].owner = CustomerOf(m.kind)
                        /\ product[m.id].owner = Live => m.armed
                        /\ m.uom = UomFor(m.kind, m.id)
    BY <1>1 DEF IInv, WireOK
  <2> QED BY <2>1, <2>2 DEF OnTarget, UomFor
<1> QED BY <1>1, Invariance, PTL

(* No run sends what its operator was not shown and did not agree to.      *)
THEOREM ConfirmedOnly == Spec => []OnlyConfirmedIsSent
<1>1. ASSUME IInv PROVE OnlyConfirmedIsSent
  <2> SUFFICES ASSUME NEW m \in wire, m.run = runs
               PROVE  \E k \in DOMAIN plan.to_write :
                        /\ reply = "go" \/ k <= done
                        /\ plan.to_write[k].id = m.id /\ plan.to_write[k].uom = m.uom
                        /\ Holds(plan.to_write[k].want, m.ops)
    BY DEF OnlyConfirmedIsSent
  <2>1. InHand(m)
    BY <1>1 DEF IInv, CurrentOK
  <2>2. TypeOK /\ plan.to_write \in Seq(Item1)
    BY <1>1, PlanFacts DEF IInv
  <2>3. done + 1 \in 1 .. Len(plan.to_write)
    BY <2>1, <2>2, PlanFacts DEF InHand
  <2>4. DOMAIN plan.to_write = 1 .. Len(plan.to_write)
    BY <2>2
  <2>5. done + 1 \in DOMAIN plan.to_write
    BY <2>3, <2>4
  <2> QED BY <2>1, <2>5 DEF InHand, Item
<1> QED BY <1>1, Invariance, PTL

(* However long a bulk plan is, its pauses keep it within the limiter.     *)
THEOREM NeverRateLimited == Spec => []PacedUnderLimit
<1>1. IInv => PacedUnderLimit
  BY DEF IInv, Paced, PacedUnderLimit
<1> QED BY <1>1, Invariance, PTL

(* While nobody else edits, the each run plans and meets no product that a *)
(* bad name of a unit of measure makes unwritable.                         *)
THEOREM PoisonStaysOut == Spec => []PoisonAvoided
<1>1. ASSUME IInv PROVE PoisonAvoided
  <2> SUFFICES ASSUME kind = "each", edits = 0
               PROVE  /\ report.error # "poisoned"
                      /\ \A k \in DOMAIN plan.to_write :
                           /\ ClassifyEachUom(plan.to_write[k].id) = "each-writable"
                           /\ ClassifyCtUom(plan.to_write[k].id) # "ct-incomplete"
    BY DEF PoisonAvoided
  <2>1. TypeOK /\ plan.to_write \in Seq(Item1) /\ DOMAIN plan.to_write = 1 .. Len(plan.to_write)
    BY <1>1, PlanFacts DEF IInv
  <2>2. ASSUME NEW k \in 1 .. Len(plan.to_write)
        PROVE  /\ ClassifyEachUom(plan.to_write[k].id) = "each-writable"
               /\ ClassifyCtUom(plan.to_write[k].id) # "ct-incomplete"
    <3> DEFINE i == plan.to_write[k].id
    <3>1. i \in Ids
      <4>1. plan.to_write[k] \in Item1
        BY <2>1, <2>2
      <4> QED BY <4>1 DEF Item1
    <3>2. product[i].badly_named = {}
      BY <1>1, <2>2 DEF IInv, Unpoisoned
    <3>3. plan.to_write[k].uom # NoUom /\ plan.to_write[k].uom = UomFor(kind, i)
      BY <1>1, <2>2 DEF IInv, PlanInv, ItemsOK, ItemOK, UomsRead
    <3>4. product[i].default \in product[i].uoms
      BY <1>1, <3>1, <3>3 DEF IInv, PlanInv, ProductsOK, UomFor
    <3> HIDE DEF i
    <3>5. ClassifyEachUom(i) = "each-writable" /\ ClassifyCtUom(i) # "ct-incomplete"
      BY <3>2, <3>4 DEF ClassifyEachUom, ClassifyCtUom
    <3> QED BY <3>5 DEF i
  <2>3. report.error # "poisoned"
    BY <1>1 DEF IInv, Unpoisoned
  <2> QED BY <2>1, <2>2, <2>3
<1> QED BY <1>1, Invariance, PTL

(* A run shows its operator nothing that an earlier run has settled.       *)
THEOREM Resumes == Spec => []ResumeSkipsWritten
<1>1. IInv => ResumeSkipsWritten
  BY DEF IInv, SettledOK, ResumeSkipsWritten
<1> QED BY <1>1, Invariance, PTL

(* A script that returns 0 has no PATCH under way and has left nothing it  *)
(* was to write.                                                           *)
THEOREM ZeroMeansClean == Spec => []ZeroIsClean
<1>1. ASSUME IInv PROVE ZeroIsClean
  <2>1. ASSUME phase \in Ended, ExitCode = 0 PROVE ~Halted
    <3>0. kind \in Kinds
      BY <1>1 DEF IInv, TypeOK
    <3>1. ASSUME phase \in {"raised", "crashed"} PROVE FALSE
      BY <2>1, <3>0, <3>1 DEF ExitCode, AsReported, RoundtripExit, CartonExit, EachExit,
                              ProvingExit, Finalized
    <3>2. ASSUME phase = "reported", report.failed # <<>> PROVE FALSE
      <4>1. kind \in BulkKinds
        BY <1>1, <3>2 DEF IInv, ReportOK
      <4> QED BY <2>1, <3>2, <4>1 DEF ExitCode, AsReported, CartonExit, EachExit, Finalized
    <3> QED BY <3>1, <3>2 DEF Halted
  <2>2. ASSUME phase \in Ended, ~Halted PROVE \A m \in wire : m.run # runs
    BY <1>1, <2>2 DEF IInv, CurrentOK, InHand, Ended
  <2>3. ASSUME phase = "reported", ~report.aborted, ~Halted
        PROVE  report.failed = <<>> /\ report.untouched = <<>>
    BY <1>1, <2>3 DEF IInv, ReportOK, Halted
  <2> QED BY <2>1, <2>2, <2>3 DEF ZeroIsClean
<1> QED BY <1>1, Invariance, PTL
-----------------------------------------------------------------------------
(* The report accounts for every product the run had to account for.       *)

TargetIds(p) == {p.to_write[k].id : k \in 1 .. Len(p.to_write)}

(* The products of a plan, and the places they take in it.                 *)
Bucketed(p) == TargetIds(p) \union ToSet(p.no_ops) \union ToSet(p.skipped)
Size(p) == Len(p.to_write) + Len(p.no_ops) + Len(p.skipped)

Counting ==
  \/ phase \in Writing \union {"confirming", "between", "reported"}
  \/ phase = "planning" /\ kind # "proving"

(* A plan holds what the run has looked at, each product once.             *)
CountInv ==
  /\ \A j, k \in 1 .. Len(cands) : j < k => cands[j] # cands[k]
  /\ ToSet(cands) \subseteq Candidates(kind, scope)
  /\ Counting => Bucketed(plan) = Accountable /\ Size(plan) = Cardinality(Accountable)
  /\ kind = "roundtrip" /\ phase = "planning" => plan.to_write = <<>>
  /\ kind = "proving" /\ phase = "planning" => plan = NoPlan

(* A report divides the items of its plan.                                 *)
ReportInv ==
  phase = "reported" =>
    /\ ToSet(report.written) \union ToSet(report.failed) \union ToSet(report.untouched)
         = TargetIds(plan)
    /\ Len(report.written) + Len(report.failed) + Len(report.untouched) = Len(plan.to_write)
    /\ report.no_ops = plan.no_ops /\ report.skipped = plan.skipped

(* A list as long as a set, of its elements, without repetition.           *)
LEMMA DistinctIsOnto ==
  ASSUME NEW S, IsFiniteSet(S), NEW s \in [1 .. Cardinality(S) -> S],
         \A j, k \in 1 .. Cardinality(S) : j < k => s[j] # s[k]
  PROVE  {s[k] : k \in 1 .. Cardinality(S)} = S
<1> DEFINE n == Cardinality(S)
<1>1. n \in Nat
  BY FS_CardinalityType
<1>2. ASSUME NEW j \in 1 .. n, NEW k \in 1 .. n, s[j] = s[k] PROVE j = k
  <2>1. ~(j < k) /\ ~(k < j)
    BY <1>2
  <2> QED BY <1>1, <1>2, <2>1
<1> HIDE DEF n
<1>3. s \in Injection(1 .. n, S)
  BY <1>2 DEF Injection, IsInjective, n
<1>4. Cardinality(1 .. n) = n
  BY <1>1, FS_Interval
<1>5. s \in Surjection(1 .. n, S)
  BY <1>3, <1>4, FS_Injection DEF n
<1> QED BY <1>5 DEF Surjection, n

LEMMA ConcatSet ==
  ASSUME NEW S, NEW a \in Seq(S), NEW b \in Seq(S)
  PROVE  /\ a \o b \in Seq(S) /\ ToSet(a \o b) = ToSet(a) \union ToSet(b)
         /\ Len(a \o b) = Len(a) + Len(b)
<1>1. /\ a \o b \in Seq(S) /\ Len(a \o b) = Len(a) + Len(b)
      /\ \A i \in 1 .. Len(a) + Len(b) : (a \o b)[i] = IF i <= Len(a) THEN a[i] ELSE b[i - Len(a)]
  BY ConcatProperties
<1>2. /\ Len(a) \in Nat /\ Len(b) \in Nat /\ DOMAIN a = 1 .. Len(a) /\ DOMAIN b = 1 .. Len(b)
      /\ DOMAIN (a \o b) = 1 .. Len(a) + Len(b)
  BY <1>1, LenProperties
<1> DEFINE c == a \o b
<1> HIDE DEF c
<1>3. ASSUME NEW i \in 1 .. Len(a) + Len(b) PROVE c[i] \in ToSet(a) \union ToSet(b)
  <2>1. CASE i <= Len(a)
    <3>1. i \in 1 .. Len(a) /\ c[i] = a[i]
      BY <1>1, <1>2, <1>3, <2>1 DEF c
    <3> QED BY <1>2, <3>1 DEF ToSet
  <2>2. CASE ~(i <= Len(a))
    <3>1. i - Len(a) \in 1 .. Len(b) /\ c[i] = b[i - Len(a)]
      BY <1>1, <1>2, <1>3, <2>2 DEF c
    <3> QED BY <1>2, <3>1 DEF ToSet
  <2> QED BY <2>1, <2>2
<1>4. ASSUME NEW i \in 1 .. Len(a) PROVE a[i] \in ToSet(c)
  <2>1. i \in 1 .. Len(a) + Len(b) /\ c[i] = a[i]
    BY <1>1, <1>2, <1>4 DEF c
  <2> QED BY <1>2, <2>1 DEF ToSet, c
<1>5. ASSUME NEW i \in 1 .. Len(b) PROVE b[i] \in ToSet(c)
  <2>1. i + Len(a) \in 1 .. Len(a) + Len(b) /\ ~(i + Len(a) <= Len(a)) /\ i + Len(a) - Len(a) = i
    BY <1>2, <1>5
  <2>2. c[i + Len(a)] = b[i]
    BY <1>1, <2>1 DEF c
  <2> QED BY <1>2, <2>1, <2>2 DEF ToSet, c
<1>6. ToSet(c) = ToSet(a) \union ToSet(b)
  <2>1. ToSet(c) \subseteq ToSet(a) \union ToSet(b)
    BY <1>2, <1>3 DEF ToSet, c
  <2>2. ToSet(a) \subseteq ToSet(c) /\ ToSet(b) \subseteq ToSet(c)
    BY <1>2, <1>4, <1>5 DEF ToSet
  <2> QED BY <2>1, <2>2
<1> QED BY <1>1, <1>6 DEF c

LEMMA AppendSet ==
  ASSUME NEW S, NEW s \in Seq(S), NEW x \in S
  PROVE  /\ Append(s, x) \in Seq(S) /\ ToSet(Append(s, x)) = ToSet(s) \union {x}
         /\ Len(Append(s, x)) = Len(s) + 1
<1>1. /\ Append(s, x) \in Seq(S) /\ Len(Append(s, x)) = Len(s) + 1
      /\ \A i \in 1 .. Len(s) : Append(s, x)[i] = s[i]
      /\ Append(s, x)[Len(s) + 1] = x
  BY AppendProperties
<1> DEFINE c == Append(s, x)
<1> HIDE DEF c
<1>2. Len(s) \in Nat /\ DOMAIN s = 1 .. Len(s) /\ DOMAIN c = 1 .. Len(s) + 1
  BY <1>1, LenProperties DEF c
<1>3. \A i \in 1 .. Len(s) + 1 : i \in 1 .. Len(s) \/ i = Len(s) + 1
  BY <1>2
<1>4. \A i \in 1 .. Len(s) : i \in 1 .. Len(s) + 1
  BY <1>2
<1>5. Len(s) + 1 \in 1 .. Len(s) + 1
  BY <1>2
<1>6. ToSet(c) \subseteq ToSet(s) \union {x}
  BY <1>1, <1>2, <1>3 DEF ToSet, c
<1>7. ToSet(s) \union {x} \subseteq ToSet(c)
  BY <1>1, <1>2, <1>4, <1>5 DEF ToSet, c
<1> QED BY <1>1, <1>6, <1>7 DEF c

LEMMA IdsSet ==
  ASSUME NEW items \in Seq(Item1)
  PROVE  ToSet(IdsOf(items)) = {items[k].id : k \in 1 .. Len(items)}
BY DEF ToSet, IdsOf
(* The three ways a run ends with a report.                                *)
Divides(failed, untouched) ==
  \/ /\ done < Len(plan.to_write) /\ failed = <<Item.id>> /\ untouched = Tail(Remaining)
  \/ /\ done = 0 /\ failed = <<>> /\ untouched = plan.to_write
  \/ /\ done = Len(plan.to_write) /\ failed = <<>> /\ untouched = <<>>

LEMMA RestOfPlan ==
  ASSUME TypeOK, done < Len(plan.to_write)
  PROVE  /\ Tail(Remaining) \in Seq(Item1)
         /\ Len(Tail(Remaining)) = Len(plan.to_write) - done - 1
         /\ \A k \in 1 .. Len(plan.to_write) - done - 1 :
              Tail(Remaining)[k] = plan.to_write[done + 1 + k]
<1> DEFINE s == plan.to_write
<1>1. s \in Seq(Item1) /\ Len(s) \in Nat /\ done \in Nat /\ done < Len(s)
  BY PlanFacts
<1>2. \A i \in done + 1 .. Len(s) : s[i] \in Item1
  BY <1>1
<1> HIDE DEF s
<1>3. /\ SubSeq(s, done + 1, Len(s)) \in Seq(Item1)
      /\ Len(SubSeq(s, done + 1, Len(s))) =
           IF done + 1 <= Len(s) THEN Len(s) - (done + 1) + 1 ELSE 0
      /\ \A i \in 1 .. Len(s) - (done + 1) + 1 :
           SubSeq(s, done + 1, Len(s))[i] = s[done + 1 + i - 1]
  <2>1. done + 1 \in Int /\ Len(s) \in Int
    BY <1>1
  <2> QED BY <1>2, <2>1, SubSeqProperties
<1> DEFINE r == SubSeq(s, done + 1, Len(s))
<1>4. Remaining = r
  BY DEF Remaining, s
<1> HIDE DEF r
<1>5. /\ r \in Seq(Item1) /\ Len(r) = Len(s) - done /\ r # <<>>
      /\ \A i \in 1 .. Len(s) - done : r[i] = s[done + i]
  <2>1. Len(r) = Len(s) - done
    BY <1>1, <1>3 DEF r
  <2>2. \A i \in 1 .. Len(s) - done :
          i \in 1 .. Len(s) - (done + 1) + 1 /\ done + 1 + i - 1 = done + i
    BY <1>1
  <2>3. r # <<>>
    <3>1. Len(r) # 0
      BY <1>1, <2>1
    <3> QED BY <3>1
  <2> QED BY <1>3, <2>1, <2>2, <2>3 DEF r
<1>6. /\ Tail(r) \in Seq(Item1) /\ Len(Tail(r)) = Len(r) - 1
      /\ \A i \in 1 .. Len(Tail(r)) : Tail(r)[i] = r[i + 1]
  BY <1>5, HeadTailProperties
<1>7. Len(Tail(r)) = Len(s) - done - 1
  BY <1>1, <1>5, <1>6
<1>8. ASSUME NEW k \in 1 .. Len(s) - done - 1 PROVE Tail(r)[k] = s[done + 1 + k]
  <2>1. k + 1 \in 1 .. Len(s) - done /\ done + (k + 1) = done + 1 + k
    BY <1>1, <1>8
  <2> QED BY <1>5, <1>6, <1>7, <1>8, <2>1
<1> QED BY <1>4, <1>6, <1>7, <1>8 DEF s

LEMMA ReportDivides ==
  ASSUME TypeOK, NEW failed \in Seq(Ids), NEW error, NEW aborted, NEW untouched \in Seq(Item1),
         Report(failed, error, aborted, untouched), plan' = plan, Divides(failed, untouched)
  PROVE  ReportInv'
<1> DEFINE s == plan.to_write
           ids == IdsOf(s)
           written == SubSeq(ids, 1, done)
<1>1. s \in Seq(Item1) /\ Len(s) \in Nat /\ done \in Nat /\ done <= Len(s)
  BY PlanFacts
<1>2. /\ ids \in Seq(Ids) /\ Len(ids) = Len(s) /\ \A k \in 1 .. Len(s) : ids[k] = s[k].id
  <2>1. ids \in Seq(Ids) /\ Len(ids) = Len(s)
    BY <1>1, IdsType
  <2>2. DOMAIN s = 1 .. Len(s)
    BY <1>1
  <2> QED BY <2>1, <2>2 DEF IdsOf
<1>3. report' = [written |-> written, no_ops |-> plan.no_ops, skipped |-> plan.skipped,
                 failed |-> failed, error |-> error, aborted |-> aborted,
                 untouched |-> IdsOf(untouched)]
  BY DEF Report
<1> HIDE DEF s, ids
<1>4. /\ Len(written) = done /\ \A k \in 1 .. done : written[k] = s[k].id
      /\ written \in Seq(Ids)
  <2>1. \A i \in 1 .. done : ids[i] \in Ids
    BY <1>1, <1>2
  <2>2. /\ written \in Seq(Ids) /\ Len(written) = IF 1 <= done THEN done - 1 + 1 ELSE 0
        /\ \A i \in 1 .. done - 1 + 1 : written[i] = ids[1 + i - 1]
    BY <1>1, <2>1, SubSeqProperties
  <2> HIDE DEF written
  <2>3. Len(written) = done
    BY <1>1, <2>2
  <2>4. \A k \in 1 .. done : k \in 1 .. done - 1 + 1 /\ 1 + k - 1 = k /\ k \in 1 .. Len(s)
    BY <1>1
  <2> QED BY <1>2, <2>2, <2>3, <2>4
<1> HIDE DEF written
<1>5. ToSet(written) = {s[k].id : k \in 1 .. done}
  <2>1. DOMAIN written = 1 .. done
    BY <1>4, LenProperties
  <2> QED BY <1>4, <2>1 DEF ToSet
<1>6. /\ ToSet(IdsOf(untouched)) = {untouched[k].id : k \in 1 .. Len(untouched)}
      /\ Len(IdsOf(untouched)) = Len(untouched)
  BY IdsType, IdsSet
<1>7. TargetIds(plan) = {s[k].id : k \in 1 .. Len(s)}
  BY DEF TargetIds, s
<1>8. /\ ToSet(written) \union ToSet(failed) \union ToSet(IdsOf(untouched)) = TargetIds(plan)
      /\ Len(written) + Len(failed) + Len(IdsOf(untouched)) = Len(s)
  <2>1. CASE done < Len(s) /\ failed = <<Item.id>> /\ untouched = Tail(Remaining)
    <3>1. /\ Len(untouched) = Len(s) - done - 1
          /\ \A k \in 1 .. Len(s) - done - 1 : untouched[k] = s[done + 1 + k]
      BY <2>1, RestOfPlan DEF s
    <3>2. ToSet(failed) = {s[done + 1].id} /\ Len(failed) = 1
      BY <2>1 DEF ToSet, Item, s
    <3>3. Len(written) + Len(failed) + Len(IdsOf(untouched)) = Len(s)
      BY <1>1, <1>4, <1>6, <3>1, <3>2
    <3>4. ASSUME NEW k \in 1 .. Len(s)
          PROVE  \/ k \in 1 .. done \/ k = done + 1
                 \/ /\ k - done - 1 \in 1 .. Len(s) - done - 1
                    /\ done + 1 + (k - done - 1) = k
      BY <1>1, <3>4
    <3>5. ASSUME NEW k \in 1 .. Len(s)
          PROVE  s[k].id \in ToSet(written) \union ToSet(failed) \union ToSet(IdsOf(untouched))
      <4>1. CASE k \in 1 .. done
        BY <1>5, <4>1
      <4>2. CASE k = done + 1
        BY <3>2, <4>2
      <4>3. CASE k - done - 1 \in 1 .. Len(s) - done - 1 /\ done + 1 + (k - done - 1) = k
        <5>1. untouched[k - done - 1] = s[k]
          BY <3>1, <4>3
        <5> QED BY <1>6, <3>1, <4>3, <5>1
      <4> QED BY <3>4, <4>1, <4>2, <4>3
    <3>6. ASSUME NEW k \in 1 .. Len(s) - done - 1 PROVE done + 1 + k \in 1 .. Len(s)
      BY <1>1, <3>6
    <3>7. done + 1 \in 1 .. Len(s) /\ \A k \in 1 .. done : k \in 1 .. Len(s)
      BY <1>1, <2>1
    <3>8. ToSet(written) \union ToSet(failed) \union ToSet(IdsOf(untouched)) \subseteq TargetIds(plan)
      BY <1>5, <1>6, <1>7, <3>1, <3>2, <3>6, <3>7
    <3>9. TargetIds(plan) \subseteq ToSet(written) \union ToSet(failed) \union ToSet(IdsOf(untouched))
      BY <1>7, <3>5
    <3> QED BY <3>3, <3>8, <3>9
  <2>2. CASE done = 0 /\ failed = <<>> /\ untouched = s
    <3>1. ToSet(failed) = {} /\ Len(failed) = 0
      BY <2>2 DEF ToSet
    <3>2. ToSet(written) = {} /\ Len(written) = 0
      <4>1. 1 .. done = {}
        BY <2>2
      <4> QED BY <1>4, <1>5, <2>2, <4>1
    <3> QED BY <1>1, <1>6, <1>7, <2>2, <3>1, <3>2
  <2>3. CASE done = Len(s) /\ failed = <<>> /\ untouched = <<>>
    <3>1. ToSet(failed) = {} /\ Len(failed) = 0
      BY <2>3 DEF ToSet
    <3>2. Len(untouched) = 0 /\ {untouched[k].id : k \in 1 .. Len(untouched)} = {}
      BY <2>3
    <3> QED BY <1>1, <1>4, <1>5, <1>6, <1>7, <2>3, <3>1, <3>2
  <2> QED BY <2>1, <2>2, <2>3 DEF Divides, s
<1>9. /\ report'.written = written /\ report'.failed = failed
      /\ report'.untouched = IdsOf(untouched) /\ report'.no_ops = plan.no_ops
      /\ report'.skipped = plan.skipped
  BY <1>3
<1> QED BY <1>8, <1>9 DEF ReportInv, s, TargetIds, ToSet

LEMMA FailDivides ==
  ASSUME TypeOK, PlanInv, phase \in Writing, NEW e, Fail(e), plan' = plan
  PROVE  ReportInv'
<1>1. done < Len(plan.to_write) /\ Item.id \in Ids
  BY ItemAtHand
<1>2. CASE kind \in BulkKinds
  <2>1. Report(<<Item.id>>, e, FALSE, Tail(Remaining))
    BY <1>2 DEF Fail
  <2>2. Tail(Remaining) \in Seq(Item1) /\ <<Item.id>> \in Seq(Ids)
    BY <1>1, RestOfPlan
  <2>3. Divides(<<Item.id>>, Tail(Remaining))
    BY <1>1 DEF Divides
  <2> QED BY <2>1, <2>2, <2>3, ReportDivides
<1>3. CASE kind \notin BulkKinds
  BY <1>3 DEF Fail, ReportInv
<1> QED BY <1>2, <1>3

LEMMA ReportInvKept ==
  ASSUME TypeOK, PlanInv, ReportInv, Next
  PROVE  ReportInv'
<1>0. <<>> \in Seq(Ids) /\ <<>> \in Seq(Item1) /\ plan.to_write \in Seq(Item1)
  BY PlanFacts
<1>1. CASE phase' # "reported"
  BY <1>1 DEF ReportInv
<1>2. CASE UNCHANGED <<phase, report, plan>>
  BY <1>2 DEF ReportInv
<1>3. CASE Confirm /\ phase' = "reported"
  <2>1. Report(<<>>, "", TRUE, plan.to_write) /\ plan' = plan
    BY <1>3 DEF Confirm
  <2>2. done = 0
    BY <1>3 DEF Confirm, PlanInv, PhasesOK
  <2>3. Divides(<<>>, plan.to_write)
    BY <2>2 DEF Divides
  <2> QED BY <1>0, <2>1, <2>3, ReportDivides
<1>4. CASE Complete
  <2>1. Report(<<>>, "", FALSE, <<>>) /\ plan' = plan /\ Remaining = <<>>
    BY <1>4 DEF Complete
  <2>2. done = Len(plan.to_write)
    <3>1. ~(done < Len(plan.to_write))
      BY <2>1, PlanFacts
    <3>2. done \in Nat /\ Len(plan.to_write) \in Nat /\ done <= Len(plan.to_write)
      BY PlanFacts
    <3> QED BY <3>1, <3>2
  <2>3. Divides(<<>>, <<>>)
    BY <2>2 DEF Divides
  <2> QED BY <1>0, <2>1, <2>3, ReportDivides
<1>5. ASSUME phase \in Writing, \E e \in Errors : Fail(e), plan' = plan PROVE ReportInv'
  BY <1>5, FailDivides
<1>6. CASE WriteItem
  <2>1. plan' = plan /\ (phase' # "reported" \/ (phase \in Writing /\ \E e \in Errors : Fail(e)))
    BY <1>6 DEF WriteItem, CheckRate, ReadItem, SendItem, TimeOut, Verify, Crash, Errors
  <2> QED BY <1>1, <1>5, <2>1
<1>7. CASE Others
  <2>1. /\ plan' = plan
        /\ \/ phase' # "reported" \/ UNCHANGED <<phase, report>>
           \/ phase \in Writing /\ \E e \in Errors : Fail(e)
    BY <1>7 DEF Others, Land, RejectPoisoned, Lose, EditDims, Rename, Awaited, Errors
  <2> QED BY <1>1, <1>2, <1>5, <2>1
<1>8. CASE Start \/ PlanNext \/ Planned \/ SelectNext \/ NoneSelected \/ PlanProving
           \/ NextItem \/ NextTarget \/ TypeCode
  BY <1>1, <1>8 DEF Start, FirstPhase, PlanNext, Planned, SelectNext, NoneSelected, PlanProving,
                    NextItem, NextTarget, TypeCode
<1> QED BY <1>1, <1>3, <1>4, <1>6, <1>7, <1>8 DEF Next, Run, Operator

(* What has to be accounted for does not depend on the names of units of   *)
(* measure.                                                                *)
LEMMA SameToAccount ==
  ASSUME Constant
  PROVE  /\ \A k, only : Candidates(k, only)' = Candidates(k, only)
         /\ Selected' = Selected
<1>1. \A i \in Ids : product'[i].owner = product[i].owner /\ product'[i].code = product[i].code
  BY DEF Constant, SameProduct
<1>2. \A k, only : Candidates(k, only)' = Candidates(k, only)
  BY <1>1 DEF Candidates, CustomerOf
<1>3. \A i \in Ids : BaseCode(i)' = BaseCode(i)
  BY SameMeaning
<1>4. Resolvable' = Resolvable /\ Resolvable \subseteq Ids
  BY <1>1, <1>3 DEF Resolvable, LiveCandidates
<1>5. \A i, j \in Ids : Before(i, j)' = Before(i, j) /\ Alike(i, j)' = Alike(i, j)
  BY <1>1 DEF Before, Alike
<1>6. Representatives' = Representatives /\ Representatives \subseteq Ids
  BY <1>4, <1>5 DEF Representatives
<1> DEFINE Ahead(i) == {j \in Representatives : Before(j, i)}
<1>7. ASSUME NEW i \in Ids PROVE Ahead(i)' = Ahead(i)
  BY <1>5, <1>6, <1>7
<1>8. /\ Selected = {i \in Representatives : Cardinality(Ahead(i)) < MaxTotal}
      /\ Selected' = {i \in Representatives' : Cardinality(Ahead(i)') < MaxTotal}
  BY DEF Selected
<1> HIDE DEF Ahead
<1>9. Selected' = Selected
  BY <1>6, <1>7, <1>8
<1> QED BY <1>2, <1>9

LEMMA SameAccount ==
  ASSUME Constant, UNCHANGED <<kind, scope, cands>>
  PROVE  Accountable' = Accountable /\ Candidates(kind, scope)' = Candidates(kind, scope)
<1>1. Candidates(kind, scope)' = Candidates(kind, scope)
  BY SameToAccount
<1>2. Selected' = Selected
  BY SameToAccount
<1> QED BY <1>1, <1>2 DEF Accountable

(* A step that looks at nothing new, and moves items within the plan.      *)
LEMMA CountSame ==
  ASSUME CountInv, Constant, UNCHANGED <<kind, scope, cands>>,
         Bucketed(plan)' = Bucketed(plan), Size(plan)' = Size(plan), Counting' => Counting,
         phase' = "planning" => phase = "planning" /\ plan' = plan
  PROVE  CountInv'
<1>1. Accountable' = Accountable /\ Candidates(kind, scope)' = Candidates(kind, scope)
  BY SameAccount
<1>2. \A j, k \in 1 .. Len(cands') : j < k => cands'[j] # cands'[k]
  BY DEF CountInv
<1>3. ToSet(cands') \subseteq Candidates(kind, scope)'
  BY <1>1 DEF CountInv
<1>4. Counting' => Bucketed(plan)' = Accountable' /\ Size(plan)' = Cardinality(Accountable')
  BY <1>1 DEF CountInv
<1>5. /\ kind' = "roundtrip" /\ phase' = "planning" => plan'.to_write = <<>>
      /\ kind' = "proving" /\ phase' = "planning" => plan' = NoPlan
  BY DEF CountInv
<1> QED BY <1>2, <1>3, <1>4, <1>5 DEF CountInv, NoPlan

(* The next candidate is new, and is accounted for once it is planned.     *)
LEMMA NextIsNew ==
  ASSUME TypeOK, CountInv, Constant, UNCHANGED <<kind, scope>>, kind # "proving",
         cands # <<>>, cands' = Tail(cands)
  PROVE  /\ Head(cands) \in Ids /\ Head(cands) \notin Accountable
         /\ Accountable' = Accountable \union {Head(cands)}
         /\ \A j, k \in 1 .. Len(cands') : j < k => cands'[j] # cands'[k]
         /\ ToSet(cands') \subseteq Candidates(kind, scope)'
         /\ Cardinality(Accountable') = Cardinality(Accountable) + 1
<1> DEFINE t == Tail(cands)
           S == Candidates(kind, scope)
<1>a. cands \in Seq(Ids)
  BY DEF TypeOK
<1>b. cands \in Seq(Ids) /\ Len(cands) \in Nat
  BY <1>a, LenProperties
<1>1. /\ t \in Seq(Ids) /\ Len(t) = Len(cands) - 1
      /\ \A k \in 1 .. Len(t) : t[k] = cands[k + 1]
      /\ Len(cands) \in Nat /\ cands \in Seq(Ids)
  BY <1>b, HeadTailProperties
<1>2. Len(cands) >= 1 /\ Head(cands) = cands[1]
  <2>1. Len(cands) # 0
    BY <1>1, EmptySeq
  <2> QED BY <1>1, <2>1
<1> HIDE DEF t
<1>3. DOMAIN t = 1 .. Len(t) /\ DOMAIN cands = 1 .. Len(cands)
  BY <1>1, LenProperties
<1>4. \A k \in 1 .. Len(t) : k + 1 \in 1 .. Len(cands) /\ 1 < k + 1
  BY <1>1
<1>5. 1 \in 1 .. Len(cands)
  BY <1>1, <1>2
<1>6. \A j, k \in 1 .. Len(cands) : j < k => cands[j] # cands[k]
  BY DEF CountInv
<1>7. ToSet(cands) = ToSet(t) \union {Head(cands)}
  <2>1. ToSet(t) \subseteq ToSet(cands)
    BY <1>1, <1>3, <1>4 DEF ToSet
  <2>2. Head(cands) \in ToSet(cands)
    BY <1>2, <1>3, <1>5 DEF ToSet
  <2>3. ASSUME NEW k \in 1 .. Len(cands) PROVE cands[k] \in ToSet(t) \union {Head(cands)}
    <3>1. CASE k = 1
      BY <1>2, <3>1
    <3>2. CASE k # 1
      <4>1. k - 1 \in 1 .. Len(t) /\ (k - 1) + 1 = k
        BY <1>1, <2>3, <3>2
      <4>2. t[k - 1] = cands[k]
        BY <1>1, <4>1
      <4> QED BY <1>3, <4>1, <4>2 DEF ToSet
    <3> QED BY <3>1, <3>2
  <2>4. ToSet(cands) \subseteq ToSet(t) \union {Head(cands)}
    BY <1>3, <2>3 DEF ToSet
  <2> QED BY <2>1, <2>2, <2>4
<1>8. Head(cands) \notin ToSet(t)
  BY <1>1, <1>2, <1>3, <1>4, <1>5, <1>6 DEF ToSet
<1>9. ASSUME NEW j \in 1 .. Len(t), NEW k \in 1 .. Len(t), j < k PROVE t[j] # t[k]
  <2>1. j + 1 < k + 1
    BY <1>1, <1>9
  <2> QED BY <1>1, <1>4, <1>6, <2>1
<1>10. S' = S /\ S \subseteq Ids /\ ToSet(cands) \subseteq S
  <2>1. S' = S
    BY SameToAccount
  <2>2. S \subseteq Ids /\ ToSet(cands) \subseteq S
    BY DEF CountInv, Candidates
  <2> QED BY <2>1, <2>2
<1> HIDE DEF S
<1>11. Accountable = S \ ToSet(cands) /\ Accountable' = S' \ ToSet(cands')
  BY DEF Accountable, S
<1>12. cands' = t
  BY DEF t
<1>13. Head(cands) \in S /\ Accountable' = Accountable \union {Head(cands)}
       /\ Head(cands) \notin Accountable
  BY <1>7, <1>8, <1>10, <1>11, <1>12
<1>14. IsFiniteSet(Accountable)
  <2>1. IsFiniteSet(Ids) /\ Accountable \subseteq Ids
    BY <1>10, <1>11, RunsAssumption
  <2> QED BY <2>1, FS_Subset
<1>15. Cardinality(Accountable \union {Head(cands)}) = Cardinality(Accountable) + 1
  BY <1>13, <1>14, FS_AddElement
<1>16. ToSet(cands') \subseteq S'
  BY <1>7, <1>10, <1>12
<1> QED BY <1>9, <1>10, <1>12, <1>13, <1>15, <1>16 DEF S

(* A step that adds it to one bucket of the plan.                          *)
LEMMA CountMore ==
  ASSUME TypeOK, CountInv, Constant, UNCHANGED <<kind, scope>>, kind # "proving",
         cands # <<>>, cands' = Tail(cands), phase = "planning",
         Bucketed(plan)' = Bucketed(plan) \union {Head(cands)},
         Size(plan)' = Size(plan) + 1,
         kind' = "roundtrip" /\ phase' = "planning" => plan'.to_write = <<>>
  PROVE  CountInv'
<1>1. Bucketed(plan) = Accountable /\ Size(plan) = Cardinality(Accountable)
  BY DEF CountInv, Counting
<1>2. Bucketed(plan)' = Accountable' /\ Size(plan)' = Cardinality(Accountable')
  BY <1>1, NextIsNew
<1>3. /\ \A j, k \in 1 .. Len(cands') : j < k => cands'[j] # cands'[k]
      /\ ToSet(cands') \subseteq Candidates(kind, scope)'
  BY NextIsNew
<1> QED BY <1>2, <1>3 DEF CountInv

LEMMA Sums ==
  ASSUME NEW a \in Nat, NEW b \in Nat, NEW c \in Nat
  PROVE  /\ (a + 1) + b + c = a + b + c + 1 /\ a + (b + 1) + c = a + b + c + 1
         /\ a + b + (c + 1) = a + b + c + 1 /\ (a - 1) + b + (c + 1) = a + b + c
OBVIOUS

(* A product added to a bucket.                                            *)
LEMMA Extended ==
  ASSUME NEW p \in Plans, NEW item \in Item1, NEW q,
         q = [p EXCEPT !.to_write = Append(p.to_write, item)]
  PROVE  Bucketed(q) = Bucketed(p) \union {item.id} /\ Size(q) = Size(p) + 1
<1>1. /\ p.to_write \in Seq(Item1) /\ p.no_ops \in Seq(Ids) /\ p.skipped \in Seq(Ids)
      /\ Len(p.to_write) \in Nat /\ Len(p.no_ops) \in Nat /\ Len(p.skipped) \in Nat
  BY DEF Plans
<1>a. LET a == Len(p.to_write)
          b == Len(p.no_ops)
          c == Len(p.skipped)
      IN  /\ (a + 1) + b + c = a + b + c + 1 /\ a + (b + 1) + c = a + b + c + 1
          /\ a + b + (c + 1) = a + b + c + 1
  BY <1>1, Sums
<1> DEFINE s == p.to_write
           t == Append(s, item)
<1>2. q.to_write = t /\ q.no_ops = p.no_ops /\ q.skipped = p.skipped
  BY DEF Plans
<1>3. /\ Len(t) = Len(s) + 1 /\ \A k \in 1 .. Len(s) : t[k] = s[k]
      /\ t[Len(s) + 1] = item
  BY <1>1, AppendProperties
<1>4. Len(s) \in Nat
  BY <1>1
<1>5. TargetIds(q) = {t[k].id : k \in 1 .. Len(t)} /\ TargetIds(p) = {s[k].id : k \in 1 .. Len(s)}
  BY <1>2 DEF TargetIds
<1> HIDE DEF s, t
<1>6. /\ \A k \in 1 .. Len(t) : k \in 1 .. Len(s) \/ k = Len(s) + 1
      /\ \A k \in 1 .. Len(s) : k \in 1 .. Len(t)
      /\ Len(s) + 1 \in 1 .. Len(t)
  BY <1>3, <1>4
<1>7. TargetIds(q) \subseteq TargetIds(p) \union {item.id}
  BY <1>3, <1>5, <1>6
<1>8. TargetIds(p) \union {item.id} \subseteq TargetIds(q)
  BY <1>3, <1>5, <1>6
<1>9. Size(q) = Size(p) + 1
  <2>1. Size(q) = (Len(p.to_write) + 1) + Len(p.no_ops) + Len(p.skipped)
    BY <1>2, <1>3 DEF Size, s
  <2>2. Size(p) = Len(p.to_write) + Len(p.no_ops) + Len(p.skipped)
    BY DEF Size
  <2> QED BY <1>a, <2>1, <2>2
<1> QED BY <1>2, <1>7, <1>8, <1>9 DEF Bucketed

LEMMA Grown ==
  ASSUME NEW p \in Plans, NEW i \in Ids, NEW q,
         \/ q = [p EXCEPT !.skipped = Append(p.skipped, i)]
         \/ q = [p EXCEPT !.no_ops = Append(p.no_ops, i)]
  PROVE  Bucketed(q) = Bucketed(p) \union {i} /\ Size(q) = Size(p) + 1
<1>1. /\ p.to_write \in Seq(Item1) /\ p.no_ops \in Seq(Ids) /\ p.skipped \in Seq(Ids)
      /\ Len(p.to_write) \in Nat /\ Len(p.no_ops) \in Nat /\ Len(p.skipped) \in Nat
  BY DEF Plans
<1>a. LET a == Len(p.to_write)
          b == Len(p.no_ops)
          c == Len(p.skipped)
      IN  /\ (a + 1) + b + c = a + b + c + 1 /\ a + (b + 1) + c = a + b + c + 1
          /\ a + b + (c + 1) = a + b + c + 1
  BY <1>1, Sums
<1>2. CASE q = [p EXCEPT !.skipped = Append(p.skipped, i)]
  <2>1. q.to_write = p.to_write /\ q.no_ops = p.no_ops /\ q.skipped = Append(p.skipped, i)
    BY <1>2 DEF Plans
  <2>2. /\ ToSet(Append(p.skipped, i)) = ToSet(p.skipped) \union {i}
        /\ Len(Append(p.skipped, i)) = Len(p.skipped) + 1
    BY <1>1, AppendSet
  <2>3. TargetIds(q) = TargetIds(p)
    BY <2>1 DEF TargetIds
  <2>4. Size(q) = Size(p) + 1
    <3>1. Size(q) = Len(p.to_write) + Len(p.no_ops) + (Len(p.skipped) + 1)
      BY <2>1, <2>2 DEF Size
    <3>2. Size(p) = Len(p.to_write) + Len(p.no_ops) + Len(p.skipped)
      BY DEF Size
    <3> QED BY <1>a, <3>1, <3>2
  <2> QED BY <2>1, <2>2, <2>3, <2>4 DEF Bucketed
<1>3. CASE q = [p EXCEPT !.no_ops = Append(p.no_ops, i)]
  <2>1. q.to_write = p.to_write /\ q.skipped = p.skipped /\ q.no_ops = Append(p.no_ops, i)
    BY <1>3 DEF Plans
  <2>2. /\ ToSet(Append(p.no_ops, i)) = ToSet(p.no_ops) \union {i}
        /\ Len(Append(p.no_ops, i)) = Len(p.no_ops) + 1
    BY <1>1, AppendSet
  <2>3. TargetIds(q) = TargetIds(p)
    BY <2>1 DEF TargetIds
  <2>4. Size(q) = Size(p) + 1
    <3>1. Size(q) = Len(p.to_write) + (Len(p.no_ops) + 1) + Len(p.skipped)
      BY <2>1, <2>2 DEF Size
    <3>2. Size(p) = Len(p.to_write) + Len(p.no_ops) + Len(p.skipped)
      BY DEF Size
    <3> QED BY <1>a, <3>1, <3>2
  <2> QED BY <2>1, <2>2, <2>3, <2>4 DEF Bucketed
<1> QED BY <1>2, <1>3

(* The item at hand moved to the skipped.                                  *)
LEMMA Moved ==
  ASSUME TypeOK, done < Len(plan.to_write), Skip
  PROVE  Bucketed(plan') = Bucketed(plan) /\ Size(plan') = Size(plan)
<1> DEFINE s == plan.to_write
           t == RemoveAt(s, done + 1)
           x == plan.skipped
<1>1. /\ s \in Seq(Item1) /\ Len(s) \in Nat /\ done \in Nat /\ done < Len(s)
      /\ Item \in Item1 /\ plan \in Plans
  BY PlanFacts
<1>2. plan'.to_write = t /\ plan'.no_ops = plan.no_ops /\ plan'.skipped = Append(x, Item.id)
  BY <1>1 DEF Skip, Plans
<1>3. Item.id \in Ids /\ x \in Seq(Ids) /\ Len(plan.no_ops) \in Nat /\ Len(x) \in Nat
  BY <1>1 DEF Item1, Plans
<1>4. /\ ToSet(Append(x, Item.id)) = ToSet(x) \union {Item.id}
      /\ Len(Append(x, Item.id)) = Len(x) + 1
  BY <1>3, AppendSet
<1>5. /\ Len(t) = Len(s) - 1
      /\ \A k \in 1 .. done : t[k] = s[k]
      /\ \A k \in done + 1 .. Len(t) : t[k] = s[k + 1]
  BY <1>2, SkipFacts
<1>6. Item = s[done + 1]
  BY DEF Item
<1>7. TargetIds(plan') = {t[k].id : k \in 1 .. Len(t)} /\ TargetIds(plan) = {s[k].id : k \in 1 .. Len(s)}
  BY <1>2 DEF TargetIds
<1>8. Size(plan') = Len(t) + Len(plan.no_ops) + Len(Append(x, Item.id))
      /\ Size(plan) = Len(s) + Len(plan.no_ops) + Len(x)
  BY <1>2 DEF Size
<1>9. /\ Bucketed(plan') = TargetIds(plan') \union ToSet(plan.no_ops) \union ToSet(Append(x, Item.id))
      /\ Bucketed(plan) = TargetIds(plan) \union ToSet(plan.no_ops) \union ToSet(x)
  BY <1>2 DEF Bucketed
<1> HIDE DEF s, t, x
<1>10. Size(plan') = Size(plan)
  <2>1. Size(plan') = (Len(s) - 1) + Len(plan.no_ops) + (Len(x) + 1)
    BY <1>4, <1>5, <1>8
  <2> QED BY <1>1, <1>3, <1>8, <2>1, Sums
<1>11. ASSUME NEW k \in 1 .. Len(t)
       PROVE  k \in 1 .. Len(s) /\ k + 1 \in 1 .. Len(s)
              /\ (k \in 1 .. done \/ k \in done + 1 .. Len(t))
  BY <1>1, <1>5, <1>11
<1>12. ASSUME NEW k \in 1 .. Len(s)
       PROVE  \/ k = done + 1
              \/ k \in 1 .. done /\ k \in 1 .. Len(t)
              \/ k - 1 \in done + 1 .. Len(t) /\ k - 1 \in 1 .. Len(t) /\ (k - 1) + 1 = k
  BY <1>1, <1>5, <1>12
<1>13. TargetIds(plan') \subseteq TargetIds(plan)
  BY <1>5, <1>7, <1>11
<1>14. ASSUME NEW k \in 1 .. Len(s) PROVE s[k].id \in TargetIds(plan') \union {Item.id}
  <2>1. CASE k = done + 1
    BY <1>6, <2>1
  <2>2. CASE k \in 1 .. done /\ k \in 1 .. Len(t)
    BY <1>5, <1>7, <2>2
  <2>3. CASE k - 1 \in done + 1 .. Len(t) /\ k - 1 \in 1 .. Len(t) /\ (k - 1) + 1 = k
    <3>1. t[k - 1] = s[k]
      BY <1>5, <2>3
    <3> QED BY <1>7, <2>3, <3>1
  <2> QED BY <1>12, <2>1, <2>2, <2>3
<1>15. Item.id \in TargetIds(plan)
  <2>1. done + 1 \in 1 .. Len(s)
    BY <1>1
  <2> QED BY <1>6, <1>7, <2>1
<1>16. TargetIds(plan) \subseteq TargetIds(plan') \union {Item.id}
  BY <1>7, <1>14
<1> QED BY <1>4, <1>9, <1>10, <1>13, <1>15, <1>16

LEMMA CountPrimed == Bucketed(plan)' = Bucketed(plan') /\ Size(plan)' = Size(plan')
BY DEF Bucketed, TargetIds, Size

LEMMA CountPlanned ==
  ASSUME TypeOK, PlanInv, CountInv, Constant, PlanNext \/ SelectNext
  PROVE  CountInv'
<1> DEFINE i == Head(cands)
<1>1. /\ UNCHANGED <<kind, scope>> /\ kind # "proving" /\ cands # <<>> /\ cands' = Tail(cands)
      /\ phase = "planning" /\ plan \in Plans /\ i \in Ids
  BY PlanFacts, NextCandidate DEF PlanNext, SelectNext, setup, BulkKinds
<1>2. CASE PlanNext
  <2> DEFINE item == [id |-> i, uom |-> TargetUom(i), want |-> Wanted(i)]
  <2>1. CASE \/ plan' = [plan EXCEPT !.skipped = Append(plan.skipped, i)]
             \/ plan' = [plan EXCEPT !.no_ops = Append(plan.no_ops, i)]
    <3>2. Bucketed(plan') = Bucketed(plan) \union {i} /\ Size(plan') = Size(plan) + 1
      BY <1>1, <2>1, Grown
    <3> QED BY <1>1, <1>2, <3>2, CountPrimed, CountMore DEF PlanNext, BulkKinds
  <2>2. CASE BaseCode(i) # NoBase /\ plan' = [plan EXCEPT !.to_write = Append(plan.to_write, item)]
    <3>1. item \in Item1 /\ item.id = i
      BY <1>1, <2>2, UomType, NextCandidate
    <3> HIDE DEF item
    <3>2. Bucketed(plan') = Bucketed(plan) \union {i} /\ Size(plan') = Size(plan) + 1
      BY <1>1, <2>2, <3>1, Extended
    <3> QED BY <1>1, <1>2, <3>2, CountPrimed, CountMore DEF PlanNext, BulkKinds
  <2> QED BY <1>2, <2>1, <2>2 DEF PlanNext, Blocked
<1>3. CASE SelectNext
  <2> DEFINE item == [id |-> i, uom |-> product[i].default, want |-> Wanted(i)]
  <2>0. plan.to_write = <<>>
    BY <1>1, <1>3 DEF SelectNext, CountInv
  <2>1. CASE plan' = [plan EXCEPT !.skipped = Append(plan.skipped, i)]
    <3>2. Bucketed(plan') = Bucketed(plan) \union {i} /\ Size(plan') = Size(plan) + 1
      BY <1>1, <2>1, Grown
    <3>3. plan'.to_write = <<>>
      BY <1>1, <2>0, <2>1 DEF Plans
    <3> QED BY <1>1, <3>2, <3>3, CountPrimed, CountMore
  <2>2. CASE /\ BaseCode(i) # NoBase /\ phase' = "confirming"
             /\ plan' = [plan EXCEPT !.to_write = <<item>>]
    <3>1. item \in Item1 /\ item.id = i
      BY <1>1, <2>2, UomType, NextCandidate
    <3> HIDE DEF item
    <3>2. Append(plan.to_write, item) = <<item>>
      BY <2>0
    <3>3. Bucketed(plan') = Bucketed(plan) \union {i} /\ Size(plan') = Size(plan) + 1
      BY <1>1, <2>2, <3>1, <3>2, Extended
    <3> QED BY <1>1, <2>2, <3>3, CountPrimed, CountMore
  <2> QED BY <1>3, <2>1, <2>2 DEF SelectNext
<1> QED BY <1>2, <1>3

LEMMA CountStarted ==
  ASSUME TypeOK, Constant, Start
  PROVE  CountInv'
<1> DEFINE S == Candidates(kind', scope')
           n == Cardinality(S)
<1>1. S \subseteq Ids /\ IsFiniteSet(S) /\ n \in Nat
  <2>1. S \subseteq Ids /\ IsFiniteSet(Ids)
    BY RunsAssumption DEF Candidates
  <2> QED BY <2>1, FS_Subset, FS_CardinalityType
<1>2. Candidates(kind, scope)' = S
  BY SameToAccount
<1>3. plan' = NoPlan /\ phase' \in Ended \union {"planning"} /\ phase' # "reported"
  BY DEF Start, FirstPhase, Ended
<1>4. Counting' => phase' = "planning" /\ kind' # "proving"
  BY <1>3 DEF Counting, Writing, Ended
<1>5. Bucketed(plan') = {} /\ Size(plan') = 0
  <2>1. /\ NoPlan.to_write = <<>> /\ NoPlan.no_ops = <<>> /\ NoPlan.skipped = <<>>
        /\ Len(<<>>) = 0
    BY DEF NoPlan
  <2>2. TargetIds(NoPlan) = {}
    BY <2>1 DEF TargetIds
  <2>3. ToSet(<<>>) = {}
    BY DEF ToSet
  <2> QED BY <1>3, <2>1, <2>2, <2>3 DEF Bucketed, Size
<1>6. CASE phase' = "planning" /\ kind' # "proving"
  <2>1. cands' \in InSearchOrder(S)
    BY <1>6 DEF Start
  <2>2. /\ cands' \in [1 .. n -> S]
        /\ \A j, k \in 1 .. n : j < k => product[cands'[j]].order < product[cands'[k]].order
    BY <2>1 DEF InSearchOrder
  <2> HIDE DEF S, n
  <2>3. ASSUME NEW j \in 1 .. n, NEW k \in 1 .. n, j < k PROVE cands'[j] # cands'[k]
    <3>1. cands'[j] \in Ids /\ product[cands'[j]].order \in Nat
      BY <1>1, <2>2 DEF TypeOK, Product
    <3>2. product[cands'[j]].order < product[cands'[k]].order
      BY <2>2, <2>3
    <3> QED BY <3>1, <3>2
  <2>4. {cands'[k] : k \in 1 .. n} = S
    BY <1>1, <2>2, <2>3, DistinctIsOnto DEF n
  <2>5. Len(cands') = n /\ DOMAIN cands' = 1 .. n
    BY <1>1, <2>2
  <2>6. ToSet(cands') = S
    BY <2>4, <2>5 DEF ToSet
  <2>7. Accountable' = Candidates(kind, scope)' \ ToSet(cands')
    BY <1>6 DEF Accountable
  <2>8. Accountable' = {} /\ Cardinality(Accountable') = 0
    BY <1>2, <2>6, <2>7, FS_EmptySet
  <2>9. plan'.to_write = <<>>
    BY <1>3 DEF NoPlan
  <2> QED BY <1>2, <1>3, <1>5, <1>6, <2>3, <2>5, <2>6, <2>8, <2>9, CountPrimed DEF CountInv
<1>7. CASE ~(phase' = "planning" /\ kind' # "proving")
  <2>a. cands' = <<>>
    BY <1>7 DEF Start
  <2>1. cands' = <<>> /\ Len(<<>>) = 0 /\ ToSet(<<>>) = {}
    BY <2>a DEF ToSet
  <2>2. \A j, k \in 1 .. Len(cands') : j < k => cands'[j] # cands'[k]
    BY <2>1
  <2>3. ~Counting'
    BY <1>4, <1>7
  <2>4. plan' = NoPlan' /\ NoPlan.to_write = <<>>
    BY <1>3 DEF NoPlan
  <2> QED BY <1>3, <1>7, <2>1, <2>2, <2>3, <2>4 DEF CountInv
<1> QED BY <1>6, <1>7

LEMMA CountProved ==
  ASSUME TypeOK, CountInv, Constant, PlanProving
  PROVE  CountInv'
<1> DEFINE S == Selected
           n == Cardinality(S)
<1>0. /\ UNCHANGED <<kind, scope, cands>> /\ kind = "proving" /\ plan = NoPlan
      /\ phase' # "planning"
  BY DEF PlanProving, setup, CountInv
<1>1. S \subseteq Ids /\ IsFiniteSet(S) /\ n \in Nat
  <2>1. S \subseteq Ids /\ IsFiniteSet(Ids)
    BY RunsAssumption DEF Selected, Representatives, Resolvable, LiveCandidates
  <2> QED BY <2>1, FS_Subset, FS_CardinalityType
<1>2. Accountable' = S /\ Candidates(kind, scope)' = Candidates(kind, scope)
  <2>1. Accountable' = Accountable /\ Candidates(kind, scope)' = Candidates(kind, scope)
    BY <1>0, SameAccount
  <2> QED BY <1>0, <2>1 DEF Accountable
<1>3. PICK s \in [1 .. n -> S] :
        /\ \A j, k \in 1 .. n : j < k => Before(s[j], s[k])
        /\ plan' = [plan EXCEPT !.to_write =
                      [k \in DOMAIN s |-> [id |-> s[k], uom |-> NoUom, want |-> Wanted(s[k])]]]
  BY DEF PlanProving, InCodeOrder
<1> DEFINE items == [k \in 1 .. n |-> [id |-> s[k], uom |-> NoUom, want |-> Wanted(s[k])]]
<1>4. plan'.to_write = items /\ plan'.no_ops = <<>> /\ plan'.skipped = <<>>
  BY <1>0, <1>3 DEF NoPlan
<1> HIDE DEF S, n
<1>5. Len(items) = n /\ \A k \in 1 .. n : items[k].id = s[k]
  BY <1>1
<1>6. ASSUME NEW j \in 1 .. n, NEW k \in 1 .. n, j < k PROVE s[j] # s[k]
  <2>1. s[j] \in Ids /\ CodeRank[product[s[j]].code] \in Nat
    BY <1>1, <1>3, ProvingAssumption DEF TypeOK, Product
  <2>2. CodeRank[product[s[j]].code] < CodeRank[product[s[k]].code]
    BY <1>3, <1>6 DEF Before
  <2> QED BY <2>1, <2>2
<1>7. {s[k] : k \in 1 .. n} = S
  BY <1>1, <1>3, <1>6, DistinctIsOnto DEF n
<1> HIDE DEF items
<1>8. TargetIds(plan') = S
  BY <1>4, <1>5, <1>7 DEF TargetIds
<1>9. Bucketed(plan') = S /\ Size(plan') = n
  <2>1. ToSet(<<>>) = {} /\ Len(<<>>) = 0
    BY DEF ToSet
  <2> QED BY <1>1, <1>4, <1>5, <1>8, <2>1 DEF Bucketed, Size
<1>10. Bucketed(plan)' = Accountable' /\ Size(plan)' = Cardinality(Accountable')
  BY <1>2, <1>9, CountPrimed DEF n
<1>11. /\ \A j, k \in 1 .. Len(cands') : j < k => cands'[j] # cands'[k]
       /\ ToSet(cands') \subseteq Candidates(kind, scope)'
  BY <1>0, <1>2 DEF CountInv
<1> QED BY <1>0, <1>10, <1>11 DEF CountInv

LEMMA CountKept ==
  ASSUME TypeOK, PlanInv, CountInv, Next
  PROVE  CountInv'
<1>0. Constant
  BY ConstantKept
<1>1. ASSUME UNCHANGED <<kind, scope, cands, plan>>, Counting' => Counting,
             phase' = "planning" => phase = "planning"
      PROVE  CountInv'
  <2>1. Bucketed(plan)' = Bucketed(plan) /\ Size(plan)' = Size(plan)
    BY <1>1, CountPrimed
  <2> QED BY <1>0, <1>1, <2>1, CountSame
<1>2. CASE Planned \/ NoneSelected \/ Confirm \/ NextItem \/ Complete
  <2>1. UNCHANGED <<kind, scope, cands, plan>> /\ phase' # "planning"
    BY <1>2 DEF Planned, NoneSelected, Confirm, NextItem, Complete, setup
  <2>2. Counting' => Counting
    BY <1>2 DEF Planned, NoneSelected, Confirm, NextItem, Complete, setup, Counting, BulkKinds,
                Writing
  <2> QED BY <1>1, <2>1, <2>2
<1>3. CASE WriteItem
  <2>1. UNCHANGED <<kind, scope, cands, plan>>
    BY <1>3 DEF WriteItem, CheckRate, ReadItem, SendItem, TimeOut, Verify, Crash, setup
  <2>3. phase' # "planning"
    <3>1. ASSUME NEW error, Fail(error) PROVE phase' # "planning"
      BY <3>1 DEF Fail
    <3> QED BY <1>3, <3>1 DEF WriteItem, CheckRate, ReadItem, SendItem, TimeOut, Verify, Crash
  <2>2. phase \in Writing \/ phase' = "crashed"
    BY <1>3 DEF WriteItem, CheckRate, ReadItem, SendItem, TimeOut, Verify, Crash, Writing
  <2> QED BY <1>1, <2>1, <2>2, <2>3 DEF Counting, Writing
<1>4. CASE Others
  <2>1. UNCHANGED <<kind, scope, cands, plan>>
    BY <1>4 DEF Others, Land, RejectPoisoned, Lose, EditDims, Rename, setup
  <2>2. phase' = phase \/ (phase = "awaiting" /\ phase' # "planning")
    <3>1. ASSUME NEW error, Fail(error) PROVE phase' # "planning"
      BY <3>1 DEF Fail
    <3> QED BY <1>4, <3>1 DEF Others, Land, RejectPoisoned, Lose, EditDims, Rename, Awaited
  <2>3. Counting' => Counting
    BY <2>1, <2>2 DEF Counting, Writing
  <2> QED BY <1>1, <2>1, <2>2, <2>3
<1>5. CASE NextTarget \/ TypeCode
  <2>1. /\ UNCHANGED <<kind, scope, cands, done>> /\ phase' # "planning" /\ kind = "proving"
        /\ phase \in {"between", "confirming"}
    BY <1>5 DEF NextTarget, TypeCode, setup
  <2>2. Counting
    BY <2>1 DEF Counting
  <2>3. CASE plan' = plan
    BY <1>1, <2>1, <2>2, <2>3
  <2>4. ASSUME Bucketed(plan') = Bucketed(plan), Size(plan') = Size(plan) PROVE CountInv'
    BY <1>0, <2>1, <2>2, <2>4, CountPrimed, CountSame
  <2>5. plan' = plan \/ done < Len(plan.to_write)
    BY <1>5, <2>1, PlanFacts DEF NextTarget, TypeCode, PlanInv, PhasesOK
  <2>6. CASE Skip /\ done < Len(plan.to_write)
    BY <2>4, <2>6, Moved
  <2>7. CASE /\ done < Len(plan.to_write) /\ product[Item.id].default # NoUom
             /\ plan' = [plan EXCEPT !.to_write[done + 1].uom = product[Item.id].default]
    <3>1. /\ Len(plan'.to_write) = Len(plan.to_write)
          /\ \A k \in 1 .. Len(plan.to_write) : plan'.to_write[k].id = plan.to_write[k].id
      BY <1>0, <2>1, <2>7, TargetKept
    <3>2. plan'.no_ops = plan.no_ops /\ plan'.skipped = plan.skipped
      BY <2>7, PlanFacts DEF Plans
    <3>3. TargetIds(plan') = TargetIds(plan)
      BY <3>1 DEF TargetIds
    <3> QED BY <2>4, <3>1, <3>2, <3>3 DEF Bucketed, Size
  <2> QED BY <1>5, <2>3, <2>5, <2>6, <2>7 DEF NextTarget, TypeCode
<1> QED BY <1>0, <1>2, <1>3, <1>4, <1>5, CountPlanned, CountStarted, CountProved
        DEF Next, Run, Operator

LEMMA CountStart == Init => CountInv /\ ReportInv
<1> SUFFICES ASSUME Init PROVE CountInv /\ ReportInv
  OBVIOUS
<1>1. cands = <<>> /\ phase = "idle"
  BY DEF Init
<1>2. Len(<<>>) = 0 /\ ToSet(<<>>) = {}
  BY DEF ToSet
<1>3. ~Counting
  BY <1>1 DEF Counting, Writing
<1>4. \A j, k \in 1 .. Len(cands) : j < k => cands[j] # cands[k]
  BY <1>1, <1>2
<1> QED BY <1>1, <1>2, <1>3, <1>4 DEF CountInv, ReportInv

(* Between them, the buckets of the plan and of its division.              *)
LEMMA Accounts ==
  ASSUME TypeOK, CountInv, ReportInv
  PROVE  ReportAccounts
<1> SUFFICES ASSUME phase = "reported"
             PROVE  LET all == report.written \o report.failed \o report.untouched
                                \o report.no_ops \o report.skipped
                    IN  ToSet(all) = Accountable /\ Len(all) = Cardinality(Accountable)
  BY DEF ReportAccounts
<1> DEFINE a == report.written
           b == report.failed
           c == report.untouched
           d == report.no_ops
           e == report.skipped
           all == a \o b \o c \o d \o e
<1>1. a \in Seq(Ids) /\ b \in Seq(Ids) /\ c \in Seq(Ids) /\ d \in Seq(Ids) /\ e \in Seq(Ids)
  BY DEF TypeOK
<1>2. /\ ToSet(a) \union ToSet(b) \union ToSet(c) = TargetIds(plan)
      /\ Len(a) + Len(b) + Len(c) = Len(plan.to_write)
      /\ d = plan.no_ops /\ e = plan.skipped
  BY DEF ReportInv
<1>3. /\ Bucketed(plan) = TargetIds(plan) \union ToSet(d) \union ToSet(e)
      /\ Size(plan) = Len(plan.to_write) + Len(d) + Len(e)
  BY <1>2 DEF Bucketed, Size
<1>4. Bucketed(plan) = Accountable /\ Size(plan) = Cardinality(Accountable)
  BY DEF CountInv, Counting
<1> HIDE DEF a, b, c, d, e
<1> DEFINE ab == a \o b
           f == ab \o c
           g == f \o d
<1>5. ab \in Seq(Ids) /\ ToSet(ab) = ToSet(a) \union ToSet(b) /\ Len(ab) = Len(a) + Len(b)
  BY <1>1, ConcatSet
<1> HIDE DEF ab
<1>6. f \in Seq(Ids) /\ ToSet(f) = ToSet(ab) \union ToSet(c) /\ Len(f) = Len(ab) + Len(c)
  <2>1. ab \in Seq(Ids) /\ c \in Seq(Ids)
    BY <1>1, <1>5
  <2> QED BY <2>1, ConcatSet
<1> HIDE DEF f
<1>7. g \in Seq(Ids) /\ ToSet(g) = ToSet(f) \union ToSet(d) /\ Len(g) = Len(f) + Len(d)
  <2>1. f \in Seq(Ids) /\ d \in Seq(Ids)
    BY <1>1, <1>6
  <2> QED BY <2>1, ConcatSet
<1> HIDE DEF g
<1>8. ToSet(g \o e) = ToSet(g) \union ToSet(e) /\ Len(g \o e) = Len(g) + Len(e)
  <2>1. g \in Seq(Ids) /\ e \in Seq(Ids)
    BY <1>1, <1>7
  <2>2. g \o e \in Seq(Ids) /\ ToSet(g \o e) = ToSet(g) \union ToSet(e) /\ Len(g \o e) = Len(g) + Len(e)
    BY <2>1, ConcatSet
  <2> QED BY <2>2
<1>9. all = g \o e
  BY DEF ab, f, g
<1> HIDE DEF all
<1>10. ToSet(all) = Accountable
  BY <1>2, <1>3, <1>4, <1>5, <1>6, <1>7, <1>8, <1>9
<1>11. Len(all) = Cardinality(Accountable)
  BY <1>2, <1>3, <1>4, <1>5, <1>6, <1>7, <1>8, <1>9
<1> QED BY <1>10, <1>11 DEF all, a, b, c, d, e

(* The report is "fully reconstructable", wherever the run stopped: every  *)
(* product it had to account for is in it exactly once.                    *)
THEOREM FullyAccounted == Spec => []ReportAccounts
<1> DEFINE CInv == IInv /\ CountInv /\ ReportInv
<1>1. Init => CInv
  BY InitOK, CountStart
<1>2. CInv /\ [Next]_vars => CInv'
  <2> SUFFICES ASSUME CInv, [Next]_vars PROVE CInv'
    OBVIOUS
  <2>1. IInv'
    BY StepOK
  <2>2. CASE Next
    BY <2>1, <2>2, CountKept, ReportInvKept DEF IInv
  <2>3. CASE UNCHANGED vars
    <3>1. UNCHANGED <<kind, scope, product, table, phase, cands, plan, report>>
      BY <2>3 DEF vars
    <3>2. ReportInv'
      BY <3>1 DEF ReportInv, TargetIds
    <3>3. Constant
      BY <3>1 DEF Constant, SameProduct
    <3>4. Bucketed(plan)' = Bucketed(plan) /\ Size(plan)' = Size(plan) /\ Counting' = Counting
      BY <3>1 DEF Bucketed, TargetIds, Size, Counting
    <3>5. CountInv'
      BY <3>1, <3>3, <3>4, CountSame
    <3> QED BY <2>1, <3>2, <3>5
  <2> QED BY <2>2, <2>3
<1>3. CInv => ReportAccounts
  BY Accounts DEF IInv
<1> QED BY <1>1, <1>2, <1>3, PTL DEF Spec
=============================================================================
