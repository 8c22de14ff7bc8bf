------------------------------ MODULE DimsItem ------------------------------
(***************************************************************************)
(* One item of a dims write run, whichever script runs it: the limiter,    *)
(* the read, the PATCH and the read-back of write_and_verify, against a    *)
(* CartonCloud that applies, rejects or loses a PATCH in its own time and  *)
(* that other users edit meanwhile.  What comes before and between items   *)
(* is in DimsBulk and DimsProving, the scripts are in DimsRuns.            *)
(*                                                                         *)
(* One thread works at a time here, so the object lock of write_and_verify *)
(* is never contended and is left to DimsApprove.  Clock and allowance use *)
(* the units of RateBudget.                                                *)
(***************************************************************************)
EXTENDS Integers, FiniteSets, CaptureTable, WriteGates, SequencesExt

CONSTANTS
  Ids,          \* products
  Uoms,         \* units of measure
  Carton,       \* the unit of measure coded "CT"
  NoUom,        \* no default unit of measure
  Catalogues,   \* products, their stored dims, and the sheet captured of them
  Environments, \* configurations of the model, a subset of Configs
  PerMinute,    \* limiter ceiling
  Minute,       \* ticks in a minute
  Pace,         \* ticks slept between writes
  Droppable,    \* fields CartonCloud may accept and silently drop
  MaxRuns, MaxEdits   \* bounds for model checking

ASSUME ItemAssumption ==
  /\ Carton \in Uoms /\ NoUom \notin Uoms
  /\ PerMinute \in Nat \ {0} /\ Minute \in Nat \ {0}
  /\ Pace \in Nat /\ Pace * PerMinute >= Minute

(* A product: its owner, code, units of measure, their default, those      *)
(* whose name CartonCloud will not accept, its place in a search.          *)
Product ==
  [owner : Customers, code : Codes, uoms : SUBSET Uoms, default : Uoms \union {NoUom},
   badly_named : SUBSET Uoms, order : Nat]

ASSUME CatalogueAssumption ==
  \A cat \in Catalogues :
    /\ cat.product \in [Ids -> Product]
    /\ \A i \in Ids : cat.product[i].default \in cat.product[i].uoms \union {NoUom}
    /\ cat.store \in [Ids -> [Uoms -> Dims]]
    /\ cat.rows \in Seq(Row)

VARIABLES
  kind,      \* which script runs, or ran last
  config,    \* its WriteConfig and its client's flag
  scope,     \* the codes it was restricted to, if any
  product,   \* CartonCloud's catalogue
  store,     \* CartonCloud's dims
  table,     \* the capture table, the same for every run
  wire,      \* PATCHes CartonCloud has not dealt with
  phase,     \* where the run is
  cands,     \* candidates still to plan
  plan,      \* BulkPlan, TargetSelection or LiveProvingPlan
  done,      \* number of plan items written
  reply,     \* the operator's answer: "go", "no", or "" before it
  report,    \* BulkReport, RoundtripReport or LiveProvingReport
  read,      \* the dims the item's GET returned
  tokens,    \* the run's rate limiter
  runs, edits,
  settled    \* history: what a run reported written and nobody edited since

vars == <<kind, config, scope, product, store, table, wire, phase, cands, plan, done, reply,
          report, read, tokens, runs, edits, settled>>
cloud == <<product, store, wire, edits>>
setup == <<kind, config, scope, table, runs>>

BulkKinds == {"sandbox", "carton", "each"}
SandboxKinds == {"sandbox", "roundtrip"}
LiveKinds == {"carton", "each", "proving"}
Kinds == SandboxKinds \union LiveKinds

Capacity == PerMinute * Minute
None == [f \in {} |-> Unset]
NoPlan == [to_write |-> <<>>, no_ops |-> <<>>, skipped |-> <<>>]
NoReport ==
  [written |-> <<>>, no_ops |-> <<>>, skipped |-> <<>>, failed |-> <<>>,
   error |-> "", aborted |-> FALSE, untouched |-> <<>>]

Item == plan.to_write[done + 1]
Remaining == SubSeq(plan.to_write, done + 1, Len(plan.to_write))
IdsOf(items) == [k \in DOMAIN items |-> items[k].id]

CustomerOf(k) == IF k \in SandboxKinds THEN Sandbox ELSE Live

BaseCode(i) == ResolveBaseCode(product[i].code, table)

(* The writable desired dims of a product with a base code. *)
Wanted(i) == Writable(table[BaseCode(i)])

(* One product's unit of measure as the GET shows it: unset where absent.  *)
DimsOf(i, u) == IF u \in product[i].uoms THEN store[i][u] ELSE [f \in Fields |-> Unset]
-----------------------------------------------------------------------------
Report(failed, error, aborted, untouched) ==
  report' = [written |-> SubSeq(IdsOf(plan.to_write), 1, done),
             no_ops |-> plan.no_ops, skipped |-> plan.skipped,
             failed |-> failed, error |-> error, aborted |-> aborted,
             untouched |-> IdsOf(untouched)]

\* Mutant: the failed item is reported untouched as well.
FailUntouched(error) ==
  /\ phase' = "reported"
  /\ Report(<<Item.id>>, error, FALSE, Remaining)

(* The except clause of the bulk loop reports what is written, what failed *)
(* and what is left.  The round trip and the proving run have none: a      *)
(* mismatch is raised to the script, and anything else out of it.          *)
Fail(error) ==
  \/ /\ kind \in BulkKinds
     /\ phase' = "reported"
     /\ Report(<<Item.id>>, error, FALSE, Tail(Remaining))
  \/ /\ kind \notin BulkKinds
     /\ phase' = IF error = "mismatch" THEN "raised" ELSE "crashed"
     /\ UNCHANGED report

Refill(elapsed) ==
  LET filled == tokens + elapsed * PerMinute
  IN  IF filled <= Capacity THEN filled ELSE Capacity

(* The limiter ... *)
CheckRate ==
  /\ phase = "checking"
  /\ \/ /\ tokens >= Minute
        /\ tokens' = tokens - Minute
        /\ phase' = "reading"
        /\ UNCHANGED report
     \/ /\ tokens < Minute
        /\ Fail("rate_limited")
        /\ UNCHANGED tokens
  /\ UNCHANGED <<setup, cloud, cands, plan, done, reply, read, settled>>

(* ... the baseline GET, the guard and the authorisation ... *)
ReadItem ==
  /\ phase = "reading"
  /\ \/ /\ CustomerCleared(config, product[Item.id].owner)
        /\ read' = DimsOf(Item.id, Item.uom)
        /\ phase' = "deciding"
        /\ UNCHANGED report
     \/ /\ Fail("unreadable")
        /\ UNCHANGED read
  /\ UNCHANGED <<setup, cloud, cands, plan, done, reply, tokens, settled>>

(* ... a PATCH of what differs now, if anything does; _mutate refuses it   *)
(* if the client was not built for writing ...                             *)
SendItem ==
  LET change == ComputeDiff(read, Item.want)
      patch == [id |-> Item.id, uom |-> Item.uom, ops |-> change,
                run |-> runs, kind |-> kind, armed |-> config.live_promotion]
  IN  /\ phase = "deciding"
      /\ \/ /\ IsEmpty(change)
            /\ phase' = "verifying"
            /\ UNCHANGED <<wire, report>>
         \/ /\ ~IsEmpty(change)
            /\ config.client_enabled
            /\ wire' = wire \union {patch}
            /\ phase' = "awaiting"
            /\ UNCHANGED report
         \/ /\ ~IsEmpty(change)
            /\ ~config.client_enabled
            /\ Fail("write_refused")
            /\ UNCHANGED wire
      /\ UNCHANGED <<setup, product, store, edits, cands, plan, done, reply, read, tokens, settled>>

Awaited(m) == phase = "awaiting" /\ m.run = runs

(* ... given up after the time-out, with the PATCH still under way ... *)
TimeOut ==
  /\ phase = "awaiting"
  /\ Fail("timed_out")
  /\ UNCHANGED <<setup, cloud, cands, plan, done, reply, read, tokens, settled>>

\* Mutant: the answer 200 is taken as proof, with no read-back.
VerifyTrusts ==
  /\ phase = "verifying"
  /\ done' = done + 1
  /\ settled' = settled \union {<<Item.id, Item.uom>>}
  /\ phase' = "between"
  /\ UNCHANGED <<setup, cloud, cands, plan, reply, report, read, tokens>>

(* ... and the read-back of the very unit of measure that was written.     *)
Verify ==
  /\ phase = "verifying"
  /\ \/ /\ Holds(DimsOf(Item.id, Item.uom), Item.want)
        /\ done' = done + 1
        /\ settled' = settled \union {<<Item.id, Item.uom>>}
        /\ phase' = "between"
        /\ UNCHANGED report
     \/ /\ ~Holds(DimsOf(Item.id, Item.uom), Item.want)
        /\ Fail("mismatch")
        /\ UNCHANGED <<done, settled>>
     \/ /\ Fail("unreadable")
        /\ UNCHANGED <<done, settled>>
  /\ UNCHANGED <<setup, cloud, cands, plan, reply, read, tokens>>

(* The access token ran out and its renewal met a transport error: that    *)
(* exception is httpx's, which no loop and no script catches.  Any error   *)
(* of CartonCloud met outside the bulk loop ends the run the same way.     *)
Crash ==
  /\ \/ phase \in {"planning", "reading", "deciding", "verifying"}
     \/ phase = "between" /\ kind = "proving"
  /\ phase' = "crashed"
  /\ UNCHANGED <<setup, cloud, cands, plan, done, reply, report, read, tokens, settled>>

WriteItem == CheckRate \/ ReadItem \/ SendItem \/ TimeOut \/ Verify \/ Crash
-----------------------------------------------------------------------------
(* CartonCloud applies a PATCH only if every unit of measure of the        *)
(* product has an acceptable name, and answers the run that still waits.   *)
Land(m) ==
  /\ product[m.id].badly_named = {}
  /\ wire' = wire \ {m}
  /\ \E dropped \in SUBSET (Droppable \intersect DOMAIN m.ops) :
       LET kept == [f \in DOMAIN m.ops \ dropped |-> m.ops[f]]
       IN  store' = [store EXCEPT ![m.id][m.uom] = Patched(@, kept)]
  /\ phase' = IF Awaited(m) THEN "verifying" ELSE phase
  /\ UNCHANGED <<setup, product, edits, cands, plan, done, reply, report, read, tokens, settled>>

RejectPoisoned(m) ==
  /\ product[m.id].badly_named # {}
  /\ wire' = wire \ {m}
  /\ \/ Awaited(m) /\ Fail("poisoned")
     \/ ~Awaited(m) /\ UNCHANGED <<phase, report>>
  /\ UNCHANGED <<setup, product, store, edits, cands, plan, done, reply, read, tokens, settled>>

Lose(m) ==
  /\ wire' = wire \ {m}
  /\ UNCHANGED <<setup, product, store, edits, phase, cands, plan, done, reply, report, read,
                 tokens, settled>>

EditDims(i, u, f, v) ==
  /\ edits < MaxEdits
  /\ u \in product[i].uoms
  /\ edits' = edits + 1
  /\ store' = [store EXCEPT ![i][u][f] = v]
  /\ settled' = settled \ {<<i, u>>}
  /\ UNCHANGED <<setup, product, wire, phase, cands, plan, done, reply, report, read, tokens>>

(* Somebody renames a unit of measure, well or badly. *)
Rename(i, u) ==
  /\ edits < MaxEdits
  /\ u \in product[i].uoms
  /\ edits' = edits + 1
  /\ product' = [product EXCEPT ![i].badly_named =
                   IF u \in @ THEN @ \ {u} ELSE @ \union {u}]
  /\ UNCHANGED <<setup, store, wire, phase, cands, plan, done, reply, report, read, tokens, settled>>

Others ==
  \/ \E m \in wire : Land(m) \/ RejectPoisoned(m) \/ Lose(m)
  \/ \E i \in Ids, u \in Uoms :
       Rename(i, u) \/ \E f \in Fields, v \in Values \union {Unset} : EditDims(i, u, f, v)
=============================================================================
