------------------------------ MODULE DimsBulk ------------------------------
(***************************************************************************)
(* The bulk dims write of bulk.py in its three kinds: a plan read from     *)
(* CartonCloud, one confirmation for all of it, then a paced loop over     *)
(* DimsItem that stops at the first failure.  With it, the probes: what    *)
(* they say of a product before any write.                                 *)
(***************************************************************************)
EXTENDS DimsItem

\* Mutant: a product without a carton unit of measure falls back to its each.
TargetUomFallsBack(i) ==
  IF kind = "carton" /\ Carton \in product[i].uoms THEN Carton ELSE product[i].default

(* resolve_ct_uom and resolve_default_uom. *)
TargetUom(i) ==
  IF kind = "carton" THEN IF Carton \in product[i].uoms THEN Carton ELSE NoUom
  ELSE product[i].default

\* Mutant: only the name of the unit of measure to be written is looked at.
PoisonedOwnName(i) == TargetUom(i) \in product[i].badly_named

(* find_poisoning_uoms: any badly named unit of measure fails every PATCH. *)
Poisoned(i) == product[i].badly_named # {}

(* Why a candidate is neither written nor a no-op. *)
Blocked(i) ==
  \/ BaseCode(i) = NoBase
  \/ TargetUom(i) = NoUom
  \/ kind = "each" /\ Poisoned(i)

(* The plan: bucket the next candidate from what CartonCloud holds now.    *)
PlanNext ==
  LET i == Head(cands)
      u == TargetUom(i)
      item == [id |-> i, uom |-> u, want |-> Wanted(i)]
      matches == IsEmpty(ComputeDiff(DimsOf(i, u), Wanted(i)))
  IN  /\ kind \in BulkKinds
      /\ phase = "planning"
      /\ cands # <<>>
      /\ cands' = Tail(cands)
      /\ plan' = IF Blocked(i) THEN [plan EXCEPT !.skipped = Append(@, i)]
                 ELSE IF matches THEN [plan EXCEPT !.no_ops = Append(@, i)]
                 ELSE [plan EXCEPT !.to_write = Append(@, item)]
      /\ UNCHANGED <<setup, cloud, phase, done, reply, report, read, tokens, settled>>

(* Unarmed, a script for live products prints its plan and ends.           *)
Planned ==
  /\ kind \in BulkKinds
  /\ phase = "planning"
  /\ cands = <<>>
  /\ phase' = IF kind \in LiveKinds /\ ~config.live_promotion THEN "previewed" ELSE "confirming"
  /\ UNCHANGED <<setup, cloud, cands, plan, done, reply, report, read, tokens, settled>>

\* Mutant: the loop starts whatever the operator answers.
ConfirmIgnored ==
  /\ kind # "proving"
  /\ phase = "confirming"
  /\ reply' \in {"go", "no"}
  /\ phase' = IF plan.to_write = <<>> THEN "between" ELSE "checking"
  /\ UNCHANGED <<setup, cloud, cands, plan, done, report, read, tokens, settled>>

(* The hard stop: one answer for the whole plan, and no question if there  *)
(* is nothing to write.  The round trip stops in the same way.             *)
Confirm ==
  /\ kind # "proving"
  /\ phase = "confirming"
  /\ \/ /\ plan.to_write # <<>>
        /\ reply' = "go"
        /\ phase' = "checking"
        /\ UNCHANGED report
     \/ /\ reply' = "no"
        /\ phase' = "reported"
        /\ Report(<<>>, "", TRUE, plan.to_write)
  /\ UNCHANGED <<setup, cloud, cands, plan, done, read, tokens, settled>>

\* Mutant: the loop does not sleep between writes.
NextItemUnpaced ==
  /\ kind \in BulkKinds
  /\ phase = "between"
  /\ Remaining # <<>>
  /\ phase' = "checking"
  /\ UNCHANGED <<setup, cloud, cands, plan, done, reply, report, read, tokens, settled>>

(* The loop sleeps before every item but the first.                        *)
NextItem ==
  /\ kind \in BulkKinds
  /\ phase = "between"
  /\ Remaining # <<>>
  /\ tokens' = Refill(Pace)
  /\ phase' = "checking"
  /\ UNCHANGED <<setup, cloud, cands, plan, done, reply, report, read, settled>>

(* The end of a loop in which nothing failed, of the proving run too.      *)
Complete ==
  /\ phase = "between"
  /\ Remaining = <<>>
  /\ phase' = "reported"
  /\ Report(<<>>, "", FALSE, <<>>)
  /\ UNCHANGED <<setup, cloud, cands, plan, done, reply, read, tokens, settled>>
-----------------------------------------------------------------------------
(* The censuses of each_probe.py and ct_probe.py judge a product by the    *)
(* name of the one unit of measure a write would target.                   *)
ClassifyEachUom(i) ==
  IF product[i].default \notin product[i].uoms THEN "no-each"
  ELSE IF product[i].default \in product[i].badly_named THEN "each-blocked"
  ELSE "each-writable"

ClassifyCtUom(i) ==
  IF Carton \notin product[i].uoms THEN "no-ct"
  ELSE IF Carton \in product[i].badly_named THEN "ct-incomplete"
  ELSE "ct-complete"
=============================================================================
