----------------------------- MODULE DimsProving -----------------------------
(***************************************************************************)
(* The two runs made before a bulk write is trusted: the sandbox round     *)
(* trip of roundtrip.py, which writes the first product that would change, *)
(* and the live proving run of live_proving.py, which goes through one     *)
(* product of each prefix and writes those whose code the operator types.  *)
(***************************************************************************)
EXTENDS DimsItem

CONSTANTS
  Prefix,     \* of a code: what precedes its first dash
  CodeRank,   \* the place of a code among the sorted codes
  MaxTotal    \* --max: how many products are proved at most

ASSUME ProvingAssumption ==
  /\ CodeRank \in [Codes -> Nat] /\ DOMAIN Prefix = Codes
  /\ MaxTotal \in Nat

(* select_writable_sandbox_sku: the first candidate with something to      *)
(* write, the ones before it skipped; none is an error.                    *)
SelectNext ==
  LET i == Head(cands)
      u == product[i].default
      item == [id |-> i, uom |-> u, want |-> Wanted(i)]
      useful == /\ BaseCode(i) # NoBase
                /\ u # NoUom
                /\ ~IsEmpty(ComputeDiff(DimsOf(i, u), Wanted(i)))
  IN  /\ kind = "roundtrip"
      /\ phase = "planning"
      /\ cands # <<>>
      /\ cands' = Tail(cands)
      /\ \/ /\ ~useful
            /\ plan' = [plan EXCEPT !.skipped = Append(@, i)]
            /\ UNCHANGED phase
         \/ /\ useful
            /\ plan' = [plan EXCEPT !.to_write = <<item>>]
            /\ phase' = "confirming"
      /\ UNCHANGED <<setup, cloud, done, reply, report, read, tokens, settled>>

NoneSelected ==
  /\ kind = "roundtrip"
  /\ phase = "planning"
  /\ cands = <<>>
  /\ phase' = "nothing"
  /\ UNCHANGED <<setup, cloud, cands, plan, done, reply, report, read, tokens, settled>>
-----------------------------------------------------------------------------
Before(i, j) == CodeRank[product[i].code] < CodeRank[product[j].code]
Alike(i, j) == Prefix[product[i].code] = Prefix[product[j].code]

(* gather_active_live_candidates: all of them, with or without an s.       *)
LiveCandidates == {i \in Ids : product[i].owner = Live}

Resolvable == {i \in LiveCandidates : BaseCode(i) # NoBase}

(* One product of each prefix: the first with a base code.                 *)
Representatives == {i \in Resolvable : \A j \in Resolvable : Alike(i, j) => ~Before(j, i)}

(* The first MaxTotal of them: prefixes sort as their codes do, which no   *)
(* character of a code below the dash disturbs.                            *)
Selected == {i \in Representatives : Cardinality({j \in Representatives : Before(j, i)}) < MaxTotal}

InCodeOrder(is) ==
  {s \in [1 .. Cardinality(is) -> is] : \A j, k \in DOMAIN s : j < k => Before(s[j], s[k])}

(* The plan is made and shown before anything else is looked at: the unit  *)
(* of measure of a target is read when its turn comes.                     *)
PlanProving ==
  LET item(i) == [id |-> i, uom |-> NoUom, want |-> Wanted(i)]
  IN  /\ kind = "proving"
      /\ phase = "planning"
      /\ \E s \in InCodeOrder(Selected) :
           plan' = [plan EXCEPT !.to_write = [k \in DOMAIN s |-> item(s[k])]]
      /\ phase' = IF Selected = {} THEN "nothing"
                  ELSE IF ~config.live_promotion THEN "previewed"
                  ELSE IF ~WriteTargetAllowed(config) THEN "refused"
                  ELSE "between"
      /\ UNCHANGED <<setup, cloud, cands, done, reply, report, read, tokens, settled>>

(* The item at hand leaves the list of those to write for the skipped.     *)
Skip ==
  plan' = [plan EXCEPT !.to_write = RemoveAt(@, done + 1), !.skipped = Append(@, Item.id)]

(* The next target: its default unit of measure and diff are read now.     *)
NextTarget ==
  LET u == product[Item.id].default
      useful == u # NoUom /\ ~IsEmpty(ComputeDiff(DimsOf(Item.id, u), Item.want))
  IN  /\ kind = "proving"
      /\ phase = "between"
      /\ Remaining # <<>>
      /\ reply' = ""
      /\ \/ ~useful /\ Skip /\ UNCHANGED phase
         \/ /\ useful
            /\ plan' = [plan EXCEPT !.to_write[done + 1].uom = u]
            /\ phase' = "confirming"
      /\ UNCHANGED <<setup, cloud, cands, done, report, read, tokens, settled>>

\* Mutant: anything typed is taken for a yes.
TypeCodeAny ==
  /\ kind = "proving"
  /\ phase = "confirming"
  /\ reply' \in {"go", "no"}
  /\ phase' = "checking"
  /\ UNCHANGED <<setup, cloud, cands, plan, done, report, read, tokens, settled>>

(* The operator types the product's code, at once or after a while, or     *)
(* anything else, which skips the product.                                 *)
TypeCode ==
  /\ kind = "proving"
  /\ phase = "confirming"
  /\ tokens' \in {tokens, Refill(Pace)}
  /\ \/ reply' = "go" /\ phase' = "checking" /\ UNCHANGED plan
     \/ reply' = "no" /\ phase' = "between" /\ Skip
  /\ UNCHANGED <<setup, cloud, cands, done, report, read, settled>>
=============================================================================
