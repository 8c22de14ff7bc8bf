------------------------------ MODULE DimsRuns ------------------------------
(***************************************************************************)
(* The scripts that write dims (src/scripts/run_dims_*.py), run one after  *)
(* another by an operator who arms and disarms CC_LIVE_PROMOTION between   *)
(* runs: sandbox round trip and bulk, live proving run, live carton and    *)
(* each bulk.  A PATCH one run gave up on may land during the next.        *)
(***************************************************************************)
EXTENDS DimsBulk, DimsProving

CONSTANTS
  KindsUsed,  \* the scripts of the model, a subset of Kinds
  Scopes      \* what --only may be: sets of codes, the empty one for no --only

ASSUME RunsAssumption ==
  /\ IsFiniteSet(Ids) /\ MaxRuns \in Nat /\ MaxEdits \in Nat
  /\ Environments \subseteq Configs /\ KindsUsed \subseteq Kinds
  /\ Scopes \subseteq SUBSET Codes

Ended == {"refused", "unmatched", "previewed", "nothing", "reported", "raised", "crashed"}

(* gather_active_sandbox_candidates keeps the s-prefixed codes; the each   *)
(* script may be restricted to some codes.                                 *)
Candidates(k, only) ==
  {i \in Ids : /\ product[i].owner = CustomerOf(k)
               /\ k \in SandboxKinds => product[i].code \in DOMAIN Strip
               /\ k = "each" /\ only # {} => product[i].code \in only}

InSearchOrder(is) ==
  {s \in [1 .. Cardinality(is) -> is] :
     \A j, k \in DOMAIN s : j < k => product[s[j]].order < product[s[k]].order}

Init ==
  /\ kind \in KindsUsed /\ config \in Environments /\ scope = {}
  /\ \E cat \in Catalogues :
       product = cat.product /\ store = cat.store /\ table = CcDimsTable(cat.rows)
  /\ wire = {}
  /\ phase = "idle"
  /\ cands = <<>> /\ plan = NoPlan /\ done = 0
  /\ reply = "" /\ report = NoReport /\ read = None
  /\ tokens = Capacity
  /\ runs = 0 /\ edits = 0 /\ settled = {}

(* What a run requires before it reads; the proving run looks later.       *)
MayStart(k, c) == WriteTargetAllowed(c) /\ c.client_enabled

FirstPhase(k, c, only) ==
  IF k = "each" /\ only # {} /\ Candidates(k, only) = {} THEN "unmatched"
  ELSE IF k = "proving" \/ (k \in LiveKinds /\ ~c.live_promotion) THEN "planning"
  ELSE IF MayStart(k, c) THEN "planning" ELSE "refused"

(* The operator runs a script: a new process with its own limiter, in the  *)
(* environment as it is then.                                              *)
Start ==
  /\ phase \in Ended \union {"idle"}
  /\ runs < MaxRuns
  /\ runs' = runs + 1
  /\ kind' \in KindsUsed /\ config' \in Environments
  /\ scope' \in (IF kind' = "each" THEN Scopes ELSE {{}})
  /\ phase' = FirstPhase(kind', config', scope')
  /\ cands' \in IF phase' = "planning" /\ kind' # "proving"
                THEN InSearchOrder(Candidates(kind', scope')) ELSE {<<>>}
  /\ plan' = NoPlan /\ done' = 0
  /\ reply' = "" /\ report' = NoReport /\ read' = None
  /\ tokens' = Capacity
  /\ UNCHANGED <<cloud, table, settled>>

(* finalize_exit, in the finally of the live scripts. *)
Finalized(code) == IF config.live_promotion /\ code < 3 THEN 3 ELSE code

AsReported == IF phase = "reported" /\ report.failed = <<>> /\ ~report.aborted THEN 0 ELSE 1

(* Returns inside the try are not changed by the finally: a preview, a     *)
(* --only that matches nothing, a proving run with nothing to prove.       *)
RoundtripExit == IF phase = "reported" THEN 0 ELSE 2
CartonExit == IF phase = "previewed" THEN 0 ELSE Finalized(AsReported)
EachExit == IF phase = "unmatched" THEN 1 ELSE CartonExit
ProvingExit == IF phase \in {"previewed", "nothing"} THEN 0 ELSE Finalized(AsReported)

\* Mutant: a report is printed and taken for a success.
ExitCodeOfReport ==
  IF phase = "reported" THEN IF kind \in LiveKinds THEN Finalized(0) ELSE 0 ELSE 1

(* What main returns, or Python for an exception nobody catches.           *)
ExitCode ==
  CASE phase = "crashed" -> 1
    [] phase # "crashed" /\ kind = "sandbox" -> AsReported
    [] phase # "crashed" /\ kind = "roundtrip" -> RoundtripExit
    [] phase # "crashed" /\ kind = "carton" -> CartonExit
    [] phase # "crashed" /\ kind = "each" -> EachExit
    [] phase # "crashed" /\ kind = "proving" -> ProvingExit

Run ==
  \/ PlanNext \/ Planned \/ SelectNext \/ NoneSelected \/ PlanProving
  \/ NextItem \/ NextTarget \/ WriteItem \/ Complete

Operator == Start \/ Confirm \/ TypeCode

Next == Run \/ Operator \/ Others

Spec == Init /\ [][Next]_vars
-----------------------------------------------------------------------------
Phases ==
  Ended \union {"idle", "planning", "confirming", "between", "checking", "reading",
                "deciding", "awaiting", "verifying"}

Errors ==
  {"", "rate_limited", "unreadable", "write_refused", "timed_out", "mismatch", "poisoned"}

Patch ==
  [id : Ids, uom : Uoms, ops : Desired, run : 1 .. MaxRuns, kind : Kinds, armed : BOOLEAN]

TypeOK ==
  /\ kind \in Kinds /\ config \in Configs /\ scope \subseteq Codes
  /\ product \in [Ids -> Product] /\ store \in [Ids -> [Uoms -> Dims]]
  /\ DOMAIN table \subseteq Codes /\ \A c \in DOMAIN table : table[c] \in Captured
  /\ wire \subseteq Patch
  /\ phase \in Phases
  /\ cands \in Seq(Ids)
  /\ plan \in [to_write : Seq([id : Ids, uom : Uoms \union {NoUom}, want : Desired]),
               no_ops : Seq(Ids), skipped : Seq(Ids)]
  /\ done \in 0 .. Len(plan.to_write) /\ reply \in {"", "go", "no"}
  /\ report \in [written : Seq(Ids), no_ops : Seq(Ids), skipped : Seq(Ids), failed : Seq(Ids),
                 error : Errors, aborted : BOOLEAN, untouched : Seq(Ids)]
  /\ read \in Dims \union {None}
  /\ tokens \in 0 .. Capacity
  /\ runs \in 0 .. MaxRuns /\ edits \in 0 .. MaxEdits
  /\ settled \subseteq Ids \X Uoms

(* What a run ought to account for: a bulk run every candidate, a round    *)
(* trip those up to the one it chose, a proving run the chosen few.        *)
Accountable ==
  IF kind = "proving" THEN Selected ELSE Candidates(kind, scope) \ ToSet(cands)

(* The report is "fully reconstructable": every product the run had to     *)
(* account for is in it exactly once, as written, no-op, skipped, failed   *)
(* or untouched, wherever the run stopped.                                 *)
ReportAccounts ==
  phase = "reported" =>
    LET all == report.written \o report.failed \o report.untouched
               \o report.no_ops \o report.skipped
    IN  ToSet(all) = Accountable /\ Len(all) = Cardinality(Accountable)

(* Pacing keeps a batch of any length under the limiter: no item is ever   *)
(* refused by it.                                                          *)
PacedUnderLimit == kind \in BulkKinds => report.error # "rate_limited"

(* The each run leaves alone what a badly named unit of measure would make *)
(* CartonCloud reject, so it is never stopped by one, unless a name was    *)
(* spoiled after the plan was made; nor does it plan what the each census  *)
(* would call blocked, or the carton census incomplete.                    *)
PoisonAvoided ==
  kind = "each" /\ edits = 0 =>
    /\ report.error # "poisoned"
    /\ \A k \in DOMAIN plan.to_write :
         /\ ClassifyEachUom(plan.to_write[k].id) = "each-writable"
         /\ ClassifyCtUom(plan.to_write[k].id) # "ct-incomplete"

(* A PATCH on its way belongs to a run allowed to make it: on the run's    *)
(* own customer, the live one only when armed for that run; on the carton  *)
(* for the carton run and never on the each in its stead; and with the     *)
(* dims captured for the product's own code, or, only if that was not      *)
(* captured, for the code without its s.                                   *)
OnTarget ==
  \A m \in wire :
    LET p == product[m.id]
    IN  /\ p.owner = CustomerOf(m.kind)
        /\ p.owner = Live => m.armed
        /\ m.uom = (IF m.kind = "carton" THEN Carton ELSE p.default)
        /\ \E c \in DOMAIN table :
             /\ \/ c = p.code
                \/ p.code \in DOMAIN Strip \ DOMAIN table /\ c = Strip[p.code]
             /\ Holds(table[c], m.ops)

(* Nothing is sent that the operator did not see and say yes to, with one  *)
(* "go" for the plan shown or by typing the code of the product shown:     *)
(* every PATCH of this run is for an item confirmed, and sets only the     *)
(* values shown, although its body is worked out again from a later read.  *)
OnlyConfirmedIsSent ==
  \A m \in wire : m.run = runs =>
    \E k \in DOMAIN plan.to_write :
      /\ reply = "go" \/ k <= done
      /\ plan.to_write[k].id = m.id /\ plan.to_write[k].uom = m.uom
      /\ Holds(plan.to_write[k].want, m.ops)

(* Running again resumes, whichever script runs: what an earlier run       *)
(* reported written and nobody has edited since is not planned again, even *)
(* though PATCHes that other runs gave up on may still be landing.         *)
ResumeSkipsWritten ==
  phase = "confirming" =>
    \A k \in done + 1 .. Len(plan.to_write) :
      <<plan.to_write[k].id, plan.to_write[k].uom>> \notin settled

(* Exit code 0 leaves nothing behind: no PATCH of the run is under way,    *)
(* and nothing it was told to write failed or was left untouched.          *)
ZeroIsClean ==
  phase \in Ended /\ ExitCode = 0 =>
    /\ \A m \in wire : m.run # runs
    /\ phase = "reported" /\ ~report.aborted => report.failed = <<>> /\ report.untouched = <<>>

(* "The first write or read-back failure stops the run (fail-fast) and     *)
(* reports what is written (known-good) and what is untouched."            *)
(* (src/src/dims_write/bulk.py): no loop that wrote ends without a report. *)
FailureIsReported == kind \in BulkKinds /\ phase = "crashed" => done = 0

(* "The process can never exit 0 armed."                                   *)
(* (src/scripts/run_dims_live_proving.py): a live script that ends while   *)
(* CC_LIVE_PROMOTION is set says so in its exit code, on every path.       *)
NeverExitsZeroArmed ==
  kind \in LiveKinds /\ config.live_promotion /\ phase \in Ended => ExitCode # 0
=============================================================================
