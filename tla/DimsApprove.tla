----------------------------- MODULE DimsApprove -----------------------------
(***************************************************************************)
(* approve_dims_write (src/src/dims_write/approve.py) and write_and_verify *)
(* (src/src/dims_write/roundtrip.py): rate limit, read, customer guard,    *)
(* authorisation, idempotent_mutate, read-back, over CartonCloudClient     *)
(* _mutate and a network that delays, loses and rejects.                   *)
(*                                                                         *)
(* A caller is one call, made by a thread of some process.  The read that  *)
(* idempotent_mutate diffs against was made BEFORE the object's lock was   *)
(* taken: approve_dims_write passes `lambda: read.current_dims`.           *)
(***************************************************************************)
EXTENDS Integers, FiniteSets, ObjectLockRegistry, DimsData, WriteGates

CONSTANTS
  Uoms,         \* unit-of-measure ids of a product
  Situations,   \* what the model starts from
  Droppable,    \* fields CartonCloud may accept and silently drop
  Burst,        \* the rate limiter's capacity
  MaxTurns      \* bound on calls and edits by others, for model checking

Request ==
  [id : Ids, uom : Uoms, captured : Captured, live : BOOLEAN, token : Tokens]

(* Configuration, owners of the products, contents of CartonCloud, and     *)
(* what each caller may ask.                                               *)
ASSUME SituationAssumption ==
  /\ \A s \in Situations :
       /\ s.config \in Configs /\ s.owner \in [Ids -> Customers \union {NoCustomer}]
       /\ s.store \in [Ids -> [Uoms -> Dims]]
       /\ DOMAIN s.asks = Callers /\ \A c \in Callers : s.asks[c] \subseteq Request
       /\ \E c \in Callers : s.asks[c] # {}
  /\ Droppable \subseteq Fields

ASSUME BoundsAssumption == IsFiniteSet(Callers) /\ Burst \in Nat /\ MaxTurns \in Nat

VARIABLES
  config,    \* WriteConfig and the client's flag; fixed for the run
  owner,     \* the products' customer ids; fixed for the run
  store,     \* CartonCloud: the dims of each product's units of measure
  budget,    \* tokens left for the endpoint (MutateRateLimiter)
  asks,      \* what each caller may ask; fixed for the run
  edits,     \* edits made by others so far
  request,   \* the call's arguments, any until it is made
  read,      \* the dims the pre-lock GET returned
  wire,      \* the call's PATCH while CartonCloud has not dealt with it
  answer,    \* CartonCloud's answer while it is on its way: "ok" or "rejected"
  outcome    \* how the call ended, or "" while it runs

remote == <<config, owner, asks, store, budget, edits>>
mine == <<request, read, wire, answer, outcome>>
vars == <<pc, object, lockVars, remote, mine>>

None == [f \in {} |-> Unset]
NoPatch == [uom |-> Free, ops |-> None]

Holding == {"locked", "mutating", "awaiting", "exit"}   \* within serialise_object
Phases == {"idle", "checking", "reading", "gating", "verifying", "done"}
          \union Locking \union Holding
Refusals == {"rate_limited", "read_failed", "customer_refused", "auth_refused"}
Outcomes == {"", "noop", "mutated", "recorded", "raised", "verified", "mismatch"} \union Refusals

Wanted(c) == Writable(request[c].captured)
Target(c) == store[request[c].id][request[c].uom]

End(c, result) ==
  /\ Goto(c, "done")
  /\ outcome' = [outcome EXCEPT ![c] = result]

Init ==
  /\ pc = [c \in Callers |-> "idle"]
  /\ \E s \in Situations :
       config = s.config /\ owner = s.owner /\ store = s.store /\ asks = s.asks
  /\ budget = Burst
  /\ edits = 0
  /\ request = [c \in Callers |-> CHOOSE r \in UNION {asks[d] : d \in Callers} : TRUE]
  /\ object = [c \in Callers |-> request[c].id]
  /\ read = [c \in Callers |-> None]
  /\ wire = [c \in Callers |-> NoPatch]
  /\ answer = [c \in Callers |-> ""]
  /\ outcome = [c \in Callers |-> ""]
  /\ LockInit

Turns == edits + Cardinality({c \in Callers : pc[c] # "idle"})

Call(c) ==
  /\ pc[c] = "idle"
  /\ Turns < MaxTurns
  /\ \E r \in asks[c] :
       /\ request' = [request EXCEPT ![c] = r]
       /\ object' = [object EXCEPT ![c] = r.id]
  /\ Goto(c, "checking")
  /\ UNCHANGED <<lockVars, remote, read, wire, answer, outcome>>

(* 1. The limiter refuses before anything else, the read included. *)
RateCheck(c) ==
  /\ pc[c] = "checking"
  /\ \/ /\ budget > 0
        /\ budget' = budget - 1
        /\ Goto(c, "reading")
        /\ UNCHANGED outcome
     \/ /\ budget = 0
        /\ End(c, "rate_limited")
        /\ UNCHANGED budget
  /\ UNCHANGED <<object, lockVars, config, owner, asks, store, edits, request, read, wire, answer>>

(* 2. The one GET: the unit of measure's dims and the product's customer. *)
Get(c) ==
  /\ pc[c] = "reading"
  /\ \/ /\ read' = [read EXCEPT ![c] = Target(c)]
        /\ Goto(c, "gating")
        /\ UNCHANGED outcome
     \/ /\ End(c, "read_failed")
        /\ UNCHANGED read
  /\ UNCHANGED <<object, lockVars, remote, request, wire, answer>>

\* Mutant: authorisation is asked for live writes only.
GatesLiveOnly(c) ==
  /\ pc[c] = "gating"
  /\ \/ /\ ~CustomerCleared(config, owner[object[c]])
        /\ End(c, "customer_refused")
     \/ /\ CustomerCleared(config, owner[object[c]])
        /\ Goto(c, "entering")
        /\ UNCHANGED outcome
  /\ UNCHANGED <<object, lockVars, remote, request, read, wire, answer>>

(* 3 and 4. Customer guard, then authorisation; the same for shadow and live. *)
Gates(c) ==
  LET cleared == CustomerCleared(config, owner[object[c]])
      authorised == Authorised(config, request[c].token)
  IN  /\ pc[c] = "gating"
      /\ \/ ~cleared /\ End(c, "customer_refused")
         \/ cleared /\ ~authorised /\ End(c, "auth_refused")
         \/ cleared /\ authorised /\ Goto(c, "entering") /\ UNCHANGED outcome
      /\ UNCHANGED <<object, lockVars, remote, request, read, wire, answer>>

(* 5. idempotent_mutate: the object's lock ... *)
Serialise(c) ==
  /\ LockStep(c)
  /\ UNCHANGED <<remote, mine>>

(* ... the diff of the dims read before the lock ... *)
DiffOf(c) == ComputeDiff(read[c], Wanted(c))

Decide(c) ==
  /\ pc[c] = "locked"
  /\ \/ /\ IsEmpty(DiffOf(c))
        /\ outcome' = [outcome EXCEPT ![c] = "noop"]
        /\ Goto(c, "exit")
     \/ /\ ~IsEmpty(DiffOf(c))
        /\ Goto(c, "mutating")
        /\ UNCHANGED outcome
  /\ UNCHANGED <<object, lockVars, remote, request, read, wire, answer>>

(* ... and the injected mutate fn: the shadow one records what it would send ... *)
Record(c) ==
  /\ pc[c] = "mutating"
  /\ ~request[c].live
  /\ outcome' = [outcome EXCEPT ![c] = "recorded"]
  /\ Goto(c, "exit")
  /\ UNCHANGED <<object, lockVars, remote, request, read, wire, answer>>

\* Mutant: the body carries the whole unit of measure, as read and amended.
OpsWhole(c) == Patched(read[c], DiffOf(c))

Ops(c) == DiffOf(c)

\* Mutant: _mutate checks the approval but not write_enabled.
SendUngated(c) ==
  /\ pc[c] = "mutating"
  /\ request[c].live
  /\ wire' = [wire EXCEPT ![c] = [uom |-> request[c].uom, ops |-> Ops(c)]]
  /\ Goto(c, "awaiting")
  /\ UNCHANGED <<object, lockVars, remote, request, read, answer, outcome>>

\* Mutant: the shadow path is handed the live mutate fn.
SendShadowToo(c) ==
  /\ pc[c] = "mutating"
  /\ wire' = [wire EXCEPT ![c] = [uom |-> request[c].uom, ops |-> Ops(c)]]
  /\ Goto(c, "awaiting")
  /\ UNCHANGED <<object, lockVars, remote, request, read, answer, outcome>>

(* ... the live one calls _mutate: refused unless the client is enabled,   *)
(* failing if no access token can be had, else one PATCH is sent.          *)
Send(c) ==
  /\ pc[c] = "mutating"
  /\ request[c].live
  /\ \/ /\ config.client_enabled
        /\ wire' = [wire EXCEPT ![c] = [uom |-> request[c].uom, ops |-> Ops(c)]]
        /\ Goto(c, "awaiting")
        /\ UNCHANGED outcome
     \/ /\ outcome' = [outcome EXCEPT ![c] = "raised"]
        /\ Goto(c, "exit")
        /\ UNCHANGED wire
  /\ UNCHANGED <<object, lockVars, remote, request, read, answer>>

Answered(c) ==
  /\ pc[c] = "awaiting"
  /\ answer[c] # ""
  /\ outcome' = [outcome EXCEPT ![c] = IF answer[c] = "ok" THEN "mutated" ELSE "raised"]
  /\ answer' = [answer EXCEPT ![c] = ""]
  /\ Goto(c, "exit")
  /\ UNCHANGED <<object, lockVars, remote, request, read, wire>>

(* The 12 s abort budget, or a transport error: whatever became of the     *)
(* PATCH, the caller stops listening and never sends it again.             *)
TimeOut(c) ==
  /\ pc[c] = "awaiting"
  /\ outcome' = [outcome EXCEPT ![c] = "raised"]
  /\ answer' = [answer EXCEPT ![c] = ""]
  /\ Goto(c, "exit")
  /\ UNCHANGED <<object, lockVars, remote, request, read, wire>>

(* The lock is released; write_and_verify goes on to the read-back unless  *)
(* the mutate fn raised, and a shadow approve is over.                     *)
Leave(c) ==
  /\ pc[c] = "exit"
  /\ Unlock(c, IF request[c].live /\ outcome[c] # "raised" THEN "verifying" ELSE "done")
  /\ UNCHANGED <<remote, mine>>

\* Mutant: the read-back looks at some unit of measure of the product.
ReadBackAnyUom(c) ==
  /\ pc[c] = "verifying"
  /\ \/ \E u \in Uoms :
          End(c, IF Holds(store[object[c]][u], Wanted(c)) THEN "verified" ELSE "mismatch")
     \/ End(c, "raised")
  /\ UNCHANGED <<object, lockVars, remote, request, read, wire, answer>>

ReadBack(c) ==
  /\ pc[c] = "verifying"
  /\ \/ End(c, IF Holds(Target(c), Wanted(c)) THEN "verified" ELSE "mismatch")
     \/ End(c, "raised")
  /\ UNCHANGED <<object, lockVars, remote, request, read, wire, answer>>

-----------------------------------------------------------------------------
(* CartonCloud, the network, other users and time. *)

Listening(c) == pc[c] = "awaiting"

(* The PATCH is applied, save for fields the API version does not know.    *)
Land(c) ==
  /\ wire[c] # NoPatch
  /\ \E dropped \in SUBSET (Droppable \intersect DOMAIN wire[c].ops) :
       LET kept == [f \in DOMAIN wire[c].ops \ dropped |-> wire[c].ops[f]]
       IN  store' = [store EXCEPT ![object[c]][wire[c].uom] = Patched(@, kept)]
  /\ wire' = [wire EXCEPT ![c] = NoPatch]
  /\ answer' = [answer EXCEPT ![c] = IF Listening(c) THEN "ok" ELSE ""]
  /\ UNCHANGED <<pc, object, lockVars, config, owner, asks, budget, edits, request, read, outcome>>

Reject(c) ==
  /\ wire[c] # NoPatch
  /\ wire' = [wire EXCEPT ![c] = NoPatch]
  /\ answer' = [answer EXCEPT ![c] = IF Listening(c) THEN "rejected" ELSE ""]
  /\ UNCHANGED <<pc, object, lockVars, remote, request, read, outcome>>

Lose(c) ==
  /\ wire[c] # NoPatch
  /\ wire' = [wire EXCEPT ![c] = NoPatch]
  /\ UNCHANGED <<pc, object, lockVars, remote, request, read, answer, outcome>>

EditByOthers(i, u, f, v) ==
  /\ Turns < MaxTurns
  /\ edits' = edits + 1
  /\ store' = [store EXCEPT ![i][u][f] = v]
  /\ UNCHANGED <<pc, object, lockVars, config, owner, asks, budget, mine>>

Replenish ==
  /\ budget < Burst
  /\ budget' = budget + 1
  /\ UNCHANGED <<pc, object, lockVars, config, owner, asks, store, edits, mine>>

-----------------------------------------------------------------------------
Run(c) ==
  \/ RateCheck(c) \/ Get(c) \/ Gates(c) \/ Serialise(c) \/ Decide(c)
  \/ Record(c) \/ Send(c) \/ Answered(c) \/ TimeOut(c) \/ Leave(c) \/ ReadBack(c)

Environment ==
  \/ \E c \in Callers : Land(c) \/ Reject(c) \/ Lose(c)
  \/ \E i \in Ids, u \in Uoms, f \in Fields, v \in Values \union {Unset} :
       EditByOthers(i, u, f, v)
  \/ Replenish

Next == Environment \/ \E c \in Callers : Call(c) \/ Run(c)

Spec == Init /\ [][Next]_vars
-----------------------------------------------------------------------------
TypeOK ==
  /\ LockTypeOK
  /\ pc \in [Callers -> Phases]
  /\ config \in Configs
  /\ owner \in [Ids -> Customers \union {NoCustomer}]
  /\ store \in [Ids -> [Uoms -> Dims]]
  /\ budget \in 0 .. Burst
  /\ edits \in 0 .. MaxTurns
  /\ request \in [Callers -> Request]
  /\ read \in [Callers -> Dims \union {None}]
  /\ \A c \in Callers : wire[c] = NoPatch \/ (wire[c].uom \in Uoms /\ wire[c].ops \in Desired)
  /\ answer \in [Callers -> {"", "ok", "rejected"}]
  /\ outcome \in [Callers -> Outcomes]

(* Whatever is on its way to CartonCloud was asked for live, by an         *)
(* authorised caller, through an enabled client, for a product whose       *)
(* customer is open to writes: never the live customer unless promoted.    *)
Sanctioned ==
  \A c \in Callers : wire[c] # NoPatch =>
    LET customer == owner[object[c]] IN
    /\ request[c].live
    /\ config.client_enabled
    /\ config.secret_set /\ request[c].token = "matching"
    /\ customer # NoCustomer
    /\ customer = Live => config.live_promotion
    /\ customer # Live => customer \in config.allowlist

Conflict(c, d) ==
  /\ request[c].id = request[d].id /\ request[c].uom = request[d].uom
  /\ \E f \in DOMAIN Wanted(c) \intersect DOMAIN Wanted(d) : Wanted(c)[f] # Wanted(d)[f]

(* A write reported verified stays true: whatever the other calls do, be   *)
(* it with dims read before their lock, or with a PATCH that lands after   *)
(* they gave it up, only a call that wants another value for the same dim, *)
(* or another user, can undo it.                                           *)
VerifiedStands ==
  \A c \in Callers :
    /\ outcome[c] = "verified" /\ edits = 0
    /\ \A d \in Callers : pc[d] # "idle" => ~Conflict(c, d)
    => Holds(Target(c), Wanted(c))

(* A shadow run leaves CartonCloud alone and a call's PATCH changes        *)
(* nothing but the dims it wanted, on the unit of measure it named.        *)
OnlyWantedChanges ==
  [][\A i \in Ids, u \in Uoms, f \in Fields :
       store'[i][u][f] # store[i][u][f] /\ edits' = edits =>
         \E c \in Callers :
           /\ request[c].live /\ request[c].id = i /\ request[c].uom = u
           /\ f \in DOMAIN Wanted(c) /\ store'[i][u][f] = Wanted(c)[f]]_vars
=============================================================================
