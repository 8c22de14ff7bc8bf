-------------------------- MODULE DimsApproveProofs --------------------------
(***************************************************************************)
(* approve_dims_write, for any threads, processes, products and dims: no   *)
(* write without its gates, none of what was not asked for, and a write    *)
(* reported verified stays.  None of it rests on the object's lock.        *)
(***************************************************************************)
EXTENDS DimsApprove, FiniteSetTheorems, TLAPS

(* Diffs and patches: a patch of the diff is one of what was desired.      *)
LEMMA DesiredType ==
  ASSUME NEW d \in Desired
  PROVE  DOMAIN d \subseteq Fields /\ d \in [DOMAIN d -> Values]
BY DEF Desired

LEMMA DesiredIntro ==
  ASSUME NEW S \in SUBSET Fields, NEW d \in [S -> Values]
  PROVE  d \in Desired
BY DEF Desired

LEMMA ComputeDiffType ==
  ASSUME NEW s, NEW d \in Desired
  PROVE  ComputeDiff(s, d) \in Desired
<1> DEFINE S == {g \in DOMAIN d : g \in DOMAIN s => s[g] # d[g]}
<1>1. S \in SUBSET Fields /\ \A f \in S : d[f] \in Values
  BY DesiredType
<1>2. [f \in S |-> d[f]] \in [S -> Values]
  BY <1>1
<1> QED BY <1>1, <1>2, DesiredIntro DEF ComputeDiff

LEMMA PatchedType ==
  ASSUME NEW s \in Dims, NEW d \in Desired
  PROVE  Patched(s, d) \in Dims
<1>1. /\ DOMAIN s = Fields /\ DOMAIN d \subseteq Fields
      /\ \A f \in Fields : s[f] \in Values \union {Unset}
      /\ \A f \in DOMAIN d : d[f] \in Values
  BY DesiredType DEF Dims
<1>2. DOMAIN s \union DOMAIN d = Fields
  BY <1>1
<1> QED BY <1>1, <1>2 DEF Patched, Dims

Typed ==
  /\ TypeOK /\ DOMAIN wire = Callers
  /\ \A c \in Callers : asks[c] \subseteq Request

(* A caller is about one product throughout.                               *)
Bound == \A c \in Callers : object[c] = request[c].id

(* A caller that has not called has sent and ended nothing.                *)
Begun == \A c \in Callers : pc[c] = "idle" => wire[c] = NoPatch /\ outcome[c] = ""

PastGates == Locking \union {"locked", "mutating"}

IsCleared(c) == CustomerCleared(config, owner[object[c]]) /\ Authorised(config, request[c].token)

(* Nobody enters idempotent_mutate but through the gates.                  *)
Gated == \A c \in Callers : pc[c] \in PastGates => IsCleared(c)

(* What is under way is a live write, cleared, of dims that are wanted.    *)
Asked(c, patch) ==
  /\ request[c].live /\ config.client_enabled /\ IsCleared(c)
  /\ patch.uom = request[c].uom /\ patch.ops \in Desired
  /\ \A f \in DOMAIN patch.ops : f \in DOMAIN Wanted(c) /\ patch.ops[f] = Wanted(c)[f]

OnTheWire == \A c \in Callers : wire[c] # NoPatch => Asked(c, wire[c])

IInv == Typed /\ Bound /\ Begun /\ Gated /\ OnTheWire /\ VerifiedStands

LEMMA NoneType == None \in Desired
<1>1. {} \in SUBSET Fields /\ None \in [{} -> Values]
  BY DEF None
<1> QED BY <1>1, DesiredIntro

LEMMA WantedType ==
  ASSUME Typed, NEW c \in Callers
  PROVE  Wanted(c) \in Desired /\ request[c] \in Request
<1>1. request[c] \in Request
  BY DEF Typed, TypeOK
<1>2. PICK S \in SUBSET Fields : request[c].captured \in [S -> Values \union {Unset, NaN}]
  BY <1>1 DEF Request, Captured
<1> DEFINE captured == request[c].captured
           W == {g \in S : IsWritableValue(captured[g])}
<1>3. W \in SUBSET Fields /\ \A f \in W : captured[f] \in Values
  BY <1>2 DEF IsWritableValue
<1>4. [f \in W |-> captured[f]] \in Desired
  BY <1>3, DesiredIntro
<1>5. Wanted(c) = [f \in W |-> captured[f]]
  BY <1>2 DEF Wanted, Writable
<1> QED BY <1>1, <1>4, <1>5

LEMMA Initially == Init => IInv
<1> SUFFICES ASSUME Init PROVE IInv
  OBVIOUS
<1>1. PICK s \in Situations : config = s.config /\ owner = s.owner /\ store = s.store /\ asks = s.asks
  BY DEF Init
<1>2. /\ config \in Configs /\ owner \in [Ids -> Customers \union {NoCustomer}]
      /\ store \in [Ids -> [Uoms -> Dims]]
      /\ \A c \in Callers : asks[c] \subseteq Request
      /\ \E c \in Callers : asks[c] # {}
  BY <1>1, SituationAssumption
<1>3. (CHOOSE r \in UNION {asks[d] : d \in Callers} : TRUE) \in Request
  BY <1>2
<1>4. request \in [Callers -> Request] /\ object \in [Callers -> Ids] /\ Bound
  BY <1>3 DEF Init, Bound, Request
<1>5. LockTypeOK
  BY <1>4, RegistryAssumption DEF Init, LockInit, LockTypeOK
<1>6. budget \in 0 .. Burst /\ edits \in 0 .. MaxTurns
  <2>1. budget = Burst /\ edits = 0
    BY DEF Init
  <2> QED BY <2>1, BoundsAssumption
<1>7. TypeOK
  <2>1. pc \in [Callers -> Phases] /\ outcome \in [Callers -> Outcomes]
    BY DEF Init, Phases, Outcomes
  <2>2. read \in [Callers -> Dims \union {None}] /\ answer \in [Callers -> {"", "ok", "rejected"}]
    BY DEF Init
  <2>3. \A c \in Callers : wire[c] = NoPatch
    BY DEF Init
  <2> QED BY <1>2, <1>4, <1>5, <1>6, <2>1, <2>2, <2>3 DEF TypeOK
<1>8. Typed /\ Begun /\ Gated /\ OnTheWire /\ VerifiedStands
  BY <1>2, <1>7 DEF Init, Typed, Begun, Gated, PastGates, Locking, OnTheWire, VerifiedStands
<1> QED BY <1>4, <1>8 DEF IInv
-----------------------------------------------------------------------------
(* Types. *)

LEMMA LockStepTypes ==
  ASSUME Typed, NEW c \in Callers, Serialise(c)
  PROVE  Typed'
<1>1. /\ pc \in [Callers -> Phases] /\ LockTypeOK /\ RegistryOf[c] \in Registries /\ c \in Callers
      /\ object[c] \in Ids
  BY RegistryAssumption DEF Typed, TypeOK, LockTypeOK
<1>3. LockTypeOK' /\ pc' \in [Callers -> Phases]
  <2>1. CASE TakeGuard(c)
    BY <1>1, <2>1 DEF TakeGuard, Goto, LockTypeOK, Phases, Locking
  <2>2. CASE LookUp(c)
    BY <1>1, <2>2 DEF LookUp, Goto, LockTypeOK, Phases, Locking
  <2>3. CASE ReturnLock(c)
    <3> DEFINE r == RegistryOf[c]
               n == IF seen[c] = 0 THEN locks[r][object[c]] + 1 ELSE seen[c]
    <3>1. n \in Nat /\ LockObject(c, n) \in Registries \X Ids \X Nat
      BY <1>1 DEF LockTypeOK, LockObject
    <3>2. /\ locks' = [locks EXCEPT ![r][object[c]] = IF seen[c] = 0 THEN n ELSE @]
          /\ ref' = [ref EXCEPT ![c] = LockObject(c, n)] /\ seen' = [seen EXCEPT ![c] = 0]
          /\ guard' = [guard EXCEPT ![r] = Free] /\ pc' = [pc EXCEPT ![c] = "acquiring"]
          /\ UNCHANGED <<object, holding>>
      BY <2>3 DEF ReturnLock, Goto
    <3> HIDE DEF n
    <3>3. (IF seen[c] = 0 THEN n ELSE locks[r][object[c]]) \in Nat
      BY <1>1, <3>1 DEF LockTypeOK
    <3>4. locks' \in [Registries -> [Ids -> Nat]]
      BY <1>1, <3>2, <3>3 DEF LockTypeOK
    <3>5. ref' \in [Callers -> (Registries \X Ids \X Nat) \union {Free}]
      BY <1>1, <3>1, <3>2 DEF LockTypeOK
    <3> QED BY <1>1, <3>2, <3>4, <3>5 DEF LockTypeOK, Phases, Locking
  <2>4. CASE Acquire(c)
    BY <1>1, <2>4 DEF Acquire, Goto, LockTypeOK, Phases, Holding
  <2> QED BY <2>1, <2>2, <2>3, <2>4 DEF Serialise, LockStep
<1> QED BY <1>3 DEF Serialise, remote, mine, Typed, TypeOK

LEMMA RunTypes ==
  ASSUME Typed, NEW c \in Callers, Run(c)
  PROVE  Typed'
<1>1. /\ Wanted(c) \in Desired /\ request[c].uom \in Uoms
      /\ store[request[c].id][request[c].uom] \in Dims
  <2>1. Wanted(c) \in Desired /\ request[c].uom \in Uoms /\ request[c].id \in Ids
    BY WantedType DEF Request
  <2>2. store \in [Ids -> [Uoms -> Dims]]
    BY DEF Typed, TypeOK
  <2> QED BY <2>1, <2>2
<1>2. CASE RateCheck(c)
  <2>1. pc' \in [Callers -> Phases] /\ outcome' \in [Callers -> Outcomes]
    BY <1>2 DEF Typed, TypeOK, RateCheck, End, Goto, Phases, Outcomes, Refusals
  <2>2. budget' \in 0 .. Burst
    <3>1. budget' = budget \/ (budget > 0 /\ budget' = budget - 1)
      BY <1>2 DEF RateCheck
    <3>2. budget \in 0 .. Burst
      BY DEF Typed, TypeOK
    <3> QED BY <3>1, <3>2, BoundsAssumption
  <2>3. UNCHANGED <<object, lockVars, config, owner, asks, store, edits, request, read, wire, answer>>
    BY <1>2 DEF RateCheck
  <2>4. LockTypeOK'
    BY <2>3 DEF Typed, TypeOK, lockVars, LockTypeOK
  <2> QED BY <2>1, <2>2, <2>3, <2>4 DEF Typed, TypeOK
<1>3. CASE Get(c)
  <2>1. pc' \in [Callers -> Phases] /\ outcome' \in [Callers -> Outcomes]
    BY <1>3 DEF Typed, TypeOK, Get, End, Goto, Phases, Outcomes, Refusals
  <2>2. read' \in [Callers -> Dims \union {None}]
    BY <1>1, <1>3 DEF Typed, TypeOK, Get, Target
  <2> QED BY <1>3, <2>1, <2>2 DEF Get, Typed, TypeOK, lockVars, LockTypeOK, remote
<1>4. CASE Gates(c)
  <2>1. pc' \in [Callers -> Phases] /\ outcome' \in [Callers -> Outcomes]
    BY <1>4 DEF Typed, TypeOK, Gates, End, Goto, Phases, Outcomes, Refusals, Locking
  <2> QED BY <1>4, <2>1 DEF Gates, Typed, TypeOK, lockVars, LockTypeOK, remote
<1>5. CASE Serialise(c)
  BY <1>5, LockStepTypes
<1>6. CASE Decide(c)
  <2>1. pc' \in [Callers -> Phases] /\ outcome' \in [Callers -> Outcomes]
    BY <1>6 DEF Typed, TypeOK, Decide, Goto, Phases, Outcomes, Holding
  <2> QED BY <1>6, <2>1 DEF Decide, Typed, TypeOK, lockVars, LockTypeOK, remote
<1>7. CASE Record(c)
  <2>1. pc' \in [Callers -> Phases] /\ outcome' \in [Callers -> Outcomes]
    BY <1>7 DEF Typed, TypeOK, Record, Goto, Phases, Outcomes, Holding
  <2> QED BY <1>7, <2>1 DEF Record, Typed, TypeOK, lockVars, LockTypeOK, remote
<1>8. CASE Send(c)
  <2>1. pc' \in [Callers -> Phases] /\ outcome' \in [Callers -> Outcomes]
    BY <1>8 DEF Typed, TypeOK, Send, Goto, Phases, Outcomes, Holding
  <2>2. Ops(c) \in Desired
    BY <1>1, ComputeDiffType DEF Ops, DiffOf
  <2> DEFINE patch == [uom |-> request[c].uom, ops |-> Ops(c)]
  <2>3. wire' = wire \/ wire' = [wire EXCEPT ![c] = patch]
    BY <1>8 DEF Send
  <2>5. patch.uom \in Uoms /\ patch.ops \in Desired
    BY <1>1, <2>2
  <2> HIDE DEF patch
  <2>4. /\ DOMAIN wire' = Callers
        /\ \A d \in Callers : wire'[d] = NoPatch \/ (wire'[d].uom \in Uoms /\ wire'[d].ops \in Desired)
    BY <2>3, <2>5 DEF Typed, TypeOK
  <2> QED BY <1>8, <2>1, <2>4 DEF Send, Typed, TypeOK, lockVars, LockTypeOK, remote
<1>9. CASE Answered(c) \/ TimeOut(c)
  <2>1. pc' \in [Callers -> Phases] /\ outcome' \in [Callers -> Outcomes]
    BY <1>9 DEF Typed, TypeOK, Answered, TimeOut, Goto, Phases, Outcomes, Holding
  <2>2. answer' \in [Callers -> {"", "ok", "rejected"}]
    BY <1>9 DEF Typed, TypeOK, Answered, TimeOut
  <2> QED BY <1>9, <2>1, <2>2 DEF Answered, TimeOut, Typed, TypeOK, lockVars, LockTypeOK, remote
<1>10. CASE Leave(c)
  <2>1. pc' \in [Callers -> Phases] /\ LockTypeOK'
    BY <1>10 DEF Typed, TypeOK, Leave, Unlock, Goto, Phases, LockTypeOK
  <2> QED BY <1>10, <2>1 DEF Leave, Typed, TypeOK, remote, mine
<1>11. CASE ReadBack(c)
  <2>1. pc' \in [Callers -> Phases] /\ outcome' \in [Callers -> Outcomes]
    BY <1>11 DEF Typed, TypeOK, ReadBack, End, Goto, Phases, Outcomes
  <2> QED BY <1>11, <2>1 DEF ReadBack, Typed, TypeOK, lockVars, LockTypeOK, remote
<1> QED BY <1>2, <1>3, <1>4, <1>5, <1>6, <1>7, <1>8, <1>9, <1>10, <1>11 DEF Run
LEMMA CallTypes ==
  ASSUME Typed, NEW c \in Callers, Call(c)
  PROVE  Typed'
<1>1. PICK r \in asks[c] : request' = [request EXCEPT ![c] = r] /\ object' = [object EXCEPT ![c] = r.id]
  BY DEF Call
<1>2. r \in Request /\ r.id \in Ids
  BY DEF Typed, Request
<1>3. request' \in [Callers -> Request] /\ pc' \in [Callers -> Phases]
  BY <1>1, <1>2 DEF Typed, TypeOK, Call, Goto, Phases
<1>4. LockTypeOK'
  BY <1>1, <1>2 DEF Typed, TypeOK, Call, LockTypeOK, lockVars
<1> QED BY <1>3, <1>4 DEF Typed, TypeOK, Call, remote

LEMMA LandTypes ==
  ASSUME Typed, NEW c \in Callers, Land(c)
  PROVE  Typed'
<1>1. /\ wire[c].ops \in Desired /\ wire[c].uom \in Uoms /\ object[c] \in Ids
      /\ store \in [Ids -> [Uoms -> Dims]]
  BY DEF Typed, TypeOK, LockTypeOK, Land
<1>2. PICK dropped \in SUBSET (Droppable \intersect DOMAIN wire[c].ops) :
        store' = [store EXCEPT ![object[c]][wire[c].uom] =
                    Patched(@, [f \in DOMAIN wire[c].ops \ dropped |-> wire[c].ops[f]])]
  BY DEF Land
<1> DEFINE K == DOMAIN wire[c].ops \ dropped
           kept == [f \in K |-> wire[c].ops[f]]
<1>3. kept \in Desired
  <2>1. K \in SUBSET Fields /\ \A f \in K : wire[c].ops[f] \in Values
    BY <1>1, DesiredType
  <2> QED BY <2>1, DesiredIntro
<1>4. Patched(store[object[c]][wire[c].uom], kept) \in Dims
  BY <1>1, <1>3, PatchedType
<1> HIDE DEF kept
<1>5. store' \in [Ids -> [Uoms -> Dims]]
  <2>1. store' = [store EXCEPT ![object[c]][wire[c].uom] = Patched(store[object[c]][wire[c].uom], kept)]
    BY <1>2, Zenon DEF kept
  <2> QED BY <1>1, <1>4, <2>1
<1>6. DOMAIN wire' = Callers /\ \A d \in Callers : wire'[d] = NoPatch \/ wire'[d] = wire[d]
  BY DEF Typed, Land
<1>7. answer' \in [Callers -> {"", "ok", "rejected"}]
  BY DEF Typed, TypeOK, Land
<1>8. UNCHANGED <<pc, object, lockVars, config, owner, asks, budget, edits, request, read, outcome>>
  BY DEF Land
<1>9. LockTypeOK'
  BY <1>8 DEF Typed, TypeOK, LockTypeOK, lockVars
<1> QED BY <1>5, <1>6, <1>7, <1>8, <1>9 DEF Typed, TypeOK

LEMMA EndOfWireTypes ==
  ASSUME Typed, NEW c \in Callers, Reject(c) \/ Lose(c)
  PROVE  Typed'
<1>1. DOMAIN wire' = Callers /\ \A d \in Callers : wire'[d] = NoPatch \/ wire'[d] = wire[d]
  BY DEF Typed, Reject, Lose
<1>2. answer' \in [Callers -> {"", "ok", "rejected"}]
  BY DEF Typed, TypeOK, Reject, Lose
<1>3. UNCHANGED <<pc, object, lockVars, remote, request, read, outcome>>
  BY DEF Reject, Lose
<1>4. LockTypeOK'
  BY <1>3 DEF Typed, TypeOK, LockTypeOK, lockVars
<1> QED BY <1>1, <1>2, <1>3, <1>4 DEF Typed, TypeOK, remote

LEMMA OthersTypes ==
  ASSUME Typed,
         Replenish \/ \E i \in Ids, u \in Uoms, f \in Fields, v \in Values \union {Unset} :
                        EditByOthers(i, u, f, v)
  PROVE  Typed' /\ (edits' = edits \/ edits' = edits + 1)
<1>1. edits \in 0 .. MaxTurns /\ budget \in 0 .. Burst
  BY DEF Typed, TypeOK
<1>2. UNCHANGED <<pc, object, lockVars, config, owner, asks, mine>>
  BY DEF Replenish, EditByOthers
<1>3. LockTypeOK'
  BY <1>2 DEF Typed, TypeOK, LockTypeOK, lockVars
<1>4. edits' \in 0 .. MaxTurns /\ budget' \in 0 .. Burst /\ store' \in [Ids -> [Uoms -> Dims]]
      /\ (edits' = edits \/ edits' = edits + 1)
  <2>1. CASE Replenish
    <3>1. budget < Burst /\ budget' = budget + 1 /\ UNCHANGED <<edits, store>>
      BY <2>1 DEF Replenish
    <3>2. budget' \in 0 .. Burst
      BY <1>1, <3>1, BoundsAssumption
    <3> QED BY <1>1, <3>1, <3>2 DEF Typed, TypeOK
  <2>2. ASSUME NEW i \in Ids, NEW u \in Uoms, NEW f \in Fields, NEW v \in Values \union {Unset},
               EditByOthers(i, u, f, v)
        PROVE  edits' \in 0 .. MaxTurns /\ budget' \in 0 .. Burst /\ store' \in [Ids -> [Uoms -> Dims]]
               /\ edits' = edits + 1
    <3>1. edits' = edits + 1 /\ budget' = budget /\ Turns < MaxTurns
          /\ store' = [store EXCEPT ![i][u][f] = v]
      BY <2>2 DEF EditByOthers
    <3>2. store' \in [Ids -> [Uoms -> Dims]]
      BY <3>1 DEF Typed, TypeOK, Dims
    <3>3. Cardinality({c \in Callers : pc[c] # "idle"}) \in Nat
      <4>1. IsFiniteSet({c \in Callers : pc[c] # "idle"})
        BY BoundsAssumption, FS_Subset
      <4> QED BY <4>1, FS_CardinalityType
    <3>4. edits' \in 0 .. MaxTurns
      BY <1>1, <3>1, <3>3, BoundsAssumption DEF Turns
    <3> QED BY <1>1, <3>1, <3>2, <3>4
  <2> QED BY <2>1, <2>2
<1> QED BY <1>2, <1>3, <1>4 DEF Typed, TypeOK, mine
-----------------------------------------------------------------------------
(* What a step of a running call does to what the invariant is about.      *)

Patch(c) == [uom |-> request[c].uom, ops |-> DiffOf(c)]

Alone(c) ==
  /\ UNCHANGED <<config, owner, asks, store, edits, request, object>>
  /\ \A d \in Callers \ {c} : pc'[d] = pc[d] /\ wire'[d] = wire[d] /\ outcome'[d] = outcome[d]
  /\ pc[c] # "idle" /\ pc'[c] # "idle"

SendsIfGated(c) ==
  wire'[c] = wire[c]
  \/ (pc[c] = "mutating" /\ request[c].live /\ config.client_enabled /\ wire'[c] = Patch(c))

PassesGates(c) == pc'[c] \in PastGates => pc[c] \in PastGates \/ IsCleared(c)

VerifiesWhatHolds(c) ==
  outcome'[c] = "verified" => outcome[c] = "verified" \/ Holds(Target(c), Wanted(c))

LEMMA RunFacts ==
  ASSUME Typed, NEW c \in Callers, Run(c)
  PROVE  Alone(c) /\ SendsIfGated(c) /\ PassesGates(c) /\ VerifiesWhatHolds(c)
<1> USE DEF Alone, SendsIfGated, PassesGates, VerifiesWhatHolds, Goto, PastGates, Locking
<1>1. pc \in [Callers -> Phases] /\ outcome \in [Callers -> Outcomes] /\ DOMAIN wire = Callers
  BY DEF Typed, TypeOK
<1>2. CASE RateCheck(c)
  BY <1>1, <1>2 DEF RateCheck, End
<1>3. CASE Get(c)
  BY <1>1, <1>3 DEF Get, End, remote
<1>4. CASE Gates(c)
  BY <1>1, <1>4 DEF Gates, End, remote, IsCleared
<1>5. CASE Serialise(c)
  BY <1>1, <1>5 DEF Serialise, LockStep, TakeGuard, LookUp, ReturnLock, Acquire, remote, mine
<1>6. CASE Decide(c)
  BY <1>1, <1>6 DEF Decide, remote
<1>7. CASE Record(c)
  BY <1>1, <1>7 DEF Record, remote
<1>8. CASE Send(c)
  BY <1>1, <1>8 DEF Send, remote, Ops, Patch
<1>9. CASE Answered(c) \/ TimeOut(c)
  BY <1>1, <1>9 DEF Answered, TimeOut, remote
<1>10. CASE Leave(c)
  BY <1>1, <1>10 DEF Leave, Unlock, remote, mine
<1>11. CASE ReadBack(c)
  BY <1>1, <1>11 DEF ReadBack, End, remote
<1> QED BY <1>2, <1>3, <1>4, <1>5, <1>6, <1>7, <1>8, <1>9, <1>10, <1>11 DEF Run

(* The diff that is sent asks for nothing but what is wanted.              *)
LEMMA PatchIsAsked ==
  ASSUME Typed, NEW c \in Callers, request[c].live, config.client_enabled, IsCleared(c)
  PROVE  Asked(c, Patch(c))
<1>1. Wanted(c) \in Desired
  BY WantedType
<1>2. DiffOf(c) \in Desired
  BY <1>1, ComputeDiffType DEF DiffOf
<1>3. \A f \in DOMAIN DiffOf(c) : f \in DOMAIN Wanted(c) /\ DiffOf(c)[f] = Wanted(c)[f]
  BY DEF DiffOf, ComputeDiff
<1>4. Patch(c).uom = request[c].uom /\ Patch(c).ops = DiffOf(c)
  BY DEF Patch
<1> QED BY <1>2, <1>3, <1>4 DEF Asked

(* What is asked, cleared, wanted and in conflict depends on what no call  *)
(* changes once it is made.                                                *)
LEMMA Settled ==
  ASSUME UNCHANGED <<config, owner, request, object>>
  PROVE  \A c \in Callers :
           /\ IsCleared(c)' <=> IsCleared(c)
           /\ Wanted(c)' = Wanted(c)
           /\ \A d \in Callers : Conflict(c, d)' <=> Conflict(c, d)
           /\ wire'[c] = wire[c] => (Asked(c, wire[c])' <=> Asked(c, wire[c]))
  BY DEF IsCleared, Wanted, Conflict, Asked

LEMMA RunKeeps ==
  ASSUME IInv, NEW c \in Callers, Run(c)
  PROVE  IInv'
<1>1. Typed /\ Typed'
  BY RunTypes DEF IInv
<1>2. Alone(c) /\ SendsIfGated(c) /\ PassesGates(c) /\ VerifiesWhatHolds(c)
  BY <1>1, RunFacts
<1>3. UNCHANGED <<config, owner, request, object, store, edits>>
  BY <1>2 DEF Alone
<1>4. Bound'
  BY <1>3 DEF IInv, Bound
<1>5. Begun'
  BY <1>2 DEF IInv, Begun, Alone
<1>6. Gated'
  BY <1>2, <1>3, Settled DEF IInv, Gated, Alone, PassesGates
<1>7. OnTheWire'
  <2>1. ASSUME NEW d \in Callers, wire'[d] # NoPatch PROVE Asked(d, wire[d])'
    <3>1. CASE wire'[d] = wire[d]
      BY <1>3, <2>1, <3>1, Settled DEF IInv, OnTheWire
    <3>2. CASE wire'[d] # wire[d]
      <4>1. d = c /\ pc[c] = "mutating" /\ request[c].live /\ config.client_enabled /\ wire'[c] = Patch(c)
        BY <1>2, <3>2 DEF Alone, SendsIfGated
      <4>2. Asked(c, Patch(c))
        BY <1>1, <4>1, PatchIsAsked DEF IInv, Gated, PastGates
      <4>3. Asked(c, wire[c])' <=> Asked(c, wire'[c])
        BY <1>3 DEF Asked, IsCleared, Wanted
      <4> QED BY <4>1, <4>2, <4>3
    <3> QED BY <3>1, <3>2
  <2> QED BY <2>1 DEF OnTheWire
<1>8. VerifiedStands'
  <2> SUFFICES ASSUME NEW d \in Callers, outcome'[d] = "verified", edits' = 0,
                      \A e \in Callers : pc'[e] # "idle" => ~Conflict(d, e)'
               PROVE  Holds(Target(d), Wanted(d))'
    BY DEF VerifiedStands
  <2>1. \A e \in Callers : pc[e] # "idle" => ~Conflict(d, e)
    BY <1>2, <1>3, Settled DEF Alone
  <2>2. Holds(Target(d), Wanted(d))
    BY <1>2, <1>3, <2>1 DEF IInv, VerifiedStands, Alone, VerifiesWhatHolds
  <2> QED BY <1>3, <2>2 DEF Holds, Target, Wanted
<1> QED BY <1>1, <1>4, <1>5, <1>6, <1>7, <1>8 DEF IInv
LEMMA CallKeeps ==
  ASSUME IInv, NEW c \in Callers, Call(c)
  PROVE  IInv'
<1>1. Typed /\ Typed'
  BY CallTypes DEF IInv
<1>2. PICK r \in asks[c] : request' = [request EXCEPT ![c] = r] /\ object' = [object EXCEPT ![c] = r.id]
  BY DEF Call
<1>3. /\ pc[c] = "idle" /\ pc'[c] = "checking" /\ wire[c] = NoPatch /\ outcome[c] = ""
      /\ request'[c].id = object'[c]
      /\ UNCHANGED <<config, owner, store, edits, wire, outcome>>
      /\ \A d \in Callers \ {c} : pc'[d] = pc[d] /\ request'[d] = request[d] /\ object'[d] = object[d]
  BY <1>1, <1>2 DEF IInv, Begun, Call, Goto, remote, Typed, TypeOK, LockTypeOK
<1>4. Bound' /\ Begun'
  BY <1>3 DEF IInv, Bound, Begun
<1>5. \A d \in Callers \ {c} : /\ IsCleared(d)' <=> IsCleared(d)
                               /\ Wanted(d)' = Wanted(d) /\ Target(d)' = Target(d)
                               /\ Asked(d, wire[d])' <=> Asked(d, wire[d])
  <2> SUFFICES ASSUME NEW d \in Callers \ {c}
               PROVE  /\ IsCleared(d)' <=> IsCleared(d)
                      /\ Wanted(d)' = Wanted(d) /\ Target(d)' = Target(d)
                      /\ Asked(d, wire[d])' <=> Asked(d, wire[d])
    OBVIOUS
  <2>1. /\ request'[d] = request[d] /\ object'[d] = object[d] /\ wire' = wire
        /\ config' = config /\ owner' = owner /\ store' = store
    BY <1>3
  <2>2. (IsCleared(d)' <=> IsCleared(d)) /\ Wanted(d)' = Wanted(d) /\ Target(d)' = Target(d)
    BY <2>1 DEF IsCleared, Wanted, Target
  <2>3. Asked(d, wire[d])' <=> Asked(d, wire[d])
    BY <2>1, <2>2 DEF Asked
  <2> QED BY <2>2, <2>3
<1>6. Gated'
  BY <1>3, <1>5 DEF IInv, Gated, PastGates, Locking
<1>7. OnTheWire'
  BY <1>3, <1>5 DEF IInv, OnTheWire
<1>8. VerifiedStands'
  <2> SUFFICES ASSUME NEW d \in Callers, outcome'[d] = "verified", edits' = 0,
                      \A e \in Callers : pc'[e] # "idle" => ~Conflict(d, e)'
               PROVE  Holds(Target(d), Wanted(d))'
    BY DEF VerifiedStands
  <2>1. d # c /\ outcome[d] = "verified" /\ edits = 0
    BY <1>3
  <2>2. \A e \in Callers \ {c} : Conflict(d, e)' <=> Conflict(d, e)
    BY <1>3, <2>1 DEF Conflict, Wanted
  <2>3. \A e \in Callers : pc[e] # "idle" => ~Conflict(d, e)
    BY <1>3, <2>2
  <2>4. Holds(Target(d), Wanted(d))
    BY <2>1, <2>3 DEF IInv, VerifiedStands
  <2>5. Wanted(d)' = Wanted(d) /\ Target(d)' = Target(d)
    BY <1>5, <2>1
  <2> QED BY <2>4, <2>5 DEF Holds
<1> QED BY <1>1, <1>4, <1>6, <1>7, <1>8 DEF IInv

-----------------------------------------------------------------------------
(* CartonCloud and the others. *)

(* A PATCH that lands sets dims its call wanted, and no other.             *)
LEMMA LandFacts ==
  ASSUME IInv, NEW c \in Callers, Land(c)
  PROVE  /\ pc[c] # "idle" /\ request[c].live
         /\ \A i \in Ids, u \in Uoms, f \in Fields :
              store'[i][u][f] # store[i][u][f] =>
                /\ request[c].id = i /\ request[c].uom = u
                /\ f \in DOMAIN Wanted(c) /\ store'[i][u][f] = Wanted(c)[f]
<1>1. /\ wire[c].uom = request[c].uom /\ wire[c].ops \in Desired
      /\ \A f \in DOMAIN wire[c].ops : f \in DOMAIN Wanted(c) /\ wire[c].ops[f] = Wanted(c)[f]
      /\ request[c].live /\ pc[c] # "idle" /\ object[c] = request[c].id
  BY DEF IInv, OnTheWire, Asked, Begun, Bound, Land
<1>2. /\ object[c] \in Ids /\ wire[c].uom \in Uoms /\ store \in [Ids -> [Uoms -> Dims]]
  BY <1>1, WantedType DEF IInv, Typed, TypeOK, LockTypeOK, Request
<1>3. PICK dropped \in SUBSET (Droppable \intersect DOMAIN wire[c].ops) :
        store' = [store EXCEPT ![object[c]][wire[c].uom] =
                    Patched(@, [f \in DOMAIN wire[c].ops \ dropped |-> wire[c].ops[f]])]
  BY DEF Land
<1> DEFINE kept == [f \in DOMAIN wire[c].ops \ dropped |-> wire[c].ops[f]]
           was == store[object[c]][wire[c].uom]
<1>4. store' = [store EXCEPT ![object[c]][wire[c].uom] = Patched(was, kept)]
  BY <1>3, Zenon
<1>5. \A f \in Fields : /\ f \in DOMAIN was
                        /\ f \in DOMAIN kept => Patched(was, kept)[f] = Wanted(c)[f] /\ f \in DOMAIN Wanted(c)
                        /\ f \notin DOMAIN kept => Patched(was, kept)[f] = was[f]
  BY <1>1, <1>2 DEF Patched, Dims
<1> HIDE DEF kept
<1>6. ASSUME NEW i \in Ids, NEW u \in Uoms, NEW f \in Fields, store'[i][u][f] # store[i][u][f]
      PROVE  /\ request[c].id = i /\ request[c].uom = u
             /\ f \in DOMAIN Wanted(c) /\ store'[i][u][f] = Wanted(c)[f]
  <2>1. i = object[c] /\ u = wire[c].uom
    BY <1>2, <1>4, <1>6
  <2>2. store'[i][u] = Patched(was, kept)
    BY <1>2, <1>4, <2>1
  <2> QED BY <1>1, <1>5, <1>6, <2>1, <2>2
<1> QED BY <1>1, <1>6

(* Nobody moves, and nothing is put on its way.                            *)
LEMMA OutsideKeeps ==
  ASSUME Bound, Begun, Gated, OnTheWire,
         UNCHANGED <<pc, config, owner, request, object, outcome>>,
         \A d \in Callers : wire'[d] = NoPatch \/ wire'[d] = wire[d]
  PROVE  Bound' /\ Begun' /\ Gated' /\ OnTheWire'
<1>1. Bound' /\ Begun'
  BY DEF Bound, Begun
<1>2. Gated'
  BY Settled DEF Gated
<1>3. OnTheWire'
  <2>1. ASSUME NEW d \in Callers, wire'[d] # NoPatch PROVE Asked(d, wire[d])'
    BY <2>1, Settled DEF OnTheWire
  <2> QED BY <2>1 DEF OnTheWire
<1> QED BY <1>1, <1>2, <1>3

LEMMA LandKeeps ==
  ASSUME IInv, NEW c \in Callers, Land(c)
  PROVE  IInv'
<1>1. /\ UNCHANGED <<pc, config, owner, request, object, outcome, edits>>
      /\ \A d \in Callers : wire'[d] = NoPatch \/ wire'[d] = wire[d]
  BY DEF Land, IInv, Typed
<1>2. Typed' /\ Bound' /\ Begun' /\ Gated' /\ OnTheWire'
  BY <1>1, LandTypes, OutsideKeeps DEF IInv
<1>3. VerifiedStands'
  <2> SUFFICES ASSUME NEW d \in Callers, outcome'[d] = "verified", edits' = 0,
                      \A e \in Callers : pc'[e] # "idle" => ~Conflict(d, e)'
               PROVE  Holds(Target(d), Wanted(d))'
    BY DEF VerifiedStands
  <2>1. \A e \in Callers : pc[e] # "idle" => ~Conflict(d, e)
    BY <1>1, Settled
  <2>2. Holds(Target(d), Wanted(d)) /\ Wanted(d)' = Wanted(d)
    BY <1>1, <2>1, Settled DEF IInv, VerifiedStands
  <2>3. /\ request[d].id \in Ids /\ request[d].uom \in Uoms /\ Wanted(d) \in Desired
        /\ DOMAIN Target(d) = Fields /\ DOMAIN Target(d)' = Fields
    <3>1. request[d].id \in Ids /\ request[d].uom \in Uoms /\ Wanted(d) \in Desired
      BY WantedType DEF IInv, Request
    <3>2. store \in [Ids -> [Uoms -> Dims]] /\ store' \in [Ids -> [Uoms -> Dims]]
      BY <1>2 DEF IInv, Typed, TypeOK
    <3>3. store[request[d].id][request[d].uom] \in Dims /\ store'[request[d].id][request[d].uom] \in Dims
      BY <3>1, <3>2
    <3> QED BY <1>1, <3>1, <3>3 DEF Target, Dims
  <2>4. pc[c] # "idle" /\ ~Conflict(d, c)
    BY <2>1, LandFacts
  <2>5. ASSUME NEW f \in DOMAIN Wanted(d) PROVE Target(d)'[f] = Wanted(d)[f]
    <3>1. f \in Fields /\ Target(d)[f] = Wanted(d)[f]
      BY <2>2, <2>3, DesiredType DEF Holds
    <3>2. Target(d)' = store'[request[d].id][request[d].uom]
      BY <1>1 DEF Target
    <3>3. CASE Target(d)'[f] = Target(d)[f]
      BY <3>1, <3>3
    <3>4. CASE Target(d)'[f] # Target(d)[f]
      BY <2>3, <2>4, <2>5, <3>1, <3>2, <3>4, LandFacts DEF Conflict, Target
    <3> QED BY <3>3, <3>4
  <2> QED BY <2>2, <2>3, <2>5, DesiredType DEF Holds
<1> QED BY <1>2, <1>3 DEF IInv

LEMMA EndOfWireKeeps ==
  ASSUME IInv, NEW c \in Callers, Reject(c) \/ Lose(c)
  PROVE  IInv'
<1>1. /\ UNCHANGED <<pc, config, owner, request, object, outcome, edits, store>>
      /\ \A d \in Callers : wire'[d] = NoPatch \/ wire'[d] = wire[d]
  BY DEF Reject, Lose, IInv, Typed, remote
<1>2. Typed' /\ Bound' /\ Begun' /\ Gated' /\ OnTheWire'
  BY <1>1, EndOfWireTypes, OutsideKeeps DEF IInv
<1>3. VerifiedStands'
  BY <1>1 DEF IInv, VerifiedStands, Conflict, Holds, Target, Wanted
<1> QED BY <1>2, <1>3 DEF IInv

LEMMA EditsCount == IInv => edits \in Nat
<1>1. IInv => edits \in 0 .. MaxTurns
  BY DEF IInv, Typed, TypeOK
<1> QED BY <1>1, BoundsAssumption

LEMMA OthersKeep ==
  ASSUME IInv,
         Replenish \/ \E i \in Ids, u \in Uoms, f \in Fields, v \in Values \union {Unset} :
                        EditByOthers(i, u, f, v)
  PROVE  IInv'
<1>1. UNCHANGED <<pc, config, owner, request, object, outcome, wire>>
  BY DEF Replenish, EditByOthers, mine
<1>2. Typed' /\ Bound' /\ Begun' /\ Gated' /\ OnTheWire'
  BY <1>1, OthersTypes, OutsideKeeps DEF IInv
<1>3. VerifiedStands'
  <2>1. CASE Replenish
    BY <1>1, <2>1 DEF IInv, VerifiedStands, Conflict, Holds, Target, Wanted, Replenish
  <2>2. CASE ~Replenish
    <3>1. edits' = edits + 1
      BY <2>2 DEF EditByOthers
    <3>2. edits' # 0
      BY <3>1, EditsCount
    <3> QED BY <3>2 DEF VerifiedStands
  <2> QED BY <2>1, <2>2
<1> QED BY <1>2, <1>3 DEF IInv

LEMMA StutterKeeps ==
  ASSUME IInv, UNCHANGED vars
  PROVE  IInv'
<1>1. UNCHANGED <<pc, object, lockVars, config, owner, asks, store, budget, edits, request, read, wire,
                  answer, outcome>>
  BY DEF vars, remote, mine
<1>2. Typed'
  BY <1>1 DEF IInv, Typed, TypeOK, LockTypeOK, lockVars
<1>3. Bound' /\ Begun' /\ Gated' /\ OnTheWire'
  BY <1>1, OutsideKeeps DEF IInv
<1>4. VerifiedStands'
  BY <1>1 DEF IInv, VerifiedStands, Conflict, Holds, Target, Wanted
<1> QED BY <1>2, <1>3, <1>4 DEF IInv

LEMMA StepKeeps ==
  ASSUME IInv, [Next]_vars
  PROVE  IInv'
<1>1. CASE Next
  BY <1>1, RunKeeps, CallKeeps, LandKeeps, EndOfWireKeeps, OthersKeep DEF Next, Environment
<1> QED BY <1>1, StutterKeeps

LEMMA Invariance == Spec => []IInv
<1>1. IInv /\ [Next]_vars => IInv'
  BY StepKeeps
<1> QED BY Initially, <1>1, PTL DEF Spec

-----------------------------------------------------------------------------
(* Types of every variable: what is on its way has writable dims only, and *)
(* the limiter's balance stays between none and its capacity.              *)
THEOREM TypeCorrect == Spec => []TypeOK
<1>1. IInv => TypeOK
  BY DEF IInv, Typed
<1> QED BY <1>1, Invariance, PTL

(* No PATCH leaves approve_dims_write without its gates: live, authorised, *)
(* through an enabled client, for a customer open to writes.               *)
THEOREM WritesSanctioned == Spec => []Sanctioned
<1>1. IInv => Sanctioned
  BY DEF IInv, OnTheWire, Asked, IsCleared, Sanctioned, CustomerCleared, IsCustomerAllowed, Authorised
<1> QED BY <1>1, Invariance, PTL

(* A write reported verified is undone only by somebody who wants another  *)
(* value: not by a call that read before the lock, nor by a PATCH that     *)
(* lands after its caller gave it up.                                      *)
THEOREM VerifiedHolds == Spec => []VerifiedStands
<1>1. IInv => VerifiedStands
  BY DEF IInv
<1> QED BY <1>1, Invariance, PTL

(* Dims change as a live call wanted them, or by the hand of others.       *)
THEOREM ChangesWanted == Spec => OnlyWantedChanges
<1> DEFINE A == \A i \in Ids, u \in Uoms, f \in Fields :
       store'[i][u][f] # store[i][u][f] /\ edits' = edits =>
         \E c \in Callers :
           /\ request[c].live /\ request[c].id = i /\ request[c].uom = u
           /\ f \in DOMAIN Wanted(c) /\ store'[i][u][f] = Wanted(c)[f]
<1>1. ASSUME IInv, Next PROVE A
  <2>1. ASSUME NEW c \in Callers, Land(c) PROVE A
    BY <1>1, <2>1, LandFacts
  <2>2. ASSUME NEW i \in Ids, NEW u \in Uoms, NEW f \in Fields, NEW v \in Values \union {Unset},
               EditByOthers(i, u, f, v)
        PROVE  A
    <3>1. edits' = edits + 1
      BY <2>2 DEF EditByOthers
    <3>2. edits' # edits
      BY <1>1, <3>1, EditsCount
    <3> QED BY <3>2
  <2>3. ASSUME UNCHANGED store PROVE A
    BY <2>3
  <2>4. ASSUME NEW c \in Callers, Call(c) \/ Run(c) \/ Reject(c) \/ Lose(c) PROVE UNCHANGED store
    <3>1. CASE Run(c)
      BY <1>1, <3>1, RunFacts DEF Alone, IInv
    <3> QED BY <2>4, <3>1 DEF Call, Reject, Lose, remote
  <2>5. CASE Replenish
    BY <2>5 DEF Replenish
  <2> HIDE DEF A
  <2> QED BY <1>1, <2>1, <2>2, <2>3, <2>4, <2>5 DEF Next, Environment
<1>2. IInv /\ [Next]_vars => [A]_vars
  BY <1>1
<1> QED BY <1>2, Invariance, PTL DEF Spec, OnlyWantedChanges
=============================================================================
