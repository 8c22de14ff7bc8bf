----------------------- MODULE IdempotentMutateProofs -----------------------
(***************************************************************************)
(* idempotent_mutate, for any number of threads, objects, fields, values   *)
(* and processes: its calls are serialised.  And for the threads of one    *)
(* process, which is all the lock reaches: no redundant mutate, and the    *)
(* one-step upsert of AtomicUpsert.                                        *)
(***************************************************************************)
EXTENDS IdempotentMutate, TLAPS

(* Diffs and patches: a patch of the diff is one of what was desired.      *)
LEMMA DesiredType ==
  ASSUME NEW d \in Desired
  PROVE  DOMAIN d \subseteq Fields /\ d \in [DOMAIN d -> Values]
BY DEF Desired

LEMMA DesiredIntro ==
  ASSUME NEW S \in SUBSET Fields, NEW d \in [S -> Values]
  PROVE  d \in Desired
BY DEF Desired

LEMMA ComputeDiffType ==
  ASSUME NEW s, NEW d \in Desired
  PROVE  ComputeDiff(s, d) \in Desired
<1> DEFINE S == {g \in DOMAIN d : g \in DOMAIN s => s[g] # d[g]}
<1>1. S \in SUBSET Fields /\ \A f \in S : d[f] \in Values
  BY DesiredType
<1>2. [f \in S |-> d[f]] \in [S -> Values]
  BY <1>1
<1> QED BY <1>1, <1>2, DesiredIntro DEF ComputeDiff

LEMMA PatchedType ==
  ASSUME NEW s \in Dims, NEW d \in Desired
  PROVE  Patched(s, d) \in Dims
<1>1. /\ DOMAIN s = Fields /\ DOMAIN d \subseteq Fields
      /\ \A f \in Fields : s[f] \in Values \union {Unset}
      /\ \A f \in DOMAIN d : d[f] \in Values
  BY DesiredType DEF Dims
<1>2. DOMAIN s \union DOMAIN d = Fields
  BY <1>1
<1> QED BY <1>1, <1>2 DEF Patched, Dims

(* compute_diff is empty exactly when there is nothing to write ...        *)
LEMMA EmptyIffHolds ==
  ASSUME NEW s \in Dims, NEW d \in Desired
  PROVE  IsEmpty(ComputeDiff(s, d)) <=> Holds(s, d)
<1>1. DOMAIN s = Fields /\ DOMAIN d \subseteq Fields
  BY DesiredType DEF Dims
<1> QED BY <1>1 DEF IsEmpty, ComputeDiff, Holds

(* ... it holds only fields that are to change ...                         *)
LEMMA DiffChanges ==
  ASSUME NEW s \in Dims, NEW d \in Desired, NEW f \in DOMAIN ComputeDiff(s, d)
  PROVE  s[f] # ComputeDiff(s, d)[f]
<1>1. DOMAIN s = Fields /\ DOMAIN d \subseteq Fields
  BY DesiredType DEF Dims
<1> QED BY <1>1 DEF ComputeDiff

(* ... and writing it comes to writing everything that was desired.        *)
LEMMA PatchOfDiff ==
  ASSUME NEW s \in Dims, NEW d \in Desired
  PROVE  Patched(s, ComputeDiff(s, d)) = Patched(s, d)
<1> DEFINE x == ComputeDiff(s, d)
<1>1. DOMAIN s = Fields /\ DOMAIN d \subseteq Fields
  BY DesiredType DEF Dims
<1>2. DOMAIN x \subseteq DOMAIN d /\ \A f \in DOMAIN x : x[f] = d[f]
  BY DEF ComputeDiff
<1>3. \A f \in DOMAIN d \ DOMAIN x : s[f] = d[f]
  BY DEF ComputeDiff
<1>4. DOMAIN s \union DOMAIN x = DOMAIN s \union DOMAIN d
  BY <1>1, <1>2
<1> HIDE DEF x
<1>5. \A f \in DOMAIN s \union DOMAIN d :
        (IF f \in DOMAIN x THEN x[f] ELSE s[f]) = (IF f \in DOMAIN d THEN d[f] ELSE s[f])
  BY <1>2, <1>3
<1>6. Patched(s, x) = Patched(s, d)
  BY <1>4, <1>5 DEF Patched
<1> QED BY <1>6 DEF x

-----------------------------------------------------------------------------
(* What lock_for and serialise_object keep, whatever the body of the with- *)
(* block does: at most one lock is ever made for an object, whoever waits  *)
(* for it or holds it refers to that one, and at most one caller holds it. *)
(* There are four kinds of step: a LockStep, an Unlock, entering           *)
(* serialise_object, and anything else, in which a caller that is not in   *)
(* lock_for moves without touching a lock.  There is a lemma for each.     *)

(* The guard is held by the caller between look-up and creation. *)
GuardHeld ==
  \A r \in Registries, c \in Callers :
    guard[r] = c <=> pc[c] \in Guarding /\ RegistryOf[c] = r

(* What a caller found when it looked is still so when it acts on it. *)
FoundStands ==
  \A c \in Callers : pc[c] = "looked" => seen[c] = locks[RegistryOf[c]][object[c]]

OneLock == \A r \in Registries, i \in Ids : locks[r][i] \in {0, 1}

(* A caller that waits for a lock, or holds one, refers to the only one. *)
RefersToIt ==
  \A c \in Callers : pc[c] = "acquiring" \/ holding[c] # Free =>
    ref[c] = LockObject(c, 1) /\ locks[RegistryOf[c]][object[c]] = 1

HoldsItsRef == \A c \in Callers : holding[c] # Free => holding[c] = ref[c]

HeldByOne ==
  \A c, d \in Callers : holding[c] # Free /\ holding[c] = holding[d] => c = d

LockingHoldsNone == \A c \in Callers : pc[c] \in Locking => holding[c] = Free

RegistryInv ==
  /\ LockTypeOK
  /\ GuardHeld /\ FoundStands /\ OneLock
  /\ RefersToIt /\ HoldsItsRef /\ HeldByOne /\ LockingHoldsNone

USE DEF Goto, LockObject, Guarding, Locking

LEMMA LockObjectsAreNotFree ==
  ASSUME NEW r \in Registries, NEW i \in Ids, NEW n \in Nat
  PROVE  <<r, i, n>> # Free
BY RegistryAssumption

LEMMA RegistryStarts ==
  ASSUME LockInit, object \in [Callers -> Ids], \A c \in Callers : pc[c] \notin Locking
  PROVE  RegistryInv
<1> USE RegistryAssumption DEF LockInit
<1>1. LockTypeOK
  BY DEF LockTypeOK
<1>2. GuardHeld /\ FoundStands /\ OneLock
  BY DEF GuardHeld, FoundStands, OneLock
<1>3. RefersToIt /\ HoldsItsRef /\ HeldByOne /\ LockingHoldsNone
  BY DEF RefersToIt, HoldsItsRef, HeldByOne, LockingHoldsNone
<1> QED BY <1>1, <1>2, <1>3 DEF RegistryInv

LEMMA TakeGuardKeeps ==
  ASSUME NEW Labels, pc \in [Callers -> Labels], RegistryInv,
         NEW c \in Callers, TakeGuard(c)
  PROVE  RegistryInv'
<1> USE RegistryAssumption DEF RegistryInv, TakeGuard, LockTypeOK
<1>1. LockTypeOK'
  OBVIOUS
<1>2. GuardHeld'
  BY DEF GuardHeld
<1>3. FoundStands' /\ OneLock'
  BY DEF FoundStands, OneLock
<1>4. RefersToIt' /\ HoldsItsRef' /\ HeldByOne' /\ LockingHoldsNone'
  BY DEF RefersToIt, HoldsItsRef, HeldByOne, LockingHoldsNone
<1> QED BY <1>1, <1>2, <1>3, <1>4

LEMMA LookUpKeeps ==
  ASSUME NEW Labels, pc \in [Callers -> Labels], RegistryInv,
         NEW c \in Callers, LookUp(c)
  PROVE  RegistryInv'
<1>0. locks[RegistryOf[c]][object[c]] \in Nat
  <2>1. RegistryOf[c] \in Registries
    BY RegistryAssumption
  <2>2. object[c] \in Ids /\ locks \in [Registries -> [Ids -> Nat]]
    BY DEF RegistryInv, LockTypeOK
  <2> QED BY <2>1, <2>2
<1> USE RegistryAssumption DEF RegistryInv, LookUp, LockTypeOK
<1>1. LockTypeOK'
  BY <1>0
<1>2. GuardHeld'
  BY DEF GuardHeld
<1>3. FoundStands' /\ OneLock'
  BY DEF FoundStands, OneLock
<1>4. RefersToIt' /\ HoldsItsRef' /\ HeldByOne' /\ LockingHoldsNone'
  BY DEF RefersToIt, HoldsItsRef, HeldByOne, LockingHoldsNone
<1> QED BY <1>1, <1>2, <1>3, <1>4

(* The one step that makes locks: the guard keeps every other caller of    *)
(* the registry from having looked.                                        *)
LEMMA ReturnLockKeeps ==
  ASSUME NEW Labels, pc \in [Callers -> Labels], RegistryInv,
         NEW c \in Callers, ReturnLock(c)
  PROVE  RegistryInv'
<1> DEFINE r == RegistryOf[c]
           n == IF seen[c] = 0 THEN locks[r][object[c]] + 1 ELSE seen[c]
<1> USE RegistryAssumption DEF RegistryInv, LockTypeOK
<1>1. r \in Registries /\ object[c] \in Ids /\ pc[c] = "looked"
  BY DEF ReturnLock
<1>2. seen[c] = locks[r][object[c]] /\ locks[r][object[c]] \in {0, 1}
  BY <1>1 DEF FoundStands, OneLock
<1>3. n = 1
  BY <1>2
<1>4. /\ locks' = [locks EXCEPT ![r][object[c]] = 1]
      /\ ref' = [ref EXCEPT ![c] = LockObject(c, 1)]
      /\ seen' = [seen EXCEPT ![c] = 0]
      /\ guard' = [guard EXCEPT ![r] = Free]
      /\ pc' = [pc EXCEPT ![c] = "acquiring"]
      /\ UNCHANGED <<object, holding>>
  BY <1>2, <1>3 DEF ReturnLock
<1>5. \A q \in Registries, i \in Ids :
        locks'[q][i] = IF q = r /\ i = object[c] THEN 1 ELSE locks[q][i]
  BY <1>1, <1>4
<1>6. \A d \in Callers : pc[d] \in Guarding /\ RegistryOf[d] = r => d = c
  BY <1>1 DEF GuardHeld
<1>7. LockTypeOK'
  BY <1>1, <1>4
<1>8. GuardHeld'
  BY <1>1, <1>4, <1>6 DEF GuardHeld
<1>9. OneLock'
  BY <1>5 DEF OneLock
<1>10. FoundStands'
  <2> SUFFICES ASSUME NEW d \in Callers, pc'[d] = "looked"
               PROVE  seen'[d] = locks'[RegistryOf[d]][object'[d]]
    BY DEF FoundStands
  <2>1. d # c /\ pc[d] = "looked"
    BY <1>4
  <2>2. RegistryOf[d] \in Registries \ {r} /\ object[d] \in Ids
    BY <2>1, <1>6
  <2>3. locks'[RegistryOf[d]][object[d]] = locks[RegistryOf[d]][object[d]]
    BY <2>2, <1>5
  <2>4. seen[d] = locks[RegistryOf[d]][object[d]]
    BY <2>1 DEF FoundStands
  <2> QED BY <2>1, <2>3, <2>4, <1>4
<1>11. RefersToIt'
  <2> SUFFICES ASSUME NEW d \in Callers, pc'[d] = "acquiring" \/ holding'[d] # Free
               PROVE  /\ ref'[d] = LockObject(d, 1)'
                      /\ locks'[RegistryOf[d]][object'[d]] = 1
    BY DEF RefersToIt
  <2>1. CASE d = c
    BY <2>1, <1>1, <1>4, <1>5
  <2>2. CASE d # c
    <3>1. pc[d] = "acquiring" \/ holding[d] # Free
      BY <2>2, <1>4
    <3>2. ref[d] = LockObject(d, 1) /\ locks[RegistryOf[d]][object[d]] = 1
      BY <3>1 DEF RefersToIt
    <3> QED BY <2>2, <3>2, <1>4, <1>5
  <2> QED BY <2>1, <2>2
<1>12. HoldsItsRef' /\ HeldByOne' /\ LockingHoldsNone'
  BY <1>1, <1>4 DEF HoldsItsRef, HeldByOne, LockingHoldsNone
<1> QED BY <1>7, <1>8, <1>9, <1>10, <1>11, <1>12

(* lock.acquire(): nobody held the lock, so c is its only holder.          *)
LEMMA AcquireKeeps ==
  ASSUME NEW Labels, pc \in [Callers -> Labels], RegistryInv,
         NEW c \in Callers, Acquire(c)
  PROVE  RegistryInv' /\ holding'[c] # Free
<1> USE RegistryAssumption DEF RegistryInv, Acquire, LockTypeOK
<1>1. LockTypeOK'
  OBVIOUS
<1>2. GuardHeld' /\ FoundStands' /\ OneLock'
  BY DEF GuardHeld, FoundStands, OneLock
<1>3. ref[c] = LockObject(c, 1) /\ locks[RegistryOf[c]][object[c]] = 1
  BY DEF RefersToIt
<1>4. RefersToIt' /\ HoldsItsRef'
  BY <1>3 DEF RefersToIt, HoldsItsRef
<1>5. HeldByOne' /\ LockingHoldsNone'
  BY DEF HeldByOne, LockingHoldsNone
<1>6. holding'[c] # Free
  <2>1. RegistryOf[c] \in Registries /\ object[c] \in Ids /\ 1 \in Nat
    OBVIOUS
  <2>2. LockObject(c, 1) # Free
    BY <2>1, LockObjectsAreNotFree
  <2>3. holding'[c] = ref[c]
    OBVIOUS
  <2> QED BY <2>2, <2>3, <1>3
<1> QED BY <1>1, <1>2, <1>4, <1>5, <1>6

(* Any step of lock_for and acquire.                                       *)
LEMMA LockStepKeeps ==
  ASSUME NEW Labels, pc \in [Callers -> Labels], RegistryInv,
         NEW c \in Callers, LockStep(c)
  PROVE  /\ RegistryInv'
         /\ pc[c] \in Locking
         /\ \/ pc'[c] \in Locking
            \/ pc'[c] = "locked" /\ holding'[c] # Free
         /\ \A d \in Callers \ {c} : pc'[d] = pc[d] /\ holding'[d] = holding[d]
         /\ UNCHANGED object
<1>1. RegistryInv' /\ (pc'[c] = "locked" => holding'[c] # Free)
  <2>1. CASE TakeGuard(c)
    BY <2>1, TakeGuardKeeps DEF TakeGuard
  <2>2. CASE LookUp(c)
    BY <2>2, LookUpKeeps DEF LookUp
  <2>3. CASE ReturnLock(c)
    BY <2>3, ReturnLockKeeps DEF ReturnLock
  <2>4. CASE Acquire(c)
    BY <2>4, AcquireKeeps
  <2> QED BY <2>1, <2>2, <2>3, <2>4 DEF LockStep
<1>2. /\ pc[c] \in Locking
      /\ pc'[c] \in Locking \union {"locked"}
      /\ \A d \in Callers \ {c} : pc'[d] = pc[d] /\ holding'[d] = holding[d]
      /\ UNCHANGED object
  BY DEF LockStep, TakeGuard, LookUp, ReturnLock, Acquire, RegistryInv, LockTypeOK
<1> QED BY <1>1, <1>2

(* The finally clause.                                                     *)
LEMMA UnlockKeeps ==
  ASSUME NEW Labels, pc \in [Callers -> Labels], RegistryInv,
         NEW c \in Callers, NEW label, Unlock(c, label),
         pc[c] \notin Locking, label \notin Locking
  PROVE  RegistryInv'
<1> USE RegistryAssumption DEF RegistryInv, Unlock, LockTypeOK
<1>1. LockTypeOK'
  OBVIOUS
<1>2. GuardHeld' /\ FoundStands' /\ OneLock'
  BY DEF GuardHeld, FoundStands, OneLock
<1>3. RefersToIt' /\ HoldsItsRef' /\ HeldByOne' /\ LockingHoldsNone'
  BY DEF RefersToIt, HoldsItsRef, HeldByOne, LockingHoldsNone
<1> QED BY <1>1, <1>2, <1>3

(* A caller that holds nothing enters serialise_object for some object.    *)
LEMMA EnterKeeps ==
  ASSUME NEW Labels, pc \in [Callers -> Labels], RegistryInv,
         NEW c \in Callers, Goto(c, "entering"), pc[c] \notin Locking, holding[c] = Free,
         NEW i \in Ids, object' = [object EXCEPT ![c] = i], UNCHANGED lockVars
  PROVE  RegistryInv'
<1> USE RegistryAssumption DEF RegistryInv, lockVars, LockTypeOK
<1>1. LockTypeOK'
  OBVIOUS
<1>2. GuardHeld' /\ FoundStands' /\ OneLock'
  BY DEF GuardHeld, FoundStands, OneLock
<1>3. RefersToIt' /\ HoldsItsRef' /\ HeldByOne' /\ LockingHoldsNone'
  BY DEF RefersToIt, HoldsItsRef, HeldByOne, LockingHoldsNone
<1> QED BY <1>1, <1>2, <1>3

(* A caller that is not in lock_for moves, and stays out of it.            *)
LEMMA ElsewhereKeeps ==
  ASSUME NEW Labels, pc \in [Callers -> Labels], RegistryInv,
         NEW c \in Callers, NEW label, Goto(c, label),
         pc[c] \notin Locking, label \notin Locking,
         UNCHANGED object, UNCHANGED lockVars
  PROVE  RegistryInv'
<1> USE RegistryAssumption DEF RegistryInv, lockVars, LockTypeOK
<1>1. LockTypeOK'
  OBVIOUS
<1>2. GuardHeld' /\ FoundStands' /\ OneLock'
  BY DEF GuardHeld, FoundStands, OneLock
<1>3. RefersToIt' /\ HoldsItsRef' /\ HeldByOne' /\ LockingHoldsNone'
  BY DEF RefersToIt, HoldsItsRef, HeldByOne, LockingHoldsNone
<1> QED BY <1>1, <1>2, <1>3

(* Nobody moves: others act, or the model stutters.                        *)
LEMMA NobodyMoves ==
  ASSUME RegistryInv, UNCHANGED pc, UNCHANGED object, UNCHANGED lockVars
  PROVE  RegistryInv'
BY DEF RegistryInv, lockVars, LockTypeOK, GuardHeld, FoundStands, OneLock, RefersToIt,
       HoldsItsRef, HeldByOne, LockingHoldsNone

(* What all of it is for: two callers that hold locks of one object in one *)
(* registry are the same caller.                                           *)
LEMMA HoldersExclude ==
  ASSUME RegistryInv, NEW c \in Callers, NEW d \in Callers,
         holding[c] # Free, holding[d] # Free,
         RegistryOf[c] = RegistryOf[d], object[c] = object[d]
  PROVE  c = d
<1>1. holding[c] = LockObject(c, 1) /\ holding[d] = LockObject(d, 1)
  BY DEF RegistryInv, RefersToIt, HoldsItsRef
<1> QED BY <1>1 DEF RegistryInv, HeldByOne
-----------------------------------------------------------------------------
(* The calls: who is where, and what stands while it is there.             *)

Labels == {"idle"} \union Locking \union Holding

(* The thread inside serialise_object holds its lock, the others do not.   *)
Placed == \A c \in Callers : pc[c] \in Holding <=> holding[c] # Free

LockedInv == TypeOK /\ RegistryInv /\ Placed

OneProcess == \A c, d \in Callers : RegistryOf[c] = RegistryOf[d]

(* What was read under the lock is still so when it is diffed, and the     *)
(* diff is still the diff when it is sent.                                 *)
ReadStands ==
  \A c \in Callers :
    /\ pc[c] = "read" => current[c] = store[object[c]]
    /\ pc[c] = "mutating" =>
         /\ diff[c] = ComputeDiff(store[object[c]], desired[c])
         /\ ~IsEmpty(diff[c])

(* A call that has ended has an outcome, and a call at rest no desire.     *)
Ended ==
  \A c \in Callers :
    /\ pc[c] = "exit" => outcome[c] \in {"noop", "mutated", "raised"}
    /\ pc[c] = "idle" => desired[c] = None

IInv == LockedInv /\ ReadStands /\ Ended

USE DEF Goto, Guarding, Locking, Holding

LEMMA NoneType == None \in Desired
<1>1. {} \in SUBSET Fields /\ None \in [{} -> Values]
  BY DEF None
<1> QED BY <1>1, DesiredIntro

-----------------------------------------------------------------------------
(* Locks. *)

LEMMA Initially == Init => LockedInv /\ ReadStands /\ Ended
<1> SUFFICES ASSUME Init PROVE LockedInv /\ ReadStands /\ Ended
  OBVIOUS
<1>1. RegistryInv
  BY RegistryStarts DEF Init
<1>2. TypeOK
  BY <1>1, NoneType DEF Init, TypeOK, RegistryInv
<1>3. Placed
  BY DEF Init, Placed, LockInit
<1>4. ReadStands /\ Ended
  BY DEF Init, ReadStands, Ended
<1> QED BY <1>1, <1>2, <1>3, <1>4 DEF LockedInv

(* One step of one caller keeps types, the registry, and who holds what.   *)
LEMMA RunKeepsLocks ==
  ASSUME LockedInv, NEW c \in Callers, Run(c)
  PROVE  LockedInv'
<1>1. TypeOK /\ RegistryInv /\ Placed /\ pc \in [Callers -> Labels]
  BY DEF LockedInv, TypeOK, Labels
<1>2. object[c] \in Ids /\ store[object[c]] \in Dims /\ desired[c] \in Desired
      /\ diff[c] \in Desired
  BY <1>1 DEF TypeOK, LockTypeOK
<1>3. CASE Serialise(c)
  <2>1. /\ RegistryInv' /\ pc[c] \in Locking
        /\ pc'[c] \in Locking \/ (pc'[c] = "locked" /\ holding'[c] # Free)
        /\ \A d \in Callers \ {c} : pc'[d] = pc[d] /\ holding'[d] = holding[d]
    BY <1>1, <1>3, LockStepKeeps DEF Serialise
  <2>2. pc' \in [Callers -> Labels]
    BY <1>1, <1>3 DEF Serialise, LockStep, TakeGuard, LookUp, ReturnLock, Acquire, Labels
  <2>3. TypeOK'
    BY <1>1, <1>3, <2>1, <2>2 DEF Serialise, local, TypeOK, RegistryInv, Labels
  <2>4. Placed'
    BY <1>1, <2>1 DEF Placed, RegistryInv, LockingHoldsNone
  <2> QED BY <2>1, <2>3, <2>4 DEF LockedInv
<1>4. CASE Read(c)
  <2>1. RegistryInv'
    BY <1>1, <1>4, ElsewhereKeeps DEF Read
  <2>2. TypeOK' /\ Placed'
    BY <1>1, <1>2, <1>4, <2>1 DEF Read, TypeOK, RegistryInv, Placed, lockVars
  <2> QED BY <2>1, <2>2 DEF LockedInv
<1>5. CASE ReadRaises(c)
  <2>1. RegistryInv'
    BY <1>1, <1>5, ElsewhereKeeps DEF ReadRaises
  <2>2. TypeOK' /\ Placed'
    BY <1>1, <1>5, <2>1 DEF ReadRaises, TypeOK, RegistryInv, Placed, lockVars
  <2> QED BY <2>1, <2>2 DEF LockedInv
<1>6. CASE Decide(c)
  <2>1. RegistryInv'
    BY <1>1, <1>6, ElsewhereKeeps DEF Decide
  <2>2. ComputeDiff(current[c], desired[c]) \in Desired
    BY <1>2, ComputeDiffType
  <2>3. TypeOK' /\ Placed'
    BY <1>1, <1>6, <2>1, <2>2 DEF Decide, TypeOK, RegistryInv, Placed, lockVars
  <2> QED BY <2>1, <2>3 DEF LockedInv
<1>7. CASE Mutate(c) \/ MutateRaises(c)
  <2>1. RegistryInv'
    BY <1>1, <1>7, ElsewhereKeeps DEF Mutate, MutateRaises
  <2>2. Patched(store[object[c]], diff[c]) \in Dims
    BY <1>2, PatchedType
  <2>3. TypeOK' /\ Placed'
    BY <1>1, <1>2, <1>7, <2>1, <2>2
    DEF Mutate, MutateRaises, TypeOK, RegistryInv, Placed, lockVars
  <2> QED BY <2>1, <2>3 DEF LockedInv
<1>8. CASE Leave(c)
  <2>1. RegistryInv'
    BY <1>1, <1>8, UnlockKeeps DEF Leave
  <2>2. TypeOK' /\ Placed'
    BY <1>1, <1>8, <2>1, NoneType DEF Leave, Unlock, TypeOK, RegistryInv, Placed, LockTypeOK
  <2> QED BY <2>1, <2>2 DEF LockedInv
<1> QED BY <1>3, <1>4, <1>5, <1>6, <1>7, <1>8 DEF Run

LEMMA CallKeepsLocks ==
  ASSUME LockedInv, NEW c \in Callers, NEW i \in Ids, NEW d \in Desired, Call(c, i, d)
  PROVE  LockedInv'
<1>1. TypeOK /\ RegistryInv /\ Placed /\ pc \in [Callers -> Labels]
  BY DEF LockedInv, TypeOK, Labels
<1>2. holding[c] = Free
  BY <1>1 DEF Placed, Call
<1>3. RegistryInv'
  BY <1>1, <1>2, EnterKeeps DEF Call
<1>4. TypeOK'
  <2>1. pc' \in [Callers -> Labels]
    BY <1>1 DEF Call, Labels
  <2>2. desired' \in [Callers -> Desired]
    <3>1. desired \in [Callers -> Desired]
      BY <1>1 DEF TypeOK
    <3>2. desired' = [desired EXCEPT ![c] = d]
      BY DEF Call
    <3> QED BY <3>1, <3>2
  <2>3. calls' \in [Callers -> Nat]
    <3>1. calls \in [Callers -> Nat]
      BY <1>1 DEF TypeOK
    <3>2. calls' = [calls EXCEPT ![c] = calls[c] + 1]
      BY DEF Call
    <3> QED BY <3>1, <3>2
  <2>4. LockTypeOK'
    BY <1>3 DEF RegistryInv
  <2>5. UNCHANGED <<store, current, diff, outcome>>
    BY DEF Call
  <2> QED BY <1>1, <2>1, <2>2, <2>3, <2>4, <2>5 DEF TypeOK, Labels
<1>5. Placed'
  BY <1>1 DEF Call, TypeOK, Placed, lockVars
<1> QED BY <1>3, <1>4, <1>5 DEF LockedInv

LEMMA StutterKeepsLocks == LockedInv /\ UNCHANGED vars => LockedInv'
<1> SUFFICES ASSUME LockedInv, UNCHANGED vars PROVE LockedInv'
  OBVIOUS
<1>1. RegistryInv'
  BY NobodyMoves DEF LockedInv, vars
<1> QED BY <1>1 DEF LockedInv, vars, lockVars, TypeOK, Placed, RegistryInv

LEMMA LocksInvariant == Spec => []LockedInv
<1>1. Init => LockedInv
  BY Initially
<1>2. LockedInv /\ [Next]_vars => LockedInv'
  BY RunKeepsLocks, CallKeepsLocks, StutterKeepsLocks DEF Next
<1> QED BY <1>1, <1>2, PTL DEF Spec

LEMMA LocksSerialise == LockedInv => Serialised
BY HoldersExclude DEF LockedInv, Placed, Serialised

(* Types of every variable, for any number of threads, objects and         *)
(* processes: in particular no diff ever holds an unset value.             *)
THEOREM TypeCorrect == Spec => []TypeOK
<1>1. LockedInv => TypeOK
  BY DEF LockedInv
<1> QED BY <1>1, LocksInvariant, PTL

(* serialise_object keeps two threads of a process out of the body for one *)
(* object, although lock_for makes its locks on demand.                    *)
THEOREM MutualExclusion == Spec => []Serialised
BY LocksInvariant, LocksSerialise, PTL
-----------------------------------------------------------------------------
(* What was read. *)

LEMMA RunKeepsReads ==
  ASSUME OneProcess, LockedInv, ReadStands, NEW c \in Callers, Run(c)
  PROVE  ReadStands'
<1>1. TypeOK /\ RegistryInv /\ Placed /\ Serialised /\ pc \in [Callers -> Labels]
  BY LocksSerialise DEF LockedInv, TypeOK, Labels
<1>2. object \in [Callers -> Ids] /\ store \in [Ids -> Dims]
      /\ current \in [Callers -> Dims \union {None}] /\ diff \in [Callers -> Desired]
      /\ desired \in [Callers -> Desired] /\ object[c] \in Ids
  BY <1>1 DEF TypeOK, LockTypeOK
<1>3. CASE Serialise(c)
  <2>1. /\ \A d \in Callers : pc'[d] \in {"read", "mutating"} => pc'[d] = pc[d]
        /\ UNCHANGED <<object, store, desired, current, diff>>
    BY <1>1, <1>3, LockStepKeeps DEF Serialise, local
  <2> QED BY <2>1 DEF ReadStands
<1>4. CASE Read(c)
  BY <1>1, <1>2, <1>4 DEF Read, ReadStands
<1>5. CASE ReadRaises(c)
  BY <1>1, <1>5 DEF ReadRaises, ReadStands
<1>6. CASE Decide(c)
  BY <1>1, <1>2, <1>6 DEF Decide, ReadStands
<1>7. CASE Mutate(c) \/ MutateRaises(c)
  <2>1. /\ pc[c] = "mutating" /\ pc' = [pc EXCEPT ![c] = "exit"]
        /\ \A i \in Ids \ {object[c]} : store'[i] = store[i]
        /\ UNCHANGED <<object, desired, current, diff>>
    BY <1>2, <1>7 DEF Mutate, MutateRaises
  <2>2. \A d \in Callers : pc'[d] \in {"read", "mutating"} => pc[d] = pc'[d] /\ d # c
    BY <1>1, <2>1
  <2>3. \A d \in Callers : pc'[d] \in {"read", "mutating"} => object[d] # object[c]
    BY <1>1, <2>1, <2>2 DEF Serialised, OneProcess
  <2>4. \A d \in Callers :
          pc'[d] \in {"read", "mutating"} => store'[object[d]] = store[object[d]]
    BY <1>2, <2>1, <2>3
  <2> QED BY <2>1, <2>2, <2>4 DEF ReadStands
<1>8. CASE Leave(c)
  BY <1>1, <1>2, <1>8 DEF Leave, Unlock, ReadStands
<1> QED BY <1>3, <1>4, <1>5, <1>6, <1>7, <1>8 DEF Run

LEMMA RunKeepsEnds ==
  ASSUME LockedInv, Ended, NEW c \in Callers, Run(c)
  PROVE  Ended'
<1>1. /\ RegistryInv /\ pc \in [Callers -> Labels]
      /\ outcome \in [Callers -> {"", "noop", "mutated", "raised"}]
      /\ desired \in [Callers -> Desired]
  BY DEF LockedInv, TypeOK, Labels
<1>2. CASE Serialise(c)
  <2>1. /\ \A d \in Callers : pc'[d] \in {"exit", "idle"} => pc'[d] = pc[d]
        /\ UNCHANGED <<desired, outcome>>
    BY <1>1, <1>2, LockStepKeeps DEF Serialise, local
  <2> QED BY <2>1 DEF Ended
<1>3. CASE Read(c) \/ ReadRaises(c) \/ Decide(c)
  BY <1>1, <1>3 DEF Read, ReadRaises, Decide, Ended
<1>4. CASE Mutate(c) \/ MutateRaises(c)
  BY <1>1, <1>4 DEF Mutate, MutateRaises, Ended
<1>5. CASE Leave(c)
  BY <1>1, <1>5 DEF Leave, Unlock, Ended
<1> QED BY <1>2, <1>3, <1>4, <1>5 DEF Run

LEMMA CallKeepsReads ==
  ASSUME LockedInv, ReadStands, Ended, NEW c \in Callers, NEW i \in Ids, NEW d \in Desired,
         Call(c, i, d)
  PROVE  ReadStands' /\ Ended'
<1>1. /\ pc \in [Callers -> Labels] /\ object \in [Callers -> Ids]
      /\ desired \in [Callers -> Desired]
  BY DEF LockedInv, TypeOK, LockTypeOK, Labels
<1> QED BY <1>1 DEF Call, ReadStands, Ended

LEMMA StutterKeepsReads ==
  ReadStands /\ Ended /\ UNCHANGED vars => ReadStands' /\ Ended'
BY DEF vars, ReadStands, Ended

LEMMA Invariance ==
  ASSUME OneProcess
  PROVE  Spec => []IInv
<1>1. Init => IInv
  BY Initially DEF IInv
<1>2. IInv /\ [Next]_vars => IInv'
  <2> SUFFICES ASSUME IInv, [Next]_vars PROVE IInv'
    OBVIOUS
  <2>1. ASSUME NEW c \in Callers, Run(c) PROVE IInv'
    BY <2>1, RunKeepsLocks, RunKeepsReads, RunKeepsEnds DEF IInv
  <2>2. ASSUME NEW c \in Callers, NEW i \in Ids, NEW d \in Desired, Call(c, i, d)
        PROVE  IInv'
    BY <2>2, CallKeepsLocks, CallKeepsReads DEF IInv
  <2>3. CASE UNCHANGED vars
    BY <2>3, StutterKeepsLocks, StutterKeepsReads DEF IInv
  <2> QED BY <2>1, <2>2, <2>3 DEF Next
<1> QED BY <1>1, <1>2, PTL DEF Spec

(* In one process a mutate is never called for what the object holds       *)
(* already: the diff is not empty, and every field of it is a change at    *)
(* the moment it is sent.                                                  *)
THEOREM NeverAppliedTwice ==
  ASSUME OneProcess
  PROVE  Spec => []NoDoubleApply
<1>1. IInv => NoDoubleApply
  <2> SUFFICES ASSUME IInv, NEW c \in Callers, pc[c] = "mutating"
               PROVE  /\ ~IsEmpty(diff[c])
                      /\ \A f \in DOMAIN diff[c] : store[object[c]][f] # diff[c][f]
    BY DEF NoDoubleApply
  <2>1. store[object[c]] \in Dims /\ desired[c] \in Desired
    BY DEF IInv, LockedInv, TypeOK, LockTypeOK
  <2>2. diff[c] = ComputeDiff(store[object[c]], desired[c]) /\ ~IsEmpty(diff[c])
    BY DEF IInv, ReadStands
  <2> QED BY <2>1, <2>2, DiffChanges
<1> QED BY <1>1, Invariance, PTL
-----------------------------------------------------------------------------
(* The upsert. *)

LEMMA SameData ==
  /\ Atomic!Desired = Desired /\ Atomic!Dims = Dims /\ Atomic!None = None
  /\ \A s, d : Atomic!Holds(s, d) <=> Holds(s, d)
  /\ \A s, d : Atomic!Patched(s, d) = Patched(s, d)
BY DEF Atomic!Desired, Desired, Atomic!Dims, Dims, Atomic!None, None, Atomic!Holds, Holds,
       Atomic!Patched, Patched

LEMMA InitRefines == Init => Atomic!UpsertInit
BY SameData DEF Init, Atomic!UpsertInit, Stage

(* A step of c that leaves the other callers where they are shows in the   *)
(* abstract stage of c alone.                                              *)
LEMMA StageMoves ==
  ASSUME pc \in [Callers -> Labels], NEW c \in Callers,
         \A d \in Callers \ {c} : pc'[d] = pc[d] /\ outcome'[d] = outcome[d]
  PROVE  [d \in Callers |-> Stage(d)]' = [[d \in Callers |-> Stage(d)] EXCEPT ![c] = Stage(c)']
<1>1. \A d \in Callers \ {c} : Stage(d)' = Stage(d)
  BY DEF Stage
<1> QED BY <1>1

LEMMA RunRefines ==
  ASSUME IInv, NEW c \in Callers, Run(c)
  PROVE  Atomic!Upsert(c) \/ Atomic!Fail(c) \/ Atomic!Return(c) \/ UNCHANGED Atomic!upsertVars
<1> DEFINE stage == [d \in Callers |-> Stage(d)]
           held == store[object[c]]
<1>1. /\ RegistryInv /\ pc \in [Callers -> Labels] /\ object \in [Callers -> Ids]
      /\ store \in [Ids -> Dims] /\ held \in Dims /\ desired[c] \in Desired
      /\ desired \in [Callers -> Desired]
      /\ outcome \in [Callers -> {"", "noop", "mutated", "raised"}]
  BY DEF IInv, LockedInv, TypeOK, LockTypeOK, Labels
<1>2. pc[c] = "read" => current[c] = held
  BY DEF IInv, ReadStands
<1>3. pc[c] = "mutating" => diff[c] = ComputeDiff(held, desired[c]) /\ ~IsEmpty(diff[c])
  BY DEF IInv, ReadStands
<1>4. IsEmpty(ComputeDiff(held, desired[c])) <=> Holds(held, desired[c])
  BY <1>1, EmptyIffHolds
<1>5. Patched(held, ComputeDiff(held, desired[c])) = Patched(held, desired[c])
  BY <1>1, PatchOfDiff
<1>6. CASE Serialise(c)
  <2>1. /\ \A d \in Callers \ {c} : pc'[d] = pc[d]
        /\ pc[c] \in Locking /\ pc'[c] \in Locking \union {"locked"}
        /\ UNCHANGED <<object, store, desired, outcome>>
    BY <1>1, <1>6, LockStepKeeps DEF Serialise, local
  <2>2. \A d \in Callers : Stage(d)' = Stage(d)
    BY <2>1 DEF Stage
  <2>3. stage' = stage
    BY <2>2
  <2> QED BY <2>1, <2>3 DEF Atomic!upsertVars
<1>7. CASE Read(c)
  <2>1. \A d \in Callers : Stage(d)' = Stage(d)
    BY <1>1, <1>7 DEF Read, Stage
  <2>2. stage' = stage
    BY <2>1
  <2> QED BY <1>7, <2>2 DEF Read, Atomic!upsertVars
<1>8. CASE ReadRaises(c)
  <2>1. Stage(c) = "pending" /\ Stage(c)' = "raised"
    BY <1>1, <1>8 DEF ReadRaises, Stage
  <2>2. stage' = [stage EXCEPT ![c] = "raised"]
    BY <1>1, <1>8, <2>1, StageMoves DEF ReadRaises
  <2> QED BY <1>8, <2>1, <2>2 DEF ReadRaises, Atomic!Fail
<1>9. CASE Decide(c)
  <2>1. CASE IsEmpty(ComputeDiff(current[c], desired[c]))
    <3>1. Stage(c) = "pending" /\ Stage(c)' = "noop"
      BY <1>1, <1>9, <2>1 DEF Decide, Stage
    <3>2. stage' = [stage EXCEPT ![c] = "noop"]
      BY <1>1, <1>9, <2>1, <3>1, StageMoves DEF Decide
    <3>3. Holds(held, desired[c])
      BY <1>2, <1>4, <1>9, <2>1 DEF Decide
    <3> QED BY <1>9, <3>1, <3>2, <3>3, SameData DEF Decide, Atomic!Upsert
  <2>2. CASE ~IsEmpty(ComputeDiff(current[c], desired[c]))
    <3>1. \A d \in Callers : Stage(d)' = Stage(d)
      BY <1>1, <1>9, <2>2 DEF Decide, Stage
    <3>2. stage' = stage
      BY <3>1
    <3> QED BY <1>9, <3>2 DEF Decide, Atomic!upsertVars
  <2> QED BY <2>1, <2>2
<1>10. CASE Mutate(c)
  <2>1. Stage(c) = "pending" /\ Stage(c)' = "mutated"
    BY <1>1, <1>10 DEF Mutate, Stage
  <2>2. stage' = [stage EXCEPT ![c] = "mutated"]
    BY <1>1, <1>10, <2>1, StageMoves DEF Mutate
  <2>3. ~Holds(held, desired[c])
    BY <1>3, <1>4, <1>10 DEF Mutate
  <2>4. store' = [store EXCEPT ![object[c]] = Patched(held, desired[c])]
    BY <1>3, <1>5, <1>10 DEF Mutate
  <2>5. Atomic!Write(c)
    BY <2>4, SameData DEF Atomic!Write
  <2> QED BY <1>10, <2>1, <2>2, <2>3, <2>5, SameData DEF Mutate, Atomic!Upsert
<1>11. CASE MutateRaises(c)
  <2>1. Stage(c) = "pending" /\ Stage(c)' = "raised"
    BY <1>1, <1>11 DEF MutateRaises, Stage
  <2>2. stage' = [stage EXCEPT ![c] = "raised"]
    BY <1>1, <1>11, <2>1, StageMoves DEF MutateRaises
  <2>3. \/ UNCHANGED store
        \/ store' = [store EXCEPT ![object[c]] = Patched(held, desired[c])]
    BY <1>3, <1>5, <1>11 DEF MutateRaises
  <2>4. UNCHANGED store \/ Atomic!Write(c)
    BY <2>3, SameData DEF Atomic!Write
  <2> QED BY <1>11, <2>1, <2>2, <2>4 DEF MutateRaises, Atomic!Fail
<1>12. CASE Leave(c)
  <2>1. Stage(c) \in {"noop", "mutated", "raised"} /\ Stage(c)' = "idle"
    BY <1>1, <1>12 DEF Leave, Unlock, Stage, IInv, Ended
  <2>2. stage' = [stage EXCEPT ![c] = "idle"]
    BY <1>1, <1>12, <2>1, StageMoves DEF Leave, Unlock
  <2> QED BY <1>12, <2>1, <2>2, SameData DEF Leave, Unlock, Atomic!Return
<1> QED BY <1>6, <1>7, <1>8, <1>9, <1>10, <1>11, <1>12 DEF Run

LEMMA CallRefines ==
  ASSUME IInv, NEW c \in Callers, NEW i \in Ids, NEW d \in Desired, Call(c, i, d)
  PROVE  Atomic!Begin(c, i, d)
<1>1. pc \in [Callers -> Labels]
  BY DEF IInv, LockedInv, TypeOK, Labels
<1>2. Stage(c) = "idle" /\ Stage(c)' = "pending"
  BY <1>1 DEF Call, Stage
<1>3. [x \in Callers |-> Stage(x)]' = [[x \in Callers |-> Stage(x)] EXCEPT ![c] = "pending"]
  BY <1>1, <1>2, StageMoves DEF Call
<1> QED BY <1>2, <1>3 DEF Call, Atomic!Begin

LEMMA StepRefines == IInv /\ [Next]_vars => [Atomic!UpsertNext]_Atomic!upsertVars
<1> SUFFICES ASSUME IInv, [Next]_vars
             PROVE  [Atomic!UpsertNext]_Atomic!upsertVars
  OBVIOUS
<1>1. ASSUME NEW c \in Callers, Run(c)
      PROVE  [Atomic!UpsertNext]_Atomic!upsertVars
  BY <1>1, RunRefines DEF Atomic!UpsertNext
<1>2. ASSUME NEW c \in Callers, NEW i \in Ids, NEW d \in Desired, Call(c, i, d)
      PROVE  Atomic!UpsertNext
  BY <1>2, CallRefines, SameData DEF Atomic!UpsertNext
<1>3. CASE UNCHANGED vars
  <2>1. [d \in Callers |-> Stage(d)]' = [d \in Callers |-> Stage(d)]
    BY <1>3 DEF vars, Stage
  <2> QED BY <1>3, <2>1 DEF vars, Atomic!upsertVars
<1> QED BY <1>1, <1>2, <1>3 DEF Next

(* In one process, concurrent calls are one-step upserts: whatever the     *)
(* interleaving, each either found the object as desired and did nothing,  *)
(* or wrote the desired fields and no other, or raised having done one of  *)
(* the two.                                                                *)
THEOREM MutateImplementsUpsert ==
  ASSUME OneProcess
  PROVE  Spec => ImplementsUpsert
<1>1. Init => Atomic!UpsertInit
  BY InitRefines
<1>2. IInv /\ [Next]_vars => [Atomic!UpsertNext]_Atomic!upsertVars
  BY StepRefines
<1> QED BY <1>1, <1>2, Invariance, PTL DEF Spec, ImplementsUpsert, Atomic!UpsertSpec
=============================================================================
