------------------------- MODULE ObjectLockRegistry -------------------------
(***************************************************************************)
(* ObjectLockRegistry and serialise_object of                              *)
(* src/src/cc_client/write_idempotency.py: lazily created locks, one per   *)
(* object id, found and created under a guard lock.  A registry belongs to *)
(* one process; callers in different processes share none.                 *)
(*                                                                         *)
(* A lock object is <<registry, id, n>>, the n-th lock ever created for    *)
(* that id there.  That n never exceeds 1 is what the guard is for.        *)
(*                                                                         *)
(* A caller enters with pc = "entering" and leaves this module with        *)
(* pc = "locked"; the module that extends this one runs the body of the    *)
(* with-block and ends it with Unlock.                                     *)
(***************************************************************************)
EXTENDS Integers

CONSTANTS
  Callers,      \* threads
  Ids,          \* object ids (warehouse-product ids)
  Registries,   \* one per process, or per test
  RegistryOf,   \* the registry a caller goes through
  Free          \* nobody, and no lock

ASSUME RegistryAssumption ==
  /\ RegistryOf \in [Callers -> Registries]
  /\ Free \notin Callers
  /\ Free \notin Registries \X Ids \X Nat

VARIABLES
  pc,       \* where each caller is
  object,   \* serialise_object's object_id
  guard,    \* ObjectLockRegistry._guard: its holder, or Free
  locks,    \* ObjectLockRegistry._locks: number of the id's lock, 0 if none
  seen,     \* lock_for's local: what self._locks.get() returned
  ref,      \* the lock object lock_for returned
  holding   \* the lock object a caller holds, or Free

lockVars == <<guard, locks, seen, ref, holding>>

LockObject(c, n) == <<RegistryOf[c], object[c], n>>

Guarding == {"guarding", "looked"}
Locking == {"entering", "guarding", "looked", "acquiring"}

Goto(c, label) == pc' = [pc EXCEPT ![c] = label]

LockInit ==
  /\ guard = [r \in Registries |-> Free]
  /\ locks = [r \in Registries |-> [i \in Ids |-> 0]]
  /\ seen = [c \in Callers |-> 0]
  /\ ref = [c \in Callers |-> Free]
  /\ holding = [c \in Callers |-> Free]

\* Mutant: lock_for looks the lock up without the guard.
TakeGuardUnguarded(c) ==
  /\ pc[c] = "entering"
  /\ Goto(c, "guarding")
  /\ UNCHANGED <<object, guard, locks, seen, ref, holding>>

TakeGuard(c) ==
  LET r == RegistryOf[c] IN
  /\ pc[c] = "entering"
  /\ guard[r] = Free
  /\ guard' = [guard EXCEPT ![r] = c]
  /\ Goto(c, "guarding")
  /\ UNCHANGED <<object, locks, seen, ref, holding>>

LookUp(c) ==
  /\ pc[c] = "guarding"
  /\ seen' = [seen EXCEPT ![c] = locks[RegistryOf[c]][object[c]]]
  /\ Goto(c, "looked")
  /\ UNCHANGED <<object, guard, locks, ref, holding>>

(* Create the lock if there was none, return it, leave the guard. *)
ReturnLock(c) ==
  LET r == RegistryOf[c]
      n == IF seen[c] = 0 THEN locks[r][object[c]] + 1 ELSE seen[c]
  IN  /\ pc[c] = "looked"
      /\ locks' = [locks EXCEPT ![r][object[c]] = IF seen[c] = 0 THEN n ELSE @]
      /\ ref' = [ref EXCEPT ![c] = LockObject(c, n)]
      /\ seen' = [seen EXCEPT ![c] = 0]
      /\ guard' = [guard EXCEPT ![r] = Free]
      /\ Goto(c, "acquiring")
      /\ UNCHANGED <<object, holding>>

(* lock.acquire() blocks: the step is taken once nobody holds that lock. *)
Acquire(c) ==
  /\ pc[c] = "acquiring"
  /\ \A d \in Callers : holding[d] # ref[c]
  /\ holding' = [holding EXCEPT ![c] = ref[c]]
  /\ Goto(c, "locked")
  /\ UNCHANGED <<object, guard, locks, seen, ref>>

(* The finally clause: the lock is released whatever the body did. *)
Unlock(c, label) ==
  /\ holding' = [holding EXCEPT ![c] = Free]
  /\ ref' = [ref EXCEPT ![c] = Free]
  /\ Goto(c, label)
  /\ UNCHANGED <<object, guard, locks, seen>>

LockStep(c) == TakeGuard(c) \/ LookUp(c) \/ ReturnLock(c) \/ Acquire(c)

LockTypeOK ==
  /\ object \in [Callers -> Ids]
  /\ guard \in [Registries -> Callers \union {Free}]
  /\ locks \in [Registries -> [Ids -> Nat]]
  /\ seen \in [Callers -> Nat]
  /\ ref \in [Callers -> (Registries \X Ids \X Nat) \union {Free}]
  /\ holding \in [Callers -> (Registries \X Ids \X Nat) \union {Free}]
=============================================================================
