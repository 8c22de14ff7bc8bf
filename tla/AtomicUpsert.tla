---------------------------- MODULE AtomicUpsert ----------------------------
(***************************************************************************)
(* What idempotent_mutate promises: a call takes effect in one step.  If   *)
(* the object already holds the desired fields it is a no-op; otherwise    *)
(* the desired fields, and no other, are written.  A call that raises has  *)
(* either changed nothing or written just those fields.                    *)
(***************************************************************************)
EXTENDS DimsData

CONSTANTS Callers, Ids

VARIABLES
  store,    \* the objects, as CartonCloud holds them
  stage,    \* per caller: "idle", "pending", "noop", "mutated" or "raised"
  object,   \* per caller: the object of its latest call
  desired   \* per caller: the dims its call in progress wants

upsertVars == <<store, stage, object, desired>>

None == [f \in {} |-> Unset]

UpsertInit ==
  /\ store \in [Ids -> Dims]
  /\ stage = [c \in Callers |-> "idle"]
  /\ object \in [Callers -> Ids]
  /\ desired = [c \in Callers |-> None]

Begin(c, i, d) ==
  /\ stage[c] = "idle"
  /\ stage' = [stage EXCEPT ![c] = "pending"]
  /\ object' = [object EXCEPT ![c] = i]
  /\ desired' = [desired EXCEPT ![c] = d]
  /\ UNCHANGED store

Write(c) == store' = [store EXCEPT ![object[c]] = Patched(@, desired[c])]

Upsert(c) ==
  /\ stage[c] = "pending"
  /\ \/ /\ Holds(store[object[c]], desired[c])
        /\ stage' = [stage EXCEPT ![c] = "noop"]
        /\ UNCHANGED store
     \/ /\ ~Holds(store[object[c]], desired[c])
        /\ stage' = [stage EXCEPT ![c] = "mutated"]
        /\ Write(c)
  /\ UNCHANGED <<object, desired>>

Fail(c) ==
  /\ stage[c] = "pending"
  /\ stage' = [stage EXCEPT ![c] = "raised"]
  /\ UNCHANGED store \/ Write(c)
  /\ UNCHANGED <<object, desired>>

Return(c) ==
  /\ stage[c] \in {"noop", "mutated", "raised"}
  /\ stage' = [stage EXCEPT ![c] = "idle"]
  /\ desired' = [desired EXCEPT ![c] = None]
  /\ UNCHANGED <<store, object>>

UpsertNext ==
  \E c \in Callers :
    Upsert(c) \/ Fail(c) \/ Return(c) \/ \E i \in Ids, d \in Desired : Begin(c, i, d)

UpsertSpec == UpsertInit /\ [][UpsertNext]_upsertVars
=============================================================================
