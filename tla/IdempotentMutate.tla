-------------------------- MODULE IdempotentMutate --------------------------
(***************************************************************************)
(* idempotent_mutate of src/src/cc_client/write_idempotency.py: under the  *)
(* object's lock, read the current state, diff it against the desired one, *)
(* and mutate once with the diff unless it is empty.                       *)
(*                                                                         *)
(* read_current and do_mutate are the caller's.  Here, as in the module's  *)
(* contract and its tests, read_current is a GET made when it is called    *)
(* and do_mutate has had its effect, if any, by the time it returns or     *)
(* raises.  DimsApprove is the program's own caller, which does neither.   *)
(***************************************************************************)
EXTENDS ObjectLockRegistry, DimsData

CONSTANT MaxCalls   \* bound on the calls of one thread, for model checking

VARIABLES
  store,      \* the objects, as CartonCloud holds them
  desired,    \* idempotent_mutate's desired
  current,    \* its local: what read_current returned
  diff,       \* its local: what compute_diff returned
  outcome,    \* "", "noop", "mutated" or "raised"
  calls       \* calls made so far, for MaxCalls

vars == <<pc, object, lockVars, store, desired, current, diff, outcome, calls>>
local == <<desired, current, diff, outcome, calls>>

None == [f \in {} |-> Unset]

Holding == {"locked", "read", "mutating", "exit"}   \* within serialise_object

Init ==
  /\ pc = [c \in Callers |-> "idle"]
  /\ object \in [Callers -> Ids]
  /\ LockInit
  /\ store \in [Ids -> Dims]
  /\ desired = [c \in Callers |-> None]
  /\ current = [c \in Callers |-> None]
  /\ diff = [c \in Callers |-> None]
  /\ outcome = [c \in Callers |-> ""]
  /\ calls = [c \in Callers |-> 0]

Call(c, i, d) ==
  /\ pc[c] = "idle"
  /\ calls[c] < MaxCalls
  /\ Goto(c, "entering")
  /\ object' = [object EXCEPT ![c] = i]
  /\ desired' = [desired EXCEPT ![c] = d]
  /\ calls' = [calls EXCEPT ![c] = @ + 1]
  /\ UNCHANGED <<lockVars, store, current, diff, outcome>>

Serialise(c) ==
  /\ LockStep(c)
  /\ UNCHANGED <<store, local>>

Read(c) ==
  /\ pc[c] = "locked"
  /\ Goto(c, "read")
  /\ current' = [current EXCEPT ![c] = store[object[c]]]
  /\ UNCHANGED <<object, lockVars, store, desired, diff, outcome, calls>>

ReadRaises(c) ==
  /\ pc[c] = "locked"
  /\ Goto(c, "exit")
  /\ outcome' = [outcome EXCEPT ![c] = "raised"]
  /\ UNCHANGED <<object, lockVars, store, desired, current, diff, calls>>

Decide(c) ==
  LET d == ComputeDiff(current[c], desired[c]) IN
  /\ pc[c] = "read"
  /\ \/ /\ IsEmpty(d)
        /\ outcome' = [outcome EXCEPT ![c] = "noop"]
        /\ Goto(c, "exit")
        /\ UNCHANGED diff
     \/ /\ ~IsEmpty(d)
        /\ diff' = [diff EXCEPT ![c] = d]
        /\ Goto(c, "mutating")
        /\ UNCHANGED outcome
  /\ UNCHANGED <<object, lockVars, store, desired, current, calls>>

Mutate(c) ==
  /\ pc[c] = "mutating"
  /\ store' = [store EXCEPT ![object[c]] = Patched(@, diff[c])]
  /\ outcome' = [outcome EXCEPT ![c] = "mutated"]
  /\ Goto(c, "exit")
  /\ UNCHANGED <<object, lockVars, desired, current, diff, calls>>

(* do_mutate raises: refused, or applied with the answer lost. *)
MutateRaises(c) ==
  /\ pc[c] = "mutating"
  /\ \/ UNCHANGED store
     \/ store' = [store EXCEPT ![object[c]] = Patched(@, diff[c])]
  /\ outcome' = [outcome EXCEPT ![c] = "raised"]
  /\ Goto(c, "exit")
  /\ UNCHANGED <<object, lockVars, desired, current, diff, calls>>

\* Mutant: no finally clause, so an exception leaves the lock taken.
LeaveWithoutFinally(c) ==
  /\ pc[c] = "exit"
  /\ \/ outcome[c] # "raised" /\ Unlock(c, "idle")
     \/ outcome[c] = "raised" /\ Goto(c, "idle") /\ UNCHANGED <<object, lockVars>>
  /\ desired' = [desired EXCEPT ![c] = None]
  /\ current' = [current EXCEPT ![c] = None]
  /\ diff' = [diff EXCEPT ![c] = None]
  /\ outcome' = [outcome EXCEPT ![c] = ""]
  /\ UNCHANGED <<store, calls>>

(* The with-block ends and the call returns or re-raises; locals die. *)
Leave(c) ==
  /\ pc[c] = "exit"
  /\ Unlock(c, "idle")
  /\ desired' = [desired EXCEPT ![c] = None]
  /\ current' = [current EXCEPT ![c] = None]
  /\ diff' = [diff EXCEPT ![c] = None]
  /\ outcome' = [outcome EXCEPT ![c] = ""]
  /\ UNCHANGED <<store, calls>>

Run(c) ==
  \/ Serialise(c) \/ Read(c) \/ ReadRaises(c) \/ Decide(c)
  \/ Mutate(c) \/ MutateRaises(c) \/ Leave(c)

Next ==
  \E c \in Callers : Run(c) \/ \E i \in Ids, d \in Desired : Call(c, i, d)

Spec == Init /\ [][Next]_vars

(* A thread inside a call keeps running unless it waits for a lock. *)
FairSpec == Spec /\ \A c \in Callers : WF_vars(Run(c))
-----------------------------------------------------------------------------
TypeOK ==
  /\ LockTypeOK
  /\ pc \in [Callers -> {"idle"} \union Locking \union Holding]
  /\ store \in [Ids -> Dims]
  /\ desired \in [Callers -> Desired]
  /\ current \in [Callers -> Dims \union {None}]
  /\ diff \in [Callers -> Desired]
  /\ outcome \in [Callers -> {"", "noop", "mutated", "raised"}]
  /\ calls \in [Callers -> Nat]

(* Calls on one object through one registry run one at a time between      *)
(* acquire and release, although their locks are created on demand.        *)
Serialised ==
  \A c, d \in Callers :
    /\ pc[c] \in Holding /\ pc[d] \in Holding
    /\ RegistryOf[c] = RegistryOf[d] /\ object[c] = object[d]
    => c = d

(* A call about to mutate carries at least one field, and only fields the  *)
(* object does not hold already: nothing is applied twice.                 *)
NoDoubleApply ==
  \A c \in Callers : pc[c] = "mutating" =>
    /\ ~IsEmpty(diff[c])
    /\ \A f \in DOMAIN diff[c] : store[object[c]][f] # diff[c][f]

(* The abstract stage of a call: decided once its outcome is known. *)
Stage(c) ==
  CASE pc[c] = "idle" -> "idle"
    [] pc[c] = "exit" -> outcome[c]
    [] OTHER -> "pending"

Atomic == INSTANCE AtomicUpsert WITH stage <- [c \in Callers |-> Stage(c)]

(* Threads racing on an object behave as calls that took effect one after  *)
(* the other, each in one step.                                            *)
ImplementsUpsert == Atomic!UpsertSpec

(* "The loser waits and completes, it never drops its write": every call   *)
(* returns or raises.                                                      *)
EveryCallReturns == \A c \in Callers : pc[c] = "entering" ~> pc[c] = "idle"
=============================================================================
