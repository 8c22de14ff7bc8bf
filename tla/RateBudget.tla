----------------------------- MODULE RateBudget -----------------------------
(***************************************************************************)
(* What the mutate-path rate limiter promises, with no bucket and no lock: *)
(* a call is admitted exactly when the endpoint's log of admissions,       *)
(* extended by this one, stays within the budget.  The budget of a window  *)
(* is one full bucket plus what refills during the window.                 *)
(*                                                                         *)
(* Time is counted in ticks, Minute of them to the minute.  Allowance is   *)
(* counted in units: a token is worth Minute units, so that PerMinute      *)
(* tokens a minute are exactly PerMinute units a tick.                     *)
(***************************************************************************)
EXTENDS Integers, Sequences

CONSTANTS
  Callers,      \* threads that call check()
  Endpoints,    \* keys of the per-endpoint buckets
  PerMinute,    \* the per-endpoint ceiling (30 in the code)
  Minute,       \* clock ticks in a minute
  MaxTime       \* bound on the clock, for model checking only

VARIABLES
  now,      \* time.monotonic()
  log,      \* per endpoint: the clock readings at which calls were admitted
  stage,    \* per caller: "idle", "deciding", "admitted" or "refused"
  target,   \* per caller: the endpoint of its latest call
  began     \* per caller: when its call in progress was made

budgetVars == <<now, log, stage, target, began>>

Capacity == PerMinute * Minute

(* Calls i..j of a log fit in a full bucket plus the refill between them. *)
WithinBudget(s) ==
  \A i, j \in 1..Len(s) :
    i <= j => (j - i + 1) * Minute <= Capacity + (s[j] - s[i]) * PerMinute

BudgetInit ==
  /\ now = 0
  /\ log = [e \in Endpoints |-> <<>>]
  /\ stage = [c \in Callers |-> "idle"]
  /\ target \in [Callers -> Endpoints]
  /\ began = [c \in Callers |-> 0]

Elapse ==
  /\ now < MaxTime
  /\ now' = now + 1
  /\ UNCHANGED <<log, stage, target, began>>

Ask(c, e) ==
  /\ stage[c] = "idle"
  /\ stage' = [stage EXCEPT ![c] = "deciding"]
  /\ target' = [target EXCEPT ![c] = e]
  /\ began' = [began EXCEPT ![c] = now]
  /\ UNCHANGED <<now, log>>

(* The verdict is taken in one step, at a clock reading t made during the  *)
(* call; it depends on this endpoint's log and on nothing else.            *)
Decide(c) ==
  \E t \in began[c] .. now :
    LET e == target[c]
        extended == Append(log[e], t)
        fits == WithinBudget(extended)
    IN  /\ stage[c] = "deciding"
        /\ log' = IF fits THEN [log EXCEPT ![e] = extended] ELSE log
        /\ stage' = [stage EXCEPT ![c] = IF fits THEN "admitted" ELSE "refused"]
        /\ UNCHANGED <<now, target, began>>

Answer(c) ==
  /\ stage[c] \in {"admitted", "refused"}
  /\ stage' = [stage EXCEPT ![c] = "idle"]
  /\ began' = [began EXCEPT ![c] = 0]
  /\ UNCHANGED <<now, log, target>>

BudgetNext ==
  \/ Elapse
  \/ \E c \in Callers : Decide(c) \/ Answer(c) \/ \E e \in Endpoints : Ask(c, e)

BudgetSpec == BudgetInit /\ [][BudgetNext]_budgetVars
=============================================================================
