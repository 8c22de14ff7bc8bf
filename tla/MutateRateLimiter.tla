-------------------------- MODULE MutateRateLimiter --------------------------
(***************************************************************************)
(* src/src/cc_client/write_rate_limit.py: one token bucket per endpoint,   *)
(* created lazily and full, shared by every thread of the process under    *)
(* one threading.Lock.  check() consumes a token or raises.                *)
(*                                                                         *)
(* A call is taken apart at the points where another thread or the clock   *)
(* can move: entering, taking the lock, looking the bucket up (the         *)
(* constructor reads the clock), reading the clock in _refill, settling    *)
(* the account, and leaving the lock.  Units are those of RateBudget, so   *)
(* the code's float arithmetic is exact here.                              *)
(***************************************************************************)
EXTENDS Integers, Sequences

CONSTANTS Callers, Endpoints, PerMinute, Minute, MaxTime,
          Free        \* the lock's holder when nobody holds it

ASSUME LimiterAssumption ==
  /\ PerMinute \in Nat \ {0}
  /\ Minute \in Nat \ {0}
  /\ MaxTime \in Nat
  /\ Free \notin Callers

VARIABLES
  now,          \* time.monotonic(), read by every bucket
  lock,         \* MutateRateLimiter._lock: its holder, or Free
  made,         \* keys of MutateRateLimiter._buckets
  tokens,       \* TokenBucket._tokens, in units
  last_refill,  \* TokenBucket._last_refill
  pc,           \* where each caller is in check()
  endpoint,     \* check's argument
  t,            \* _refill's local: the clock reading of this call
  allowed,      \* check's local
  log,          \* history: per endpoint, clock readings of the admissions
  began         \* history: when each caller's call in progress was made

vars == <<now, lock, made, tokens, last_refill, pc, endpoint, t, allowed,
          log, began>>

Capacity == PerMinute * Minute

Inside == {"locked", "bucket", "sampled", "settled"}   \* within `with self._lock`

Init ==
  /\ now = 0
  /\ lock = Free
  /\ made = {}
  /\ tokens = [e \in Endpoints |-> Capacity]
  /\ last_refill = [e \in Endpoints |-> 0]
  /\ pc = [c \in Callers |-> "idle"]
  /\ endpoint \in [Callers -> Endpoints]
  /\ t = [c \in Callers |-> 0]
  /\ allowed = [c \in Callers |-> FALSE]
  /\ log = [e \in Endpoints |-> <<>>]
  /\ began = [c \in Callers |-> 0]

Tick ==
  /\ now < MaxTime
  /\ now' = now + 1
  /\ UNCHANGED <<lock, made, tokens, last_refill, pc, endpoint, t, allowed,
                 log, began>>

Check(c, e) ==
  /\ pc[c] = "idle"
  /\ pc' = [pc EXCEPT ![c] = "waiting"]
  /\ endpoint' = [endpoint EXCEPT ![c] = e]
  /\ began' = [began EXCEPT ![c] = now]
  /\ UNCHANGED <<now, lock, made, tokens, last_refill, t, allowed, log>>

Acquire(c) ==
  /\ pc[c] = "waiting"
  /\ lock = Free
  /\ lock' = c
  /\ pc' = [pc EXCEPT ![c] = "locked"]
  /\ UNCHANGED <<now, made, tokens, last_refill, endpoint, t, allowed, log, began>>

\* Mutant: an existing bucket is replaced by a new, full one.
BucketForAfresh(c) ==
  /\ pc[c] = "locked"
  /\ pc' = [pc EXCEPT ![c] = "bucket"]
  /\ made' = made \union {endpoint[c]}
  /\ tokens' = [tokens EXCEPT ![endpoint[c]] = Capacity]
  /\ last_refill' = [last_refill EXCEPT ![endpoint[c]] = now]
  /\ UNCHANGED <<now, lock, endpoint, t, allowed, log, began>>

BucketFor(c) ==
  /\ pc[c] = "locked"
  /\ pc' = [pc EXCEPT ![c] = "bucket"]
  /\ \/ /\ endpoint[c] \in made
        /\ UNCHANGED <<made, tokens, last_refill>>
     \/ /\ endpoint[c] \notin made
        /\ made' = made \union {endpoint[c]}
        /\ tokens' = [tokens EXCEPT ![endpoint[c]] = Capacity]
        /\ last_refill' = [last_refill EXCEPT ![endpoint[c]] = now]
  /\ UNCHANGED <<now, lock, endpoint, t, allowed, log, began>>

ReadClock(c) ==
  /\ pc[c] = "bucket"
  /\ pc' = [pc EXCEPT ![c] = "sampled"]
  /\ t' = [t EXCEPT ![c] = now]
  /\ UNCHANGED <<now, lock, made, tokens, last_refill, endpoint, allowed, log, began>>

\* Mutant: the refill is not capped at the bucket's capacity.
RefilledUncapped(e, reading) ==
  tokens[e] + (reading - last_refill[e]) * PerMinute

Refilled(e, reading) ==
  LET filled == tokens[e] + (reading - last_refill[e]) * PerMinute
  IN  IF filled <= Capacity THEN filled ELSE Capacity

\* Mutant: a bucket holding exactly one token refuses.
HasTokenStrict(balance) == balance > Minute

HasToken(balance) == balance >= Minute

\* Mutant: a token is taken whether or not there is one.
SettleAnyway(c) ==
  LET e == endpoint[c]
      balance == Refilled(e, t[c])
  IN  /\ pc[c] = "sampled"
      /\ pc' = [pc EXCEPT ![c] = "settled"]
      /\ tokens' = [tokens EXCEPT ![e] = balance - Minute]
      /\ allowed' = [allowed EXCEPT ![c] = HasToken(balance)]
      /\ log' = IF HasToken(balance) THEN [log EXCEPT ![e] = Append(@, t[c])] ELSE log
      /\ last_refill' = [last_refill EXCEPT ![e] = t[c]]
      /\ UNCHANGED <<now, lock, made, endpoint, t, began>>

Settle(c) ==
  LET e == endpoint[c]
      balance == Refilled(e, t[c])
  IN  /\ pc[c] = "sampled"
      /\ pc' = [pc EXCEPT ![c] = "settled"]
      /\ last_refill' = [last_refill EXCEPT ![e] = t[c]]
      /\ \/ /\ HasToken(balance)
            /\ tokens' = [tokens EXCEPT ![e] = balance - Minute]
            /\ allowed' = [allowed EXCEPT ![c] = TRUE]
            /\ log' = [log EXCEPT ![e] = Append(@, t[c])]
         \/ /\ ~HasToken(balance)
            /\ tokens' = [tokens EXCEPT ![e] = balance]
            /\ allowed' = [allowed EXCEPT ![c] = FALSE]
            /\ UNCHANGED log
      /\ UNCHANGED <<now, lock, made, endpoint, t, began>>

(* The with-block ends; check() then returns, or raises when not allowed,  *)
(* and its locals go out of scope.                                         *)
Release(c) ==
  /\ pc[c] = "settled"
  /\ lock' = Free
  /\ pc' = [pc EXCEPT ![c] = "idle"]
  /\ t' = [t EXCEPT ![c] = 0]
  /\ allowed' = [allowed EXCEPT ![c] = FALSE]
  /\ began' = [began EXCEPT ![c] = 0]
  /\ UNCHANGED <<now, made, tokens, last_refill, endpoint, log>>

Work(c) == Acquire(c) \/ BucketFor(c) \/ ReadClock(c) \/ Settle(c) \/ Release(c)

Next ==
  \/ Tick
  \/ \E c \in Callers : Work(c) \/ \E e \in Endpoints : Check(c, e)

Spec == Init /\ [][Next]_vars
-----------------------------------------------------------------------------
TypeOK ==
  /\ now \in Nat
  /\ lock \in Callers \union {Free}
  /\ made \subseteq Endpoints
  /\ tokens \in [Endpoints -> Nat]
  /\ last_refill \in [Endpoints -> Nat]
  /\ pc \in [Callers -> {"idle", "waiting"} \union Inside]
  /\ endpoint \in [Callers -> Endpoints]
  /\ t \in [Callers -> Nat]
  /\ allowed \in [Callers -> BOOLEAN]
  /\ log \in [Endpoints -> Seq(Nat)]
  /\ began \in [Callers -> Nat]

(* The account of a bucket is touched by one thread at a time: the lock's  *)
(* holder is exactly the caller inside the with-block, so token accounting *)
(* "can't race past the ceiling".                                          *)
LockExclusion == \A c \in Callers : pc[c] \in Inside <=> lock = c

(* Any run of admissions on one endpoint, however the threads interleave   *)
(* and wherever the window is put, is at most a full bucket plus the       *)
(* refill of the time it spans.                                            *)
WindowBound ==
  \A e \in Endpoints : \A i, j \in 1..Len(log[e]) :
    i <= j => (j - i + 1) * Minute <= Capacity + (log[e][j] - log[e][i]) * PerMinute

(* The abstract stage of a call: the verdict is given when it is settled.  *)
Stage(c) ==
  CASE pc[c] = "idle" -> "idle"
    [] pc[c] = "settled" -> IF allowed[c] THEN "admitted" ELSE "refused"
    [] OTHER -> "deciding"

Budget == INSTANCE RateBudget WITH
  stage <- [c \in Callers |-> Stage(c)],
  target <- endpoint

(* The limiter is the budget: threads, buckets and lock implement the      *)
(* one-step verdict of RateBudget, so nothing over budget is admitted,     *)
(* nothing within it is refused, and no endpoint spends another's budget.  *)
ImplementsBudget == Budget!BudgetSpec
=============================================================================
