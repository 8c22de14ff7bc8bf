----------------------- MODULE MutateRateLimiterProofs -----------------------
(***************************************************************************)
(* The rate limiter for every number of threads, endpoints, ceiling and    *)
(* clock resolution.                                                       *)
(*                                                                         *)
(* WindowBound is not inductive: it speaks of the log alone, and says      *)
(* nothing of the balance the next call will find.  BucketInv ties the two *)
(* together: what is left in a bucket is the smallest of its capacity and, *)
(* for each earlier admission, what the window since then has not used.    *)
(***************************************************************************)
EXTENDS MutateRateLimiter, TLAPS

ClockInv ==
  /\ \A e \in Endpoints : last_refill[e] <= now
  /\ \A c \in Callers : pc[c] # "idle" => began[c] <= now
  /\ \A c \in Callers : pc[c] = "sampled" =>
       /\ last_refill[endpoint[c]] <= t[c]
       /\ began[c] <= t[c]
       /\ t[c] <= now

(* What the window that opened at admission i has left at time `when`.     *)
Left(s, i, when) ==
  Capacity + (when - s[i]) * PerMinute - (Len(s) - i + 1) * Minute

(* The balance is within every window ... *)
Under(s, balance, when) ==
  /\ balance <= Capacity
  /\ \A i \in 1..Len(s) : s[i] <= when /\ balance <= Left(s, i, when)

(* ... and no smaller than the tightest of them. *)
Tight(s, balance, when) ==
  \/ balance = Capacity
  \/ \E i \in 1..Len(s) : balance = Left(s, i, when)

BucketInv ==
  \A e \in Endpoints :
    /\ e \notin made => log[e] = <<>>
    /\ Under(log[e], tokens[e], last_refill[e])
    /\ Tight(log[e], tokens[e], last_refill[e])

MadeInv == \A c \in Callers : pc[c] \in {"bucket", "sampled"} => endpoint[c] \in made

Bounded(s) ==
  \A i, j \in 1..Len(s) : i <= j => (j - i + 1) * Minute <= Capacity + (s[j] - s[i]) * PerMinute

IInv == TypeOK /\ LockExclusion /\ ClockInv /\ MadeInv /\ BucketInv /\ WindowBound
-----------------------------------------------------------------------------
(* Two facts of arithmetic the solvers do not find under the quantifiers.  *)
LEMMA Distribute ==
  ASSUME NEW a \in Int, NEW b \in Int, NEW r \in Int
  PROVE  (a + b) * r = a * r + b * r
OBVIOUS

LEMMA CapacityType == Capacity \in Nat /\ Capacity >= Minute
<1>1. PerMinute \in Nat /\ Minute \in Nat /\ PerMinute >= 1
  BY LimiterAssumption
<1>2. PerMinute * Minute = (PerMinute - 1) * Minute + 1 * Minute
  BY <1>1, Distribute
<1>3. (PerMinute - 1) * Minute \in Nat /\ PerMinute * Minute \in Nat
  BY <1>1
<1> QED BY <1>1, <1>2, <1>3 DEF Capacity

LEMMA LeftType ==
  ASSUME NEW s \in Seq(Nat), NEW i \in 1..Len(s), NEW when \in Nat
  PROVE  Left(s, i, when) \in Int
<1>1. PerMinute \in Nat /\ Minute \in Nat
  BY LimiterAssumption
<1>2. s[i] \in Nat /\ Len(s) \in Nat /\ i \in Int
  OBVIOUS
<1>3. (when - s[i]) * PerMinute \in Int /\ (Len(s) - i + 1) * Minute \in Int
  BY <1>1, <1>2
<1> QED BY <1>3, CapacityType DEF Left

(* A window's remainder grows with the clock at the refill rate ... *)
LEMMA LeftElapses ==
  ASSUME NEW s \in Seq(Nat), NEW i \in 1..Len(s), NEW when \in Nat, NEW later \in Nat
  PROVE  Left(s, i, later) = Left(s, i, when) + (later - when) * PerMinute
<1>1. PerMinute \in Int /\ Minute \in Int
  BY LimiterAssumption
<1>2. s[i] \in Int /\ Len(s) \in Int /\ i \in Int
  OBVIOUS
<1>3. (when - s[i]) * PerMinute \in Int /\ (later - when) * PerMinute \in Int
      /\ (Len(s) - i + 1) * Minute \in Int
  BY <1>1, <1>2
<1>4. ((when - s[i]) + (later - when)) * PerMinute
      = (when - s[i]) * PerMinute + (later - when) * PerMinute
  BY <1>1, <1>2, Distribute
<1>5. (when - s[i]) + (later - when) = later - s[i]
  BY <1>2
<1> QED BY <1>3, <1>4, <1>5, CapacityType DEF Left

LEMMA OneLess ==
  ASSUME NEW c \in Int, NEW p \in Int, NEW q \in Int, NEW m \in Int
  PROVE  c + p - (q + 1 * m) = (c + p - q) - m
OBVIOUS

(* ... and an admission takes one token from every window, its own being   *)
(* a full bucket before it.                                                *)
LEMMA LeftAdmits ==
  ASSUME NEW s \in Seq(Nat), NEW when \in Nat
  PROVE  /\ Append(s, when) \in Seq(Nat)
         /\ Len(Append(s, when)) = Len(s) + 1
         /\ \A i \in 1..Len(s) :
              /\ Append(s, when)[i] = s[i]
              /\ Left(Append(s, when), i, when) = Left(s, i, when) - Minute
         /\ Append(s, when)[Len(s) + 1] = when
         /\ Left(Append(s, when), Len(s) + 1, when) = Capacity - Minute
<1> DEFINE x == Append(s, when)
<1>1. PerMinute \in Int /\ Minute \in Int /\ Capacity \in Int
  BY LimiterAssumption, CapacityType
<1>2. x \in Seq(Nat) /\ Len(x) = Len(s) + 1 /\ x[Len(s) + 1] = when
      /\ \A i \in 1..Len(s) : x[i] = s[i]
  OBVIOUS
<1>3. ASSUME NEW i \in 1..Len(s)
      PROVE  Left(x, i, when) = Left(s, i, when) - Minute
  <2>1. i \in Int /\ Len(s) \in Int /\ s[i] \in Int
    OBVIOUS
  <2>2. ((Len(s) - i + 1) + 1) * Minute = (Len(s) - i + 1) * Minute + 1 * Minute
    BY <2>1, <1>1, Distribute
  <2>3. Len(x) - i + 1 = (Len(s) - i + 1) + 1
    BY <2>1, <1>2
  <2>4. (Len(s) - i + 1) * Minute \in Int /\ (when - s[i]) * PerMinute \in Int
    BY <2>1, <1>1
  <2>5. Left(x, i, when)
        = Capacity + (when - s[i]) * PerMinute - ((Len(s) - i + 1) + 1) * Minute
    BY <2>3, <1>2 DEF Left
  <2>6. Left(s, i, when)
        = Capacity + (when - s[i]) * PerMinute - (Len(s) - i + 1) * Minute
    BY DEF Left
  <2> QED BY <2>2, <2>4, <2>5, <2>6, <1>1, OneLess
<1>4. Left(x, Len(s) + 1, when) = Capacity - Minute
  <2>1. Len(x) - (Len(s) + 1) + 1 = 1 /\ when - x[Len(s) + 1] = 0
    BY <1>2
  <2>2. 0 * PerMinute = 0 /\ 1 * Minute = Minute
    BY <1>1
  <2> QED BY <2>1, <2>2, <1>1 DEF Left
<1> QED BY <1>2, <1>3, <1>4

(* What _refill does to a balance.                                         *)
Filled(balance, elapsed) ==
  IF balance + elapsed * PerMinute <= Capacity
    THEN balance + elapsed * PerMinute ELSE Capacity

(* A refill keeps the balance equal to the smallest remainder ...          *)
LEMMA RefillKeeps ==
  ASSUME NEW s \in Seq(Nat), NEW b \in Nat, NEW when \in Nat, NEW later \in Nat,
         when <= later, Under(s, b, when), Tight(s, b, when)
  PROVE  /\ Filled(b, later - when) \in Nat
         /\ Under(s, Filled(b, later - when), later)
         /\ Tight(s, Filled(b, later - when), later)
<1> DEFINE gain == (later - when) * PerMinute
           filled == Filled(b, later - when)
<1>1. gain \in Nat
  BY LimiterAssumption
<1>2. filled = IF b + gain <= Capacity THEN b + gain ELSE Capacity
  BY DEF Filled
<1>3. filled \in Nat /\ filled <= Capacity /\ filled <= b + gain
  BY <1>1, <1>2, CapacityType
<1>4. ASSUME NEW i \in 1..Len(s)
      PROVE  s[i] <= later /\ Left(s, i, later) = Left(s, i, when) + gain
             /\ b <= Left(s, i, when) /\ Left(s, i, when) \in Int
  <2>1. s[i] \in Nat /\ s[i] <= when /\ b <= Left(s, i, when)
    BY DEF Under
  <2>2. s[i] <= later
    BY <2>1
  <2>3. Left(s, i, later) = Left(s, i, when) + gain /\ Left(s, i, when) \in Int
    BY LeftElapses, LeftType
  <2> QED BY <2>1, <2>2, <2>3
<1>5. Under(s, filled, later)
  <2> HIDE DEF gain, filled
  <2> QED BY <1>1, <1>3, <1>4 DEF Under
<1>6. Tight(s, filled, later)
  <2>1. CASE b + gain <= Capacity /\ b # Capacity
    <3>1. PICK i \in 1..Len(s) : b = Left(s, i, when)
      BY <2>1 DEF Tight
    <3>2. filled = Left(s, i, later)
      BY <1>2, <1>4, <2>1, <3>1
    <3> QED BY <3>2 DEF Tight
  <2>2. CASE ~(b + gain <= Capacity) \/ b = Capacity
    <3> HIDE DEF gain
    <3>1. filled = Capacity
      BY <1>1, <1>2, <2>2, CapacityType
    <3> QED BY <3>1 DEF Tight
  <2> QED BY <2>1, <2>2
<1> QED BY <1>3, <1>5, <1>6

(* ... and so does taking a token.                                         *)
LEMMA TakeKeeps ==
  ASSUME NEW s \in Seq(Nat), NEW b \in Nat, NEW when \in Nat,
         Minute <= b, Under(s, b, when), Tight(s, b, when)
  PROVE  /\ b - Minute \in Nat
         /\ Under(Append(s, when), b - Minute, when)
         /\ Tight(Append(s, when), b - Minute, when)
<1> DEFINE x == Append(s, when)
<1>1. Minute \in Nat /\ Capacity \in Nat /\ b <= Capacity /\ Len(s) \in Nat
  BY LimiterAssumption, CapacityType DEF Under
<1>2. ASSUME NEW i \in 1..Len(x)
      PROVE  x[i] <= when /\ b - Minute <= Left(x, i, when)
  <2>1. CASE i \in 1..Len(s)
    <3>1. x[i] = s[i] /\ Left(x, i, when) = Left(s, i, when) - Minute
      BY <2>1, LeftAdmits
    <3>2. s[i] <= when /\ b <= Left(s, i, when) /\ Left(s, i, when) \in Int
      BY <2>1, LeftType DEF Under
    <3> QED BY <1>1, <3>1, <3>2
  <2>2. CASE i = Len(s) + 1
    <3>1. x[i] = when /\ Left(x, i, when) = Capacity - Minute
      BY <2>2, LeftAdmits
    <3> QED BY <1>1, <3>1
  <2>3. i \in 1..(Len(s) + 1)
    BY LeftAdmits
  <2> QED BY <1>1, <2>1, <2>2, <2>3
<1>3. Under(x, b - Minute, when)
  <2> HIDE DEF x
  <2> QED BY <1>1, <1>2 DEF Under
<1>4. Tight(x, b - Minute, when)
  <2>1. CASE b = Capacity
    <3>1. Len(s) + 1 \in 1..Len(x) /\ b - Minute = Left(x, Len(s) + 1, when)
      BY <1>1, <2>1, LeftAdmits
    <3> QED BY <3>1 DEF Tight
  <2>2. CASE b # Capacity
    <3>1. PICK i \in 1..Len(s) : b = Left(s, i, when)
      BY <2>2 DEF Tight
    <3>2. i \in 1..Len(x) /\ b - Minute = Left(x, i, when)
      BY <1>1, <3>1, LeftAdmits
    <3> QED BY <3>2 DEF Tight
  <2> QED BY <2>1, <2>2
<1> QED BY <1>1, <1>3, <1>4

(* The balance tells whether one more admission fits: it holds a token     *)
(* exactly when the log with that admission is within every window.        *)
LEMMA TokenIffFits ==
  ASSUME NEW s \in Seq(Nat), NEW b \in Nat, NEW when \in Nat,
         Bounded(s), Under(s, b, when), Tight(s, b, when)
  PROVE  Minute <= b <=> Bounded(Append(s, when))
<1> DEFINE x == Append(s, when)
           Need(k) == (Len(s) + 1 - k + 1) * Minute
           Span(k) == (when - s[k]) * PerMinute
<1>1. Minute \in Nat /\ PerMinute \in Nat /\ Capacity \in Nat /\ Minute <= Capacity
      /\ Len(s) \in Nat
  BY LimiterAssumption, CapacityType
<1>2. x \in Seq(Nat) /\ Len(x) = Len(s) + 1 /\ x[Len(s) + 1] = when
      /\ \A i \in 1..Len(s) : x[i] = s[i]
  BY LeftAdmits
<1>3. ASSUME NEW i \in 1..Len(s)
      PROVE  /\ Need(i) \in Int /\ Span(i) \in Int
             /\ Left(s, i, when) = Capacity + Span(i) - (Need(i) - Minute)
  <2>1. s[i] \in Int /\ i \in Int
    OBVIOUS
  <2>2. ((Len(s) - i + 1) + 1) * Minute = (Len(s) - i + 1) * Minute + 1 * Minute
    BY <1>1, <2>1, Distribute
  <2>3. (Len(s) - i + 1) + 1 = Len(s) + 1 - i + 1
    BY <1>1, <2>1
  <2>4. Need(i) \in Int /\ Span(i) \in Int /\ (Len(s) - i + 1) * Minute \in Int
    BY <1>1, <2>1
  <2> QED BY <1>1, <2>2, <2>3, <2>4 DEF Left
<1>4. ASSUME Minute <= b, NEW i \in 1..Len(x), NEW j \in 1..Len(x), i <= j
      PROVE  (j - i + 1) * Minute <= Capacity + (x[j] - x[i]) * PerMinute
  <2>1. CASE j \in 1..Len(s)
    <3>1. i \in 1..Len(s)
      BY <1>1, <1>4, <2>1
    <3> QED BY <1>2, <1>4, <2>1, <3>1 DEF Bounded
  <2>2. CASE j = Len(s) + 1 /\ i \in 1..Len(s)
    <3>1. b <= Left(s, i, when)
      BY <2>2 DEF Under
    <3>2. Need(i) <= Capacity + Span(i)
      <4> HIDE DEF Need, Span
      <4> QED BY <1>1, <1>3, <1>4, <2>2, <3>1
    <3> QED BY <1>2, <2>2, <3>2
  <2>3. CASE j = Len(s) + 1 /\ i = Len(s) + 1
    <3>1. j - i + 1 = 1 /\ x[j] - x[i] = 0
      BY <1>1, <1>2, <2>3
    <3>2. 1 * Minute = Minute /\ 0 * PerMinute = 0
      BY <1>1
    <3> QED BY <1>1, <3>1, <3>2
  <2> QED BY <1>1, <1>2, <2>1, <2>2, <2>3
<1>5. ASSUME ~(Minute <= b), Bounded(x)
      PROVE  FALSE
  <2>1. PICK i \in 1..Len(s) : b = Left(s, i, when)
    BY <1>1, <1>5 DEF Tight
  <2>2. Need(i) <= Capacity + Span(i)
    <3>1. i \in 1..Len(x) /\ Len(s) + 1 \in 1..Len(x) /\ i <= Len(s) + 1
      BY <1>1, <1>2
    <3>2. (Len(s) + 1 - i + 1) * Minute <= Capacity + (x[Len(s) + 1] - x[i]) * PerMinute
      <4> HIDE DEF x
      <4> QED BY <1>5, <3>1 DEF Bounded
    <3>3. x[Len(s) + 1] = when /\ x[i] = s[i]
      BY <1>2
    <3> QED BY <3>2, <3>3
  <2>3. Minute <= Left(s, i, when)
    <3> HIDE DEF Need, Span
    <3> QED BY <1>1, <1>3, <2>2
  <2> QED BY <1>5, <2>1, <2>3
<1> QED BY <1>4, <1>5 DEF Bounded
-----------------------------------------------------------------------------
LEMMA Initially == Init => IInv
<1> SUFFICES ASSUME Init PROVE IInv
  OBVIOUS
<1>1. TypeOK
  BY CapacityType DEF Init, TypeOK, Inside
<1>2. LockExclusion /\ MadeInv
  BY LimiterAssumption DEF Init, LockExclusion, MadeInv, Inside
<1>3. ClockInv
  BY DEF Init, ClockInv
<1>4. BucketInv
  BY CapacityType DEF Init, BucketInv, Under, Tight
<1>5. WindowBound
  BY DEF Init, WindowBound
<1> QED BY <1>1, <1>2, <1>3, <1>4, <1>5 DEF IInv

(* Refilling gives a natural number as long as the clock has not gone back. *)
LEMMA RefilledType ==
  ASSUME TypeOK, NEW e \in Endpoints, NEW when \in Nat, last_refill[e] <= when
  PROVE  Refilled(e, when) \in Nat
<1>1. tokens[e] \in Nat /\ when - last_refill[e] \in Nat /\ PerMinute \in Nat
  BY LimiterAssumption DEF TypeOK
<1>2. (when - last_refill[e]) * PerMinute \in Nat
  BY <1>1
<1> QED BY <1>1, <1>2, CapacityType DEF Refilled

LEMMA TypeStep ==
  ASSUME TypeOK, ClockInv, [Next]_vars
  PROVE  TypeOK'
<1> USE DEF TypeOK, Inside
<1>1. CASE Tick
  BY <1>1 DEF Tick
<1>2. ASSUME NEW c \in Callers, NEW e \in Endpoints, Check(c, e) PROVE TypeOK'
  BY <1>2 DEF Check
<1>3. ASSUME NEW c \in Callers, Acquire(c) PROVE TypeOK'
  BY <1>3 DEF Acquire
<1>4. ASSUME NEW c \in Callers, BucketFor(c) PROVE TypeOK'
  <2>1. /\ made' \subseteq Endpoints
        /\ tokens' \in [Endpoints -> Nat]
        /\ last_refill' \in [Endpoints -> Nat]
    <3>1. CASE UNCHANGED <<made, tokens, last_refill>>
      BY <3>1
    <3>2. CASE /\ made' = made \union {endpoint[c]}
               /\ tokens' = [tokens EXCEPT ![endpoint[c]] = Capacity]
               /\ last_refill' = [last_refill EXCEPT ![endpoint[c]] = now]
      BY <3>2, CapacityType
    <3> QED BY <1>4, <3>1, <3>2 DEF BucketFor
  <2>2. pc' \in [Callers -> {"idle", "waiting"} \union Inside]
    BY <1>4 DEF BucketFor
  <2> QED BY <1>4, <2>1, <2>2 DEF BucketFor
<1>5. ASSUME NEW c \in Callers, ReadClock(c) PROVE TypeOK'
  BY <1>5 DEF ReadClock
<1>6. ASSUME NEW c \in Callers, Settle(c) PROVE TypeOK'
  <2> DEFINE e == endpoint[c]
             b == Refilled(e, t[c])
  <2>1. e \in Endpoints /\ t[c] \in Nat /\ last_refill[e] <= t[c]
    BY <1>6 DEF Settle, ClockInv
  <2>2. b \in Nat /\ (HasToken(b) => b - Minute \in Nat)
    <3>1. b \in Nat
      BY <2>1, RefilledType
    <3> QED BY <3>1, LimiterAssumption DEF HasToken
  <2>3. /\ pc' \in [Callers -> {"idle", "waiting"} \union Inside]
        /\ last_refill' \in [Endpoints -> Nat]
    BY <1>6, <2>1 DEF Settle
  <2>4. CASE HasToken(b)
    <3>1. /\ tokens' = [tokens EXCEPT ![e] = b - Minute]
          /\ allowed' = [allowed EXCEPT ![c] = TRUE]
          /\ log' = [log EXCEPT ![e] = Append(@, t[c])]
      BY <1>6, <2>4 DEF Settle
    <3>2. tokens' \in [Endpoints -> Nat] /\ allowed' \in [Callers -> BOOLEAN]
      <4> HIDE DEF b
      <4> QED BY <2>1, <2>2, <2>4, <3>1
    <3>3. Append(log[e], t[c]) \in Seq(Nat)
      BY <2>1
    <3>4. log' \in [Endpoints -> Seq(Nat)]
      BY <3>1, <3>3
    <3> QED BY <1>6, <2>3, <3>2, <3>4 DEF Settle
  <2>5. CASE ~HasToken(b)
    <3>1. /\ tokens' = [tokens EXCEPT ![e] = b]
          /\ allowed' = [allowed EXCEPT ![c] = FALSE]
          /\ log' = log
      BY <1>6, <2>5 DEF Settle
    <3>2. tokens' \in [Endpoints -> Nat] /\ allowed' \in [Callers -> BOOLEAN]
      <4> HIDE DEF b
      <4> QED BY <2>1, <2>2, <3>1
    <3> QED BY <1>6, <2>3, <3>1, <3>2 DEF Settle
  <2> QED BY <2>4, <2>5
<1>7. ASSUME NEW c \in Callers, Release(c) PROVE TypeOK'
  BY <1>7 DEF Release
<1>8. CASE UNCHANGED vars
  BY <1>8 DEF vars
<1> QED BY <1>1, <1>2, <1>3, <1>4, <1>5, <1>6, <1>7, <1>8 DEF Next, Work

(* The lock's holder is the one caller inside the with-block.              *)
LEMMA LockStep ==
  ASSUME TypeOK, LockExclusion, [Next]_vars
  PROVE  LockExclusion'
<1> USE LimiterAssumption DEF TypeOK, LockExclusion, Inside
<1>1. CASE Tick
  BY <1>1 DEF Tick
<1>2. ASSUME NEW c \in Callers, NEW e \in Endpoints, Check(c, e) PROVE LockExclusion'
  BY <1>2 DEF Check
<1>3. ASSUME NEW c \in Callers, Acquire(c) PROVE LockExclusion'
  BY <1>3 DEF Acquire
<1>4. ASSUME NEW c \in Callers, BucketFor(c) PROVE LockExclusion'
  BY <1>4 DEF BucketFor
<1>5. ASSUME NEW c \in Callers, ReadClock(c) PROVE LockExclusion'
  BY <1>5 DEF ReadClock
<1>6. ASSUME NEW c \in Callers, Settle(c) PROVE LockExclusion'
  BY <1>6 DEF Settle
<1>7. ASSUME NEW c \in Callers, Release(c) PROVE LockExclusion'
  BY <1>7 DEF Release
<1>8. CASE UNCHANGED vars
  BY <1>8 DEF vars
<1> QED BY <1>1, <1>2, <1>3, <1>4, <1>5, <1>6, <1>7, <1>8 DEF Next, Work

(* Clock readings are ordered: a bucket's last refill, then the reading of *)
(* the call that holds the lock, then now.  While one caller is between    *)
(* its reading and its settling, nobody else moves the bucket.             *)
LEMMA ClockStep ==
  ASSUME TypeOK, LockExclusion, ClockInv, MadeInv, [Next]_vars
  PROVE  ClockInv' /\ MadeInv'
<1> USE DEF TypeOK, LockExclusion, ClockInv, MadeInv, Inside
<1>1. CASE Tick
  BY <1>1 DEF Tick
<1>2. ASSUME NEW c \in Callers, NEW e \in Endpoints, Check(c, e)
      PROVE  ClockInv' /\ MadeInv'
  <2>1. ClockInv'
    BY <1>2 DEF Check
  <2>2. MadeInv'
    BY <1>2 DEF Check
  <2> QED BY <2>1, <2>2
<1>3. ASSUME NEW c \in Callers, Acquire(c) PROVE ClockInv' /\ MadeInv'
  BY <1>3 DEF Acquire
<1>4. ASSUME NEW c \in Callers, BucketFor(c) PROVE ClockInv' /\ MadeInv'
  <2>1. lock = c /\ \A d \in Callers \ {c} : pc[d] \notin Inside
    BY <1>4 DEF BucketFor
  <2>2. \A e \in Endpoints : last_refill'[e] <= now'
    <3>1. \/ last_refill' = last_refill
          \/ last_refill' = [last_refill EXCEPT ![endpoint[c]] = now]
      BY <1>4 DEF BucketFor
    <3>2. now' = now
      BY <1>4 DEF BucketFor
    <3>3. now \in Nat /\ last_refill \in [Endpoints -> Nat]
      OBVIOUS
    <3>4. \A e \in Endpoints : last_refill[e] <= now
      OBVIOUS
    <3>5. CASE last_refill' = last_refill
      BY <3>2, <3>4, <3>5
    <3>6. CASE last_refill' = [last_refill EXCEPT ![endpoint[c]] = now]
      <4>1. ASSUME NEW e \in Endpoints PROVE last_refill'[e] <= now'
        <5>1. last_refill'[e] = last_refill[e] \/ last_refill'[e] = now
          BY <3>3, <3>6
        <5> QED BY <3>2, <3>3, <3>4, <5>1
      <4> QED BY <4>1
    <3> QED BY <3>1, <3>5, <3>6
  <2>3. \A d \in Callers : pc'[d] # "sampled" /\ (pc'[d] # "idle" => began'[d] <= now')
    BY <1>4, <2>1 DEF BucketFor
  <2>4. ClockInv'
    BY <2>2, <2>3
  <2>5. MadeInv'
    BY <1>4, <2>1 DEF BucketFor
  <2> QED BY <2>4, <2>5
<1>5. ASSUME NEW c \in Callers, ReadClock(c) PROVE ClockInv' /\ MadeInv'
  BY <1>5 DEF ReadClock
<1>6. ASSUME NEW c \in Callers, Settle(c) PROVE ClockInv' /\ MadeInv'
  <2>1. lock = c /\ \A d \in Callers \ {c} : pc[d] \notin Inside
    BY <1>6 DEF Settle
  <2>2. \A e \in Endpoints : last_refill'[e] <= now'
    BY <1>6 DEF Settle
  <2>3. \A d \in Callers : pc'[d] # "sampled" /\ (pc'[d] # "idle" => began'[d] <= now')
    BY <1>6, <2>1 DEF Settle
  <2>4. MadeInv'
    BY <1>6, <2>1 DEF Settle
  <2> QED BY <2>2, <2>3, <2>4
<1>7. ASSUME NEW c \in Callers, Release(c) PROVE ClockInv' /\ MadeInv'
  BY <1>7 DEF Release
<1>8. CASE UNCHANGED vars
  BY <1>8 DEF vars
<1> QED BY <1>1, <1>2, <1>3, <1>4, <1>5, <1>6, <1>7, <1>8 DEF Next, Work

(* What a call in progress finds when it settles: the balance it computes  *)
(* is the smallest remainder at its clock reading, and whether it holds a  *)
(* token is whether its admission fits.                                    *)
LEMMA AtSettle ==
  ASSUME IInv, NEW c \in Callers, pc[c] = "sampled"
  PROVE  LET s == log[endpoint[c]]
             b == Refilled(endpoint[c], t[c])
         IN  /\ b \in Nat /\ s \in Seq(Nat) /\ t[c] \in Nat
             /\ Under(s, b, t[c]) /\ Tight(s, b, t[c]) /\ Bounded(s)
             /\ HasToken(b) <=> Bounded(Append(s, t[c]))
<1> DEFINE e == endpoint[c]
           s == log[e]
           b == Refilled(e, t[c])
<1>1. e \in Endpoints /\ s \in Seq(Nat) /\ t[c] \in Nat /\ tokens[e] \in Nat
      /\ last_refill[e] \in Nat
  BY DEF IInv, TypeOK
<1>2. last_refill[e] <= t[c]
  BY DEF IInv, ClockInv
<1>3. Under(s, tokens[e], last_refill[e]) /\ Tight(s, tokens[e], last_refill[e])
  BY <1>1 DEF IInv, BucketInv
<1>4. b = Filled(tokens[e], t[c] - last_refill[e])
  BY DEF Refilled, Filled
<1>5. b \in Nat /\ Under(s, b, t[c]) /\ Tight(s, b, t[c])
  <2> HIDE DEF e, s, b
  <2> QED BY <1>1, <1>2, <1>3, <1>4, RefillKeeps
<1>6. Bounded(s)
  BY <1>1 DEF IInv, WindowBound, Bounded
<1>7. HasToken(b) <=> Bounded(Append(s, t[c]))
  <2>1. HasToken(b) <=> Minute <= b
    BY <1>5, LimiterAssumption DEF HasToken
  <2> HIDE DEF e, s, b
  <2> QED BY <1>1, <1>5, <1>6, <2>1, TokenIffFits
<1> QED BY <1>1, <1>5, <1>6, <1>7

LEMMA AccountStep ==
  ASSUME IInv, [Next]_vars
  PROVE  BucketInv' /\ WindowBound'
<1> USE DEF IInv
<1>1. ASSUME UNCHANGED <<made, tokens, last_refill, log>>
      PROVE  BucketInv' /\ WindowBound'
  BY <1>1 DEF BucketInv, WindowBound, Under, Tight, Left
<1>2. ASSUME NEW c \in Callers, BucketFor(c)
      PROVE  BucketInv' /\ WindowBound'
  <2>1. WindowBound'
    BY <1>2 DEF BucketFor, WindowBound
  <2>2. ASSUME NEW e \in Endpoints
        PROVE  /\ (e \notin made)' => (log[e])' = <<>>
               /\ Under(log[e], tokens[e], last_refill[e])'
               /\ Tight(log[e], tokens[e], last_refill[e])'
    <3>1. CASE e = endpoint[c] /\ e \notin made
      <4>1. (log[e])' = <<>> /\ (tokens[e])' = Capacity
        BY <1>2, <3>1 DEF BucketFor, BucketInv, TypeOK
      <4> QED BY <4>1, CapacityType DEF Under, Tight
    <3>2. CASE ~(e = endpoint[c] /\ e \notin made)
      <4>1. (log[e])' = log[e] /\ (tokens[e])' = tokens[e]
            /\ (last_refill[e])' = last_refill[e] /\ ((e \notin made)' => e \notin made)
        BY <1>2, <3>2 DEF BucketFor, TypeOK
      <4> QED BY <4>1 DEF BucketInv, Under, Tight, Left
    <3> QED BY <3>1, <3>2
  <2> QED BY <2>1, <2>2 DEF BucketInv
<1>3. ASSUME NEW c \in Callers, Settle(c)
      PROVE  BucketInv' /\ WindowBound'
  <2> DEFINE b == Refilled(endpoint[c], t[c])
             s == log[endpoint[c]]
  <2>1. pc[c] = "sampled" /\ endpoint[c] \in made /\ endpoint[c] \in Endpoints
    BY <1>3 DEF Settle, MadeInv, TypeOK
  <2>2. /\ b \in Nat /\ s \in Seq(Nat) /\ t[c] \in Nat
        /\ Under(s, b, t[c]) /\ Tight(s, b, t[c]) /\ Bounded(s)
        /\ HasToken(b) <=> Bounded(Append(s, t[c]))
    BY <2>1, AtSettle
  <2>3. HasToken(b) => Minute <= b
    BY <2>2, LimiterAssumption DEF HasToken
  <2>4. ASSUME NEW e \in Endpoints, e # endpoint[c]
        PROVE  (log[e])' = log[e] /\ (tokens[e])' = tokens[e]
               /\ (last_refill[e])' = last_refill[e] /\ made' = made
    BY <1>3, <2>4 DEF Settle, TypeOK
  <2>5. /\ (last_refill[endpoint[c]])' = t[c] /\ made' = made /\ endpoint' = endpoint
        /\ HasToken(b) => (log[endpoint[c]])' = Append(s, t[c])
                          /\ (tokens[endpoint[c]])' = b - Minute
        /\ ~HasToken(b) => (log[endpoint[c]])' = s /\ (tokens[endpoint[c]])' = b
    BY <1>3, <2>1 DEF Settle, TypeOK
  <2>6. BucketInv'
    <3> SUFFICES ASSUME NEW e \in Endpoints
                 PROVE  /\ (e \notin made)' => (log[e])' = <<>>
                        /\ Under(log[e], tokens[e], last_refill[e])'
                        /\ Tight(log[e], tokens[e], last_refill[e])'
      BY DEF BucketInv
    <3>1. CASE e # endpoint[c]
      BY <2>4, <3>1 DEF BucketInv, Under, Tight, Left
    <3>2. CASE e = endpoint[c] /\ HasToken(b)
      <4>1. Under(Append(s, t[c]), b - Minute, t[c]) /\ Tight(Append(s, t[c]), b - Minute, t[c])
        <5> HIDE DEF b, s
        <5> QED BY <2>2, <2>3, <3>2, TakeKeeps
      <4> HIDE DEF b, s
      <4> QED BY <2>1, <2>5, <3>2, <4>1 DEF Under, Tight, Left
    <3>3. CASE e = endpoint[c] /\ ~HasToken(b)
      <4> HIDE DEF b, s
      <4> QED BY <2>1, <2>2, <2>5, <3>3 DEF Under, Tight, Left
    <3> QED BY <3>1, <3>2, <3>3
  <2>7. WindowBound'
    <3> SUFFICES ASSUME NEW e \in Endpoints PROVE Bounded(log[e])'
      BY DEF WindowBound, Bounded
    <3>1. CASE e # endpoint[c]
      BY <2>4, <3>1 DEF WindowBound, Bounded
    <3>2. CASE e = endpoint[c]
      <4> HIDE DEF b, s
      <4>1. Bounded(Append(s, t[c])) \/ ~HasToken(b)
        BY <2>2
      <4> QED BY <2>2, <2>5, <3>2, <4>1 DEF Bounded
    <3> QED BY <3>1, <3>2
  <2> QED BY <2>6, <2>7
<1>4. CASE Tick
  BY <1>1, <1>4 DEF Tick
<1>5. ASSUME NEW c \in Callers, Acquire(c) \/ ReadClock(c) \/ Release(c)
      PROVE  BucketInv' /\ WindowBound'
  BY <1>1, <1>5 DEF Acquire, ReadClock, Release
<1>6. ASSUME NEW c \in Callers, NEW e \in Endpoints, Check(c, e)
      PROVE  BucketInv' /\ WindowBound'
  BY <1>1, <1>6 DEF Check
<1>7. CASE UNCHANGED vars
  BY <1>1, <1>7 DEF vars
<1> QED BY <1>2, <1>3, <1>4, <1>5, <1>6, <1>7 DEF Next, Work

LEMMA Invariance == Spec => []IInv
<1>1. Init => IInv
  BY Initially
<1>2. IInv /\ [Next]_vars => IInv'
  BY TypeStep, LockStep, ClockStep, AccountStep DEF IInv
<1> QED BY <1>1, <1>2, PTL DEF Spec

(* Every variable keeps its type, the account of a bucket never goes below *)
(* zero included.                                                          *)
THEOREM TypeCorrect == Spec => []TypeOK
<1>1. IInv => TypeOK
  BY DEF IInv
<1> QED BY <1>1, Invariance, PTL

(* One thread at a time is inside check()'s with-block.                    *)
THEOREM Exclusion == Spec => []LockExclusion
<1>1. IInv => LockExclusion
  BY DEF IInv
<1> QED BY <1>1, Invariance, PTL

(* No window of any length on any endpoint is admitted more than a bucket  *)
(* and its refill, for any ceiling and any number of racing threads.       *)
THEOREM WindowNeverExceeded == Spec => []WindowBound
<1>1. IInv => WindowBound
  BY DEF IInv
<1> QED BY <1>1, Invariance, PTL
-----------------------------------------------------------------------------
(* The limiter implements the budget.                                      *)

LEMMA InitRefines == Init => Budget!BudgetInit
BY DEF Init, Budget!BudgetInit, Stage

(* A verdict settled under the lock is a verdict of the budget.            *)
LEMMA SettleRefines ==
  ASSUME IInv, NEW c \in Callers, Settle(c)
  PROVE  Budget!Decide(c)
<1> DEFINE e == endpoint[c]
           b == Refilled(e, t[c])
           s == log[e]
           stage == [d \in Callers |-> Stage(d)]
<1>1. pc[c] = "sampled" /\ e \in Endpoints
  BY DEF Settle, IInv, TypeOK
<1>2. b \in Nat /\ s \in Seq(Nat) /\ t[c] \in Nat /\ (HasToken(b) <=> Bounded(Append(s, t[c])))
  BY <1>1, AtSettle
<1>3. t[c] \in began[c] .. now
  BY <1>1, <1>2 DEF IInv, ClockInv, TypeOK
<1>4. Budget!WithinBudget(Append(s, t[c])) <=> HasToken(b)
  BY <1>2 DEF Bounded, Budget!WithinBudget, Budget!Capacity, Capacity
<1>5. /\ pc' = [pc EXCEPT ![c] = "settled"]
      /\ UNCHANGED <<now, endpoint, began>>
      /\ HasToken(b) => /\ allowed' = [allowed EXCEPT ![c] = TRUE]
                        /\ log' = [log EXCEPT ![e] = Append(s, t[c])]
      /\ ~HasToken(b) => /\ allowed' = [allowed EXCEPT ![c] = FALSE]
                         /\ log' = log
  BY DEF Settle
<1>6. stage[c] = "deciding"
  BY <1>1 DEF Stage
<1>7. stage' = [stage EXCEPT ![c] = IF HasToken(b) THEN "admitted" ELSE "refused"]
  <2>1. \A d \in Callers : stage'[d] = IF d = c THEN IF HasToken(b) THEN "admitted" ELSE "refused"
                                       ELSE stage[d]
    <3> HIDE DEF b
    <3>1. pc \in [Callers -> {"idle", "waiting"} \union Inside] /\ allowed \in [Callers -> BOOLEAN]
      BY DEF IInv, TypeOK
    <3> QED BY <1>5, <3>1 DEF Stage
  <2> QED BY <2>1
<1> QED BY <1>3, <1>4, <1>5, <1>6, <1>7 DEF Budget!Decide

LEMMA StepRefines == IInv /\ [Next]_vars => [Budget!BudgetNext]_Budget!budgetVars
<1> SUFFICES ASSUME IInv, [Next]_vars
             PROVE  [Budget!BudgetNext]_Budget!budgetVars
  OBVIOUS
<1> DEFINE stage == [d \in Callers |-> Stage(d)]
<1> USE DEF Budget!BudgetNext, Budget!budgetVars
<1>0. pc \in [Callers -> {"idle", "waiting"} \union Inside] /\ allowed \in [Callers -> BOOLEAN]
  BY DEF IInv, TypeOK
<1>1. CASE Tick
  <2>1. stage' = stage
    BY <1>1 DEF Tick, Stage
  <2> QED BY <1>1, <2>1 DEF Tick, Budget!Elapse
<1>2. ASSUME NEW c \in Callers, NEW e \in Endpoints, Check(c, e)
      PROVE  Budget!Ask(c, e)
  <2>1. stage[c] = "idle"
    BY <1>2 DEF Check, Stage
  <2>2. stage' = [stage EXCEPT ![c] = "deciding"]
    <3>1. \A d \in Callers : stage'[d] = IF d = c THEN "deciding" ELSE stage[d]
      BY <1>0, <1>2 DEF Check, Stage
    <3> QED BY <3>1
  <2> QED BY <1>2, <2>1, <2>2 DEF Check, Budget!Ask
<1>3. ASSUME NEW c \in Callers, Acquire(c) \/ BucketFor(c) \/ ReadClock(c)
      PROVE  UNCHANGED Budget!budgetVars
  <2>1. \A d \in Callers : Stage(d)' = Stage(d)
    BY <1>0, <1>3 DEF Acquire, BucketFor, ReadClock, Stage
  <2>2. stage' = stage
    BY <2>1
  <2> QED BY <1>3, <2>2 DEF Acquire, BucketFor, ReadClock
<1>4. ASSUME NEW c \in Callers, Settle(c) PROVE Budget!Decide(c)
  BY <1>4, SettleRefines
<1>5. ASSUME NEW c \in Callers, Release(c) PROVE Budget!Answer(c)
  <2>1. stage[c] \in {"admitted", "refused"}
    BY <1>5 DEF Release, Stage
  <2>2. stage' = [stage EXCEPT ![c] = "idle"]
    <3>1. \A d \in Callers : stage'[d] = IF d = c THEN "idle" ELSE stage[d]
      BY <1>0, <1>5 DEF Release, Stage
    <3> QED BY <3>1
  <2> QED BY <1>5, <2>1, <2>2 DEF Release, Budget!Answer
<1>6. CASE UNCHANGED vars
  <2>1. stage' = stage
    BY <1>6 DEF vars, Stage
  <2> QED BY <1>6, <2>1 DEF vars
<1> QED BY <1>1, <1>2, <1>3, <1>4, <1>5, <1>6 DEF Next, Work

(* Whatever the threads do, an admission or a refusal is the one the       *)
(* budget alone would give.                                                *)
THEOREM LimiterImplementsBudget == Spec => ImplementsBudget
<1>1. Init => Budget!BudgetInit
  BY InitRefines
<1>2. IInv /\ [Next]_vars => [Budget!BudgetNext]_Budget!budgetVars
  BY StepRefines
<1> QED BY <1>1, <1>2, Invariance, PTL DEF Spec, ImplementsBudget, Budget!BudgetSpec
=============================================================================
