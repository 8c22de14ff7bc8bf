--------------------------- MODULE CCClientProofs ---------------------------
(***************************************************************************)
(* What holds of the client for every retry count, margin, lifetime, delay *)
(* and listing.  Each invariant is proved from the ones before it.         *)
(***************************************************************************)
EXTENDS CCClient, TLAPS


\* No item is lost when a page is appended to the ones before it.
FirstItems(n) == [i \in 1..n |-> i]

LEMMA ItemsType ==
  ASSUME NEW p \in Nat \ {0}, NEW n \in Nat
  PROVE  Items(p, n) \in Seq(Nat)
<1> DEFINE b == (p - 1) * PageSize
           m == Smaller(PageSize, n - b)
<1>1. b \in Nat /\ PageSize \in Nat
  BY ClientAssumption
<1>2. m \in Int
  BY <1>1 DEF Smaller
<1> HIDE DEF b, m
<1>3. [i \in 1..m |-> b + i] \in Seq(Nat)
  <2>1. CASE m >= 0
    BY <1>1, <1>2, <2>1
  <2>2. CASE m < 0
    <3>1. 1..m = 1..0
      BY <1>2, <2>2
    <3>2. [i \in 1..m |-> b + i] = [i \in 1..0 |-> b + i]
      BY <3>1
    <3>3. [i \in 1..0 |-> b + i] \in Seq(Nat)
      BY <1>1
    <3> QED BY <3>2, <3>3
  <2> QED BY <1>2, <2>1, <2>2
<1> QED BY <1>3 DEF Items, b, m

LEMMA DataTypesStep ==
  ASSUME DataTypes, [Next]_vars
  PROVE  DataTypes'
<1> USE ClientAssumption DEF DataTypes
<1>1. ASSUME NEW o \in {"get", "search", "report", "mutate"}, NEW f \in {"only", "page", "start"},
             Begin(o, f), total' \in Nat, limit' \in Nat
      PROVE  DataTypes'
  BY <1>1 DEF Begin, Request, Idle, Later
<1>2. CASE Call
  <2>1. CASE BeginGet
    BY <1>1, <2>1 DEF BeginGet
  <2>2. CASE BeginMutate
    BY <1>1, <2>2 DEF BeginMutate
  <2>3. CASE BeginSearch
    BY <1>1, <2>3 DEF BeginSearch
  <2>4. CASE BeginReport
    BY <1>1, <2>4 DEF BeginReport
  <2>5. CASE Refuse
    BY <2>5 DEF Refuse, tokenVars, loopVars, pollVars
  <2> QED BY <1>2, <2>1, <2>2, <2>3, <2>4, <2>5 DEF Call
<1>3. CASE Revoke
  BY <1>3 DEF Revoke, flagVars, jobVars, loopVars, pollVars, callVars
<1>4. CASE Token
  <2>1. CASE KeepToken
    BY <2>1 DEF KeepToken, flagVars, tokenVars, jobVars, loopVars, pollVars, callVars
  <2>2. CASE FetchToken
    BY <2>2 DEF FetchToken, flagVars, jobVars, loopVars, pollVars, callVars
  <2>3. CASE FetchFails
    BY <2>3 DEF FetchFails, End, tokenVars, loopVars, pollVars
  <2> QED BY <1>4, <2>1, <2>2, <2>3 DEF Token
<1>5. CASE Loop
  <2> USE DEF Elapse, Idle, Later, Smaller
  <2>1. CASE Lost
    <3>1. token' = token /\ skew' = skew /\ left' \in Nat /\ spent' \in 0..Margin
      BY <2>1 DEF Lost
    <3>2. CASE Return("network_error")
      BY <3>1, <3>2 DEF Return, End, loopVars, pollVars
    <3>3. CASE Sleep(backoff)
      BY <3>1, <3>3 DEF Sleep, jobVars, pollVars, callVars
    <3> QED BY <2>1, <3>2, <3>3 DEF Lost
  <2>2. CASE Busy
    <3>1. token' = token /\ skew' = skew /\ left' \in Nat /\ spent' \in 0..Margin
      BY <2>2 DEF Busy
    <3>2. CASE Return("busy")
      BY <3>1, <3>2 DEF Return, End, loopVars, pollVars
    <3>3. ASSUME NEW s \in RetryAfters \union {backoff}, Sleep(s)
          PROVE  DataTypes'
      BY <3>1, <3>3 DEF Sleep, jobVars, pollVars, callVars
    <3> QED BY <2>2, <3>2, <3>3 DEF Busy
  <2>3. CASE Pause
    BY <2>3 DEF Pause, flagVars, jobVars, pollVars, callVars
  <2>4. CASE Refresh
    BY <2>4 DEF Refresh, flagVars, jobVars, pollVars, callVars
  <2>5. CASE Unauthorised
    BY <2>5 DEF Unauthorised, Return, End, loopVars, pollVars
  <2>6. CASE Rejected
    BY <2>6 DEF Rejected, Return, End, loopVars, pollVars
  <2>7. CASE Answer
    BY <2>7 DEF Answer, flagVars, jobVars, loopVars, pollVars, callVars
  <2> QED BY <1>5, <2>1, <2>2, <2>3, <2>4, <2>5, <2>6, <2>7 DEF Loop
<1>6. CASE Get
  BY <1>6 DEF Get, Return, End, tokenVars, loopVars, pollVars
<1>7. CASE Mutate
  BY <1>7 DEF Mutate, End, Elapse, Later, Smaller, loopVars, pollVars
<1>8. InHand \in Seq(Nat) /\ Items(1, total) \in Seq(Nat)
  BY ItemsType DEF InHand
<1>9. got \o InHand \in Seq(Nat)
  BY <1>8
<1>10. ASSUME NextPage, got' = got \o InHand
       PROVE  DataTypes'
  BY <1>9, <1>10 DEF NextPage, Request, Idle, Later, pollVars, callVars
<1>11. CASE Search
  <2>1. CASE Page
    BY <1>9, <1>10, <2>1 DEF Page, End, tokenVars, loopVars, pollVars
  <2>2. CASE Abandon
    <3>1. \A k \in 1..Len(InHand) : got \o SubSeq(InHand, 1, k) \in Seq(Nat)
      BY <1>8
    <3> QED
      BY <3>1, <2>2 DEF Abandon, End, tokenVars, loopVars, pollVars
  <2> QED BY <1>11, <2>1, <2>2 DEF Search
<1>12. CASE Report
  <2>1. CASE Started
    BY <2>1 DEF Started, tokenVars, loopVars, pollVars, callVars
  <2>2. CASE Wait
    BY <2>2 DEF Wait, Request, Idle, Later, flagVars, jobVars, callVars
  <2>3. CASE Ready
    BY <1>8, <2>3 DEF Ready, Polled, Request, flagVars, tokenVars, callVars
  <2>4. CASE ReportFailed
    BY <2>4 DEF ReportFailed, Polled, End, tokenVars, loopVars
  <2>5. CASE GiveUp
    BY <2>5 DEF GiveUp, Polled, End, tokenVars, loopVars
  <2>6. CASE PollAgain
    BY <2>6 DEF PollAgain, Polled, NextDelay, Smaller, flagVars, tokenVars, jobVars, loopVars, callVars
  <2>7. CASE Collect
    BY <1>9, <1>10, <2>7 DEF Collect, End, tokenVars, loopVars, pollVars
  <2> QED BY <1>12, <2>1, <2>2, <2>3, <2>4, <2>5, <2>6, <2>7 DEF Report
<1>13. CASE UNCHANGED vars
  BY <1>13 DEF vars, flagVars, tokenVars, jobVars, loopVars, pollVars, callVars
<1> QED BY <1>1, <1>2, <1>3, <1>4, <1>5, <1>6, <1>7, <1>11, <1>12, <1>13 DEF Next, Step
-----------------------------------------------------------------------------
(* write_enabled. *)

FlagInv ==
  /\ Open => saved = configured /\ writeEnabled
  /\ ~Open => writeEnabled = configured
  /\ pc = "idle" => stage = "only"
  /\ op = "mutate" /\ pc # "idle" => configured /\ stage = "only"
  /\ WritesOnlyIfConfigured

FlagIInv == FlagTypes /\ FlagInv

\* A call that ends puts the flag back.
LEMMA FlagsAtEnd ==
  ASSUME FlagIInv, NEW r, End(r), UNCHANGED written
  PROVE  FlagIInv'
  BY DEF FlagIInv, FlagTypes, FlagInv, WritesOnlyIfConfigured, Open, End, Finally

\* A step inside a call leaves it alone.
LEMMA FlagsInside ==
  ASSUME FlagIInv, UNCHANGED <<flagVars, op, stage, written>>,
         pc # "idle", pc' # "idle"
  PROVE  FlagIInv'
  BY DEF FlagIInv, FlagTypes, FlagInv, WritesOnlyIfConfigured, Open, flagVars

LEMMA FlagsStep ==
  ASSUME FlagIInv, [Next]_vars
  PROVE  FlagIInv'
<1>1. CASE Call
  <2> USE DEF FlagIInv, FlagTypes, FlagInv, WritesOnlyIfConfigured, Open, Begin, Request
  <2>1. CASE BeginGet
    BY <2>1 DEF BeginGet
  <2>2. CASE BeginMutate
    BY <2>2 DEF BeginMutate
  <2>3. CASE BeginSearch
    BY <2>3 DEF BeginSearch, SwitchOn
  <2>4. CASE BeginReport
    BY <2>4 DEF BeginReport, SwitchOn
  <2>5. CASE Refuse
    BY <2>5 DEF Refuse, flagVars, loopVars
  <2> QED BY <1>1, <2>1, <2>2, <2>3, <2>4, <2>5 DEF Call
<1>2. CASE Revoke
  BY <1>2 DEF FlagIInv, FlagTypes, FlagInv, WritesOnlyIfConfigured, Open, Revoke, flagVars, jobVars,
              loopVars, callVars
<1>3. CASE Token
  <2>1. CASE KeepToken
    BY <2>1, FlagsInside DEF KeepToken, jobVars, loopVars, callVars
  <2>2. CASE FetchToken
    BY <2>2, FlagsInside DEF FetchToken, jobVars, loopVars, callVars
  <2>3. CASE FetchFails
    BY <2>3, FlagsAtEnd DEF FetchFails, loopVars
  <2> QED BY <1>3, <2>1, <2>2, <2>3 DEF Token
<1>4. ASSUME NEW r, Return(r)
      PROVE  FlagIInv'
  BY <1>4, FlagsAtEnd DEF Return, loopVars
<1>5. CASE Loop
  <2>1. ASSUME NEW s, Sleep(s), Sending
        PROVE  FlagIInv'
    BY <2>1, FlagsInside DEF Sleep, Sending, jobVars, callVars
  <2>2. CASE Lost
    BY <1>4, <2>1, <2>2 DEF Lost
  <2>3. CASE Busy
    BY <1>4, <2>1, <2>3 DEF Busy
  <2>4. CASE Pause
    BY <2>4, FlagsInside DEF Pause, jobVars, callVars
  <2>5. CASE Refresh
    BY <2>5, FlagsInside DEF Refresh, Sending, jobVars, callVars
  <2>6. CASE Unauthorised
    BY <1>4, <2>6 DEF Unauthorised
  <2>7. CASE Rejected
    BY <1>4, <2>7 DEF Rejected
  <2>8. CASE Answer
    BY <2>8, FlagsInside DEF Answer, Sending, jobVars, loopVars, callVars
  <2> QED BY <1>5, <2>2, <2>3, <2>4, <2>5, <2>6, <2>7, <2>8 DEF Loop
<1>6. CASE Get
  BY <1>4, <1>6 DEF Get
<1>7. CASE Mutate
  <2>1. PICK r : End(r)
    BY <1>7 DEF Mutate
  <2>2. configured /\ stage = "only" /\ written' = TRUE
    BY <1>7 DEF Mutate, FlagIInv, FlagInv, loopVars
  <2> QED
    BY <2>1, <2>2 DEF FlagIInv, FlagTypes, FlagInv, WritesOnlyIfConfigured, Open, End, Finally
<1>8. ASSUME NextPage, pc # "idle"
      PROVE  FlagIInv'
  BY <1>8, FlagsInside DEF NextPage, Request, flagVars, callVars
<1>9. CASE Search
  <2>1. CASE Page
    BY <1>8, <2>1, FlagsAtEnd DEF Page, loopVars
  <2>2. CASE Abandon
    BY <2>2, FlagsAtEnd DEF Abandon, loopVars
  <2> QED BY <1>9, <2>1, <2>2 DEF Search
<1>10. CASE Report
  <2>1. CASE Started
    BY <2>1 DEF Started, FlagIInv, FlagTypes, FlagInv, WritesOnlyIfConfigured, Open, loopVars, callVars
  <2>2. CASE Wait
    BY <2>2, FlagsInside DEF Wait, Request, jobVars, callVars
  <2>3. CASE Ready
    BY <2>3 DEF Ready, Polled, Request, FlagIInv, FlagTypes, FlagInv, WritesOnlyIfConfigured, Open,
                flagVars, callVars
  <2>4. CASE ReportFailed
    BY <2>4, FlagsAtEnd DEF ReportFailed, loopVars
  <2>5. CASE GiveUp
    BY <2>5, FlagsAtEnd DEF GiveUp, loopVars
  <2>6. CASE PollAgain
    BY <2>6, FlagsInside DEF PollAgain, Polled, jobVars, loopVars, callVars
  <2>7. CASE Collect
    BY <1>8, <2>7, FlagsAtEnd DEF Collect, loopVars
  <2> QED BY <1>10, <2>1, <2>2, <2>3, <2>4, <2>5, <2>6, <2>7 DEF Report
<1>11. CASE UNCHANGED vars
  BY <1>11 DEF FlagIInv, FlagTypes, FlagInv, WritesOnlyIfConfigured, Open, vars, flagVars, jobVars,
               loopVars, callVars
<1> QED BY <1>1, <1>2, <1>3, <1>5, <1>6, <1>7, <1>9, <1>10, <1>11 DEF Next, Step

(* Every variable keeps to its values. *)
THEOREM TypeCorrect == Spec => []TypeOK
<1>1. Init => FlagIInv
  BY DEF Init, FlagIInv, FlagTypes, FlagInv, WritesOnlyIfConfigured, Open
<1>2. Init => DataTypes
  <2> SUFFICES ASSUME Init
               PROVE  DataTypes
    OBVIOUS
  <2>1. left = 0 /\ skew = 0 /\ total = 0 /\ limit = 0 /\ page = 1 /\ got = <<>> /\ attempt = 0
        /\ backoff = 1 /\ wait = 0 /\ spent = 0 /\ delay = PollInterval /\ waited = 0 /\ calls = 0
    BY DEF Init
  <2>2. token = "none" /\ op = "none" /\ stage = "only" /\ seen = "running" /\ pc = "idle"
        /\ result = "none"
    BY DEF Init
  <2> QED BY <2>1, <2>2, ClientAssumption DEF DataTypes
<1>3. Spec => []FlagIInv
  BY <1>1, FlagsStep, PTL DEF Spec
<1>4. Spec => []DataTypes
  BY <1>2, DataTypesStep, PTL DEF Spec
<1>5. FlagIInv /\ DataTypes => TypeOK
  BY DEF FlagIInv, TypeOK
<1> QED BY <1>3, <1>4, <1>5, PTL

(* Whatever became of the searches and reports before it, a PATCH goes out only   *)
(* from a client that was built with write_enabled (client.py:248, 351-385). *)
THEOREM FlagPutBack == Spec => []WritesOnlyIfConfigured
<1>1. Init => FlagIInv
  BY DEF Init, FlagIInv, FlagTypes, FlagInv, WritesOnlyIfConfigured, Open
<1>2. FlagIInv => WritesOnlyIfConfigured
  BY DEF FlagIInv, FlagInv
<1> QED BY <1>1, <1>2, FlagsStep, PTL DEF Spec
-----------------------------------------------------------------------------
(* The token and the retry loop. *)

\* The token is good for what is left of the early renewal, or that has gone by.
Lasts ==
  \/ token = "revoked"
  \/ spent >= Margin - Timeout
  \/ left + spent > Margin - Timeout

TokenInv ==
  /\ pc \in {"send", "pause"} => Lasts
  /\ pc # "idle" => result = "none"
  /\ UnauthorisedExplained

LoopInv ==
  /\ pc = "send" => attempt <= MAX_RETRIES
  /\ pc = "pause" => attempt < MAX_RETRIES
  /\ pc = "token" => attempt <= 1

RequestInv == TokenInv /\ LoopInv

\* While a request lasts, what is left and what is spent add up.
LEMMA LastsOn ==
  ASSUME DataTypes, Lasts, NEW d \in Nat, Elapse(d), UNCHANGED token
  PROVE  Lasts' /\ (d >= left => token = "revoked" \/ spent' >= Margin - Timeout)
  BY ClientAssumption DEF DataTypes, Lasts, Elapse, Later, Smaller

\* A step that no request takes part in, or that ends one well.
LEMMA NoRequest ==
  ASSUME RequestInv,
         \/ pc' = "idle" /\ result' # "unauthorised"
         \/ pc' = "token" /\ attempt' = 0 /\ result' = "none"
         \/ pc' \in {"answered", "wait"} /\ result' = "none"
  PROVE  RequestInv'
  BY ClientAssumption DEF RequestInv, TokenInv, LoopInv, UnauthorisedExplained

LEMMA RequestStep ==
  ASSUME DataTypes, RequestInv, [Next]_vars
  PROVE  RequestInv'
<1>1. ASSUME NEW r, End(r), r # "unauthorised"
      PROVE  RequestInv'
  BY <1>1, NoRequest DEF End
<1>2. pc # "idle" => result = "none"
  BY DEF RequestInv, TokenInv
<1>3. CASE Call
  BY <1>3, NoRequest DEF Call, BeginGet, BeginMutate, BeginSearch, BeginReport, Begin, Request, Refuse
<1>4. CASE Revoke
  BY <1>4 DEF Revoke, RequestInv, TokenInv, LoopInv, Lasts, UnauthorisedExplained, loopVars, callVars
<1>5. CASE Token
  <2>1. CASE KeepToken
    <3>1. Lasts' /\ pc' = "send" /\ attempt <= 1 /\ attempt' = attempt /\ result' = "none"
      BY <1>2, <2>1, ClientAssumption
         DEF KeepToken, IsExpired, DataTypes, RequestInv, LoopInv, Lasts, tokenVars, loopVars, callVars
    <3> QED
      BY <3>1, ClientAssumption DEF DataTypes, RequestInv, TokenInv, LoopInv, UnauthorisedExplained
  <2>2. CASE FetchToken
    <3>1. PICK life \in Lifetimes, d \in Durations : left' = life - d
      BY <2>2 DEF FetchToken
    <3>2. life \in Nat /\ life > Margin /\ d \in 0..Timeout
      BY ClientAssumption
    <3>3. spent' = 0 /\ pc' = "send" /\ attempt <= 1 /\ attempt' = attempt /\ result' = "none"
      BY <1>2, <2>2 DEF FetchToken, RequestInv, LoopInv, loopVars, callVars
    <3>4. Lasts'
      BY <3>1, <3>2, <3>3, ClientAssumption DEF Lasts
    <3> QED
      BY <3>3, <3>4, ClientAssumption DEF DataTypes, RequestInv, TokenInv, LoopInv, UnauthorisedExplained
  <2>3. CASE FetchFails
    BY <1>1, <2>3 DEF FetchFails
  <2> QED BY <1>5, <2>1, <2>2, <2>3 DEF Token
<1>6. CASE Loop
  <2>1. \A d \in Durations : d \in Nat
    BY ClientAssumption
  <2>2. Sending => Lasts /\ attempt <= MAX_RETRIES /\ result = "none"
    BY <1>2 DEF Sending, RequestInv, TokenInv, LoopInv
  <2>3. ASSUME NEW s, Sleep(s), Sending, NEW d \in Durations, Elapse(d), token' = token, ~LastAttempt
        PROVE  RequestInv'
    <3>1. Lasts'
      BY <2>1, <2>2, <2>3, LastsOn
    <3>2. pc' = "pause" /\ attempt' = attempt /\ attempt < MAX_RETRIES /\ result' = "none"
      BY <2>2, <2>3, ClientAssumption DEF Sleep, LastAttempt, DataTypes, callVars
    <3> QED BY <3>1, <3>2 DEF RequestInv, TokenInv, LoopInv, UnauthorisedExplained
  <2>4. CASE Lost
    BY <1>1, <2>3, <2>4 DEF Lost, Return
  <2>5. CASE Busy
    BY <1>1, <2>3, <2>5 DEF Busy, Return
  <2>6. CASE Pause
    <3>1. Lasts /\ attempt < MAX_RETRIES /\ result = "none"
      BY <1>2, <2>6 DEF Pause, RequestInv, TokenInv, LoopInv
    <3>2. Lasts'
      BY <2>6, <3>1, LastsOn DEF Pause, DataTypes
    <3>3. pc' = "send" /\ attempt' = attempt + 1 /\ result' = "none"
      BY <2>6, <3>1 DEF Pause, callVars
    <3>4. attempt' <= MAX_RETRIES
      BY <3>1, <3>3, ClientAssumption DEF DataTypes
    <3> QED BY <3>2, <3>3, <3>4 DEF RequestInv, TokenInv, LoopInv, UnauthorisedExplained
  <2>7. CASE Refresh
    BY <2>2, <2>7, ClientAssumption
       DEF Refresh, RequestInv, TokenInv, LoopInv, UnauthorisedExplained, callVars
  <2>8. CASE Unauthorised
    <3>1. PICK d \in Durations : Elapse(d) /\ (token = "revoked" \/ d >= left)
      BY <2>8 DEF Unauthorised
    <3>2. token' = token /\ pc' = "idle"
      BY <2>8 DEF Unauthorised, Return, End
    <3>3. token = "revoked" \/ spent' >= Margin - Timeout
      BY <2>1, <2>2, <2>8, <3>1, <3>2, LastsOn DEF Unauthorised
    <3> QED BY <3>2, <3>3 DEF RequestInv, TokenInv, LoopInv, UnauthorisedExplained
  <2>9. CASE Rejected
    BY <1>1, <2>9 DEF Rejected, Return
  <2>10. CASE Answer
    BY <2>2, <2>10, NoRequest DEF Answer, callVars
  <2> QED BY <1>6, <2>4, <2>5, <2>6, <2>7, <2>8, <2>9, <2>10 DEF Loop
<1>7. CASE Get
  BY <1>1, <1>7 DEF Get, Return
<1>8. CASE Mutate
  BY <1>1, <1>8 DEF Mutate
<1>9. ASSUME NextPage, pc # "idle"
      PROVE  RequestInv'
  BY <1>2, <1>9, NoRequest DEF NextPage, Request, callVars
<1>10. CASE Search
  BY <1>1, <1>9, <1>10 DEF Search, Page, Abandon
<1>11. CASE Report
  <2>1. CASE Started \/ PollAgain
    BY <1>2, <2>1, NoRequest DEF Started, PollAgain, Polled, callVars
  <2>2. CASE Wait \/ Ready
    BY <1>2, <2>2, NoRequest DEF Wait, Ready, Polled, Request, callVars
  <2>3. CASE ReportFailed \/ GiveUp
    BY <1>1, <2>3 DEF ReportFailed, GiveUp
  <2>4. CASE Collect
    BY <1>1, <1>9, <2>4 DEF Collect
  <2> QED BY <1>11, <2>1, <2>2, <2>3, <2>4 DEF Report
<1>12. CASE UNCHANGED vars
  BY <1>12 DEF RequestInv, TokenInv, LoopInv, Lasts, UnauthorisedExplained, vars, tokenVars, loopVars,
               callVars
<1> QED BY <1>3, <1>4, <1>5, <1>6, <1>7, <1>8, <1>10, <1>11, <1>12 DEF Next, Step

LEMMA RequestInvHolds == Spec => []RequestInv
<1>1. Init => RequestInv
  BY DEF Init, RequestInv, TokenInv, LoopInv, UnauthorisedExplained
<1>2. Spec => []DataTypes
  <2>1. TypeOK => DataTypes
    BY DEF TypeOK
  <2> QED BY <2>1, TypeCorrect, PTL
<1> QED BY <1>1, <1>2, RequestStep, PTL DEF Spec

(* A token that is renewed Margin early outlasts the request it is used for, but for  *)
(* a withdrawal or retries that take longer (client.py:47-54, 131-134, 172-219).     *)
THEOREM EarlyRenewalSuffices == Spec => []UnauthorisedExplained
<1>1. RequestInv => UnauthorisedExplained
  BY DEF RequestInv, TokenInv
<1> QED BY <1>1, RequestInvHolds, PTL

(* The raise after the retry loop is never reached, whatever MAX_RETRIES is above 0  *)
(* (client.py:172-222).                                                              *)
THEOREM LoopReturns == Spec => []LoopNeverRunsOut
<1>1. RequestInv /\ TypeOK => LoopNeverRunsOut
  BY ClientAssumption DEF RequestInv, LoopInv, LoopNeverRunsOut, TypeOK, DataTypes
<1> QED BY <1>1, RequestInvHolds, TypeCorrect, PTL
-----------------------------------------------------------------------------
(* The pages. *)

Pages(p, n) == Smaller(n, p * PageSize)

\* Pages 1 to p of n items are the pages before p and page p.
LEMMA PagesJoin ==
  ASSUME NEW p \in Nat \ {0}, NEW n \in Nat
  PROVE  FirstItems(Pages(p - 1, n)) \o Items(p, n) = FirstItems(Pages(p, n))
<1> DEFINE b == (p - 1) * PageSize
<1>1. PageSize \in Nat \ {0} /\ b \in Nat /\ p * PageSize = b + PageSize
  BY ClientAssumption
<1>2. Items(p, n) = [i \in 1..Smaller(PageSize, n - b) |-> b + i]
  BY DEF Items
<1> HIDE DEF b
<1>3. CASE b <= n
  <2> DEFINE k == Smaller(PageSize, n - b)
  <2>1. k \in Nat /\ Pages(p - 1, n) = b /\ Pages(p, n) = b + k
    BY <1>1, <1>3 DEF Pages, Smaller, b
  <2>2. FirstItems(b) \in Seq(Nat) /\ Len(FirstItems(b)) = b
    BY <1>1 DEF FirstItems
  <2> HIDE DEF k
  <2>3. [i \in 1..k |-> b + i] \in Seq(Nat) /\ Len([i \in 1..k |-> b + i]) = k
    BY <1>1, <2>1
  <2>4. FirstItems(b + k) \in Seq(Nat) /\ Len(FirstItems(b + k)) = b + k
    BY <1>1, <2>1 DEF FirstItems
  <2>5. FirstItems(b) \o [i \in 1..k |-> b + i] = FirstItems(b + k)
    BY <1>1, <2>1, <2>2, <2>3, <2>4 DEF FirstItems
  <2> QED BY <1>2, <2>1, <2>5 DEF k
<1>4. CASE b > n
  <2>1. Pages(p - 1, n) = n /\ Pages(p, n) = n
    BY <1>1, <1>4 DEF Pages, Smaller, b
  <2>2. 1..Smaller(PageSize, n - b) = 1..0
    BY <1>1, <1>4 DEF Smaller
  <2>3. Items(p, n) = <<>>
    BY <1>2, <2>2
  <2>4. FirstItems(n) \in Seq(Nat)
    BY DEF FirstItems
  <2> QED BY <2>1, <2>3, <2>4
<1> QED BY <1>1, <1>3, <1>4

\* A page that is empty, short or counted as the last leaves no item behind it.
LEMMA LastPageIsLast ==
  ASSUME DataTypes, NEW c \in BOOLEAN, LastPage(c)
  PROVE  total <= page * PageSize
<1> DEFINE b == (page - 1) * PageSize
           m == Smaller(PageSize, total - b)
<1>1. PageSize \in Nat \ {0} /\ b \in Nat /\ page * PageSize = b + PageSize /\ total \in Nat
  BY ClientAssumption DEF DataTypes
<1>2. InHand = [i \in 1..m |-> b + i]
  BY DEF InHand, Items
<1>3. m \in Int /\ (m < PageSize => total < b + PageSize)
  BY <1>1 DEF Smaller
<1> HIDE DEF b, m
<1>4. m >= 0 => InHand \in Seq(Nat) /\ Len(InHand) = m
  BY <1>1, <1>2, <1>3
<1>5. CASE InHand = <<>> \/ Len(InHand) < PageSize
  <2>1. m < PageSize
    BY <1>1, <1>3, <1>4, <1>5
  <2> QED BY <1>1, <1>3, <2>1
<1>6. CASE page >= TotalPages
  <2> DEFINE a == total + PageSize - 1
  <2>1. a \in Nat /\ total = a + 1 - PageSize
    BY <1>1
  <2> HIDE DEF a
  <2>2. a < (a \div PageSize + 1) * PageSize /\ a \div PageSize \in Nat
    BY <1>1, <2>1
  <2>3. a \div PageSize <= page /\ page \in Nat
    BY <1>6 DEF a, TotalPages, DataTypes
  <2>4. (a \div PageSize + 1) * PageSize <= (page + 1) * PageSize
    BY <1>1, <2>2, <2>3
  <2>5. (page + 1) * PageSize = page * PageSize + PageSize
    BY <1>1, <2>3
  <2>6. page * PageSize \in Nat
    BY <1>1, <2>3
  <2> HIDE DEF b
  <2> QED BY <1>1, <2>1, <2>2, <2>4, <2>5, <2>6
<1> QED BY <1>5, <1>6 DEF LastPage

ListInv ==
  /\ pc = "idle" => stage = "only"
  /\ pc # "idle" => result = "none"
  /\ pc # "idle" /\ stage = "only" => op \notin {"search", "report"}
  /\ stage = "page" => op = "search"
  /\ stage \in {"start", "poll", "items"} => op = "report" /\ limit = 0
  /\ stage \in {"page", "items"} => got = FirstItems(Pages(page - 1, total))
  /\ stage = "page" /\ limit > 0 => page <= limit
  /\ AllItems

\* The call goes on, at the same request or the same page.
LEMMA ListInside ==
  ASSUME ListInv, UNCHANGED <<jobVars, result>>, pc # "idle", pc' # "idle"
  PROVE  ListInv'
  BY DEF ListInv, AllItems, Wanted, Pages, jobVars

\* A call that ends without having all it asked for does not end well.
LEMMA ListAtEnd ==
  ASSUME ListInv, NEW r, End(r), r # "ok" \/ op \notin {"search", "report"}
  PROVE  ListInv'
  BY DEF ListInv, AllItems, End

\* A page is added, and it was the last one wanted or the next one is asked for.
LEMMA ListGrows ==
  ASSUME DataTypes, ListInv, pc # "idle", stage \in {"page", "items"}, got' = got \o InHand,
         NEW c \in BOOLEAN,
         \/ End("ok") /\ (LastPage(c) \/ (stage = "page" /\ LimitReached))
         \/ NextPage /\ (stage = "page" => ~LimitReached) /\ ~LastPage(c)
  PROVE  ListInv'
<1>1. got' = FirstItems(Pages(page, total))
  BY PagesJoin DEF ListInv, InHand, DataTypes
<1>2. PageSize \in Nat /\ page \in Nat /\ total \in Nat /\ limit \in Nat
  BY ClientAssumption DEF DataTypes
<1>3. CASE End("ok") /\ (LastPage(c) \/ (stage = "page" /\ LimitReached))
  <2>1. stage' = "only" /\ pc' = "idle" /\ UNCHANGED <<op, total, limit, page>>
    BY <1>3 DEF End
  <2>2. page * PageSize \in Nat /\ limit * PageSize \in Nat
    BY <1>2
  <2>3. limit > 0 => page * PageSize <= limit * PageSize
    <3>1. limit > 0 => page <= limit
      BY DEF ListInv
    <3> QED BY <1>2, <3>1
  <2>4. CASE LastPage(c)
    <3>1. total <= page * PageSize
      BY <2>4, LastPageIsLast
    <3>2. Pages(page, total) = total /\ Wanted = total
      BY <1>2, <2>2, <2>3, <3>1 DEF Pages, Wanted, Smaller
    <3> QED
      BY <1>1, <2>1, <3>2 DEF ListInv, AllItems, Wanted, FirstItems
  <2>5. CASE stage = "page" /\ LimitReached
    <3>1. page = limit /\ limit # 0
      BY <1>2, <2>5 DEF LimitReached, ListInv
    <3>2. Pages(page, total) = Wanted
      BY <3>1 DEF Pages, Wanted
    <3> QED
      BY <1>1, <2>1, <3>2 DEF ListInv, AllItems, Wanted, FirstItems
  <2> QED BY <1>3, <2>4, <2>5
<1>4. CASE NextPage /\ (stage = "page" => ~LimitReached) /\ ~LastPage(c)
  <2>1. page' = page + 1 /\ pc' = "token" /\ UNCHANGED <<op, stage, total, limit, result>>
    BY <1>4 DEF NextPage, Request, callVars
  <2>2. page' - 1 = page /\ got' = FirstItems(Pages(page' - 1, total'))
    BY <1>1, <1>2, <2>1 DEF Pages
  <2>3. InHand # <<>>
    BY <1>4 DEF LastPage
  <2>4. stage = "page" /\ limit > 0 => page + 1 <= limit
    BY <1>2, <1>4, <2>3 DEF LimitReached
  <2>5. result' = "none"
    BY <2>1 DEF ListInv
  <2> QED BY <2>1, <2>2, <2>4, <2>5 DEF ListInv, AllItems, Pages
<1> QED BY <1>3, <1>4

LEMMA ListStep ==
  ASSUME DataTypes, ListInv, [Next]_vars
  PROVE  ListInv'
<1>1. CASE Call
  <2> USE DEF ListInv, AllItems, Begin, Request, Pages
  <2>1. CASE BeginGet
    BY <2>1 DEF BeginGet
  <2>2. CASE BeginMutate
    BY <2>2 DEF BeginMutate
  <2>3. ASSUME got' = <<>>, page' = 1, total' \in Nat
        PROVE  got' = FirstItems(Pages(page' - 1, total'))
    BY <2>3, ClientAssumption DEF FirstItems, Smaller
  <2>4. CASE BeginSearch
    <3>1. total' \in Nat /\ limit' \in Nat /\ page' = 1 /\ got' = <<>>
      BY <2>4, ClientAssumption DEF BeginSearch
    <3>2. got' = FirstItems(Pages(page' - 1, total'))
      BY <2>3, <3>1
    <3>3. stage' = "page" /\ op' = "search" /\ result' = "none" /\ pc' = "token"
      BY <2>4 DEF BeginSearch
    <3>4. limit' > 0 => page' <= limit'
      BY <3>1
    <3> HIDE DEF Begin, Request
    <3> QED BY <3>2, <3>3, <3>4
  <2>5. CASE BeginReport
    BY <2>5 DEF BeginReport
  <2>6. CASE Refuse
    BY <2>6 DEF Refuse
  <2> QED BY <1>1, <2>1, <2>2, <2>4, <2>5, <2>6 DEF Call
<1>2. CASE Revoke
  BY <1>2 DEF Revoke, ListInv, AllItems, Wanted, jobVars, callVars
<1>3. ASSUME NEW r, End(r), r # "ok"
      PROVE  ListInv'
  BY <1>3, ListAtEnd
<1>4. CASE Token
  BY <1>3, <1>4, ListInside DEF Token, KeepToken, FetchToken, FetchFails, callVars
<1>5. CASE Loop
  <2>1. ASSUME NEW s, Sleep(s), Sending
        PROVE  ListInv'
    BY <2>1, ListInside DEF Sleep, Sending, callVars
  <2>2. CASE Lost
    BY <1>3, <2>1, <2>2 DEF Lost, Return
  <2>3. CASE Busy
    BY <1>3, <2>1, <2>3 DEF Busy, Return
  <2>4. CASE Pause \/ Refresh \/ Answer
    BY <2>4, ListInside DEF Pause, Refresh, Answer, Sending, callVars
  <2>5. CASE Unauthorised \/ Rejected
    BY <1>3, <2>5 DEF Unauthorised, Rejected, Return
  <2> QED BY <1>5, <2>2, <2>3, <2>4, <2>5 DEF Loop
<1>6. CASE Get
  BY <1>6, ListAtEnd DEF Get, Return, ListInv
<1>7. CASE Mutate
  BY <1>7, ListAtEnd DEF Mutate
<1>8. CASE Search
  <2>1. CASE Page
    BY <2>1, ListGrows DEF Page
  <2>2. CASE Abandon
    BY <1>3, <2>2 DEF Abandon
  <2> QED BY <1>8, <2>1, <2>2 DEF Search
<1>9. CASE Report
  <2>1. CASE Started
    BY <2>1 DEF Started, ListInv, AllItems, callVars
  <2>2. CASE Wait \/ PollAgain
    BY <2>2, ListInside DEF Wait, Request, PollAgain, Polled, callVars
  <2>3. CASE Ready
    <3>1. FirstItems(Pages(1 - 1, total)) = <<>>
      BY ClientAssumption DEF FirstItems, Pages, Smaller, DataTypes
    <3>2. Items(1, total) \in Seq(Nat)
      BY ItemsType DEF DataTypes
    <3>3. Items(1, total) = FirstItems(Pages(1, total))
      <4>1. FirstItems(Pages(1 - 1, total)) \o Items(1, total) = FirstItems(Pages(1, total))
        <5>1. 1 \in Nat \ {0} /\ total \in Nat
          BY DEF DataTypes
        <5> QED BY <5>1, PagesJoin, Zenon
      <4>2. <<>> \o Items(1, total) = Items(1, total)
        BY <3>2
      <4> QED BY <3>1, <4>1, <4>2
    <3> QED
      BY <2>3, <3>3 DEF Ready, Polled, Request, ListInv, AllItems, Pages, callVars
  <2>4. CASE ReportFailed \/ GiveUp
    BY <1>3, <2>4 DEF ReportFailed, GiveUp
  <2>5. CASE Collect
    BY <2>5, ListGrows DEF Collect
  <2> QED BY <1>9, <2>1, <2>2, <2>3, <2>4, <2>5 DEF Report
<1>10. CASE UNCHANGED vars
  BY <1>10 DEF ListInv, AllItems, Wanted, vars, jobVars, callVars
<1> QED BY <1>1, <1>2, <1>4, <1>5, <1>6, <1>7, <1>8, <1>9, <1>10 DEF Next, Step

(* A search or report that ends well has every item it asked for, once and in order, *)
(* for every page size and length of the listing (client.py:351-385,                *)
(* queries.py:273-291).                                                             *)
THEOREM ListingComplete == Spec => []AllItems
<1>1. Init => ListInv
  BY DEF Init, ListInv, AllItems
<1>2. Spec => []DataTypes
  <2>1. TypeOK => DataTypes
    BY DEF TypeOK
  <2> QED BY <2>1, TypeCorrect, PTL
<1>3. ListInv => AllItems
  BY DEF ListInv
<1> QED BY <1>1, <1>2, <1>3, ListStep, PTL DEF Spec
-----------------------------------------------------------------------------
(* The poll loop. *)

PollInv ==
  /\ pc = "idle" => stage = "only"
  /\ pc # "idle" => result = "none"
  /\ pc = "wait" => stage = "poll" /\ waited < MaxWait
  /\ stage = "start" => waited = 0
  /\ stage = "poll" => waited < MaxWait + PollCap
  /\ GivenUpInTime

LEMMA PollInside ==
  ASSUME PollInv, UNCHANGED <<stage, waited, result>>, pc # "idle", pc' \notin {"idle", "wait"}
  PROVE  PollInv'
  BY DEF PollInv, GivenUpInTime

LEMMA PollAtEnd ==
  ASSUME PollInv, NEW r, End(r), r # "timed_out"
  PROVE  PollInv'
  BY DEF PollInv, GivenUpInTime, End

LEMMA PollStep ==
  ASSUME DataTypes, PollInv, [Next]_vars
  PROVE  PollInv'
<1>1. CASE Call
  <2>1. ASSUME NEW o, NEW f \in {"only", "page", "start"}, Begin(o, f)
        PROVE  PollInv'
    BY <2>1 DEF Begin, Request, PollInv, GivenUpInTime
  <2>2. CASE Refuse
    BY <2>2 DEF Refuse, PollInv, GivenUpInTime, pollVars
  <2> QED
    BY <1>1, <2>1, <2>2 DEF Call, BeginGet, BeginMutate, BeginSearch, BeginReport
<1>2. CASE Revoke
  BY <1>2 DEF Revoke, PollInv, GivenUpInTime, jobVars, pollVars, callVars
<1>3. ASSUME NEW r, End(r), r # "timed_out"
      PROVE  PollInv'
  BY <1>3, PollAtEnd
<1>4. CASE Token
  BY <1>3, <1>4, PollInside DEF Token, KeepToken, FetchToken, FetchFails, jobVars, pollVars, callVars
<1>5. CASE Loop
  <2>1. ASSUME NEW s, Sleep(s), Sending
        PROVE  PollInv'
    BY <2>1, PollInside DEF Sleep, Sending, jobVars, pollVars, callVars
  <2>2. CASE Lost
    BY <1>3, <2>1, <2>2 DEF Lost, Return
  <2>3. CASE Busy
    BY <1>3, <2>1, <2>3 DEF Busy, Return
  <2>4. CASE Pause \/ Refresh \/ Answer
    BY <2>4, PollInside DEF Pause, Refresh, Answer, Sending, jobVars, pollVars, callVars
  <2>5. CASE Unauthorised \/ Rejected
    BY <1>3, <2>5 DEF Unauthorised, Rejected, Return
  <2> QED BY <1>5, <2>2, <2>3, <2>4, <2>5 DEF Loop
<1>6. CASE Get
  BY <1>3, <1>6 DEF Get, Return
<1>7. ASSUME NEW r \in {"timeout", "network_error", "rejected", "ok"}, End(r)
      PROVE  PollInv'
  BY <1>3, <1>7
<1>8. CASE Mutate
  BY <1>7, <1>8 DEF Mutate
<1>9. ASSUME NextPage, pc # "idle"
      PROVE  PollInv'
  BY <1>9, PollInside DEF NextPage, Request, pollVars, callVars
<1>10. CASE Search
  BY <1>3, <1>9, <1>10 DEF Search, Page, Abandon
<1>11. CASE Report
  <2>1. CASE Started
    BY <2>1, ClientAssumption DEF Started, PollInv, GivenUpInTime, pollVars, callVars
  <2>2. CASE Wait
    <3>1. stage = "poll" /\ waited < MaxWait /\ result = "none"
      BY <2>2 DEF Wait, PollInv
    <3>2. waited' < MaxWait + PollCap
      BY <2>2, <3>1, ClientAssumption DEF Wait, DataTypes
    <3>3. pc' = "token" /\ stage' = "poll" /\ result' = "none"
      BY <2>2, <3>1 DEF Wait, Request, jobVars, callVars
    <3> QED BY <3>2, <3>3 DEF PollInv, GivenUpInTime
  <2>3. CASE Ready
    BY <2>3 DEF Ready, Polled, Request, PollInv, GivenUpInTime, callVars
  <2>4. CASE ReportFailed
    BY <1>3, <2>4 DEF ReportFailed
  <2>5. CASE GiveUp
    BY <2>5 DEF GiveUp, Polled, End, PollInv, GivenUpInTime
  <2>6. CASE PollAgain
    BY <2>6 DEF PollAgain, Polled, PollInv, GivenUpInTime, jobVars, callVars
  <2>7. CASE Collect
    BY <1>3, <1>9, <2>7 DEF Collect
  <2> QED BY <1>11, <2>1, <2>2, <2>3, <2>4, <2>5, <2>6, <2>7 DEF Report
<1>12. CASE UNCHANGED vars
  BY <1>12 DEF PollInv, GivenUpInTime, vars, jobVars, pollVars, callVars
<1> QED BY <1>1, <1>2, <1>4, <1>5, <1>6, <1>8, <1>10, <1>11, <1>12 DEF Next, Step

(* A report is given up after max_wait, less than one longest delay later, and with *)
(* no final status in hand (queries.py:253-271).                                    *)
THEOREM PollsEnough == Spec => []GivenUpInTime
<1>1. Init => PollInv
  BY DEF Init, PollInv, GivenUpInTime
<1>2. Spec => []DataTypes
  <2>1. TypeOK => DataTypes
    BY DEF TypeOK
  <2> QED BY <2>1, TypeCorrect, PTL
<1>3. PollInv => GivenUpInTime
  BY DEF PollInv
<1> QED BY <1>1, <1>2, <1>3, PollStep, PTL DEF Spec
=============================================================================
