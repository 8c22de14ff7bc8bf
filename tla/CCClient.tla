------------------------------ MODULE CCClient ------------------------------
(***************************************************************************)
(* The CartonCloud client (src/src/cc_client/client.py) and the report     *)
(* run of src/src/cc_client/queries.py: the token and its early renewal,   *)
(* the retry loop of _request, the pages of post_search, the polling of    *)
(* get_stock_on_hand, and write_enabled, which the two reads that are      *)
(* POSTs switch on for themselves.                                         *)
(*                                                                         *)
(* One thread uses a client, and finishes one call before the next, as     *)
(* every caller in the repository does.  Time is counted in seconds: a     *)
(* request, a sleep and the caller's own work take some, and the token     *)
(* lives on CartonCloud's clock.                                           *)
(***************************************************************************)
EXTENDS Integers, Sequences

CONSTANTS
  MAX_RETRIES,   \* CartonCloudClient.MAX_RETRIES
  Margin,        \* the 60 s by which _Token.is_expired is early
  Lifetimes,     \* values of expires_in
  Timeout,       \* timeout of the httpx client: a request lasts at most this
  Durations,     \* how long a request may last
  RetryAfters,   \* values of a Retry-After header
  Gaps,          \* how long the caller may work between two requests
  PollInterval,  \* get_stock_on_hand: first delay,
  PollCap,       \*   the longest,
  MaxWait,       \*   and the deadline
  PageSize,      \* page_size
  Totals,        \* how many items a search or a report may have
  Limits,        \* values of max_pages; 0 is None
  MaxCalls       \* bound on the calls of a session, for model checking

ASSUME ClientAssumption ==
  /\ MAX_RETRIES \in Nat \ {0}
  /\ Margin \in Nat /\ Timeout \in Nat /\ Timeout < Margin
  /\ Lifetimes \subseteq {s \in Nat : s > Margin}
  /\ Durations \subseteq 0..Timeout
  /\ RetryAfters \subseteq Nat /\ Gaps \subseteq Nat
  /\ PageSize \in Nat \ {0} /\ Totals \subseteq Nat /\ Limits \subseteq Nat
  /\ PollInterval \in Nat \ {0} /\ PollCap \in Nat /\ PollInterval <= PollCap
  /\ MaxWait \in Nat \ {0} /\ MaxCalls \in Nat

VARIABLES
  configured,    \* the write_enabled the client was built with
  writeEnabled,  \* self.write_enabled
  saved,         \* original_write of the call that switched it on
  token,         \* _token: "none", "good", or "revoked" by CartonCloud
  left,          \* seconds CartonCloud will still accept it
  skew,          \* by how many the client thinks it lives longer
  op,            \* the call: "get", "search", "report", "mutate"
  stage,         \* its request: "only", "page", "start", "poll", "items"
  total,         \* how many items there are for it
  limit,         \* max_pages
  page, got,     \* page in hand, items collected
  attempt, backoff, wait,  \* loop of _request; wait is the sleep decided on
  spent,         \* seconds since the token was last looked at, up to Margin
  delay, waited, \* poll loop
  seen,          \* the last status it was told
  pc,            \* "idle", "token", "send", "pause", "answered", "wait"
  result,        \* how the last call ended
  calls,         \* how many have begun
  written        \* a PATCH has gone out

flagVars == <<configured, writeEnabled, saved>>
tokenVars == <<token, left, skew>>
jobVars == <<op, stage, total, limit, page, got>>
loopVars == <<attempt, backoff, wait>>
pollVars == <<delay, waited, seen>>
callVars == <<result, calls, written>>
vars == <<flagVars, tokenVars, jobVars, loopVars, spent, pollVars, pc, callVars>>

Init ==
  /\ configured \in BOOLEAN /\ writeEnabled = configured /\ saved = configured
  /\ token = "none" /\ left = 0 /\ skew = 0
  /\ op = "none" /\ stage = "only" /\ total = 0 /\ limit = 0 /\ page = 1 /\ got = <<>>
  /\ attempt = 0 /\ backoff = 1 /\ wait = 0
  /\ spent = 0
  /\ delay = PollInterval /\ waited = 0 /\ seen = "running"
  /\ pc = "idle" /\ result = "none" /\ calls = 0 /\ written = FALSE
-----------------------------------------------------------------------------
(* Time, and what may happen to the token meanwhile. *)

Smaller(a, b) == IF a < b THEN a ELSE b

Later(d) == left' = IF d < left THEN left - d ELSE 0

Elapse(d) == Later(d) /\ spent' = Smaller(Margin, spent + d)

\* Outside a request: the token is looked at before the next one.
Idle(d) == Later(d) /\ spent' = 0

Live == token = "good" /\ left > 0

Revoke ==
  /\ token = "good"
  /\ token' = "revoked"
  /\ UNCHANGED <<flagVars, left, skew, jobVars, loopVars, spent, pollVars, pc, callVars>>
-----------------------------------------------------------------------------
(* How a call ends, and how a request of it begins. *)

\* The calls that are inside the try ... finally around write_enabled.
Open == stage \in {"page", "start"}

\* Mutant: write_enabled is put back only when all went well.
FinallyOnSuccess(r) == writeEnabled' = IF Open /\ r = "ok" THEN saved ELSE writeEnabled

Finally(r) == writeEnabled' = IF Open THEN saved ELSE writeEnabled

End(r) ==
  /\ Finally(r)
  /\ pc' = "idle" /\ result' = r /\ stage' = "only"
  /\ UNCHANGED <<configured, saved, op, total, limit, page, calls>>

Request ==
  /\ attempt' = 0 /\ backoff' = 1 /\ wait' = 0
  /\ pc' = "token"

Begin(o, first) ==
  /\ pc = "idle" /\ calls < MaxCalls
  /\ op' = o /\ stage' = first /\ page' = 1 /\ got' = <<>>
  /\ calls' = calls + 1 /\ result' = "none"
  /\ delay' = PollInterval /\ waited' = 0 /\ seen' = "running"
  /\ Request
  /\ \E g \in Gaps : Idle(g)
  /\ UNCHANGED <<configured, token, skew, written>>

BeginGet ==
  /\ Begin("get", "only")
  /\ total' = 0 /\ limit' = 0
  /\ UNCHANGED <<writeEnabled, saved>>

(* _mutate; its approved is always True (roundtrip.py). *)
BeginMutate ==
  /\ writeEnabled
  /\ Begin("mutate", "only")
  /\ total' = 0 /\ limit' = 0
  /\ UNCHANGED <<writeEnabled, saved>>

SwitchOn == saved' = writeEnabled /\ writeEnabled' = TRUE

BeginSearch ==
  /\ Begin("search", "page")
  /\ total' \in Totals /\ limit' \in Limits
  /\ SwitchOn

BeginReport ==
  /\ Begin("report", "start")
  /\ total' \in Totals /\ limit' = 0
  /\ SwitchOn

Refuse ==
  /\ pc = "idle" /\ calls < MaxCalls /\ ~writeEnabled
  /\ op' = "mutate" /\ calls' = calls + 1 /\ result' = "refused"
  /\ UNCHANGED <<flagVars, tokenVars, stage, total, limit, page, got, loopVars, spent,
                 pollVars, pc, written>>

Call == BeginGet \/ BeginMutate \/ BeginSearch \/ BeginReport \/ Refuse
-----------------------------------------------------------------------------
(* _ensure_token and _fetch_token. *)

\* Mutant: a token is used to its last second.
IsExpiredLate == left + skew <= 0

IsExpired == left + skew <= Margin

KeepToken ==
  /\ pc = "token" /\ token # "none" /\ ~IsExpired
  /\ pc' = "send" /\ spent' = 0
  /\ UNCHANGED <<flagVars, tokenVars, jobVars, loopVars, pollVars, callVars>>

(* The client counts expires_in from the answer, CartonCloud from the grant. *)
FetchToken ==
  /\ pc = "token" /\ (token # "none" => IsExpired)
  /\ \E life \in Lifetimes, d \in Durations :
       token' = "good" /\ left' = life - d /\ skew' = d
  /\ pc' = "send" /\ spent' = 0
  /\ UNCHANGED <<flagVars, jobVars, loopVars, pollVars, callVars>>

(* A status other than 200, or a transport error that nothing catches. *)
FetchFails ==
  /\ pc = "token" /\ (token # "none" => IsExpired)
  /\ \E r \in {"auth_error", "transport_error"} : End(r)
  /\ UNCHANGED <<tokenVars, got, loopVars, spent, pollVars, written>>
-----------------------------------------------------------------------------
(* The retry loop of _request. *)

LastAttempt == attempt = MAX_RETRIES

Sending == pc = "send" /\ op # "mutate"

Return(r) == End(r) /\ UNCHANGED <<got, loopVars, pollVars, written>>

Sleep(s) ==
  /\ wait' = s /\ pc' = "pause"
  /\ UNCHANGED <<flagVars, jobVars, attempt, backoff, pollVars, callVars>>

Lost ==
  /\ Sending
  /\ \E d \in Durations : Elapse(d)
  /\ IF LastAttempt THEN Return("network_error") ELSE Sleep(backoff)
  /\ UNCHANGED <<token, skew>>

(* 429 and 5xx. *)
Busy ==
  /\ Sending
  /\ \E d \in Durations : Elapse(d)
  /\ IF LastAttempt THEN Return("busy")
     ELSE \E s \in RetryAfters \union {backoff} : Sleep(s)
  /\ UNCHANGED <<token, skew>>

Pause ==
  /\ pc = "pause"
  /\ Elapse(wait)
  /\ wait' = 0 /\ attempt' = attempt + 1 /\ backoff' = 2 * backoff /\ pc' = "send"
  /\ UNCHANGED <<flagVars, token, skew, jobVars, pollVars, callVars>>

(* 401 on the first attempt: drop the token, and try again with a new one. *)
Refresh ==
  /\ Sending /\ attempt = 0
  /\ \E d \in Durations : Elapse(d) /\ (token = "revoked" \/ d >= left)
  /\ token' = "none" /\ attempt' = 1 /\ pc' = "token"
  /\ UNCHANGED <<flagVars, skew, jobVars, backoff, wait, pollVars, callVars>>

(* 401 on a later one. *)
Unauthorised ==
  /\ Sending /\ attempt > 0
  /\ \E d \in Durations : Elapse(d) /\ (token = "revoked" \/ d >= left)
  /\ Return("unauthorised")
  /\ UNCHANGED <<token, skew>>

(* Any other status that is not a success. *)
Rejected ==
  /\ Sending /\ Live
  /\ \E d \in Durations : Elapse(d)
  /\ Return("rejected")
  /\ UNCHANGED <<token, skew>>

Answer ==
  /\ Sending
  /\ \E d \in Durations : Idle(d) /\ d < left /\ token = "good"
  /\ pc' = "answered"
  /\ UNCHANGED <<flagVars, token, skew, jobVars, loopVars, pollVars, callVars>>

Get ==
  /\ pc = "answered" /\ stage = "only"
  /\ Return("ok")
  /\ UNCHANGED <<tokenVars, spent>>

(* _mutate: one request, whatever becomes of it. *)
Mutate ==
  /\ pc = "send" /\ op = "mutate"
  /\ written' = TRUE
  /\ \E d \in Durations : Elapse(d)
  /\ \E r \in {"timeout", "network_error", "rejected"} \union (IF Live THEN {"ok"} ELSE {}) : End(r)
  /\ UNCHANGED <<token, skew, got, loopVars, pollVars>>
-----------------------------------------------------------------------------
(* The pages of a search. *)

\* What page p holds of n items.
Items(p, n) == [i \in 1 .. Smaller(PageSize, n - (p - 1) * PageSize) |-> (p - 1) * PageSize + i]

InHand == Items(page, total)

\* Total-Pages, when the answer has it and it is a number.
TotalPages == (total + PageSize - 1) \div PageSize

\* Mutant: pages are taken to be numbered from 0.
LastPageFromZero(counted) ==
  \/ InHand = <<>>
  \/ counted /\ page + 1 >= TotalPages
  \/ Len(InHand) < PageSize

\* A page that is empty, counted as the last, or short.
LastPage(counted) ==
  \/ InHand = <<>>
  \/ counted /\ page >= TotalPages
  \/ Len(InHand) < PageSize

NextPage ==
  /\ page' = page + 1
  /\ Request
  /\ \E g \in Gaps : Idle(g)
  /\ UNCHANGED <<configured, writeEnabled, saved, token, skew, op, stage, total,
                 limit, pollVars, callVars>>

LimitReached == InHand # <<>> /\ limit > 0 /\ page >= limit

Page ==
  /\ pc = "answered" /\ stage = "page"
  /\ got' = got \o InHand
  /\ \E counted \in BOOLEAN :
       \/ /\ LastPage(counted) \/ LimitReached
          /\ End("ok")
          /\ UNCHANGED <<tokenVars, loopVars, spent, pollVars, written>>
       \/ ~LastPage(counted) /\ ~LimitReached /\ NextPage

(* The loop over the search raises or stops at an item: the generator is closed. *)
Abandon ==
  /\ pc = "answered" /\ stage = "page"
  /\ \E k \in 1 .. Len(InHand) : got' = got \o SubSeq(InHand, 1, k)
  /\ End("abandoned")
  /\ UNCHANGED <<tokenVars, loopVars, spent, pollVars, written>>
-----------------------------------------------------------------------------
(* The report run. *)

Started ==
  /\ pc = "answered" /\ stage = "start"
  /\ writeEnabled' = saved
  /\ stage' = "poll" /\ pc' = "wait"
  /\ UNCHANGED <<configured, saved, tokenVars, op, total, limit, page, got, loopVars, spent,
                 pollVars, callVars>>

\* Mutant: only the last delay is counted.
WaitForgets ==
  /\ pc = "wait"
  /\ Idle(delay) /\ waited' = delay
  /\ Request
  /\ UNCHANGED <<flagVars, token, skew, jobVars, delay, seen, callVars>>

Wait ==
  /\ pc = "wait"
  /\ Idle(delay) /\ waited' = waited + delay
  /\ Request
  /\ UNCHANGED <<flagVars, token, skew, jobVars, delay, seen, callVars>>

Polled == pc = "answered" /\ stage = "poll"

Ready ==
  /\ Polled
  /\ seen' = "SUCCESS" /\ stage' = "items" /\ got' = Items(1, total) /\ page' = 2
  /\ Request
  /\ UNCHANGED <<flagVars, tokenVars, op, total, limit, spent, delay, waited, callVars>>

ReportFailed ==
  /\ Polled
  /\ seen' = "FAILED"
  /\ End("failed")
  /\ UNCHANGED <<tokenVars, got, loopVars, spent, delay, waited, written>>

GiveUp ==
  /\ Polled /\ waited >= MaxWait
  /\ seen' = "running"
  /\ End("timed_out")
  /\ UNCHANGED <<tokenVars, got, loopVars, spent, delay, waited, written>>

\* Mutant: the delay doubles without end.
NextDelayUncapped == 2 * delay

NextDelay == Smaller(2 * delay, PollCap)

PollAgain ==
  /\ Polled /\ waited < MaxWait
  /\ seen' = "running" /\ delay' = NextDelay /\ pc' = "wait"
  /\ UNCHANGED <<flagVars, tokenVars, jobVars, loopVars, spent, waited, callVars>>

(* The first page came with the status; the others are asked for. *)
Collect ==
  /\ pc = "answered" /\ stage = "items"
  /\ got' = got \o InHand
  /\ \E counted \in BOOLEAN :
       \/ /\ LastPage(counted)
          /\ End("ok")
          /\ UNCHANGED <<tokenVars, loopVars, spent, pollVars, written>>
       \/ ~LastPage(counted) /\ NextPage
-----------------------------------------------------------------------------
Token == KeepToken \/ FetchToken \/ FetchFails
Loop == Lost \/ Busy \/ Pause \/ Refresh \/ Unauthorised \/ Rejected \/ Answer
Search == Page \/ Abandon
Report == Started \/ Wait \/ Ready \/ ReportFailed \/ GiveUp \/ PollAgain \/ Collect
Step == Token \/ Loop \/ Get \/ Mutate \/ Search \/ Report

Next == Call \/ Revoke \/ Step

Spec == Init /\ [][Next]_vars

(* Every request is answered or given up by httpx after Timeout; sleeps end. *)
FairSpec == Spec /\ WF_vars(Step)
-----------------------------------------------------------------------------
FlagTypes ==
  /\ configured \in BOOLEAN /\ writeEnabled \in BOOLEAN /\ saved \in BOOLEAN
  /\ written \in BOOLEAN

DataTypes ==
  /\ token \in {"none", "good", "revoked"} /\ left \in Nat /\ skew \in 0..Timeout
  /\ op \in {"none", "get", "search", "report", "mutate"}
  /\ stage \in {"only", "page", "start", "poll", "items"}
  /\ total \in Nat /\ limit \in Nat /\ page \in Nat \ {0} /\ got \in Seq(Nat)
  /\ attempt \in Nat /\ backoff \in Nat \ {0} /\ wait \in Nat /\ spent \in 0..Margin
  /\ delay \in PollInterval..PollCap /\ waited \in Nat
  /\ seen \in {"running", "SUCCESS", "FAILED"}
  /\ pc \in {"idle", "token", "send", "pause", "answered", "wait"}
  /\ calls \in 0..MaxCalls
  /\ result \in {"none", "ok", "abandoned", "refused", "timeout", "network_error", "busy",
                 "unauthorised", "rejected", "auth_error", "transport_error", "failed",
                 "timed_out"}

TypeOK == FlagTypes /\ DataTypes

(* "The client refuses POST/PUT/PATCH/DELETE unless CC_WRITE_ENABLED=true"         *)
(* (src/README.md:97): no search or report, however it ended (finished, broken off *)
(* between two items, failed in a request or in the renewal of the token), leaves   *)
(* write_enabled on for a PATCH that comes after it.                               *)
WritesOnlyIfConfigured == written => configured

(* A search that is not broken off, and a report, return every item once and in     *)
(* order, whether or not the answers count the pages, when the last page is full,  *)
(* short or empty, and when requests in between were retried; with max_pages, the  *)
(* items of that many pages.                                                       *)
Wanted == IF limit = 0 THEN total ELSE Smaller(total, limit * PageSize)
AllItems ==
  result = "ok" /\ op \in {"search", "report"} => got = [i \in 1..Wanted |-> i]

(* The 60 s by which a token is renewed early outlast what a call does with it: a   *)
(* request ends with a 401 only if the token was withdrawn, or if its retries took  *)
(* longer than those 60 s less the one request by which the client's idea of the   *)
(* expiry may be late.                                                             *)
UnauthorisedExplained ==
  result = "unauthorised" => token = "revoked" \/ spent >= Margin - Timeout

(* The raise after the loop of _request "should be unreachable" (client.py:221):    *)
(* every last attempt returns or raises by itself, the one after a refresh too, so  *)
(* no request is sent more than MAX_RETRIES + 1 times.                             *)
LoopNeverRunsOut == pc \in {"send", "pause"} => attempt + (IF pc = "pause" THEN 1 ELSE 0) <= MAX_RETRIES

(* A report is given up only after max_wait, at the latest one longest delay past   *)
(* it, and never when the answer in hand says SUCCESS or FAILED.                   *)
GivenUpInTime ==
  result = "timed_out" /\ op = "report" =>
    MaxWait <= waited /\ waited < MaxWait + PollCap /\ seen = "running"

(* Every call ends: no mix of lost, busy, unauthorised and pending answers keeps a  *)
(* request or a poll going for ever.                                               *)
EveryCallEnds == pc # "idle" ~> pc = "idle"
=============================================================================
