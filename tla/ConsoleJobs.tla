---------------------------- MODULE ConsoleJobs ----------------------------
(***************************************************************************)
(* The job managers of the two consoles (src/src/web/jobs.py and           *)
(* src/src/web_dispatch/jobs.py, the same code around different runners)   *)
(* and the event streams of their apps.                                    *)
(*                                                                         *)
(* A request starts a job unless one is active; a worker thread runs the   *)
(* pipeline, which appends events to the job; any number of streams read   *)
(* the job while it runs, without a lock.  The body of each                *)
(* "with self._lock" touches nothing that waits and is one step; every     *)
(* assignment outside it that a stream reads is a step of its own.         *)
(***************************************************************************)
EXTENDS Naturals, Sequences

CONSTANTS
  Jobs,      \* job ids: uuids, so never used twice
  Streams,   \* connections of browsers
  NoJob,     \* None
  MaxLines   \* bound on the progress lines of a pipeline, for model checking

ASSUME JobsAssumption == NoJob \notin Jobs

VARIABLES
  console,   \* which of the two apps this process serves: "wave", "dispatch"
  active,    \* JobManager._active
  worker,    \* worker[j]: where the thread of j is
  result,    \* result[j]: status of the runner's result, "" before it returns
  status,    \* Job.status; "absent" when _jobs has no such job
  events,    \* Job.events: "line", "done" (stage done) or "error" (done, level error)
  named,     \* the jobs whose run_id (stamp) is set
  done,      \* the jobs whose done is True
  stream,    \* stream[s]: where the generator is
  watched,   \* the job of its URL
  sent,      \* its local: events taken so far
  linkable,  \* the streams that found, for the event in hand, a run to link to
  got        \* what the browser received: events, "link" when it came with a link

jobVars == <<active, worker, result, status, events, named, done>>
streamVars == <<stream, watched, sent, linkable, got>>
vars == <<console, jobVars, streamVars>>

Init ==
  /\ console \in {"wave", "dispatch"}
  /\ active = NoJob
  /\ worker = [j \in Jobs |-> "none"]
  /\ result = [j \in Jobs |-> ""]
  /\ status = [j \in Jobs |-> "absent"]
  /\ events = [j \in Jobs |-> <<>>]
  /\ named = {}
  /\ done = {}
  /\ stream = [s \in Streams |-> "closed"]
  /\ watched \in [Streams -> Jobs]
  /\ sent = [s \in Streams |-> 0]
  /\ linkable = {}
  /\ got = [s \in Streams |-> <<>>]
-----------------------------------------------------------------------------
(* The manager and its worker threads. *)

At(j, here, next) == worker[j] = here /\ worker' = [worker EXCEPT ![j] = next]

Append1(j, e) == events' = [events EXCEPT ![j] = Append(@, e)]

\* Mutant: a second click is not refused.
StartAnyway(j) ==
  /\ At(j, "none", "working")
  /\ status' = [status EXCEPT ![j] = "running"]
  /\ active' = j
  /\ UNCHANGED <<console, result, events, named, done, streamVars>>

(* start: refused with RunInProgressError, which changes nothing, while a  *)
(* job is active.                                                          *)
Start(j) ==
  /\ active = NoJob
  /\ At(j, "none", "working")
  /\ status' = [status EXCEPT ![j] = "running"]
  /\ active' = j
  /\ UNCHANGED <<console, result, events, named, done, streamVars>>

(* The pipeline reports progress. *)
Progress(j) ==
  /\ At(j, "working", "working")
  /\ Len(events[j]) < MaxLines
  /\ Append1(j, "line")
  /\ UNCHANGED <<console, active, result, status, named, done, streamVars>>

\* Mutant: the pipeline reports its failure and raises all the same.
FinishAndRaise(j) ==
  /\ \E outcome \in {"success", "empty", "failed"} :
       /\ At(j, "working", IF outcome = "failed" THEN "raised" ELSE "returning")
       /\ result' = [result EXCEPT ![j] = outcome]
       /\ Append1(j, IF outcome = "failed" THEN "error" ELSE "done")
  /\ UNCHANGED <<console, active, status, named, done, streamVars>>

(* The pipeline ends: it reports stage "done", then returns its result,    *)
(* also for an exception it caught.                                        *)
Finish(j) ==
  /\ At(j, "working", "returning")
  /\ \E outcome \in {"success", "empty", "failed"} :
       /\ result' = [result EXCEPT ![j] = outcome]
       /\ Append1(j, IF outcome = "failed" THEN "error" ELSE "done")
  /\ UNCHANGED <<console, active, status, named, done, streamVars>>

\* Mutant: an exception of the runner is swallowed.
RaiseSwallowed(j) ==
  /\ console = "wave"
  /\ events[j] = <<>>
  /\ At(j, "working", "returning")
  /\ UNCHANGED <<console, active, result, status, events, named, done, streamVars>>

(* run_wave_generation makes its folder outside its try block; all of      *)
(* run_dispatch_job that can raise is within.                              *)
Raise(j) ==
  /\ console = "wave"
  /\ events[j] = <<>>
  /\ At(j, "working", "raised")
  /\ UNCHANGED <<console, active, result, status, events, named, done, streamVars>>

StoreStatus(j) ==
  /\ At(j, "returning", "storing")
  /\ status' = [status EXCEPT ![j] = result[j]]
  /\ UNCHANGED <<console, active, result, events, named, done, streamVars>>

(* job.run_id and job.error, which no stream reads, and the exit from try. *)
StoreName(j) ==
  /\ At(j, "storing", "finally")
  /\ named' = named \union {j}
  /\ UNCHANGED <<console, active, result, status, events, done, streamVars>>

\* Mutant: the job is marked done before its last event is there.
CatchStatusDone(j) ==
  /\ At(j, "raised", "reporting")
  /\ status' = [status EXCEPT ![j] = "failed"]
  /\ done' = done \union {j}
  /\ UNCHANGED <<console, active, result, events, named, streamVars>>

(* except Exception: the status first, then the event. *)
CatchStatus(j) ==
  /\ At(j, "raised", "reporting")
  /\ status' = [status EXCEPT ![j] = "failed"]
  /\ UNCHANGED <<console, active, result, events, named, done, streamVars>>

CatchReport(j) ==
  /\ At(j, "reporting", "finally")
  /\ Append1(j, "error")
  /\ UNCHANGED <<console, active, result, status, named, done, streamVars>>

\* Mutant: only a run that succeeds is marked done.
SetDoneOnSuccess(j) ==
  /\ At(j, "finally", "releasing")
  /\ done' = IF status[j] = "failed" THEN done ELSE done \union {j}
  /\ UNCHANGED <<console, active, result, status, events, named, streamVars>>

SetDone(j) ==
  /\ At(j, "finally", "releasing")
  /\ done' = done \union {j}
  /\ UNCHANGED <<console, active, result, status, events, named, streamVars>>

\* Mutant: only a run that does not fail gives the console up.
ReleaseOnSuccess(j) ==
  /\ At(j, "releasing", "ended")
  /\ active' = IF status[j] = "failed" THEN active ELSE NoJob
  /\ UNCHANGED <<console, result, status, events, named, done, streamVars>>

Release(j) ==
  /\ At(j, "releasing", "ended")
  /\ active' = NoJob
  /\ UNCHANGED <<console, result, status, events, named, done, streamVars>>

Work(j) ==
  \/ Progress(j) \/ Finish(j) \/ Raise(j) \/ StoreStatus(j) \/ StoreName(j)
  \/ CatchStatus(j) \/ CatchReport(j) \/ SetDone(j) \/ Release(j)
-----------------------------------------------------------------------------
(* The streams. *)

Move(s, here, next) == stream[s] = here /\ stream' = [stream EXCEPT ![s] = next]

Receive(s, e) == got' = [got EXCEPT ![s] = Append(@, e)]

Open(s, j) ==
  /\ stream[s] \in {"closed", "finished"}
  /\ status[j] # "absent"
  /\ stream' = [stream EXCEPT ![s] = "draining"]
  /\ watched' = [watched EXCEPT ![s] = j]
  /\ sent' = [sent EXCEPT ![s] = 0]
  /\ linkable' = linkable \ {s}
  /\ got' = [got EXCEPT ![s] = <<>>]
  /\ UNCHANGED <<console, jobVars>>

(* Where a stream finds the run to link to when it takes a done event: in  *)
(* the job (web/app.py), or in the event (web_dispatch/app.py), which      *)
(* carries the stamp unless it reports a failure.                          *)
Linkable(j, e) == IF console = "wave" THEN j \in named ELSE e = "done"

Take(s) ==
  LET j == watched[s]  e == events[j][sent[s] + 1] IN
  /\ stream[s] = "draining"
  /\ sent[s] < Len(events[j])
  /\ sent' = [sent EXCEPT ![s] = @ + 1]
  /\ IF e = "line"
     THEN Receive(s, e) /\ UNCHANGED <<stream, linkable>>
     ELSE /\ Move(s, "draining", "linking")
          /\ linkable' = IF Linkable(j, e) THEN linkable \union {s} ELSE linkable \ {s}
          /\ UNCHANGED got
  /\ UNCHANGED <<console, jobVars, watched>>

\* Mutant: a run with a name is linked to, whatever its status.
SendDoneUnchecked(s) ==
  LET j == watched[s] IN
  /\ Move(s, "linking", "draining")
  /\ Receive(s, IF s \in linkable THEN "link" ELSE events[j][sent[s]])
  /\ UNCHANGED <<console, jobVars, watched, sent, linkable>>

(* The status is read after the name, and the done event is sent. *)
SendDone(s) ==
  LET j == watched[s] IN
  /\ Move(s, "linking", "draining")
  /\ Receive(s, IF s \in linkable /\ status[j] # "failed" THEN "link" ELSE events[j][sent[s]])
  /\ UNCHANGED <<console, jobVars, watched, sent, linkable>>

Drained(s) ==
  /\ sent[s] >= Len(events[watched[s]])
  /\ Move(s, "draining", "testing")
  /\ UNCHANGED <<console, jobVars, watched, sent, linkable, got>>

(* The stream ends when the job is done and all is sent, or sleeps.        *)
Test(s) ==
  LET j == watched[s] IN
  /\ Move(s, "testing",
          IF j \in done /\ sent[s] >= Len(events[j]) THEN "finished" ELSE "draining")
  /\ UNCHANGED <<console, jobVars, watched, sent, linkable, got>>

(* The browser goes away. *)
Drop(s) ==
  /\ stream[s] \in {"draining", "linking", "testing"}
  /\ stream' = [stream EXCEPT ![s] = "closed"]
  /\ UNCHANGED <<console, jobVars, watched, sent, linkable, got>>

Serve(s) == Take(s) \/ SendDone(s) \/ Drained(s) \/ Test(s)
-----------------------------------------------------------------------------
Next ==
  \/ \E j \in Jobs : Start(j) \/ Work(j)
  \/ \E s \in Streams : Serve(s) \/ Drop(s) \/ \E j \in Jobs : Open(s, j)

Spec == Init /\ [][Next]_vars

(* A worker thread keeps running and its pipeline ends (it makes bounded   *)
(* calls and emits MaxLines lines at most); so does the thread of a        *)
(* stream.  No request, connection or disconnection has to happen.         *)
FairSpec ==
  /\ Spec
  /\ \A j \in Jobs : WF_vars(Work(j))
  /\ \A s \in Streams : WF_vars(Serve(s))
-----------------------------------------------------------------------------
Statuses == {"absent", "running", "success", "empty", "failed"}
Running == {"working", "returning", "storing", "raised", "reporting", "finally", "releasing"}

TypeOK ==
  /\ console \in {"wave", "dispatch"}
  /\ active \in Jobs \union {NoJob}
  /\ worker \in [Jobs -> {"none", "ended"} \union Running]
  /\ result \in [Jobs -> {"", "success", "empty", "failed"}]
  /\ status \in [Jobs -> Statuses]
  /\ events \in [Jobs -> Seq({"line", "done", "error"})]
  /\ named \subseteq Jobs
  /\ done \subseteq Jobs
  /\ stream \in [Streams -> {"closed", "draining", "linking", "testing", "finished"}]
  /\ watched \in [Streams -> Jobs]
  /\ sent \in [Streams -> Nat]
  /\ linkable \subseteq Streams
  /\ got \in [Streams -> Seq({"line", "done", "error", "link"})]

(* One run at a time: a second click never sets a second pipeline going,   *)
(* whether the first is starting, working or on its way out.               *)
OneRunAtATime ==
  \A j, k \in Jobs : worker[j] \in Running /\ worker[k] \in Running => j = k

(* However it ended, a job that is done has told its streams so exactly    *)
(* once, in its last event, and that event agrees with its status.         *)
OneVerdict ==
  \A j \in done :
    LET n == Len(events[j]) IN
    /\ n > 0
    /\ \A i \in 1 .. n : events[j][i] # "line" <=> i = n
    /\ events[j][n] = "error" <=> status[j] = "failed"

(* A stream that ends by itself has sent every event of its job, in order, *)
(* its verdict included, although it looks at the job without a lock.      *)
StreamsComplete ==
  \A s \in Streams : stream[s] = "finished" =>
    LET sentBy == events[watched[s]] IN
    /\ watched[s] \in done
    /\ Len(got[s]) = Len(sentBy)
    /\ \A i \in 1 .. Len(sentBy) : got[s][i] \in {sentBy[i]} \union
         (IF sentBy[i] = "line" THEN {} ELSE {"link"})

(* A link is only ever offered to a run that did not fail, also by a       *)
(* stream that looks between two of the worker's assignments: the status   *)
(* is stored before the name, and read after it.                           *)
NoLinkToFailure ==
  \A s \in Streams : (\E i \in 1 .. Len(got[s]) : got[s][i] = "link")
    => result[watched[s]] \in {"success", "empty"}

(* "On done, the panel swaps in a 'View run' link" (the console's design): *)
(* whoever watches a run that did not fail receives the link with the done *)
(* event.                                                                  *)
DoneOffersLink ==
  \A s \in Streams : stream[s] = "finished" /\ result[watched[s]] \in {"success", "empty"}
    => \E i \in 1 .. Len(got[s]) : got[s][i] = "link"

(* Every run, however it ended, gives the console up for the next click.   *)
ConsoleFreed ==
  \A j \in Jobs : active = j ~> active # j

(* Every stream that stays connected is ended by the server.               *)
StreamsEnd ==
  \A s \in Streams : stream[s] = "draining" ~> stream[s] \in {"finished", "closed"}

(* Neither the next click nor a browser waits for ever, also when the      *)
(* runner raised or reported failure before it returned.                   *)
NobodyWaits == ConsoleFreed /\ StreamsEnd
=============================================================================
