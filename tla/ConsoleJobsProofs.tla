------------------------- MODULE ConsoleJobsProofs -------------------------
(***************************************************************************)
(* The consoles, for any number of clicks, browsers and progress lines:    *)
(* one run at a time, one verdict a run, streams that miss nothing, and no *)
(* link to a failed one.                                                   *)
(***************************************************************************)
EXTENDS ConsoleJobs, TLAPS

Good == {"success", "empty"}

(* Whose thread runs is the active job.                                    *)
ActiveRuns == \A j \in Jobs : worker[j] \in Running => active = j

(* What is stored when: no result before the pipeline returns, the status  *)
(* before the name, and no name for a pipeline that raised.                *)
StoredAt(j) ==
  /\ worker[j] \in {"none", "working"} => result[j] = ""
  /\ worker[j] = "returning" => result[j] # ""
  /\ worker[j] = "storing" => result[j] # "" /\ status[j] = result[j]
  /\ j \in named => /\ worker[j] \in {"finally", "releasing", "ended"}
                    /\ result[j] # "" /\ status[j] = result[j]

Stored == \A j \in Jobs : StoredAt(j)

(* A done event that reports no failure is followed by a good result.      *)
Told ==
  \A j \in Jobs : \A i \in 1 .. Len(events[j]) :
    /\ events[j][i] = "done" => result[j] \in Good
    /\ worker[j] \in {"none", "working"} => events[j][i] = "line"

(* A stream about to link has seen a name, or such an event; one that has  *)
(* linked was right to.                                                    *)
LinkedAt(s) ==
  /\ stream[s] = "linking" => sent[s] \in 1 .. Len(events[watched[s]])
  /\ (stream[s] = "linking" /\ s \in linkable) =>
       IF console = "wave" THEN watched[s] \in named ELSE result[watched[s]] \in Good
  /\ \A i \in 1 .. Len(got[s]) : got[s][i] = "link" => result[watched[s]] \in Good

Linking == \A s \in Streams : LinkedAt(s)

IInv == TypeOK /\ ActiveRuns /\ Stored /\ Told /\ Linking

USE DEF Running, Statuses, Good, At, Append1, Move, Receive, jobVars, streamVars

LEMMA Initially == Init => IInv
<1> SUFFICES ASSUME Init PROVE IInv
  OBVIOUS
<1>1. \A S : <<>> \in Seq(S) /\ Len(<<>>) = 0
  OBVIOUS
<1>2. events \in [Jobs -> Seq({"line", "done", "error"})]
  BY <1>1 DEF Init
<1>3. got \in [Streams -> Seq({"line", "done", "error", "link"})]
  BY <1>1 DEF Init
<1>4. TypeOK
  BY <1>2, <1>3 DEF Init, TypeOK
<1>5. ActiveRuns /\ Stored
  BY DEF Init, ActiveRuns, Stored, StoredAt
<1>6. Told
  <2> SUFFICES ASSUME NEW j \in Jobs PROVE Len(events[j]) = 0
    BY DEF Told
  <2> QED BY <1>1 DEF Init
<1>7. Linking
  <2> SUFFICES ASSUME NEW s \in Streams
               PROVE  stream[s] = "closed" /\ Len(got[s]) = 0
    BY DEF Linking, LinkedAt
  <2> QED BY <1>1 DEF Init
<1> QED BY <1>4, <1>5, <1>6, <1>7 DEF IInv
-----------------------------------------------------------------------------
LEMMA LogGrows ==
  ASSUME NEW D, NEW S, NEW log \in [D -> Seq(S)], NEW d \in D, NEW e \in S
  PROVE  [log EXCEPT ![d] = Append(@, e)] \in [D -> Seq(S)]
OBVIOUS

Events == {"line", "done", "error"}
Received == Events \union {"link"}

LEMMA JobTypesKept ==
  ASSUME TypeOK, Stored, NEW j \in Jobs, Start(j) \/ Work(j)
  PROVE  TypeOK'
<1>1. events \in [Jobs -> Seq(Events)] /\ "line" \in Events /\ "done" \in Events
      /\ "error" \in Events
  BY DEF TypeOK, Events
<1>2. \A e \in Events : Append1(j, e) => events' \in [Jobs -> Seq({"line", "done", "error"})]
  BY <1>1, LogGrows DEF Events
<1>3. CASE Start(j)
  BY <1>3 DEF Start, TypeOK
<1>4. CASE Progress(j)
  BY <1>1, <1>2, <1>4 DEF Progress, TypeOK
<1>5. CASE Finish(j)
  <2>1. events' \in [Jobs -> Seq({"line", "done", "error"})]
    BY <1>1, <1>2, <1>5 DEF Finish
  <2>2. PICK outcome \in {"success", "empty", "failed"} :
          result' = [result EXCEPT ![j] = outcome]
    BY <1>5 DEF Finish
  <2>3. result' \in [Jobs -> {"", "success", "empty", "failed"}]
    BY <2>2 DEF TypeOK
  <2>4. worker' \in [Jobs -> {"none", "ended"} \union Running]
    BY <1>5 DEF Finish, TypeOK
  <2> QED BY <1>5, <2>1, <2>3, <2>4 DEF Finish, TypeOK
<1>6. CASE Raise(j)
  BY <1>6 DEF Raise, TypeOK
<1>7. CASE StoreStatus(j)
  <2>1. result[j] \in Statuses
    BY <1>7 DEF StoreStatus, TypeOK, Stored, StoredAt
  <2> QED BY <1>7, <2>1 DEF StoreStatus, TypeOK
<1>8. CASE StoreName(j)
  BY <1>8 DEF StoreName, TypeOK
<1>9. CASE CatchStatus(j)
  BY <1>9 DEF CatchStatus, TypeOK
<1>10. CASE CatchReport(j)
  BY <1>1, <1>2, <1>10 DEF CatchReport, TypeOK
<1>11. CASE SetDone(j)
  BY <1>11 DEF SetDone, TypeOK
<1>12. CASE Release(j)
  BY <1>12 DEF Release, TypeOK
<1> QED BY <1>3, <1>4, <1>5, <1>6, <1>7, <1>8, <1>9, <1>10, <1>11, <1>12 DEF Work

LEMMA StreamTypesKept ==
  ASSUME TypeOK, Linking, NEW s \in Streams, Serve(s) \/ Drop(s) \/ \E j \in Jobs : Open(s, j)
  PROVE  TypeOK'
<1>1. /\ got \in [Streams -> Seq(Received)]
      /\ Events \subseteq Received /\ "line" \in Received /\ "link" \in Received
  BY DEF TypeOK, Events, Received
<1>2. \A e \in Received :
        Receive(s, e) => got' \in [Streams -> Seq({"line", "done", "error", "link"})]
  BY <1>1, LogGrows DEF Events, Received
<1>3. CASE Take(s)
  <2> DEFINE e == events[watched[s]][sent[s] + 1]
  <2>1. got' \in [Streams -> Seq({"line", "done", "error", "link"})]
    <3>1. CASE e = "line"
      BY <1>1, <1>2, <1>3, <3>1 DEF Take
    <3>2. CASE e # "line"
      BY <1>3, <3>2 DEF Take, TypeOK
    <3> QED BY <3>1, <3>2
  <2>2. linkable' \subseteq Streams
    <3>1. linkable' \in {linkable, linkable \union {s}, linkable \ {s}}
      BY <1>3 DEF Take
    <3> QED BY <3>1 DEF TypeOK
  <2>3. stream' \in [Streams -> {"closed", "draining", "linking", "testing", "finished"}]
    <3>1. stream' = stream \/ stream' = [stream EXCEPT ![s] = "linking"]
      BY <1>3 DEF Take
    <3> QED BY <3>1 DEF TypeOK
  <2>4. sent' \in [Streams -> Nat]
    <3>1. sent' = [sent EXCEPT ![s] = sent[s] + 1] /\ sent \in [Streams -> Nat]
      BY <1>3 DEF Take, TypeOK
    <3> QED BY <3>1
  <2>5. UNCHANGED <<console, jobVars, watched>>
    BY <1>3 DEF Take
  <2> QED BY <2>1, <2>2, <2>3, <2>4, <2>5 DEF TypeOK
<1>4. CASE SendDone(s)
  <2>1. events[watched[s]] \in Seq(Events) /\ sent[s] \in 1 .. Len(events[watched[s]])
    BY <1>4 DEF SendDone, Linking, LinkedAt, TypeOK, Events
  <2>2. events[watched[s]][sent[s]] \in Received
    BY <1>1, <2>1
  <2>3. got' \in [Streams -> Seq({"line", "done", "error", "link"})]
    BY <1>1, <1>2, <1>4, <2>2 DEF SendDone
  <2> QED BY <1>4, <2>3 DEF SendDone, TypeOK
<1>5. CASE Drained(s)
  BY <1>5 DEF Drained, TypeOK
<1>6. CASE Test(s)
  BY <1>6 DEF Test, TypeOK
<1>7. CASE Drop(s)
  BY <1>7 DEF Drop, TypeOK
<1>8. ASSUME NEW j \in Jobs, Open(s, j) PROVE TypeOK'
  <2>1. got' \in [Streams -> Seq({"line", "done", "error", "link"})]
    <3>1. <<>> \in Seq(Received)
      OBVIOUS
    <3> QED BY <1>1, <1>8, <3>1 DEF Open, Received, Events
  <2> QED BY <1>8, <2>1 DEF Open, TypeOK
<1> QED BY <1>3, <1>4, <1>5, <1>6, <1>7, <1>8 DEF Serve
-----------------------------------------------------------------------------
LEMMA ActiveKept ==
  ASSUME IInv, NEW j \in Jobs, Start(j) \/ Work(j)
  PROVE  ActiveRuns'
<1>1. TypeOK /\ ActiveRuns /\ worker \in [Jobs -> {"none", "ended"} \union Running]
  BY DEF IInv, TypeOK
<1>2. CASE Start(j)
  <2>1. \A k \in Jobs : worker[k] \notin Running
    BY <1>1, <1>2, JobsAssumption DEF Start, ActiveRuns
  <2>2. active' = j /\ \A k \in Jobs : k # j => worker'[k] = worker[k]
    BY <1>1, <1>2 DEF Start
  <2> QED BY <2>1, <2>2 DEF ActiveRuns
<1>3. CASE Release(j)
  <2>1. \A k \in Jobs : k # j => worker[k] \notin Running
    BY <1>1, <1>3 DEF Release, ActiveRuns
  <2>2. worker'[j] = "ended" /\ \A k \in Jobs : k # j => worker'[k] = worker[k]
    BY <1>1, <1>3 DEF Release
  <2> QED BY <2>1, <2>2 DEF ActiveRuns
<1>4. ASSUME worker[j] \in Running, active' = active,
             \A k \in Jobs : k # j => worker'[k] = worker[k]
      PROVE  ActiveRuns'
  BY <1>1, <1>4 DEF ActiveRuns
<1>5. CASE Work(j) /\ ~Release(j)
  <2>1. worker[j] \in Running /\ active' = active
    BY <1>5 DEF Work, Progress, Finish, Raise, StoreStatus, StoreName, CatchStatus,
                CatchReport, SetDone
  <2>2. \A k \in Jobs : k # j => worker'[k] = worker[k]
    BY <1>1, <1>5 DEF Work, Progress, Finish, Raise, StoreStatus, StoreName, CatchStatus,
                CatchReport, SetDone
  <2> QED BY <1>4, <2>1, <2>2
<1> QED BY <1>2, <1>3, <1>5

LEMMA StoredKept ==
  ASSUME IInv, NEW j \in Jobs, Start(j) \/ Work(j)
  PROVE  Stored'
<1>1. /\ TypeOK /\ Stored
      /\ worker \in [Jobs -> {"none", "ended"} \union Running]
      /\ result \in [Jobs -> {"", "success", "empty", "failed"}]
      /\ status \in [Jobs -> Statuses]
  BY DEF IInv, TypeOK
<1>2. \A k \in Jobs : k # j =>
        /\ worker'[k] = worker[k] /\ result'[k] = result[k] /\ status'[k] = status[k]
        /\ k \in named' <=> k \in named
  BY <1>1 DEF Work, Start, Progress, Finish, Raise, StoreStatus, StoreName, CatchStatus,
              CatchReport, SetDone, Release
<1>3. StoredAt(j)'
  <2>0. StoredAt(j)
    BY <1>1 DEF Stored
  <2>1. CASE Start(j) \/ Progress(j) \/ Raise(j)
    BY <1>1, <2>0, <2>1 DEF Start, Progress, Raise, StoredAt
  <2>2. CASE Finish(j)
    <3>1. PICK outcome \in {"success", "empty", "failed"} :
            result' = [result EXCEPT ![j] = outcome]
      BY <2>2 DEF Finish
    <3>2. result'[j] # "" /\ worker'[j] = "returning"
      BY <1>1, <2>2, <3>1 DEF Finish
    <3>3. j \notin named'
      BY <2>0, <2>2 DEF Finish, StoredAt
    <3> QED BY <3>2, <3>3 DEF StoredAt
  <2>3. CASE StoreStatus(j) \/ StoreName(j)
    BY <1>1, <2>0, <2>3 DEF StoreStatus, StoreName, StoredAt
  <2>4. CASE CatchStatus(j) \/ CatchReport(j)
    BY <1>1, <2>0, <2>4 DEF CatchStatus, CatchReport, StoredAt
  <2>5. CASE SetDone(j) \/ Release(j)
    BY <1>1, <2>0, <2>5 DEF SetDone, Release, StoredAt
  <2> QED BY <2>1, <2>2, <2>3, <2>4, <2>5 DEF Work
<1> QED BY <1>1, <1>2, <1>3 DEF Stored, StoredAt

(* A result, once there, stays.                                            *)
LEMMA ResultStays ==
  ASSUME IInv, NEW j \in Jobs, Start(j) \/ Work(j)
  PROVE  \A k \in Jobs : result[k] # "" => result'[k] = result[k]
<1>1. TypeOK /\ Stored /\ result \in [Jobs -> {"", "success", "empty", "failed"}]
  BY DEF IInv, TypeOK
<1> QED BY <1>1 DEF Stored, StoredAt, Work, Start, Progress, Finish, Raise, StoreStatus, StoreName,
                    CatchStatus, CatchReport, SetDone, Release

LEMMA LogStays ==
  ASSUME IInv, NEW j \in Jobs, Start(j) \/ Work(j), NEW k \in Jobs
  PROVE  1 .. Len(events[k]) \subseteq 1 .. Len(events'[k])
<1>1. events \in [Jobs -> Seq(Events)]
  BY DEF IInv, TypeOK, Events
<1>2. events' = events \/ \E e \in Events : Append1(j, e)
  BY DEF Work, Start, Progress, Finish, Raise, StoreStatus, StoreName, CatchStatus,
         CatchReport, SetDone, Release, Events
<1>3. ASSUME NEW e \in Events, Append1(j, e) PROVE Len(events'[k]) \in {Len(events[k]), Len(events[k]) + 1}
  <2>1. events[k] \in Seq(Events) /\ events[j] \in Seq(Events)
    BY <1>1
  <2>2. CASE k = j
    BY <1>1, <1>3, <2>1, <2>2
  <2>3. CASE k # j
    BY <1>1, <1>3, <2>3
  <2> QED BY <2>2, <2>3
<1>4. Len(events[k]) \in Nat
  BY <1>1
<1> QED BY <1>2, <1>3, <1>4

LEMMA ToldKept ==
  ASSUME IInv, NEW j \in Jobs, Start(j) \/ Work(j)
  PROVE  Told'
<1>1. /\ TypeOK /\ Stored /\ Told
      /\ events \in [Jobs -> Seq({"line", "done", "error"})]
      /\ worker \in [Jobs -> {"none", "ended"} \union Running]
      /\ result \in [Jobs -> {"", "success", "empty", "failed"}]
  BY DEF IInv, TypeOK
<1> SUFFICES ASSUME NEW k \in Jobs, NEW i \in 1 .. Len(events'[k])
             PROVE  /\ events'[k][i] = "done" => result'[k] \in Good
                    /\ worker'[k] \in {"none", "working"} => events'[k][i] = "line"
  BY DEF Told
<1>2. worker'[k] \in {"none", "working"} => worker[k] \in {"none", "working"}
  BY <1>1 DEF Work, Start, Progress, Finish, Raise, StoreStatus, StoreName, CatchStatus,
              CatchReport, SetDone, Release
<1>3. CASE i \in 1 .. Len(events[k]) /\ events'[k][i] = events[k][i]
  <2>1. result[k] \in Good => result'[k] = result[k]
    BY <1>1, ResultStays
  <2> QED BY <1>1, <1>2, <1>3, <2>1 DEF Told
<1>4. CASE ~(i \in 1 .. Len(events[k]) /\ events'[k][i] = events[k][i])
  <2>1. ASSUME NEW e \in {"line", "done", "error"}, Append1(j, e)
        PROVE  k = j /\ events'[k][i] = e
    <3>1. events[k] \in Seq({"line", "done", "error"})
      BY <1>1
    <3>2. k = j
      BY <1>1, <1>4, <2>1
    <3>3. events'[k] = Append(events[k], e)
      BY <1>1, <2>1, <3>2
    <3> QED BY <1>4, <3>1, <3>2, <3>3
  <2>2. CASE Progress(j)
    BY <2>1, <2>2 DEF Progress
  <2>3. CASE Finish(j)
    <3>1. worker'[j] = "returning"
      BY <1>1, <2>3 DEF Finish
    <3>2. PICK outcome \in {"success", "empty", "failed"} :
            /\ result' = [result EXCEPT ![j] = outcome]
            /\ Append1(j, IF outcome = "failed" THEN "error" ELSE "done")
      BY <2>3 DEF Finish
    <3>3. k = j /\ result'[j] = outcome
          /\ events'[k][i] = IF outcome = "failed" THEN "error" ELSE "done"
      BY <1>1, <2>1, <3>2
    <3> QED BY <3>1, <3>3
  <2>4. CASE CatchReport(j)
    <3>1. worker'[j] = "finally"
      BY <1>1, <2>4 DEF CatchReport
    <3> QED BY <2>1, <2>4, <3>1 DEF CatchReport
  <2>5. CASE events' = events
    BY <1>1, <1>4, <2>5
  <2>6. events' = events \/ Progress(j) \/ Finish(j) \/ CatchReport(j)
    BY DEF Work, Start, Raise, StoreStatus, StoreName, CatchStatus, SetDone, Release
  <2> QED BY <2>2, <2>3, <2>4, <2>5, <2>6
<1> QED BY <1>3, <1>4

(* The manager's steps keep what streams have seen true.                   *)
LEMMA LinkingStands ==
  ASSUME IInv, NEW j \in Jobs, Start(j) \/ Work(j)
  PROVE  Linking'
<1>1. TypeOK /\ Linking /\ watched \in [Streams -> Jobs]
  BY DEF IInv, TypeOK
<1>2. UNCHANGED <<console, stream, watched, sent, linkable, got>>
  BY DEF Work, Start, Progress, Finish, Raise, StoreStatus, StoreName, CatchStatus,
         CatchReport, SetDone, Release
<1>3. named \subseteq named'
  BY DEF Work, Start, Progress, Finish, Raise, StoreStatus, StoreName, CatchStatus,
         CatchReport, SetDone, Release
<1>4. \A s \in Streams :
        /\ 1 .. Len(events[watched[s]]) \subseteq 1 .. Len(events'[watched[s]])
        /\ result[watched[s]] \in Good => result'[watched[s]] \in Good
  BY <1>1, LogStays, ResultStays
<1> QED BY <1>1, <1>2, <1>3, <1>4 DEF Linking, LinkedAt

LEMMA LinkingKept ==
  ASSUME IInv, NEW s \in Streams, Serve(s) \/ Drop(s) \/ \E j \in Jobs : Open(s, j)
  PROVE  Linking'
<1>1. /\ TypeOK /\ Stored /\ Told /\ Linking
      /\ watched \in [Streams -> Jobs] /\ sent \in [Streams -> Nat]
      /\ stream \in [Streams -> {"closed", "draining", "linking", "testing", "finished"}]
      /\ events \in [Jobs -> Seq(Events)] /\ got \in [Streams -> Seq(Received)]
  BY DEF IInv, TypeOK, Events, Received
<1>2. UNCHANGED <<console, jobVars>>
  BY DEF Serve, Take, SendDone, Drained, Test, Drop, Open
<1>3. \A t \in Streams : t # s =>
        /\ stream'[t] = stream[t] /\ watched'[t] = watched[t] /\ sent'[t] = sent[t]
        /\ got'[t] = got[t] /\ (t \in linkable' <=> t \in linkable)
  BY <1>1 DEF Serve, Take, SendDone, Drained, Test, Drop, Open
<1>4. ASSUME NEW t \in Streams, t # s PROVE LinkedAt(t)'
  <2>1. LinkedAt(t)
    BY <1>1 DEF Linking
  <2>2. /\ stream'[t] = stream[t] /\ watched'[t] = watched[t] /\ sent'[t] = sent[t]
        /\ got'[t] = got[t] /\ (t \in linkable' <=> t \in linkable)
    BY <1>3, <1>4
  <2>3. console' = console /\ named' = named /\ result' = result /\ events' = events
    BY <1>2
  <2> QED BY <2>1, <2>2, <2>3 DEF LinkedAt
<1>5. LinkedAt(s)
  BY <1>1 DEF Linking
<1>6. ASSUME NEW e \in Received, Receive(s, e),
             e = "link" => result[watched[s]] \in Good, watched' = watched
      PROVE  \A i \in 1 .. Len(got'[s]) : got'[s][i] = "link" => result'[watched'[s]] \in Good
  <2>1. got[s] \in Seq(Received) /\ got'[s] = Append(got[s], e)
    BY <1>1, <1>6
  <2>2. \A i \in 1 .. Len(got'[s]) : got'[s][i] = e \/
          (i \in 1 .. Len(got[s]) /\ got'[s][i] = got[s][i])
    BY <2>1
  <2>3. result'[watched'[s]] = result[watched[s]]
    BY <1>2, <1>6
  <2> QED BY <1>5, <1>6, <2>2, <2>3 DEF LinkedAt
<1>7. ASSUME Take(s) PROVE LinkedAt(s)'
  <2> DEFINE j == watched[s]
             e == events[j][sent[s] + 1]
  <2>1. j \in Jobs /\ sent[s] + 1 \in 1 .. Len(events[j]) /\ e \in Events
    BY <1>1, <1>7 DEF Take
  <2>2. watched' = watched /\ events' = events /\ result' = result /\ named' = named
        /\ console' = console /\ sent'[s] = sent[s] + 1
    BY <1>1, <1>2, <1>7 DEF Take
  <2>3. CASE e = "line"
    <3>1. stream'[s] = "draining" /\ Receive(s, "line")
      BY <1>7, <2>3 DEF Take
    <3>2. "line" \in Received
      BY DEF Received, Events
    <3> QED BY <1>6, <2>2, <3>1, <3>2 DEF LinkedAt
  <2>4. CASE e # "line"
    <3>1. got' = got /\ linkable' = IF Linkable(j, e) THEN linkable \union {s} ELSE linkable \ {s}
      BY <1>7, <2>4 DEF Take
    <3>2. s \in linkable' => Linkable(j, e)
      BY <3>1
    <3>3. e = "done" => result[j] \in Good
      BY <1>1, <2>1 DEF Told
    <3>4. s \in linkable' => IF console' = "wave" THEN watched'[s] \in named'
                             ELSE result'[watched'[s]] \in Good
      BY <2>2, <3>2, <3>3 DEF Linkable
    <3>5. sent'[s] \in 1 .. Len(events'[watched'[s]])
      BY <2>1, <2>2
    <3>6. \A i \in 1 .. Len(got'[s]) : got'[s][i] = "link" => result'[watched'[s]] \in Good
      BY <1>5, <2>2, <3>1 DEF LinkedAt
    <3> QED BY <3>4, <3>5, <3>6 DEF LinkedAt
  <2> QED BY <2>3, <2>4
<1>8. ASSUME SendDone(s) PROVE LinkedAt(s)'
  <2> DEFINE e == IF s \in linkable /\ status[watched[s]] # "failed" THEN "link"
                  ELSE events[watched[s]][sent[s]]
  <2>1. sent[s] \in 1 .. Len(events[watched[s]])
    BY <1>5, <1>8 DEF SendDone, LinkedAt
  <2>2. watched[s] \in Jobs /\ events[watched[s]][sent[s]] \in Events
    BY <1>1, <2>1
  <2>3. e \in Received
    BY <2>2 DEF Received
  <2>4. e = "link" => result[watched[s]] \in Good
    <3>1. "link" \notin Events
      BY DEF Events
    <3>2. CASE s \in linkable /\ status[watched[s]] # "failed"
      <4>1. watched[s] \in named => result[watched[s]] \in Good
        BY <1>1, <2>2, <3>2 DEF Stored, StoredAt, TypeOK
      <4> QED BY <1>5, <1>8, <3>2, <4>1 DEF SendDone, LinkedAt
    <3> QED BY <2>2, <3>1, <3>2
  <2>5. Receive(s, e) /\ watched' = watched /\ stream'[s] = "draining"
    BY <1>1, <1>8 DEF SendDone
  <2>6. \A i \in 1 .. Len(got'[s]) : got'[s][i] = "link" => result'[watched'[s]] \in Good
    BY <1>6, <2>3, <2>4, <2>5
  <2> QED BY <2>5, <2>6 DEF LinkedAt
<1>9. ASSUME Drained(s) \/ Test(s) \/ Drop(s) PROVE LinkedAt(s)'
  <2>1. stream'[s] # "linking" /\ UNCHANGED <<got, watched, result>>
    BY <1>1, <1>9 DEF Drained, Test, Drop
  <2> QED BY <1>5, <2>1 DEF LinkedAt
<1>10. ASSUME NEW j \in Jobs, Open(s, j) PROVE LinkedAt(s)'
  <2>1. stream'[s] = "draining" /\ got'[s] = <<>>
    BY <1>1, <1>10 DEF Open
  <2>2. Len(got'[s]) = 0
    BY <2>1
  <2> QED BY <2>1, <2>2 DEF LinkedAt
<1>11. LinkedAt(s)'
  BY <1>7, <1>8, <1>9, <1>10 DEF Serve
<1> QED BY <1>4, <1>11 DEF Linking
-----------------------------------------------------------------------------
LEMMA Invariance == Spec => []IInv
<1>1. Init => IInv
  BY Initially
<1>2. IInv /\ [Next]_vars => IInv'
  <2> SUFFICES ASSUME IInv, [Next]_vars PROVE IInv'
    OBVIOUS
  <2>1. ASSUME NEW j \in Jobs, Start(j) \/ Work(j) PROVE IInv'
    BY <2>1, JobTypesKept, ActiveKept, StoredKept, ToldKept, LinkingStands DEF IInv
  <2>2. ASSUME NEW s \in Streams, Serve(s) \/ Drop(s) \/ \E j \in Jobs : Open(s, j)
        PROVE  IInv'
    <3>1. TypeOK' /\ Linking'
      BY <2>2, StreamTypesKept, LinkingKept DEF IInv
    <3>2. UNCHANGED <<console, jobVars>>
      BY <2>2 DEF Serve, Take, SendDone, Drained, Test, Drop, Open
    <3>3. ActiveRuns' /\ Stored' /\ Told'
      BY <3>2 DEF IInv, ActiveRuns, Stored, StoredAt, Told
    <3> QED BY <3>1, <3>3 DEF IInv
  <2>3. CASE UNCHANGED vars
    <3>1. TypeOK'
      BY <2>3 DEF vars, IInv, TypeOK
    <3>2. ActiveRuns' /\ Stored' /\ Told'
      BY <2>3 DEF vars, IInv, ActiveRuns, Stored, StoredAt, Told
    <3>3. Linking'
      BY <2>3 DEF vars, IInv, Linking, LinkedAt
    <3> QED BY <3>1, <3>2, <3>3 DEF IInv
  <2> QED BY <2>1, <2>2, <2>3 DEF Next
<1> QED BY <1>1, <1>2, PTL DEF Spec
-----------------------------------------------------------------------------
(* What a job has told, by where its thread is: progress only up to the    *)
(* end of the pipeline, then one verdict, last, that agrees with the       *)
(* result and, once it is stored, with the status.                         *)
Silent(log) == \A i \in 1 .. Len(log) : log[i] = "line"

Spoken(log) == /\ Len(log) > 0
               /\ \A i \in 1 .. Len(log) : log[i] # "line" <=> i = Len(log)

Failing(log) == log[Len(log)] = "error"

VerdictAt(j) ==
  /\ worker[j] \in {"none", "working", "raised", "reporting"} => Silent(events[j])
  /\ worker[j] \in {"returning", "storing", "finally", "releasing", "ended"} => Spoken(events[j])
  /\ worker[j] = "returning" => (Failing(events[j]) <=> result[j] = "failed")
  /\ worker[j] = "reporting" => status[j] = "failed"
  /\ worker[j] \in {"storing", "finally", "releasing", "ended"} =>
       (Failing(events[j]) <=> status[j] = "failed")
  /\ j \in done => worker[j] \in {"releasing", "ended"}

Verdicts == \A j \in Jobs : VerdictAt(j)

(* What a stream has received: what it has taken, without the event it is  *)
(* about to link; one that has finished has taken all of a job that is     *)
(* done.                                                                   *)
Relayed(e) == {e} \union (IF e = "line" THEN {} ELSE {"link"})

ReadAt(s) ==
  LET log == events[watched[s]] IN
  /\ sent[s] <= Len(log)
  /\ stream[s] = "linking" =>
       sent[s] > 0 /\ Len(got[s]) = sent[s] - 1 /\ log[sent[s]] # "line"
  /\ stream[s] \in {"draining", "testing", "finished"} => Len(got[s]) = sent[s]
  /\ Len(got[s]) <= sent[s]
  /\ \A i \in 1 .. Len(got[s]) : got[s][i] \in Relayed(log[i])
  /\ stream[s] = "finished" => watched[s] \in done /\ sent[s] = Len(log)

Reads == \A s \in Streams : ReadAt(s)

TInv == IInv /\ Verdicts /\ Reads

LEMMA InitiallyTold == Init => TInv
<1> SUFFICES ASSUME Init PROVE TInv
  OBVIOUS
<1>1. \A j \in Jobs : Len(events[j]) = 0
  BY DEF Init
<1>2. Verdicts
  <2> SUFFICES ASSUME NEW j \in Jobs PROVE VerdictAt(j)
    BY DEF Verdicts
  <2>1. worker[j] = "none" /\ j \notin done
    BY DEF Init
  <2>2. Silent(events[j])
    BY <1>1 DEF Silent
  <2> QED BY <2>1, <2>2 DEF VerdictAt
<1>3. Reads
  <2> SUFFICES ASSUME NEW s \in Streams PROVE ReadAt(s)
    BY DEF Reads
  <2>1. stream[s] = "closed" /\ sent[s] = 0 /\ Len(got[s]) = 0 /\ watched[s] \in Jobs
    BY DEF Init
  <2> QED BY <1>1, <2>1 DEF ReadAt
<1> QED BY <1>2, <1>3, Initially DEF TInv

(* A job's log only ever grows at its end, and not once the job is done.   *)
LEMMA LogAppended ==
  ASSUME NEW log \in Seq(Events), NEW e \in Events
  PROVE  /\ Append(log, e) \in Seq(Events)
         /\ Len(Append(log, e)) = Len(log) + 1
         /\ \A i \in 1 .. Len(log) : Append(log, e)[i] = log[i]
         /\ Append(log, e)[Len(log) + 1] = e
OBVIOUS

LEMMA StaysSilent ==
  ASSUME NEW log \in Seq(Events), Silent(log)
  PROVE  Silent(Append(log, "line"))
<1>1. "line" \in Events /\ Len(log) \in Nat
  BY DEF Events
<1>2. \A i \in 1 .. Len(log) + 1 : i \in 1 .. Len(log) \/ i = Len(log) + 1
  BY <1>1
<1> QED BY <1>1, <1>2, LogAppended DEF Silent

LEMMA Speaks ==
  ASSUME NEW log \in Seq(Events), NEW e \in Events \ {"line"}, Silent(log)
  PROVE  Spoken(Append(log, e)) /\ (Failing(Append(log, e)) <=> e = "error")
<1>1. Len(log) \in Nat
  OBVIOUS
<1>2. \A i \in 1 .. Len(log) + 1 : i \in 1 .. Len(log) \/ i = Len(log) + 1
  BY <1>1
<1>3. \A i \in 1 .. Len(log) : i # Len(log) + 1
  BY <1>1
<1> QED BY <1>1, <1>2, <1>3, LogAppended DEF Silent, Spoken, Failing

LEMMA VerdictsKept ==
  ASSUME TInv, NEW j \in Jobs, Start(j) \/ Work(j)
  PROVE  Verdicts'
<1>1. /\ VerdictAt(j) /\ StoredAt(j) /\ Verdicts
      /\ events \in [Jobs -> Seq(Events)]
      /\ worker \in [Jobs -> {"none", "ended"} \union Running]
      /\ result \in [Jobs -> {"", "success", "empty", "failed"}]
      /\ status \in [Jobs -> Statuses]
  BY DEF TInv, IInv, TypeOK, Verdicts, Stored, Events
<1>2. \A k \in Jobs : k # j =>
        /\ worker'[k] = worker[k] /\ result'[k] = result[k] /\ status'[k] = status[k]
        /\ events'[k] = events[k] /\ (k \in done' <=> k \in done)
  BY <1>1 DEF Work, Start, Progress, Finish, Raise, StoreStatus, StoreName, CatchStatus,
              CatchReport, SetDone, Release
<1>3. ASSUME Start(j) PROVE VerdictAt(j)'
  BY <1>1, <1>3 DEF Start, VerdictAt
<1>4. ASSUME Progress(j) PROVE VerdictAt(j)'
  <2>1. events'[j] = Append(events[j], "line") /\ worker'[j] = "working" /\ done' = done
    BY <1>1, <1>4 DEF Progress
  <2>2. Silent(events'[j])
    BY <1>1, <1>4, <2>1, StaysSilent DEF Progress, VerdictAt
  <2>3. j \notin done
    BY <1>1, <1>4 DEF Progress, VerdictAt
  <2> QED BY <2>1, <2>2, <2>3 DEF VerdictAt
<1>5. ASSUME Finish(j) PROVE VerdictAt(j)'
  <2>1. PICK outcome \in {"success", "empty", "failed"} :
          /\ result' = [result EXCEPT ![j] = outcome]
          /\ Append1(j, IF outcome = "failed" THEN "error" ELSE "done")
    BY <1>5 DEF Finish
  <2> DEFINE e == IF outcome = "failed" THEN "error" ELSE "done"
  <2>2. e \in Events \ {"line"} /\ (e = "error" <=> outcome = "failed")
    BY DEF Events
  <2>3. events'[j] = Append(events[j], e) /\ result'[j] = outcome
    BY <1>1, <2>1
  <2>4. worker'[j] = "returning" /\ Silent(events[j]) /\ j \notin done'
    BY <1>1, <1>5 DEF Finish, VerdictAt
  <2>5. Spoken(events'[j]) /\ (Failing(events'[j]) <=> e = "error")
    BY <1>1, <2>2, <2>3, <2>4, Speaks
  <2> QED BY <2>2, <2>3, <2>4, <2>5 DEF VerdictAt
<1>6. ASSUME Raise(j) PROVE VerdictAt(j)'
  BY <1>1, <1>6 DEF Raise, VerdictAt
<1>7. ASSUME StoreStatus(j) PROVE VerdictAt(j)'
  BY <1>1, <1>7 DEF StoreStatus, VerdictAt
<1>8. ASSUME StoreName(j) PROVE VerdictAt(j)'
  BY <1>1, <1>8 DEF StoreName, VerdictAt
<1>9. ASSUME CatchStatus(j) PROVE VerdictAt(j)'
  BY <1>1, <1>9 DEF CatchStatus, VerdictAt
<1>10. ASSUME CatchReport(j) PROVE VerdictAt(j)'
  <2>1. events'[j] = Append(events[j], "error") /\ worker'[j] = "finally"
    BY <1>1, <1>10 DEF CatchReport
  <2>2. Silent(events[j]) /\ status'[j] = "failed" /\ j \notin done'
    BY <1>1, <1>10 DEF CatchReport, VerdictAt
  <2>3. Spoken(events'[j]) /\ Failing(events'[j])
    BY <1>1, <2>1, <2>2, Speaks DEF Events
  <2> QED BY <2>1, <2>2, <2>3 DEF VerdictAt
<1>11. ASSUME SetDone(j) PROVE VerdictAt(j)'
  BY <1>1, <1>11 DEF SetDone, VerdictAt
<1>12. ASSUME Release(j) PROVE VerdictAt(j)'
  BY <1>1, <1>12 DEF Release, VerdictAt
<1>13. VerdictAt(j)'
  BY <1>3, <1>4, <1>5, <1>6, <1>7, <1>8, <1>9, <1>10, <1>11, <1>12 DEF Work
<1> QED BY <1>1, <1>2, <1>13 DEF Verdicts, VerdictAt

(* What the streams have read stays in its place, and nothing follows the  *)
(* verdict of a job that is done.                                          *)
LEMMA ReadsStand ==
  ASSUME TInv, NEW j \in Jobs, Start(j) \/ Work(j)
  PROVE  Reads'
<1>1. /\ events \in [Jobs -> Seq(Events)] /\ watched \in [Streams -> Jobs]
      /\ sent \in [Streams -> Nat] /\ got \in [Streams -> Seq(Received)]
      /\ Verdicts /\ Reads
  BY DEF TInv, IInv, TypeOK, Events, Received
<1>2. UNCHANGED <<stream, watched, sent, got>> /\ done \subseteq done'
  BY DEF Work, Start, Progress, Finish, Raise, StoreStatus, StoreName, CatchStatus,
         CatchReport, SetDone, Release
<1>3. \/ events' = events
      \/ j \notin done /\ \E e \in Events : Append1(j, e)
  BY <1>1 DEF Work, Start, Progress, Finish, Raise, StoreStatus, StoreName, CatchStatus,
              CatchReport, SetDone, Release, Events, Verdicts, VerdictAt
<1>4. ASSUME NEW k \in Jobs
      PROVE  /\ Len(events[k]) \in Nat /\ Len(events'[k]) \in Nat
             /\ Len(events[k]) <= Len(events'[k])
             /\ \A i \in 1 .. Len(events[k]) : events'[k][i] = events[k][i]
             /\ k \in done => events'[k] = events[k]
  <2>1. events[k] \in Seq(Events) /\ Len(events[k]) \in Nat
    BY <1>1
  <2>2. CASE events'[k] = events[k]
    BY <2>1, <2>2
  <2>3. CASE events'[k] # events[k]
    <3>1. PICK e \in Events : k = j /\ events'[k] = Append(events[k], e) /\ k \notin done
      BY <1>1, <1>3, <2>3
    <3> QED BY <2>1, <3>1, LogAppended
  <2> QED BY <2>2, <2>3
<1> SUFFICES ASSUME NEW s \in Streams PROVE ReadAt(s)'
  BY DEF Reads
<1>5. ReadAt(s) /\ watched[s] \in Jobs /\ sent[s] \in Nat /\ Len(got[s]) \in Nat
  BY <1>1 DEF Reads
<1>6. stream'[s] = stream[s] /\ watched'[s] = watched[s] /\ sent'[s] = sent[s]
      /\ got'[s] = got[s]
  BY <1>2
<1>7. \A i \in 1 .. sent[s] : events'[watched[s]][i] = events[watched[s]][i]
  BY <1>4, <1>5 DEF ReadAt
<1>8. sent[s] <= Len(events'[watched[s]])
  BY <1>4, <1>5 DEF ReadAt
<1>9. stream[s] = "linking" => events'[watched[s]][sent[s]] # "line"
  BY <1>5, <1>7 DEF ReadAt
<1>10. \A i \in 1 .. Len(got[s]) : got[s][i] \in Relayed(events'[watched[s]][i])
  <2> SUFFICES ASSUME NEW i \in 1 .. Len(got[s])
               PROVE  got[s][i] \in Relayed(events'[watched[s]][i])
    OBVIOUS
  <2>1. i \in 1 .. sent[s]
    BY <1>5 DEF ReadAt
  <2> QED BY <1>5, <1>7, <2>1 DEF ReadAt
<1>11. stream[s] = "finished" =>
         watched[s] \in done' /\ sent[s] = Len(events'[watched[s]])
  BY <1>2, <1>4, <1>5 DEF ReadAt
<1> QED BY <1>5, <1>6, <1>8, <1>9, <1>10, <1>11 DEF ReadAt

LEMMA ReadsKept ==
  ASSUME TInv, NEW s \in Streams, Serve(s) \/ Drop(s) \/ \E j \in Jobs : Open(s, j)
  PROVE  Reads'
<1>1. /\ Reads /\ watched \in [Streams -> Jobs] /\ sent \in [Streams -> Nat]
      /\ stream \in [Streams -> {"closed", "draining", "linking", "testing", "finished"}]
      /\ events \in [Jobs -> Seq(Events)] /\ got \in [Streams -> Seq(Received)]
  BY DEF TInv, IInv, TypeOK, Events, Received
<1>2. UNCHANGED <<console, jobVars>>
  BY DEF Serve, Take, SendDone, Drained, Test, Drop, Open
<1>3. ASSUME NEW t \in Streams, t # s PROVE ReadAt(t)'
  <2>1. stream'[t] = stream[t] /\ watched'[t] = watched[t] /\ sent'[t] = sent[t]
        /\ got'[t] = got[t]
    BY <1>1, <1>3 DEF Serve, Take, SendDone, Drained, Test, Drop, Open
  <2>2. events' = events /\ done' = done /\ ReadAt(t)
    BY <1>1, <1>2 DEF Reads
  <2> QED BY <2>1, <2>2 DEF ReadAt
<1> DEFINE log == events[watched[s]]
<1>4. /\ ReadAt(s) /\ log \in Seq(Events) /\ Len(log) \in Nat /\ sent[s] \in Nat
      /\ got[s] \in Seq(Received) /\ Len(got[s]) \in Nat
  BY <1>1 DEF Reads
<1>5. ASSUME NEW e, Receive(s, e)
      PROVE  /\ Len(got'[s]) = Len(got[s]) + 1
             /\ \A i \in 1 .. Len(got[s]) : got'[s][i] = got[s][i]
             /\ got'[s][Len(got[s]) + 1] = e
  <2>1. got'[s] = Append(got[s], e)
    BY <1>1, <1>5
  <2> QED BY <1>4, <2>1
<1>6. ASSUME NEW e, Receive(s, e), e \in Relayed(log[Len(got[s]) + 1]),
             watched' = watched, stream'[s] = "draining",
             sent'[s] = Len(got[s]) + 1, Len(got[s]) + 1 <= Len(log)
      PROVE  ReadAt(s)'
  <2>1. events'[watched'[s]] = log
    BY <1>2, <1>6
  <2>2. Len(got'[s]) = sent'[s] /\ sent'[s] <= Len(log)
    BY <1>5, <1>6
  <2>3. \A i \in 1 .. Len(got'[s]) : got'[s][i] \in Relayed(log[i])
    <3> SUFFICES ASSUME NEW i \in 1 .. Len(got[s]) + 1
                 PROVE  got'[s][i] \in Relayed(log[i])
      BY <1>5, <1>6
    <3>1. CASE i = Len(got[s]) + 1
      BY <1>5, <1>6, <3>1
    <3>2. CASE i # Len(got[s]) + 1
      <4>1. i \in 1 .. Len(got[s])
        BY <1>4, <3>2
      <4> QED BY <1>4, <1>5, <1>6, <4>1 DEF ReadAt
    <3> QED BY <3>1, <3>2
  <2> QED BY <1>4, <1>6, <2>1, <2>2, <2>3 DEF ReadAt
<1>7. ASSUME Take(s) PROVE ReadAt(s)'
  <2>1. /\ sent'[s] = sent[s] + 1 /\ sent[s] + 1 <= Len(log) /\ Len(got[s]) = sent[s]
        /\ watched' = watched
    BY <1>1, <1>4, <1>7 DEF Take, ReadAt
  <2>2. CASE log[sent[s] + 1] = "line"
    <3>1. stream'[s] = "draining" /\ Receive(s, "line")
      BY <1>7, <2>2 DEF Take
    <3> QED BY <1>6, <2>1, <2>2, <3>1 DEF Relayed
  <2>3. CASE log[sent[s] + 1] # "line"
    <3>1. stream'[s] = "linking" /\ got' = got
      BY <1>1, <1>7, <2>3 DEF Take
    <3>2. events'[watched'[s]] = log
      BY <1>2, <2>1
    <3> QED BY <1>4, <2>1, <2>3, <3>1, <3>2 DEF ReadAt
  <2> QED BY <2>2, <2>3
<1>8. ASSUME SendDone(s) PROVE ReadAt(s)'
  <2> DEFINE e == IF s \in linkable /\ status[watched[s]] # "failed" THEN "link"
                  ELSE log[sent[s]]
  <2>1. Len(got[s]) + 1 = sent[s] /\ sent[s] <= Len(log) /\ log[sent[s]] # "line"
    BY <1>4, <1>8 DEF SendDone, ReadAt
  <2>2. Receive(s, e) /\ e \in Relayed(log[sent[s]])
    BY <1>8, <2>1 DEF SendDone, Relayed
  <2>3. watched' = watched /\ stream'[s] = "draining" /\ sent'[s] = sent[s]
    BY <1>1, <1>8 DEF SendDone
  <2> QED BY <1>6, <2>1, <2>2, <2>3
<1>9. ASSUME Drained(s) \/ Test(s) \/ Drop(s) PROVE ReadAt(s)'
  <2>1. UNCHANGED <<watched, sent, got, events, done>>
    BY <1>9 DEF Drained, Test, Drop
  <2>2. /\ stream'[s] \in {"draining", "testing", "finished", "closed"}
        /\ stream'[s] # "closed" => stream[s] \in {"draining", "testing"}
        /\ stream'[s] = "finished" => watched[s] \in done /\ sent[s] >= Len(log)
    BY <1>1, <1>9 DEF Drained, Test, Drop
  <2> QED BY <1>4, <2>1, <2>2 DEF ReadAt
<1>10. ASSUME NEW j \in Jobs, Open(s, j) PROVE ReadAt(s)'
  <2>1. /\ stream'[s] = "draining" /\ got'[s] = <<>> /\ sent'[s] = 0
        /\ watched'[s] = j /\ events' = events
    BY <1>1, <1>10 DEF Open
  <2>2. Len(events[j]) \in Nat /\ Len(got'[s]) = 0
    BY <1>1, <2>1
  <2> QED BY <2>1, <2>2 DEF ReadAt
<1>11. ReadAt(s)'
  BY <1>7, <1>8, <1>9, <1>10 DEF Serve
<1> QED BY <1>3, <1>11 DEF Reads

LEMMA Telling == Spec => []TInv
<1>1. Init => TInv
  BY InitiallyTold
<1>2. TInv /\ IInv' /\ [Next]_vars => TInv'
  <2> SUFFICES ASSUME TInv, IInv', [Next]_vars PROVE TInv'
    OBVIOUS
  <2>1. ASSUME NEW j \in Jobs, Start(j) \/ Work(j) PROVE TInv'
    BY <2>1, VerdictsKept, ReadsStand DEF TInv
  <2>2. ASSUME NEW s \in Streams, Serve(s) \/ Drop(s) \/ \E j \in Jobs : Open(s, j)
        PROVE  TInv'
    <3>1. UNCHANGED jobVars
      BY <2>2 DEF Serve, Take, SendDone, Drained, Test, Drop, Open
    <3>2. Verdicts'
      BY <3>1 DEF TInv, Verdicts, VerdictAt
    <3> QED BY <2>2, <3>2, ReadsKept DEF TInv
  <2>3. CASE UNCHANGED vars
    BY <2>3 DEF vars, TInv, Verdicts, VerdictAt, Reads, ReadAt
  <2> QED BY <2>1, <2>2, <2>3 DEF Next
<1> QED BY <1>1, <1>2, Invariance, PTL DEF Spec
-----------------------------------------------------------------------------
(* Types of every variable, for any number of jobs, streams and lines.     *)
THEOREM TypeCorrect == Spec => []TypeOK
<1>1. IInv => TypeOK
  BY DEF IInv
<1> QED BY <1>1, Invariance, PTL

(* JobManager runs one pipeline at a time, however requests and the end of *)
(* a run interleave.                                                       *)
THEOREM SingleRun == Spec => []OneRunAtATime
<1>1. IInv => OneRunAtATime
  BY DEF IInv, ActiveRuns, OneRunAtATime
<1> QED BY <1>1, Invariance, PTL

(* No stream of either console ever links to a run that failed, although   *)
(* it reads the job's fields one by one and without a lock.                *)
THEOREM LinksHonest == Spec => []NoLinkToFailure
<1>1. IInv => NoLinkToFailure
  BY DEF IInv, Linking, LinkedAt, NoLinkToFailure
<1> QED BY <1>1, Invariance, PTL

(* Whatever ends a run, in whatever order its thread stores status, event  *)
(* and done: a job that is done has told its streams so once, last, and in *)
(* agreement with its status.                                              *)
THEOREM OneLastWord == Spec => []OneVerdict
<1>1. TInv => OneVerdict
  <2> SUFFICES ASSUME TInv, NEW j \in done
               PROVE  Spoken(events[j]) /\ (Failing(events[j]) <=> status[j] = "failed")
    BY DEF OneVerdict, Spoken, Failing
  <2>1. VerdictAt(j)
    BY DEF TInv, IInv, TypeOK, Verdicts
  <2> QED BY <2>1 DEF VerdictAt
<1> QED BY <1>1, Telling, PTL

(* A stream that the server ends has sent every event of its job, in       *)
(* order, although the log grows while it reads.                           *)
THEOREM NothingMissed == Spec => []StreamsComplete
<1>1. TInv => StreamsComplete
  BY DEF TInv, Reads, ReadAt, Relayed, StreamsComplete
<1> QED BY <1>1, Telling, PTL
=============================================================================
