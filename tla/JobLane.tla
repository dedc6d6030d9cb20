------------------------------- MODULE JobLane -------------------------------
(***************************************************************************)
(* The job lane of the agent: it leases a batch of jobs from the API, runs *)
(* them one at a time and reports each result (main.ts pollJobs,           *)
(* executeLeasedJob, the executors, jsonRequest and failJob).  The API is  *)
(* external: it is modelled by what the agent's code and documents say of  *)
(* its leases.                                                             *)
(*                                                                         *)
(* An execution is a job together with the number of the lease it runs     *)
(* under.  A second actor, the DNS monitor, reports in the background.     *)
(***************************************************************************)
EXTENDS Integers, FiniteSets

CONSTANTS
  Jobs,               \* the jobs the API may offer to this agent
  KindOf,             \* the executor class of each job
  NoExec,             \* an actor that runs nothing
  BatchLimit,         \* jobs per lease answer
  ReportRetries,      \* retries of one report by jsonRequest
  PrincipalAttempts,  \* deliveries of the success of a database principal step
  ReconcileAttempts,  \* deliveries of the completion of a runtime reconcile
  DeleteAfterUpload,  \* config.deleteAfterUpload
  Offers,             \* the sets of jobs the API may hold queued for the agent
  MaxLeases,          \* bound: leases of one job
  MaxCrashes          \* bound: agent crashes

(***************************************************************************)
(* Executor classes, by the way each one reports:                          *)
(*  guarded    work and complete in one try, failJob in its catch          *)
(*  transfer   the same, and its reports carry the lease token             *)
(*  update     guarded, and a heartbeat after the completion, in the try   *)
(*  reconcile  guarded, and its completion is delivered in an outer loop   *)
(*  upload     failJob around the work only; the completion may throw; the *)
(*             local recording is removed afterwards                       *)
(*  media      upload without the removal                                  *)
(*  probe      reports complete whatever happened                          *)
(*  monitor    probe in the background, one cycle at a time                *)
(*  principal  no failure after a successful adapter                       *)
(*  authPrincipal  result reported in the try, an error code in its catch  *)
(*  lifecycle  the adapter reports its success, the agent only a failure   *)
(*  silent     no report at all                                            *)
(***************************************************************************)
Kinds == {"guarded", "transfer", "update", "reconcile", "upload", "media",
          "probe", "monitor", "principal", "authPrincipal", "lifecycle",
          "silent"}

ASSUME KindAssumption == KindOf \in [Jobs -> Kinds]

ASSUME NoExecAssumption == NoExec \notin [job : Jobs, lease : Nat]

ASSUME BoundAssumption ==
  /\ BatchLimit \in Nat \ {0}
  /\ ReportRetries \in Nat
  /\ PrincipalAttempts \in Nat \ {0}
  /\ ReconcileAttempts \in Nat \ {0}
  /\ MaxLeases \in Nat
  /\ MaxCrashes \in Nat
  /\ DeleteAfterUpload \in BOOLEAN

\* A database principal delivers its success more often than a report is retried
\* (12 against 5 in the code).
ASSUME DeliveryAssumption == PrincipalAttempts > ReportRetries

ASSUME OffersAssumption == Offers \subseteq SUBSET Jobs

\* Kinds whose reports name the lease they belong to.
Fenced == {"transfer", "principal", "authPrincipal", "lifecycle"}
\* Kinds that fetch their material from the API under the lease.
NeedsMaterial == {"principal", "authPrincipal"}
\* Kinds whose catch block turns an undelivered completion into a failure.
FailsAfterComplete == {"guarded", "transfer", "update", "reconcile",
                       "authPrincipal"}
\* Kinds whose undelivered completion escapes the executor.
ThrowsAfterComplete == {"upload", "media", "probe", "monitor"}
\* Kinds that return without a report when the payload is malformed.
IgnoresMalformed == {"principal", "authPrincipal", "lifecycle"}
\* Kinds the API fails, and never offers again, when the lease expires.
FailsOnExpiry == {"reconcile"}

Actors == {"lane", "monitor"}

Executions == [job : Jobs, lease : Nat]
Outcomes == {"complete", "fail"}
Requests == [exec : Executions, what : Outcomes]

VARIABLES
  api,      \* external: the API's record of each job, its state and lease
  wire,     \* external: requests that reached the network, possibly late
  batch,    \* executions leased and not started (pollJobs' loop)
  phase,    \* what each actor is doing
  exec,     \* the execution of each actor
  what,     \* the outcome each actor is reporting
  inner,    \* retries left in jsonRequest
  outer,    \* deliveries left in the executor's own loop
  file,     \* the local recording of each job still exists
  faults,   \* history: unanswered requests, counted to ReportRetries + 1
  crashes,  \* agent crashes so far
  begun,    \* history: executions whose work began
  worked,   \* history: executions whose work succeeded
  sent      \* history: reports ever sent

actorVars == <<phase, exec, what, inner, outer>>
history == <<begun, worked, sent>>
vars == <<api, wire, batch, phase, exec, what, inner, outer, file, faults,
          crashes, begun, worked, sent>>

Kind(e) == KindOf[e.job]

\* Mutant of InnerRetries: no report is retried.
NoRetries(k) == 0

\* jsonRequest retries only the paths of JOB_REPORT_PATH.
InnerRetries(k) == IF k \in {"principal", "authPrincipal", "lifecycle"}
                   THEN 0 ELSE ReportRetries

\* Deliveries of one report by the executor itself.
Attempts(k, w) ==
  IF w = "complete" /\ k = "principal" THEN PrincipalAttempts
  ELSE IF w = "complete" /\ k = "reconcile" THEN ReconcileAttempts
  ELSE 1

Request(a) == [exec |-> exec[a], what |-> what[a]]

\* The API still holds the job leased under the lease of e.
Current(e) == api[e.job].st = "leased" /\ api[e.job].lease = e.lease

Settled(w) == IF w = "complete" THEN "done" ELSE "failed"
-----------------------------------------------------------------------------
\* The API holds one of the offers queued; the other jobs are settled already.
Init ==
  /\ \E S \in Offers :
       api = [j \in Jobs |-> [st |-> IF j \in S THEN "queued" ELSE "failed",
                             lease |-> 0]]
  /\ wire = {}
  /\ batch = {}
  /\ phase = [a \in Actors |-> "idle"]
  /\ exec = [a \in Actors |-> NoExec]
  /\ what = [a \in Actors |-> "complete"]
  /\ inner = [a \in Actors |-> 0]
  /\ outer = [a \in Actors |-> 0]
  /\ file = [j \in Jobs |-> TRUE]
  /\ faults = 0
  /\ crashes = 0
  /\ begun = {}
  /\ worked = {}
  /\ sent = {}
-----------------------------------------------------------------------------
(* Effects shared by the executors' actions.                               *)

\* The executor of actor a returns.
Leave(a) ==
  /\ phase' = [phase EXCEPT ![a] = "idle"]
  /\ exec' = [exec EXCEPT ![a] = NoExec]
  /\ what' = [what EXCEPT ![a] = "complete"]
  /\ inner' = [inner EXCEPT ![a] = 0]
  /\ outer' = [outer EXCEPT ![a] = 0]

\* The executor of actor a throws: the lane abandons the rest of its batch,
\* the background monitor only logs.
Throw(a) ==
  /\ Leave(a)
  /\ batch' = IF a = "lane" THEN {} ELSE batch

\* The executor of actor a starts to report outcome w.
Report(a, w) ==
  /\ phase' = [phase EXCEPT ![a] = "sending"]
  /\ what' = [what EXCEPT ![a] = w]
  /\ inner' = [inner EXCEPT ![a] = InnerRetries(Kind(exec[a]))]
  /\ outer' = [outer EXCEPT ![a] = Attempts(Kind(exec[a]), w)]
  /\ UNCHANGED exec

\* Mutant of GiveUp: an upload whose completion was not delivered removes its
\* recording all the same.
RemoveUndelivered(a) ==
  \/ /\ what[a] = "complete" /\ Kind(exec[a]) = "upload"
     /\ phase' = [phase EXCEPT ![a] = "removing"]
     /\ UNCHANGED <<exec, what, inner, outer, batch>>
  \/ /\ what[a] = "fail" \/ Kind(exec[a]) # "upload"
     /\ Leave(a)
     /\ UNCHANGED batch

\* Mutant of GiveUp: an undelivered success is reported as a failure by the
\* principals too.
FailUndelivered(a) ==
  \/ /\ what[a] = "complete"
     /\ Report(a, "fail")
     /\ UNCHANGED batch
  \/ /\ what[a] = "fail"
     /\ Leave(a)
     /\ UNCHANGED batch

\* Every delivery of the report of actor a failed.
GiveUp(a) ==
  LET k == Kind(exec[a]) IN
  \/ /\ what[a] = "complete" /\ k \in FailsAfterComplete
     /\ Report(a, "fail")
     /\ UNCHANGED batch
  \/ /\ what[a] = "complete" /\ k \in ThrowsAfterComplete
     /\ Throw(a)
  \/ /\ what[a] = "fail" \/ k = "principal"
     /\ Leave(a)
     /\ UNCHANGED batch

\* Mutant of DeliveryFailed: the loop goes round the work, not the delivery.
DeliverByRerun(a) ==
  \/ /\ outer[a] > 1
     /\ phase' = [phase EXCEPT ![a] = "checking"]
     /\ UNCHANGED <<exec, what, inner, outer, batch>>
  \/ /\ outer[a] <= 1
     /\ GiveUp(a)

\* jsonRequest threw: the executor delivers again or gives up.
DeliveryFailed(a) ==
  \/ /\ outer[a] > 1
     /\ outer' = [outer EXCEPT ![a] = @ - 1]
     /\ inner' = [inner EXCEPT ![a] = InnerRetries(Kind(exec[a]))]
     /\ phase' = [phase EXCEPT ![a] = "sending"]
     /\ UNCHANGED <<exec, what, batch>>
  \/ /\ outer[a] <= 1
     /\ GiveUp(a)
-----------------------------------------------------------------------------
(* Leasing and the loop over the batch.                                    *)

\* pollJobs leases up to BatchLimit jobs; the answer may be lost, and then the
\* API holds leases the agent knows nothing of.
LeaseJobs ==
  /\ phase["lane"] = "idle" /\ batch = {}
  /\ \E S \in SUBSET {j \in Jobs : api[j].st = "queued"
                                   /\ api[j].lease < MaxLeases} :
       /\ Cardinality(S) <= BatchLimit
       /\ api' = [j \in Jobs |-> IF j \in S
                    THEN [st |-> "leased", lease |-> api[j].lease + 1]
                    ELSE api[j]]
       /\ \/ batch' = {[job |-> j, lease |-> api[j].lease + 1] : j \in S}
          \/ batch' = {}
  /\ UNCHANGED <<wire, actorVars, file, faults, crashes, history>>

\* The loop takes the next job of the batch and calls its executor.
StartJob(e) ==
  /\ phase["lane"] = "idle" /\ e \in batch
  /\ Kind(e) \notin {"monitor", "silent"}
  /\ batch' = batch \ {e}
  /\ phase' = [phase EXCEPT !["lane"] = "checking"]
  /\ exec' = [exec EXCEPT !["lane"] = e]
  /\ UNCHANGED <<api, wire, what, inner, outer, file, faults, crashes, history>>

\* startDnsMonitorJob: a cycle in the background, or dropped when one runs.
StartMonitor(e) ==
  /\ phase["lane"] = "idle" /\ e \in batch
  /\ Kind(e) = "monitor"
  /\ batch' = batch \ {e}
  /\ IF phase["monitor"] = "idle"
     THEN /\ phase' = [phase EXCEPT !["monitor"] = "checking"]
          /\ exec' = [exec EXCEPT !["monitor"] = e]
     ELSE UNCHANGED <<phase, exec>>
  /\ UNCHANGED <<api, wire, what, inner, outer, file, faults, crashes, history>>

\* executeLogsRefreshJob starts the local unit and reports nothing.
RunSilent(e) ==
  /\ phase["lane"] = "idle" /\ e \in batch
  /\ Kind(e) = "silent"
  /\ batch' = batch \ {e}
  /\ begun' = begun \cup {e}
  /\ worked' = worked \cup {e}
  /\ UNCHANGED <<api, wire, actorVars, file, faults, crashes, sent>>

\* An executor that returns at once on a malformed payload.
Ignore(e) ==
  /\ phase["lane"] = "idle" /\ e \in batch
  /\ Kind(e) \in IgnoresMalformed
  /\ batch' = batch \ {e}
  /\ UNCHANGED <<api, wire, actorVars, file, faults, crashes, history>>
-----------------------------------------------------------------------------
(* The work of one execution.                                              *)

\* A path, a capability, a payload or the material is refused before the work.
Reject(a) ==
  /\ phase[a] = "checking"
  /\ IF Kind(exec[a]) = "monitor" THEN Leave(a)
     ELSE Report(a, IF Kind(exec[a]) = "probe" THEN "complete" ELSE "fail")
  /\ UNCHANGED <<api, wire, batch, file, faults, crashes, history>>

\* The local work begins; the API gives material only to the current lease.
BeginWork(a) ==
  /\ phase[a] = "checking"
  /\ Kind(exec[a]) \in NeedsMaterial => Current(exec[a])
  /\ phase' = [phase EXCEPT ![a] = "working"]
  /\ begun' = begun \cup {exec[a]}
  /\ UNCHANGED <<api, wire, batch, exec, what, inner, outer, file, faults,
                 crashes, worked, sent>>

\* The local work succeeds and its result is reported; a lifecycle adapter has
\* reported it itself.
WorkSucceeds(a) ==
  /\ phase[a] = "working"
  /\ worked' = worked \cup {exec[a]}
  /\ IF Kind(exec[a]) = "lifecycle"
     THEN LET r == [exec |-> exec[a], what |-> "complete"] IN
          /\ Leave(a)
          /\ wire' = wire \cup {r}
          /\ sent' = sent \cup {r}
     ELSE /\ Report(a, "complete")
          /\ UNCHANGED <<wire, sent>>
  /\ UNCHANGED <<api, batch, file, faults, crashes, begun>>

\* Mutant of WorkFails: the executor goes on to its completion.
CompleteFailedWork(a) ==
  /\ phase[a] = "working"
  /\ Report(a, "complete")
  /\ UNCHANGED <<api, wire, batch, file, faults, crashes, history>>

\* The local work fails, whatever it left behind.
WorkFails(a) ==
  /\ phase[a] = "working"
  /\ IF Kind(exec[a]) = "monitor" THEN Leave(a)
     ELSE Report(a, IF Kind(exec[a]) = "probe" THEN "complete" ELSE "fail")
  /\ UNCHANGED <<api, wire, batch, file, faults, crashes, history>>
-----------------------------------------------------------------------------
(* One report: jsonRequest, jsonRequestOnce and the API's answer.          *)

Send(a) ==
  /\ phase[a] = "sending"
  /\ phase' = [phase EXCEPT ![a] = "waiting"]
  /\ wire' = wire \cup {Request(a)}
  /\ sent' = sent \cup {Request(a)}
  /\ UNCHANGED <<api, batch, exec, what, inner, outer, file, faults, crashes,
                 begun, worked>>

\* The API handles a request, perhaps long after the agent stopped waiting:
\* it settles a leased job, and answers a repeated report of the same outcome
\* either way.
Handle(r) ==
  LET j == r.exec.job
      live == /\ api[j].st = "leased"
              /\ KindOf[j] \in Fenced => api[j].lease = r.exec.lease
      answer(ok) ==
        phase' = [a \in Actors |->
                    IF phase[a] = "waiting" /\ Request(a) = r
                    THEN (IF ok THEN "accepted" ELSE "refused")
                    ELSE phase[a]]
  IN
  /\ r \in wire
  /\ wire' = wire \ {r}
  /\ \/ /\ live
        /\ api' = [api EXCEPT ![j] = [st |-> Settled(r.what), lease |-> @.lease]]
        /\ answer(TRUE)
     \/ /\ ~live /\ api[j].st = Settled(r.what)
        /\ answer(TRUE)
        /\ UNCHANGED api
     \/ /\ ~live
        /\ answer(FALSE)
        /\ UNCHANGED api
  /\ UNCHANGED <<batch, exec, what, inner, outer, file, faults, crashes,
                 history>>

\* Mutant of Unreachable: the retries are not counted.
RetryForever(a) ==
  /\ phase[a] = "waiting"
  /\ wire' \in {wire, wire \ {Request(a)}}
  /\ phase' = [phase EXCEPT ![a] = "sending"]
  /\ UNCHANGED <<api, batch, exec, what, inner, outer, file, faults, crashes,
                 history>>

\* Mutant of Unreachable: one retry too many.
RetryPastZero(a) ==
  /\ phase[a] = "waiting"
  /\ wire' \in {wire, wire \ {Request(a)}}
  /\ IF inner[a] >= 0
     THEN /\ inner' = [inner EXCEPT ![a] = @ - 1]
          /\ phase' = [phase EXCEPT ![a] = "sending"]
          /\ UNCHANGED <<exec, what, outer, batch>>
     ELSE DeliveryFailed(a)
  /\ UNCHANGED <<api, file, faults, crashes, history>>

\* No answer within the request timeout, or a 502, 503 or 504: the request is
\* lost or still on its way.  jsonRequest retries, then throws.
Unreachable(a) ==
  /\ phase[a] = "waiting"
  /\ faults' = IF faults <= ReportRetries THEN faults + 1 ELSE faults
  /\ wire' \in {wire, wire \ {Request(a)}}
  /\ \/ /\ inner[a] > 0
        /\ inner' = [inner EXCEPT ![a] = @ - 1]
        /\ phase' = [phase EXCEPT ![a] = "sending"]
        /\ UNCHANGED <<exec, what, outer, batch>>
     \/ /\ inner[a] = 0
        /\ DeliveryFailed(a)
  /\ UNCHANGED <<api, file, crashes, history>>

\* A business refusal is never retried by jsonRequest.
Refused(a) ==
  /\ phase[a] = "refused"
  /\ DeliveryFailed(a)
  /\ UNCHANGED <<api, wire, file, faults, crashes, history>>

\* The report was accepted: what the executor still does after it.
Accepted(a) ==
  /\ phase[a] = "accepted"
  /\ \/ /\ what[a] = "complete" /\ Kind(exec[a]) = "upload" /\ DeleteAfterUpload
        /\ phase' = [phase EXCEPT ![a] = "removing"]
        /\ UNCHANGED <<exec, what, inner, outer>>
     \/ /\ what[a] = "complete" /\ Kind(exec[a]) = "update"
        /\ phase' = [phase EXCEPT ![a] = "heartbeat"]
        /\ UNCHANGED <<exec, what, inner, outer>>
     \/ /\ \/ what[a] = "fail"
           \/ Kind(exec[a]) = "upload" /\ ~DeleteAfterUpload
           \/ Kind(exec[a]) \notin {"upload", "update"}
        /\ Leave(a)
  /\ UNCHANGED <<api, wire, batch, file, faults, crashes, history>>

\* uploadJob removes the recording; a failed removal is only logged.
RemoveRecording(a) ==
  /\ phase[a] = "removing"
  /\ file' \in {file, [file EXCEPT ![exec[a].job] = FALSE]}
  /\ Leave(a)
  /\ UNCHANGED <<api, wire, batch, faults, crashes, history>>

\* executeRuntimeUpdateJob sends a heartbeat after the completion; an error of
\* it reaches the same catch block as an error of the update.
UpdateHeartbeat(a) ==
  /\ phase[a] = "heartbeat"
  /\ Leave(a) \/ Report(a, "fail")
  /\ UNCHANGED <<api, wire, batch, file, faults, crashes, history>>
-----------------------------------------------------------------------------
(* The API's timer and the agent's process.                                *)

\* A lease expires: the job is failed or offered again.
Expire(j) ==
  /\ api[j].st = "leased"
  /\ \E st \in {"failed", "queued"} :
       /\ st = "queued" => KindOf[j] \notin FailsOnExpiry
       /\ api' = [api EXCEPT ![j] = [st |-> st, lease |-> @.lease]]
  /\ UNCHANGED <<wire, batch, actorVars, file, faults, crashes, history>>

\* The agent's process ends and starts again: it remembers no job.
Crash ==
  /\ crashes < MaxCrashes
  /\ crashes' = crashes + 1
  /\ batch' = {}
  /\ phase' = [a \in Actors |-> "idle"]
  /\ exec' = [a \in Actors |-> NoExec]
  /\ what' = [a \in Actors |-> "complete"]
  /\ inner' = [a \in Actors |-> 0]
  /\ outer' = [a \in Actors |-> 0]
  /\ UNCHANGED <<api, wire, file, faults, history>>

ActorStep(a) ==
  \/ Reject(a) \/ BeginWork(a) \/ WorkSucceeds(a) \/ WorkFails(a)
  \/ Send(a) \/ Unreachable(a) \/ Refused(a) \/ Accepted(a)
  \/ RemoveRecording(a) \/ UpdateHeartbeat(a)

TakeNext ==
  \E e \in batch : StartJob(e) \/ StartMonitor(e) \/ RunSilent(e) \/ Ignore(e)

Next ==
  \/ LeaseJobs
  \/ TakeNext
  \/ \E a \in Actors : ActorStep(a)
  \/ \E r \in wire : Handle(r)
  \/ \E j \in Jobs : Expire(j)
  \/ Crash

Spec == Init /\ [][Next]_vars

\* Every command, transfer and request of the agent has a timeout, and its
\* loops go on: each actor takes its next step.
FairSpec == Spec /\ WF_vars(TakeNext) /\ \A a \in Actors : WF_vars(ActorStep(a))
-----------------------------------------------------------------------------
(* Properties.                                                             *)

Phases == {"idle", "checking", "working", "sending", "waiting", "accepted",
           "refused", "removing", "heartbeat"}

\* Every variable keeps its type (main.ts, the job lane's state).
TypeOK ==
  /\ api \in [Jobs -> [st : {"queued", "leased", "done", "failed"}, lease : Nat]]
  /\ wire \subseteq Requests
  /\ batch \subseteq Executions
  /\ phase \in [Actors -> Phases]
  /\ exec \in [Actors -> Executions \cup {NoExec}]
  /\ what \in [Actors -> Outcomes]
  /\ inner \in [Actors -> Nat]
  /\ outer \in [Actors -> Nat]
  /\ file \in [Jobs -> BOOLEAN]
  /\ faults \in Nat /\ crashes \in Nat
  /\ begun \subseteq Executions
  /\ worked \subseteq Executions
  /\ sent \subseteq Requests

\* A local recording is gone only when the API has recorded the job as done and
\* an upload of it succeeded, whatever was lost, delayed or repeated on the way
\* (uploadJob; README "removed only after upload is confirmed").
RecordingKeptUntilConfirmed ==
  \A j \in Jobs : ~file[j] =>
    api[j].st = "done" /\ \E e \in worked : e.job = j

\* The API never records a job as done whose work succeeded in no execution;
\* a DNS probe reports its error code as a completion (executeDnsProbeJob).
DoneOnlyAfterWork ==
  \A j \in Jobs : api[j].st = "done" /\ KindOf[j] # "probe" =>
    \E e \in worked : e.job = j /\ e.lease <= api[j].lease

\* The executors that keep their completion outside the try block of the work
\* never report a failure of an execution whose work succeeded: the recording
\* uploads, the media files and the database principals
\* (executeDatabasePrincipalJob "After a successful step never report a
\* failure").
FailureOnlyOfFailedWork ==
  \A r \in sent : r.what = "fail" /\ Kind(r.exec) \notin FailsAfterComplete =>
    r.exec \notin worked

\* No retry, redelivery or late answer makes an executor do its work a second
\* time under one lease (completeRuntimeReconcileJob retries only the
\* acknowledgement).
WorkBeginsOncePerLease ==
  [][\A a \in Actors : phase[a] # "working" /\ phase'[a] = "working" =>
       exec[a] \notin begun]_vars

\* Across an API restart shorter than the retries of a report, the lane never
\* walks away from finished work that the API still shows as running under that
\* lease (job-report.ts).  The authentication reports are not retried.
NeverLeftRunning ==
  faults <= ReportRetries /\ crashes = 0 =>
    \A e \in worked :
      Kind(e) \notin {"silent", "authPrincipal", "lifecycle"} =>
        (\E a \in Actors : exec[a] = e) \/ ~Current(e)

\* Whatever the API and the network do, the lane comes back to poll.
LaneReturns == []<>(phase["lane"] = "idle" /\ batch = {})
\* The lane gives each job the life of JobLife: what is reported late, twice or after a
\* crash settles a job at most once, on the word of an execution that worked, and of
\* that of the present lease where reports carry it (main.ts, the job lane).
ClaimOf(k) == IF k = "probe" THEN "none" ELSE IF k \in Fenced THEN "last" ELSE "any"
Claims == [j \in Jobs |-> ClaimOf(KindOf[j])]
Life == INSTANCE JobLife WITH record <- api, kept <- file, claim <- Claims
RefinesJobLife == Life!LifeSpec

-----------------------------------------------------------------------------
(* The inductive invariant behind the safety properties above.             *)

Reporting == {"sending", "waiting", "accepted", "refused", "removing",
              "heartbeat"}

\* An actor runs an execution exactly when it is busy, and each kind has its
\* actor: the lane and the monitor never share an execution.
ActorsBusy ==
  \A a \in Actors :
    /\ phase[a] = "idle" <=> exec[a] = NoExec
    /\ exec[a] # NoExec => (a = "monitor" <=> Kind(exec[a]) = "monitor")
    /\ phase[a] = "heartbeat" => Kind(exec[a]) = "update"
    /\ phase[a] = "removing" => what[a] = "complete" /\ Kind(exec[a]) = "upload"

\* No execution outruns the API's lease counter, so a new lease is fresh.
LeasesBounded ==
  /\ \A e \in batch \cup begun : e.lease <= api[e.job].lease
  /\ \A a \in Actors : exec[a] # NoExec => exec[a].lease <= api[exec[a].job].lease
  /\ worked \subseteq begun
  /\ \A r \in sent : r.exec.lease <= api[r.exec.job].lease

\* What has not begun has left no trace.
Untouched(e) == e \notin begun /\ \A r \in sent : r.exec # e

NotBegun ==
  /\ \A e \in batch : Untouched(e) /\ \A a \in Actors : exec[a] # e
  /\ \A a \in Actors : phase[a] = "checking" => Untouched(exec[a])
  /\ \A a \in Actors : phase[a] = "working" =>
       /\ exec[a] \in begun /\ exec[a] \notin worked
       /\ \A r \in sent : r.exec # exec[a]

\* A report says what the work did.
Truthful(r) ==
  /\ r.what = "complete" /\ Kind(r.exec) # "probe" => r.exec \in worked
  /\ r.what = "fail" /\ Kind(r.exec) \notin FailsAfterComplete =>
       r.exec \notin worked

ReportsTruthful ==
  /\ wire \subseteq sent
  /\ \A r \in sent : Truthful(r)
  /\ \A a \in Actors : phase[a] \in Reporting => Truthful(Request(a))

\* The agent learns of an accepted completion only from the API.
AcceptedIsDone ==
  \A a \in Actors :
    phase[a] \in {"accepted", "removing"} /\ what[a] = "complete" =>
      api[exec[a].job].st = "done"

\* The inductive invariant of the job lane: reports are truthful, executions
\* are fresh until they begin, and an accepted completion is final.
IInv ==
  /\ TypeOK
  /\ ActorsBusy
  /\ LeasesBounded
  /\ NotBegun
  /\ ReportsTruthful
  /\ AcceptedIsDone
  /\ RecordingKeptUntilConfirmed
  /\ DoneOnlyAfterWork
=============================================================================
