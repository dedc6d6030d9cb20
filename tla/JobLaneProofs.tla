---------------------------- MODULE JobLaneProofs ----------------------------
(***************************************************************************)
(* Proofs about JobLane for any number of jobs, leases, retries and        *)
(* crashes.  IInv is inductive: one lemma per action shows that the action *)
(* keeps it, and the safety properties follow from it; the second part is  *)
(* that finished work is never left running, where the executor of a       *)
(* database principal delivers more often than a report is retried, as the *)
(* code does with 12 against 5 (job-report.ts, main.ts jsonRequest and     *)
(* executeDatabasePrincipalJob).                                           *)
(***************************************************************************)
EXTENDS JobLane, TLAPS

\* The vocabulary of every step: what an execution, a request and an actor are.
USE KindAssumption, NoExecAssumption, BoundAssumption
    DEF Kind, Executions, Requests, Outcomes, Actors, Phases, Reporting,
        actorVars, history

-----------------------------------------------------------------------------
(* Steps that leave the API's record, the files and the history of the work *)
(* alone keep the two properties about them.                                *)

LEMMA OutcomesKept ==
  ASSUME RecordingKeptUntilConfirmed, DoneOnlyAfterWork,
         UNCHANGED <<api, file, worked>>
  PROVE  RecordingKeptUntilConfirmed' /\ DoneOnlyAfterWork'
BY DEF RecordingKeptUntilConfirmed, DoneOnlyAfterWork

\* The initial states satisfy the invariant.
LEMMA InitInv == Init => IInv
BY DEF Init, IInv, TypeOK, ActorsBusy, LeasesBounded, NotBegun, ReportsTruthful,
       AcceptedIsDone, RecordingKeptUntilConfirmed, DoneOnlyAfterWork

-----------------------------------------------------------------------------
(* One lemma per action.                                                   *)

\* A new lease is a fresh execution: its number exceeds every earlier one.
LEMMA LeaseJobsInv ==
  ASSUME IInv, LeaseJobs
  PROVE  IInv'
<1>1. TypeOK'
  BY DEF IInv, TypeOK, LeaseJobs
<1>2. ActorsBusy'
  BY DEF IInv, ActorsBusy, LeaseJobs
<1>3. LeasesBounded'
  BY DEF IInv, TypeOK, LeasesBounded, LeaseJobs
<1>4. NotBegun'
  BY DEF IInv, TypeOK, LeasesBounded, NotBegun, Untouched, LeaseJobs
<1>5. ReportsTruthful'
  BY DEF IInv, ReportsTruthful, Truthful, Request, LeaseJobs
<1>6. AcceptedIsDone'
  BY DEF IInv, TypeOK, ActorsBusy, AcceptedIsDone, LeaseJobs
<1>7. RecordingKeptUntilConfirmed'
  BY DEF IInv, RecordingKeptUntilConfirmed, LeaseJobs
<1>8. DoneOnlyAfterWork'
  BY DEF IInv, DoneOnlyAfterWork, LeaseJobs
<1> QED
  BY <1>1, <1>2, <1>3, <1>4, <1>5, <1>6, <1>7, <1>8 DEF IInv

\* Taking a job of the batch leaves its execution untouched.
LEMMA StartJobInv ==
  ASSUME IInv, NEW e, StartJob(e)
  PROVE  IInv'
<1>1. TypeOK'
  BY DEF IInv, TypeOK, StartJob
<1>2. ActorsBusy'
  BY DEF IInv, TypeOK, ActorsBusy, StartJob
<1>3. LeasesBounded'
  BY DEF IInv, LeasesBounded, StartJob
<1>4. NotBegun'
  BY DEF IInv, TypeOK, NotBegun, Untouched, StartJob
<1>5. ReportsTruthful'
  BY DEF IInv, ReportsTruthful, Truthful, Request, StartJob
<1>6. AcceptedIsDone'
  BY DEF IInv, AcceptedIsDone, StartJob
<1>7. RecordingKeptUntilConfirmed' /\ DoneOnlyAfterWork'
  BY OutcomesKept DEF IInv, StartJob
<1> QED
  BY <1>1, <1>2, <1>3, <1>4, <1>5, <1>6, <1>7 DEF IInv

\* So does starting or dropping a monitor cycle.
LEMMA StartMonitorInv ==
  ASSUME IInv, NEW e, StartMonitor(e)
  PROVE  IInv'
<1>1. TypeOK'
  BY DEF IInv, TypeOK, StartMonitor
<1>2. ActorsBusy'
  BY DEF IInv, TypeOK, ActorsBusy, StartMonitor
<1>3. LeasesBounded'
  BY DEF IInv, TypeOK, LeasesBounded, StartMonitor
<1>4. NotBegun'
  BY DEF IInv, TypeOK, NotBegun, Untouched, StartMonitor
<1>5. ReportsTruthful'
  BY DEF IInv, TypeOK, ReportsTruthful, Truthful, Request, StartMonitor
<1>6. AcceptedIsDone'
  BY DEF IInv, TypeOK, AcceptedIsDone, StartMonitor
<1>7. RecordingKeptUntilConfirmed' /\ DoneOnlyAfterWork'
  BY OutcomesKept DEF IInv, StartMonitor
<1> QED
  BY <1>1, <1>2, <1>3, <1>4, <1>5, <1>6, <1>7 DEF IInv

\* A silent job was untouched, so its success contradicts no report.
LEMMA RunSilentInv ==
  ASSUME IInv, NEW e, RunSilent(e)
  PROVE  IInv'
<1>1. TypeOK'
  BY DEF IInv, TypeOK, RunSilent
<1>2. ActorsBusy'
  BY DEF IInv, ActorsBusy, RunSilent
<1>3. LeasesBounded'
  BY DEF IInv, LeasesBounded, RunSilent
<1>4. NotBegun'
  BY DEF IInv, NotBegun, Untouched, RunSilent
<1>5. ReportsTruthful'
  BY DEF IInv, NotBegun, Untouched, ReportsTruthful, Truthful, Request,
         RunSilent
<1>6. AcceptedIsDone'
  BY DEF IInv, AcceptedIsDone, RunSilent
<1>7. RecordingKeptUntilConfirmed'
  BY DEF IInv, RecordingKeptUntilConfirmed, RunSilent
<1>8. DoneOnlyAfterWork'
  BY DEF IInv, DoneOnlyAfterWork, RunSilent
<1> QED
  BY <1>1, <1>2, <1>3, <1>4, <1>5, <1>6, <1>7, <1>8 DEF IInv

\* A malformed job only leaves the batch.
LEMMA IgnoreInv ==
  ASSUME IInv, NEW e, Ignore(e)
  PROVE  IInv'
<1>1. TypeOK'
  BY DEF IInv, TypeOK, Ignore
<1>2. ActorsBusy'
  BY DEF IInv, ActorsBusy, Ignore
<1>3. LeasesBounded'
  BY DEF IInv, LeasesBounded, Ignore
<1>4. NotBegun'
  BY DEF IInv, NotBegun, Untouched, Ignore
<1>5. ReportsTruthful'
  BY DEF IInv, ReportsTruthful, Truthful, Request, Ignore
<1>6. AcceptedIsDone'
  BY DEF IInv, AcceptedIsDone, Ignore
<1>7. RecordingKeptUntilConfirmed' /\ DoneOnlyAfterWork'
  BY OutcomesKept DEF IInv, Ignore
<1> QED
  BY <1>1, <1>2, <1>3, <1>4, <1>5, <1>6, <1>7 DEF IInv

\* A refusal reports the failure of work that never began.
LEMMA RejectInv ==
  ASSUME IInv, NEW a \in Actors, Reject(a)
  PROVE  IInv'
<1>1. TypeOK'
  BY DEF IInv, TypeOK, Reject, Leave, Report, Attempts, InnerRetries
<1>2. ActorsBusy'
  BY DEF IInv, TypeOK, ActorsBusy, Reject, Leave, Report
<1>3. LeasesBounded'
  BY DEF IInv, TypeOK, LeasesBounded, Reject, Leave, Report
<1>4. NotBegun'
  BY DEF IInv, TypeOK, NotBegun, Untouched, Reject, Leave, Report
<1>5. ReportsTruthful'
  BY DEF IInv, TypeOK, NotBegun, Untouched, LeasesBounded, ReportsTruthful,
         Truthful, Request, Reject, Leave, Report
<1>6. AcceptedIsDone'
  BY DEF IInv, TypeOK, AcceptedIsDone, Reject, Leave, Report
<1>7. RecordingKeptUntilConfirmed' /\ DoneOnlyAfterWork'
  BY OutcomesKept DEF IInv, Reject
<1> QED
  BY <1>1, <1>2, <1>3, <1>4, <1>5, <1>6, <1>7 DEF IInv

\* The work begins: the execution is no longer untouched.
LEMMA BeginWorkInv ==
  ASSUME IInv, NEW a \in Actors, BeginWork(a)
  PROVE  IInv'
<1>1. TypeOK'
  BY DEF IInv, TypeOK, ActorsBusy, BeginWork
<1>2. ActorsBusy'
  BY DEF IInv, ActorsBusy, BeginWork
<1>3. LeasesBounded'
  BY DEF IInv, ActorsBusy, LeasesBounded, BeginWork
<1>4. NotBegun'
  BY DEF IInv, TypeOK, ActorsBusy, LeasesBounded, NotBegun, Untouched, BeginWork
<1>5. ReportsTruthful'
  BY DEF IInv, ReportsTruthful, Truthful, Request, BeginWork
<1>6. AcceptedIsDone'
  BY DEF IInv, AcceptedIsDone, BeginWork
<1>7. RecordingKeptUntilConfirmed' /\ DoneOnlyAfterWork'
  BY OutcomesKept DEF IInv, BeginWork
<1> QED
  BY <1>1, <1>2, <1>3, <1>4, <1>5, <1>6, <1>7 DEF IInv

\* Success: no failure of this execution was ever sent.
LEMMA WorkSucceedsInv ==
  ASSUME IInv, NEW a \in Actors, WorkSucceeds(a)
  PROVE  IInv'
<1>1. TypeOK'
  BY DEF IInv, TypeOK, ActorsBusy, WorkSucceeds, Leave, Report, Attempts,
         InnerRetries
<1>2. ActorsBusy'
  BY DEF IInv, TypeOK, ActorsBusy, WorkSucceeds, Leave, Report
<1>3. LeasesBounded'
  BY DEF IInv, TypeOK, LeasesBounded, NotBegun, WorkSucceeds, Leave, Report
<1>4. NotBegun'
  BY DEF IInv, TypeOK, ActorsBusy, NotBegun, Untouched, WorkSucceeds, Leave,
         Report
<1>5. ReportsTruthful'
  BY DEF IInv, TypeOK, ActorsBusy, NotBegun, ReportsTruthful, Truthful, Request,
         WorkSucceeds, Leave, Report
<1>6. AcceptedIsDone'
  BY DEF IInv, TypeOK, AcceptedIsDone, WorkSucceeds, Leave, Report
<1>7. RecordingKeptUntilConfirmed'
  BY DEF IInv, RecordingKeptUntilConfirmed, WorkSucceeds
<1>8. DoneOnlyAfterWork'
  BY DEF IInv, DoneOnlyAfterWork, WorkSucceeds
<1> QED
  BY <1>1, <1>2, <1>3, <1>4, <1>5, <1>6, <1>7, <1>8 DEF IInv

\* Failure: the execution is not among the successful ones.
LEMMA WorkFailsInv ==
  ASSUME IInv, NEW a \in Actors, WorkFails(a)
  PROVE  IInv'
<1>1. TypeOK'
  BY DEF IInv, TypeOK, WorkFails, Leave, Report, Attempts, InnerRetries
<1>2. ActorsBusy'
  BY DEF IInv, TypeOK, ActorsBusy, WorkFails, Leave, Report
<1>3. LeasesBounded'
  BY DEF IInv, TypeOK, LeasesBounded, WorkFails, Leave, Report
<1>4. NotBegun'
  BY DEF IInv, TypeOK, NotBegun, Untouched, WorkFails, Leave, Report
<1>5. ReportsTruthful'
  BY DEF IInv, TypeOK, NotBegun, ReportsTruthful, Truthful, Request, WorkFails,
         Leave, Report
<1>6. AcceptedIsDone'
  BY DEF IInv, TypeOK, AcceptedIsDone, WorkFails, Leave, Report
<1>7. RecordingKeptUntilConfirmed' /\ DoneOnlyAfterWork'
  BY OutcomesKept DEF IInv, WorkFails
<1> QED
  BY <1>1, <1>2, <1>3, <1>4, <1>5, <1>6, <1>7 DEF IInv

\* What is sent is what the actor reports.
LEMMA SendInv ==
  ASSUME IInv, NEW a \in Actors, Send(a)
  PROVE  IInv'
<1>1. TypeOK'
  BY DEF IInv, TypeOK, ActorsBusy, Request, Send
<1>2. ActorsBusy'
  BY DEF IInv, ActorsBusy, Send
<1>3. LeasesBounded'
  BY DEF IInv, ActorsBusy, LeasesBounded, Request, Send
<1>4. NotBegun'
  BY DEF IInv, ActorsBusy, NotBegun, Untouched, Request, Send
<1>5. ReportsTruthful'
  BY DEF IInv, ReportsTruthful, Truthful, Request, Send
<1>6. AcceptedIsDone'
  BY DEF IInv, AcceptedIsDone, Send
<1>7. RecordingKeptUntilConfirmed' /\ DoneOnlyAfterWork'
  BY OutcomesKept DEF IInv, Send
<1> QED
  BY <1>1, <1>2, <1>3, <1>4, <1>5, <1>6, <1>7 DEF IInv

\* The API settles a leased job on the word of a truthful report.
LEMMA HandleInv ==
  ASSUME IInv, NEW r, Handle(r)
  PROVE  IInv'
<1>a. r \in Requests /\ r \in sent
  BY DEF IInv, TypeOK, ReportsTruthful, Handle
<1>b. \A j \in Jobs : api'[j].lease = api[j].lease
  BY DEF IInv, TypeOK, Handle
<1>c. \A j \in Jobs : api[j].st = "done" => api'[j].st = "done"
  BY DEF IInv, TypeOK, Handle
<1>1. TypeOK'
  <2>1. api' \in [Jobs -> [st : {"queued", "leased", "done", "failed"}, lease : Nat]]
    BY DEF IInv, TypeOK, Handle, Settled
  <2> QED
    BY <2>1 DEF IInv, TypeOK, Handle
<1>2. ActorsBusy'
  BY DEF IInv, ActorsBusy, Handle
<1>3. LeasesBounded'
  BY <1>b DEF IInv, TypeOK, LeasesBounded, Handle
<1>4. NotBegun'
  BY DEF IInv, NotBegun, Untouched, Handle
<1>5. ReportsTruthful'
  BY DEF IInv, ReportsTruthful, Truthful, Request, Handle
<1>6. AcceptedIsDone'
  BY DEF IInv, TypeOK, ActorsBusy, AcceptedIsDone, Request, Handle, Settled
<1>7. RecordingKeptUntilConfirmed'
  BY <1>c DEF IInv, RecordingKeptUntilConfirmed, Handle
<1>8. DoneOnlyAfterWork'
  BY DEF IInv, TypeOK, LeasesBounded, ReportsTruthful, Truthful,
         DoneOnlyAfterWork, Handle, Settled
<1> QED
  BY <1>1, <1>2, <1>3, <1>4, <1>5, <1>6, <1>7, <1>8 DEF IInv

\* A lost request is retried, or the executor gives up.
LEMMA UnreachableInv ==
  ASSUME IInv, NEW a \in Actors, Unreachable(a)
  PROVE  IInv'
<1>1. TypeOK'
  BY DEF IInv, TypeOK, Unreachable, DeliveryFailed, GiveUp, Throw, Leave,
         Report, Attempts, InnerRetries
<1>2. ActorsBusy'
  BY DEF IInv, TypeOK, ActorsBusy, Unreachable, DeliveryFailed, GiveUp, Throw,
         Leave, Report
<1>3. LeasesBounded'
  BY DEF IInv, TypeOK, LeasesBounded, Unreachable, DeliveryFailed, GiveUp,
         Throw, Leave, Report
<1>4. NotBegun'
  BY DEF IInv, TypeOK, NotBegun, Untouched, Unreachable, DeliveryFailed, GiveUp,
         Throw, Leave, Report
<1>5. ReportsTruthful'
  BY DEF IInv, TypeOK, ReportsTruthful, Truthful, Request, Unreachable,
         DeliveryFailed, GiveUp, Throw, Leave, Report
<1>6. AcceptedIsDone'
  BY DEF IInv, TypeOK, AcceptedIsDone, Unreachable, DeliveryFailed, GiveUp,
         Throw, Leave, Report
<1>7. RecordingKeptUntilConfirmed' /\ DoneOnlyAfterWork'
  BY OutcomesKept DEF IInv, Unreachable
<1> QED
  BY <1>1, <1>2, <1>3, <1>4, <1>5, <1>6, <1>7 DEF IInv

\* A refused report is delivered again, or the executor gives up.
LEMMA RefusedInv ==
  ASSUME IInv, NEW a \in Actors, Refused(a)
  PROVE  IInv'
<1>1. TypeOK'
  BY DEF IInv, TypeOK, Refused, DeliveryFailed, GiveUp, Throw, Leave, Report,
         Attempts, InnerRetries
<1>2. ActorsBusy'
  BY DEF IInv, TypeOK, ActorsBusy, Refused, DeliveryFailed, GiveUp, Throw,
         Leave, Report
<1>3. LeasesBounded'
  BY DEF IInv, TypeOK, LeasesBounded, Refused, DeliveryFailed, GiveUp, Throw,
         Leave, Report
<1>4. NotBegun'
  BY DEF IInv, TypeOK, NotBegun, Untouched, Refused, DeliveryFailed, GiveUp,
         Throw, Leave, Report
<1>5. ReportsTruthful'
  BY DEF IInv, TypeOK, ReportsTruthful, Truthful, Request, Refused,
         DeliveryFailed, GiveUp, Throw, Leave, Report
<1>6. AcceptedIsDone'
  BY DEF IInv, TypeOK, AcceptedIsDone, Refused, DeliveryFailed, GiveUp, Throw,
         Leave, Report
<1>7. RecordingKeptUntilConfirmed' /\ DoneOnlyAfterWork'
  BY OutcomesKept DEF IInv, Refused
<1> QED
  BY <1>1, <1>2, <1>3, <1>4, <1>5, <1>6, <1>7 DEF IInv

\* An accepted report leads to the removal, the heartbeat or the end.
LEMMA AcceptedInv ==
  ASSUME IInv, NEW a \in Actors, Accepted(a)
  PROVE  IInv'
<1>1. TypeOK'
  BY DEF IInv, TypeOK, Accepted, Leave
<1>2. ActorsBusy'
  BY DEF IInv, TypeOK, ActorsBusy, Accepted, Leave
<1>3. LeasesBounded'
  BY DEF IInv, TypeOK, LeasesBounded, Accepted, Leave
<1>4. NotBegun'
  BY DEF IInv, TypeOK, NotBegun, Untouched, Accepted, Leave
<1>5. ReportsTruthful'
  BY DEF IInv, TypeOK, ReportsTruthful, Truthful, Request, Accepted, Leave
<1>6. AcceptedIsDone'
  BY DEF IInv, TypeOK, AcceptedIsDone, Accepted, Leave
<1>7. RecordingKeptUntilConfirmed' /\ DoneOnlyAfterWork'
  BY OutcomesKept DEF IInv, Accepted
<1> QED
  BY <1>1, <1>2, <1>3, <1>4, <1>5, <1>6, <1>7 DEF IInv

\* The recording goes only after the completion was accepted.
LEMMA RemoveRecordingInv ==
  ASSUME IInv, NEW a \in Actors, RemoveRecording(a)
  PROVE  IInv'
<1>1. TypeOK'
  BY DEF IInv, TypeOK, RemoveRecording, Leave
<1>2. ActorsBusy'
  BY DEF IInv, TypeOK, ActorsBusy, RemoveRecording, Leave
<1>3. LeasesBounded'
  BY DEF IInv, LeasesBounded, RemoveRecording, Leave
<1>4. NotBegun'
  BY DEF IInv, TypeOK, NotBegun, Untouched, RemoveRecording, Leave
<1>5. ReportsTruthful'
  BY DEF IInv, TypeOK, ReportsTruthful, Truthful, Request, RemoveRecording,
         Leave
<1>6. AcceptedIsDone'
  BY DEF IInv, TypeOK, AcceptedIsDone, RemoveRecording, Leave
<1>7. RecordingKeptUntilConfirmed'
  BY DEF IInv, TypeOK, ActorsBusy, AcceptedIsDone, ReportsTruthful, Truthful,
         Request, RecordingKeptUntilConfirmed, RemoveRecording
<1>8. DoneOnlyAfterWork'
  BY DEF IInv, DoneOnlyAfterWork, RemoveRecording
<1> QED
  BY <1>1, <1>2, <1>3, <1>4, <1>5, <1>6, <1>7, <1>8 DEF IInv

\* A failing heartbeat reports a failure, which an update is free to do.
LEMMA UpdateHeartbeatInv ==
  ASSUME IInv, NEW a \in Actors, UpdateHeartbeat(a)
  PROVE  IInv'
<1>1. TypeOK'
  BY DEF IInv, TypeOK, UpdateHeartbeat, Leave, Report, Attempts, InnerRetries
<1>2. ActorsBusy'
  BY DEF IInv, TypeOK, ActorsBusy, UpdateHeartbeat, Leave, Report
<1>3. LeasesBounded'
  BY DEF IInv, TypeOK, LeasesBounded, UpdateHeartbeat, Leave, Report
<1>4. NotBegun'
  BY DEF IInv, TypeOK, NotBegun, Untouched, UpdateHeartbeat, Leave, Report
<1>5. ReportsTruthful'
  BY DEF IInv, TypeOK, ActorsBusy, ReportsTruthful, Truthful, Request,
         UpdateHeartbeat, FailsAfterComplete, Leave, Report
<1>6. AcceptedIsDone'
  BY DEF IInv, TypeOK, AcceptedIsDone, UpdateHeartbeat, Leave, Report
<1>7. RecordingKeptUntilConfirmed' /\ DoneOnlyAfterWork'
  BY OutcomesKept DEF IInv, UpdateHeartbeat
<1> QED
  BY <1>1, <1>2, <1>3, <1>4, <1>5, <1>6, <1>7 DEF IInv

\* An expiry moves only a leased job.
LEMMA ExpireInv ==
  ASSUME IInv, NEW j \in Jobs, Expire(j)
  PROVE  IInv'
<1>1. TypeOK'
  BY DEF IInv, TypeOK, Expire
<1>2. ActorsBusy'
  BY DEF IInv, ActorsBusy, Expire
<1>3. LeasesBounded'
  BY DEF IInv, LeasesBounded, Expire
<1>4. NotBegun'
  BY DEF IInv, NotBegun, Untouched, Expire
<1>5. ReportsTruthful'
  BY DEF IInv, ReportsTruthful, Truthful, Request, Expire
<1>6. AcceptedIsDone'
  BY DEF IInv, AcceptedIsDone, Expire
<1>7. RecordingKeptUntilConfirmed'
  BY DEF IInv, RecordingKeptUntilConfirmed, Expire
<1>8. DoneOnlyAfterWork'
  BY DEF IInv, DoneOnlyAfterWork, Expire
<1> QED
  BY <1>1, <1>2, <1>3, <1>4, <1>5, <1>6, <1>7, <1>8 DEF IInv

\* A crash forgets the actors and keeps the history.
LEMMA CrashInv ==
  ASSUME IInv, Crash
  PROVE  IInv'
<1>1. TypeOK'
  BY DEF IInv, TypeOK, Crash
<1>2. ActorsBusy'
  BY DEF ActorsBusy, Crash
<1>3. LeasesBounded'
  BY DEF IInv, LeasesBounded, Crash
<1>4. NotBegun'
  BY DEF NotBegun, Crash
<1>5. ReportsTruthful'
  BY DEF IInv, ReportsTruthful, Truthful, Crash
<1>6. AcceptedIsDone'
  BY DEF AcceptedIsDone, Crash
<1>7. RecordingKeptUntilConfirmed' /\ DoneOnlyAfterWork'
  BY OutcomesKept DEF IInv, Crash
<1> QED
  BY <1>1, <1>2, <1>3, <1>4, <1>5, <1>6, <1>7 DEF IInv

-----------------------------------------------------------------------------
(* The theorems.                                                           *)

\* The invariant of the job lane holds in every reachable state: initially, and
\* after every step of the lane, the monitor, the network and the API.
THEOREM InductiveInvariant == Spec => []IInv
<1>1. IInv /\ [Next]_vars => IInv'
  <2> SUFFICES ASSUME IInv, [Next]_vars PROVE IInv'
    OBVIOUS
  <2>1. CASE LeaseJobs
    BY <2>1, LeaseJobsInv
  <2>2. CASE TakeNext
    BY <2>2, StartJobInv, StartMonitorInv, RunSilentInv, IgnoreInv DEF TakeNext
  <2>3. ASSUME NEW a \in Actors, ActorStep(a) PROVE IInv'
    BY <2>3, RejectInv, BeginWorkInv, WorkSucceedsInv, WorkFailsInv, SendInv,
       UnreachableInv, RefusedInv, AcceptedInv, RemoveRecordingInv,
       UpdateHeartbeatInv
    DEF ActorStep
  <2>4. ASSUME NEW r \in wire, Handle(r) PROVE IInv'
    BY <2>4, HandleInv
  <2>5. ASSUME NEW j \in Jobs, Expire(j) PROVE IInv'
    BY <2>5, ExpireInv
  <2>6. CASE Crash
    BY <2>6, CrashInv
  <2>7. CASE UNCHANGED vars
    BY <2>7
    DEF vars, IInv, TypeOK, ActorsBusy, LeasesBounded, NotBegun, Untouched,
        ReportsTruthful, Truthful, Request, AcceptedIsDone,
        RecordingKeptUntilConfirmed, DoneOnlyAfterWork
  <2> QED
    BY <2>1, <2>2, <2>3, <2>4, <2>5, <2>6, <2>7 DEF Next
<1> QED
  BY InitInv, <1>1, PTL DEF Spec

\* The types of the job lane's state.
THEOREM TypeCorrect == Spec => []TypeOK
<1>1. IInv => TypeOK
  BY DEF IInv
<1> QED
  BY InductiveInvariant, <1>1, PTL

\* uploadJob never removes a recording the API has not confirmed.
THEOREM RecordingsSafe == Spec => []RecordingKeptUntilConfirmed
<1>1. IInv => RecordingKeptUntilConfirmed
  BY DEF IInv
<1> QED
  BY InductiveInvariant, <1>1, PTL

\* The API shows no job as done whose work never succeeded.
THEOREM DoneMeansWork == Spec => []DoneOnlyAfterWork
<1>1. IInv => DoneOnlyAfterWork
  BY DEF IInv
<1> QED
  BY InductiveInvariant, <1>1, PTL

\* executeDatabasePrincipalJob, the uploads and the media files never report a
\* failure of an execution whose work succeeded.
THEOREM FailureMeansFailedWork == Spec => []FailureOnlyOfFailedWork
<1>1. IInv => FailureOnlyOfFailedWork
  BY DEF IInv, ReportsTruthful, Truthful, FailureOnlyOfFailedWork
<1> QED
  BY InductiveInvariant, <1>1, PTL

\* No executor does its work twice under one lease.
THEOREM WorkBeginsOnce == Spec => WorkBeginsOncePerLease
<1> DEFINE Once == \A a \in Actors :
      phase[a] # "working" /\ phase'[a] = "working" => exec[a] \notin begun
<1>1. IInv /\ [Next]_vars => [Once]_vars
  <2> SUFFICES ASSUME IInv, Next, NEW b \in Actors,
                      phase[b] # "working", phase'[b] = "working"
               PROVE  exec[b] \notin begun
    OBVIOUS
  <2> USE DEF IInv, TypeOK
  <2>1. ~LeaseJobs /\ ~Crash /\ \A j \in Jobs : ~Expire(j)
    BY DEF LeaseJobs, Crash, Expire
  <2>2. \A e : ~StartJob(e) /\ ~StartMonitor(e) /\ ~RunSilent(e) /\ ~Ignore(e)
    BY DEF StartJob, StartMonitor, RunSilent, Ignore
  <2>3. \A r : ~Handle(r)
    BY DEF Handle
  <2>4. \A a \in Actors : ~Reject(a) /\ ~WorkSucceeds(a) /\ ~WorkFails(a) /\ ~Send(a)
    BY DEF Reject, WorkSucceeds, WorkFails, Send, Leave, Report
  <2>5. \A a \in Actors : ~Unreachable(a) /\ ~Refused(a)
    BY DEF Unreachable, Refused, DeliveryFailed, GiveUp, Throw, Leave, Report
  <2>6. \A a \in Actors : ~Accepted(a) /\ ~RemoveRecording(a) /\ ~UpdateHeartbeat(a)
    BY DEF Accepted, RemoveRecording, UpdateHeartbeat, Leave, Report
  <2>7. PICK a \in Actors : BeginWork(a)
    BY <2>1, <2>2, <2>3, <2>4, <2>5, <2>6 DEF Next, TakeNext, ActorStep
  <2> QED
    BY <2>7 DEF NotBegun, Untouched, BeginWork
<1> QED
  BY InductiveInvariant, <1>1, PTL DEF Spec, WorkBeginsOncePerLease
-----------------------------------------------------------------------------
(* Finished work is never left running.                                    *)

\* Kinds whose reports are retried.
Obliged(k) == k \notin {"silent", "authPrincipal", "lifecycle"}

\* The API was not away for longer than the retries of a report, and the Agent
\* did not stop.
ShortOutage == faults <= ReportRetries /\ crashes = 0

\* What actor a has left to try outlasts what is left of the outage.
Outlasts(a) ==
  IF Kind(exec[a]) = "principal"
  THEN outer[a] + faults >= PrincipalAttempts
  ELSE inner[a] + faults >= ReportRetries

\* An actor whose report was answered holds no current lease.
AnsweredIsOver ==
  \A a \in Actors :
    phase[a] \in {"accepted", "refused", "removing", "heartbeat"} =>
      ~Current(exec[a])

\* An actor with finished work under a current lease outlasts the outage.
ReportersOutlast ==
  ShortOutage =>
    \A a \in Actors :
      phase[a] \in {"sending", "waiting"} /\ exec[a] \in worked
      /\ Obliged(Kind(exec[a])) /\ Current(exec[a]) => Outlasts(a)

\* The invariant behind NeverLeftRunning.
ReportInv == AnsweredIsOver /\ ReportersOutlast /\ NeverLeftRunning
\* What these properties speak of; a phase that reports is named where it is needed.
USE DEF Obliged, ShortOutage, Outlasts
HIDE DEF Reporting

-----------------------------------------------------------------------------
(* One lemma per action, or per group of actions with one argument.        *)

\* Initially nothing is worked and nobody reports.
LEMMA InitReport == Init => ReportInv
BY DEF Init, ReportInv, AnsweredIsOver, ReportersOutlast, NeverLeftRunning

\* A lease is given to a job that is queued: no older execution is current.
LEMMA LeaseJobsReport ==
  ASSUME IInv, ReportInv, LeaseJobs
  PROVE  ReportInv'
<1>1. \A e \in Executions :
        Current(e)' /\ e.lease <= api[e.job].lease => Current(e)
  BY DEF IInv, TypeOK, LeaseJobs, Current
<1>2. \A a \in Actors : exec[a] # NoExec =>
        exec[a] \in Executions /\ exec[a].lease <= api[exec[a].job].lease
  BY DEF IInv, TypeOK, LeasesBounded
<1>3. \A a \in Actors : phase[a] # "idle" => exec[a] # NoExec
  BY DEF IInv, ActorsBusy
<1>4. AnsweredIsOver'
  BY <1>1, <1>2, <1>3 DEF ReportInv, AnsweredIsOver, LeaseJobs
<1>5. ReportersOutlast'
  BY <1>1, <1>2, <1>3 DEF ReportInv, ReportersOutlast, LeaseJobs
<1>6. \A e \in worked : e \in Executions /\ e.lease <= api[e.job].lease
  BY DEF IInv, TypeOK, LeasesBounded
<1>7. NeverLeftRunning'
  BY <1>1, <1>6 DEF ReportInv, NeverLeftRunning, LeaseJobs
<1> QED
  BY <1>4, <1>5, <1>7 DEF ReportInv

\* An idle actor takes an execution, or a job leaves the batch: nobody who
\* reports is disturbed.
LEMMA TakeNextReport ==
  ASSUME IInv, ReportInv, TakeNext
  PROVE  ReportInv'
<1> PICK e \in batch : StartJob(e) \/ StartMonitor(e) \/ RunSilent(e) \/ Ignore(e)
  BY DEF TakeNext
<1>1. CASE StartJob(e)
  BY <1>1
  DEF IInv, TypeOK, ActorsBusy, ReportInv, AnsweredIsOver, ReportersOutlast,
      NeverLeftRunning, Current, StartJob
<1>2. CASE StartMonitor(e)
  BY <1>2
  DEF IInv, TypeOK, ActorsBusy, ReportInv, AnsweredIsOver, ReportersOutlast,
      NeverLeftRunning, Current, StartMonitor
<1>3. CASE RunSilent(e)
  <2>1. AnsweredIsOver'
    BY <1>3 DEF RunSilent, ReportInv, AnsweredIsOver, Current
  <2>2. ReportersOutlast'
    BY <1>3 DEF RunSilent, ReportInv, ReportersOutlast, Current
  <2>3. NeverLeftRunning'
    BY <1>3 DEF RunSilent, ReportInv, NeverLeftRunning, Current
  <2> QED
    BY <2>1, <2>2, <2>3 DEF ReportInv
<1>4. CASE Ignore(e)
  BY <1>4
  DEF ReportInv, AnsweredIsOver, ReportersOutlast, NeverLeftRunning, Current,
      Ignore
<1> QED
  BY <1>1, <1>2, <1>3, <1>4

\* An execution being checked or at work has not worked yet: whatever its actor
\* does next leaves no finished work behind.
LEMMA NotWorkedReport ==
  ASSUME IInv, ReportInv, NEW a \in Actors,
         Reject(a) \/ BeginWork(a) \/ WorkFails(a)
  PROVE  ReportInv'
<1>1. exec[a] \notin worked
  BY DEF IInv, LeasesBounded, NotBegun, Untouched, Reject, BeginWork, WorkFails
<1>2. /\ UNCHANGED <<api, worked, faults, crashes>>
      /\ \A b \in Actors \ {a} : phase'[b] = phase[b] /\ exec'[b] = exec[b]
                                 /\ inner'[b] = inner[b] /\ outer'[b] = outer[b]
      /\ phase'[a] \in {"idle", "working", "sending"}
      /\ exec'[a] = exec[a] \/ phase'[a] = "idle"
  BY DEF IInv, TypeOK, Reject, BeginWork, WorkFails, Leave, Report
<1>3. AnsweredIsOver'
  BY <1>2 DEF ReportInv, AnsweredIsOver, Current
<1>4. ReportersOutlast'
  BY <1>1, <1>2 DEF ReportInv, ReportersOutlast, Current
<1>5. NeverLeftRunning'
  BY <1>1, <1>2 DEF ReportInv, NeverLeftRunning, Current
<1> QED
  BY <1>3, <1>4, <1>5 DEF ReportInv

\* A fresh report has all its retries or deliveries to try.
LEMMA WorkSucceedsReport ==
  ASSUME IInv, ReportInv, NEW a \in Actors, WorkSucceeds(a)
  PROVE  ReportInv'
<1>1. exec[a] \notin worked /\ worked' = worked \cup {exec[a]}
  BY DEF IInv, NotBegun, WorkSucceeds
<1>2. UNCHANGED <<api, faults, crashes>>
  BY DEF WorkSucceeds
<1>3. \A b \in Actors \ {a} :
        /\ phase'[b] = phase[b] /\ exec'[b] = exec[b]
        /\ inner'[b] = inner[b] /\ outer'[b] = outer[b]
  BY DEF IInv, TypeOK, WorkSucceeds, Leave, Report
<1>4. \A b \in Actors \ {a} : exec[b] = exec[a] => exec[b] = NoExec
  BY DEF IInv, ActorsBusy
<1>5. exec[a] # NoExec
  BY DEF IInv, ActorsBusy, WorkSucceeds
<1>6. CASE Kind(exec[a]) = "lifecycle"
  <2>1. phase'[a] = "idle"
    BY <1>6 DEF IInv, TypeOK, WorkSucceeds, Leave
  <2>2. AnsweredIsOver'
    BY <1>2, <1>3, <2>1 DEF ReportInv, AnsweredIsOver, Current
  <2>3. ReportersOutlast'
    BY <1>1, <1>2, <1>3, <1>4, <1>5, <2>1
    DEF ReportInv, ReportersOutlast, Current
  <2>4. NeverLeftRunning'
    BY <1>1, <1>2, <1>3, <1>6 DEF ReportInv, NeverLeftRunning, Current
  <2> QED
    BY <2>2, <2>3, <2>4 DEF ReportInv
<1>7. CASE Kind(exec[a]) # "lifecycle"
  <2>1. /\ phase'[a] = "sending" /\ exec'[a] = exec[a]
        /\ inner'[a] = InnerRetries(Kind(exec[a]))
        /\ outer'[a] = Attempts(Kind(exec[a]), "complete")
    BY <1>7 DEF IInv, TypeOK, WorkSucceeds, Report
  <2>2. AnsweredIsOver'
    BY <1>2, <1>3, <2>1 DEF ReportInv, AnsweredIsOver, Current
  <2>3. Obliged(Kind(exec[a])) => Outlasts(a)'
    BY <1>2, <2>1 DEF IInv, TypeOK, InnerRetries, Attempts
  <2>4. ReportersOutlast'
    BY <1>1, <1>2, <1>3, <1>4, <1>5, <2>1, <2>3
    DEF ReportInv, ReportersOutlast, Current
  <2>5. NeverLeftRunning'
    BY <1>1, <1>2, <1>3, <2>1 DEF ReportInv, NeverLeftRunning, Current
  <2> QED
    BY <2>2, <2>4, <2>5 DEF ReportInv
<1> QED
  BY <1>6, <1>7

\* A request that leaves uses up nothing.
LEMMA SendReportKept ==
  ASSUME IInv, ReportInv, NEW a \in Actors, Send(a)
  PROVE  ReportInv'
BY DEF ReportInv, AnsweredIsOver, ReportersOutlast, NeverLeftRunning, Current,
       Send

\* An answered request settles its job, or found it settled or leased anew.
LEMMA HandleReport ==
  ASSUME IInv, ReportInv, NEW r \in wire, Handle(r)
  PROVE  ReportInv'
<1>1. ~Current(r.exec)'
  BY DEF IInv, TypeOK, Handle, Current, Settled
<1>2. \A e \in Executions : Current(e)' => Current(e)
  BY DEF IInv, TypeOK, Handle, Current
<1>3. /\ UNCHANGED <<exec, inner, outer, worked, faults, crashes>>
      /\ \A a \in Actors : \/ phase'[a] = phase[a]
                           \/ exec[a] = r.exec /\ phase'[a] \in {"accepted", "refused"}
  BY DEF Handle, Request
<1>4. \A a \in Actors : phase[a] # "idle" => exec[a] \in Executions
  BY DEF IInv, TypeOK, ActorsBusy
<1>5. AnsweredIsOver'
  BY <1>1, <1>2, <1>3, <1>4 DEF ReportInv, AnsweredIsOver
<1>6. ReportersOutlast'
  BY <1>2, <1>3, <1>4 DEF ReportInv, ReportersOutlast
<1>7. NeverLeftRunning'
  <2>1. \A e \in worked : e \in Executions
    BY DEF IInv, TypeOK
  <2> QED
    BY <1>2, <1>3, <2>1 DEF ReportInv, NeverLeftRunning
<1> QED
  BY <1>5, <1>6, <1>7 DEF ReportInv

\* What every failed delivery does: the executor tries again, reports a failure
\* or leaves.
LEMMA DeliveryFailedEffect ==
  ASSUME IInv, NEW a \in Actors, DeliveryFailed(a)
  PROVE  /\ \A b \in Actors \ {a} :
              /\ phase'[b] = phase[b] /\ exec'[b] = exec[b]
              /\ inner'[b] = inner[b] /\ outer'[b] = outer[b]
         /\ \/ phase'[a] = "idle"
            \/ phase'[a] = "sending" /\ exec'[a] = exec[a]
BY DEF IInv, TypeOK, DeliveryFailed, GiveUp, Throw, Leave, Report

\* Each unanswered request uses up one retry or one delivery: an actor that
\* leaves with finished work has outlasted the outage.
LEMMA UnreachableReport ==
  ASSUME IInv, ReportInv, NEW a \in Actors, Unreachable(a)
  PROVE  ReportInv'
<1>1. UNCHANGED <<api, worked, crashes>>
  BY DEF Unreachable
<1>2. faults \in Nat /\ faults' \in Nat /\ faults' >= faults
      /\ (faults <= ReportRetries => faults' = faults + 1)
  BY DEF IInv, TypeOK, Unreachable
<1>3. \A b \in Actors \ {a} :
        /\ phase'[b] = phase[b] /\ exec'[b] = exec[b]
        /\ inner'[b] = inner[b] /\ outer'[b] = outer[b]
  BY DeliveryFailedEffect DEF IInv, TypeOK, Unreachable
<1>4. \/ phase'[a] = "idle"
      \/ phase'[a] = "sending" /\ exec'[a] = exec[a]
  BY DeliveryFailedEffect DEF IInv, TypeOK, Unreachable
<1>5. AnsweredIsOver'
  BY <1>1, <1>3, <1>4 DEF ReportInv, AnsweredIsOver, Current
<1>6. ASSUME ShortOutage', exec[a] \in worked, Obliged(Kind(exec[a])),
             Current(exec[a])
      PROVE  phase'[a] = "sending" /\ exec'[a] = exec[a] /\ Outlasts(a)'
  <2>1. ShortOutage /\ faults' = faults + 1
    BY <1>1, <1>2, <1>6
  <2>2. Outlasts(a)
    BY <1>6 DEF ReportInv, ReportersOutlast, Unreachable
  <2>3. inner[a] \in Nat /\ outer[a] \in Nat
    BY DEF IInv, TypeOK
  <2>4. CASE inner[a] > 0
    <3>1. /\ phase'[a] = "sending" /\ exec'[a] = exec[a] /\ outer'[a] = outer[a]
          /\ inner'[a] = inner[a] - 1
      BY <2>4 DEF IInv, TypeOK, Unreachable
    <3> QED
      BY <1>2, <2>2, <2>3, <3>1
  <2>5. CASE inner[a] = 0
    <3>1. DeliveryFailed(a)
      BY <2>5 DEF Unreachable
    <3>2. Kind(exec[a]) = "principal"
      BY <1>2, <1>6, <2>2, <2>5
    <3>3. outer[a] > 1
      BY <1>2, <1>6, <2>2, <2>3, <3>2, DeliveryAssumption
    <3>4. phase'[a] = "sending" /\ exec'[a] = exec[a] /\ outer'[a] = outer[a] - 1
      BY <3>1, <3>3 DEF IInv, TypeOK, DeliveryFailed
    <3> QED
      BY <1>2, <2>1, <2>2, <2>3, <3>2, <3>4
  <2> QED
    BY <2>3, <2>4, <2>5
<1>7. ReportersOutlast'
  <2> SUFFICES ASSUME ShortOutage', NEW b \in Actors,
                      phase'[b] \in {"sending", "waiting"}, exec'[b] \in worked,
                      Obliged(Kind(exec'[b])), Current(exec'[b])
               PROVE  Outlasts(b)'
    BY <1>1 DEF ReportersOutlast, Current
  <2>1. CASE b = a
    BY <1>4, <1>6, <2>1
  <2>2. CASE b # a
    <3>1. Outlasts(b)
      BY <1>1, <1>2, <1>3, <2>2 DEF ReportInv, ReportersOutlast
    <3> QED
      BY <1>2, <1>3, <2>2, <3>1 DEF IInv, TypeOK
  <2> QED
    BY <2>1, <2>2
<1>8. NeverLeftRunning'
  <2> SUFFICES ASSUME ShortOutage', NEW e \in worked, Obliged(Kind(e)), Current(e)
               PROVE  \E b \in Actors : exec'[b] = e
    BY <1>1 DEF NeverLeftRunning, Current
  <2>1. PICK b \in Actors : exec[b] = e
    BY <1>1, <1>2 DEF ReportInv, NeverLeftRunning
  <2>2. exec'[b] = e
    BY <1>3, <1>6, <2>1
  <2> QED
    BY <2>2
<1> QED
  BY <1>5, <1>7, <1>8 DEF ReportInv

\* An answered actor goes on without a current lease, whatever it does.
LEMMA AnsweredReport ==
  ASSUME IInv, ReportInv, NEW a \in Actors,
         \/ Refused(a) \/ Accepted(a) \/ RemoveRecording(a) \/ UpdateHeartbeat(a)
  PROVE  ReportInv'
<1>1. ~Current(exec[a])
  BY DEF ReportInv, AnsweredIsOver, Refused, Accepted, RemoveRecording,
         UpdateHeartbeat
<1>2. UNCHANGED <<api, worked, faults, crashes>>
  BY DEF Refused, Accepted, RemoveRecording, UpdateHeartbeat
<1>3. \A b \in Actors \ {a} :
        /\ phase'[b] = phase[b] /\ exec'[b] = exec[b]
        /\ inner'[b] = inner[b] /\ outer'[b] = outer[b]
  BY DeliveryFailedEffect
  DEF IInv, TypeOK, Refused, Accepted, RemoveRecording, UpdateHeartbeat, Leave,
      Report
<1>4. phase'[a] = "idle" \/ exec'[a] = exec[a]
  BY DeliveryFailedEffect
  DEF IInv, TypeOK, Refused, Accepted, RemoveRecording, UpdateHeartbeat, Leave,
      Report
<1>5. AnsweredIsOver'
  BY <1>1, <1>2, <1>3, <1>4 DEF ReportInv, AnsweredIsOver, Current
<1>6. ReportersOutlast'
  BY <1>1, <1>2, <1>3, <1>4 DEF ReportInv, ReportersOutlast, Current
<1>7. NeverLeftRunning'
  BY <1>1, <1>2, <1>3 DEF ReportInv, NeverLeftRunning, Current
<1> QED
  BY <1>5, <1>6, <1>7 DEF ReportInv

\* An expiry makes no execution current.
LEMMA ExpireReport ==
  ASSUME IInv, ReportInv, NEW j \in Jobs, Expire(j)
  PROVE  ReportInv'
<1>1. \A e : e.job \in Jobs /\ Current(e)' => Current(e)
  BY DEF Expire, Current
<1>2. UNCHANGED <<phase, exec, inner, outer, worked, faults, crashes>>
  BY DEF Expire
<1>3. /\ \A e \in worked : e.job \in Jobs
      /\ \A a \in Actors : phase[a] # "idle" => exec[a].job \in Jobs
  BY DEF IInv, TypeOK, ActorsBusy
<1> QED
  BY <1>1, <1>2, <1>3
  DEF ReportInv, AnsweredIsOver, ReportersOutlast, NeverLeftRunning

\* A crash ends the obligation.
LEMMA CrashReport ==
  ASSUME IInv, ReportInv, Crash
  PROVE  ReportInv'
<1>1. ~ShortOutage'
  BY DEF IInv, TypeOK, Crash
<1>2. \A a \in Actors : phase'[a] = "idle"
  BY DEF Crash
<1> QED
  BY <1>1, <1>2
  DEF ReportInv, AnsweredIsOver, ReportersOutlast, NeverLeftRunning

-----------------------------------------------------------------------------
\* Across an API restart shorter than the retries of a report, the lane never
\* walks away from finished work that the API still shows as running
\* (job-report.ts "so a finished job is never left running until its lease
\* expires").
THEOREM FinishedIsReported == Spec => []NeverLeftRunning
<1>1. IInv /\ ReportInv /\ [Next]_vars => ReportInv'
  <2> SUFFICES ASSUME IInv, ReportInv, [Next]_vars PROVE ReportInv'
    OBVIOUS
  <2>1. CASE LeaseJobs
    BY <2>1, LeaseJobsReport
  <2>2. CASE TakeNext
    BY <2>2, TakeNextReport
  <2>3. ASSUME NEW a \in Actors, ActorStep(a) PROVE ReportInv'
    BY <2>3, NotWorkedReport, WorkSucceedsReport, SendReportKept,
       UnreachableReport, AnsweredReport
    DEF ActorStep
  <2>4. ASSUME NEW r \in wire, Handle(r) PROVE ReportInv'
    BY <2>4, HandleReport
  <2>5. ASSUME NEW j \in Jobs, Expire(j) PROVE ReportInv'
    BY <2>5, ExpireReport
  <2>6. CASE Crash
    BY <2>6, CrashReport
  <2>7. CASE UNCHANGED vars
    BY <2>7
    DEF vars, ReportInv, AnsweredIsOver, ReportersOutlast, NeverLeftRunning,
        Current
  <2> QED
    BY <2>1, <2>2, <2>3, <2>4, <2>5, <2>6, <2>7 DEF Next
<1>2. ReportInv => NeverLeftRunning
  BY DEF ReportInv
<1> QED
  BY InitReport, InductiveInvariant, <1>1, <1>2, PTL DEF Spec

-----------------------------------------------------------------------------
(* The lane implements JobLife.                                            *)

\* What a completion of each job stands for.
LEMMA ClaimIs ==
  ASSUME NEW j \in Jobs
  PROVE  Claims[j] = ClaimOf(KindOf[j])
BY DEF Claims

\* A step that moves none of the three is a stutter of JobLife.
LEMMA LifeStutters ==
  ASSUME UNCHANGED <<api, worked, file>>
  PROVE  UNCHANGED Life!lifeVars
BY DEF Life!lifeVars

\* Success of an execution that was handed out is work under a lease of the job.
LEMMA LifeWork ==
  ASSUME IInv, NEW e \in Executions, e.lease <= api[e.job].lease,
         worked' = worked \cup {e}, UNCHANGED <<api, file>>
  PROVE  Life!LifeNext
<1>1. e = [job |-> e.job, lease |-> e.lease] /\ e.job \in Jobs
  OBVIOUS
<1>2. e.lease \in 0..api[e.job].lease
  BY DEF IInv, TypeOK
<1>3. Life!Work(e.job)
  BY <1>1, <1>2 DEF Life!Work
<1> QED
  BY <1>1, <1>3 DEF Life!LifeNext

\* A lease is a grant.
LEMMA LifeGrant ==
  ASSUME LeaseJobs
  PROVE  Life!LifeNext
<1>1. PICK S \in SUBSET {j \in Jobs : api[j].st = "queued" /\ api[j].lease < MaxLeases} :
        api' = [j \in Jobs |-> IF j \in S
                  THEN [st |-> "leased", lease |-> api[j].lease + 1] ELSE api[j]]
  BY DEF LeaseJobs
<1>2. S \in SUBSET {j \in Jobs : api[j].st = "queued"}
  OBVIOUS
<1>3. Life!Grant
  BY <1>1, <1>2 DEF LeaseJobs, Life!Grant
<1> QED
  BY <1>3 DEF Life!LifeNext

\* A report the API takes is truthful: a completion stands for what it claims.
LEMMA LifeHandle ==
  ASSUME IInv, NEW r \in wire, Handle(r)
  PROVE  Life!LifeNext \/ UNCHANGED Life!lifeVars
<1> DEFINE j == r.exec.job
<1>1. r \in Requests /\ r \in sent /\ j \in Jobs /\ UNCHANGED <<worked, file>>
  BY DEF IInv, TypeOK, ReportsTruthful, Handle
<1>2. CASE UNCHANGED api
  BY <1>1, <1>2, LifeStutters
<1>3. CASE ~ UNCHANGED api
  <2>1. /\ api[j].st = "leased" /\ (KindOf[j] \in Fenced => api[j].lease = r.exec.lease)
        /\ api' = [api EXCEPT ![j] = [st |-> Settled(r.what), lease |-> @.lease]]
    BY <1>3 DEF Handle
  <2>2. CASE r.what = "complete"
    <3>1. KindOf[j] # "probe" => r.exec \in worked
      BY <1>1, <2>2 DEF IInv, ReportsTruthful, Truthful
    <3>2. r.exec.lease <= api[j].lease /\ r.exec = [job |-> j, lease |-> r.exec.lease]
      BY <1>1 DEF IInv, LeasesBounded
    <3>3. Life!Claimed(j)
      <4>1. CASE KindOf[j] = "probe"
        BY <1>1, <4>1, ClaimIs DEF Life!Claimed, ClaimOf
      <4>2. CASE KindOf[j] # "probe" /\ KindOf[j] \in Fenced
        BY <1>1, <2>1, <3>1, <3>2, <4>2, ClaimIs DEF Life!Claimed, ClaimOf
      <4>3. CASE KindOf[j] # "probe" /\ KindOf[j] \notin Fenced
        BY <1>1, <3>1, <3>2, <4>3, ClaimIs DEF Life!Claimed, ClaimOf
      <4> QED
        BY <4>1, <4>2, <4>3
    <3>4. Life!Complete(j)
      BY <1>1, <2>1, <2>2, <3>3 DEF Life!Complete, Settled
    <3> QED
      BY <1>1, <3>4 DEF Life!LifeNext
  <2>3. CASE r.what = "fail"
    <3>1. Life!Release(j)
      BY <1>1, <2>1, <2>3 DEF Life!Release, Settled
    <3> QED
      BY <1>1, <3>1 DEF Life!LifeNext
  <2> QED
    BY <1>1, <2>2, <2>3
<1> QED
  BY <1>2, <1>3

\* An expiry releases the lease.
LEMMA LifeExpire ==
  ASSUME NEW j \in Jobs, Expire(j)
  PROVE  Life!LifeNext
<1>1. Life!Release(j)
  BY DEF Expire, Life!Release
<1> QED
  BY <1>1 DEF Life!LifeNext

\* A recording is given up for a completion that was taken.
LEMMA LifeGiveAway ==
  ASSUME IInv, NEW a \in Actors, RemoveRecording(a)
  PROVE  Life!LifeNext \/ UNCHANGED Life!lifeVars
<1> DEFINE j == exec[a].job
<1>1. exec[a] \in Executions /\ j \in Jobs
  BY DEF IInv, TypeOK, ActorsBusy, RemoveRecording
<1>2. what[a] = "complete" /\ Kind(exec[a]) = "upload" /\ api[j].st = "done"
  BY DEF IInv, ActorsBusy, AcceptedIsDone, RemoveRecording
<1>3. exec[a] \in worked
  BY <1>2 DEF IInv, ReportsTruthful, Truthful, Request, RemoveRecording, Reporting
<1>4. CASE file' = file
  BY <1>4, LifeStutters DEF RemoveRecording
<1>5. CASE file' = [file EXCEPT ![j] = FALSE]
  <2>1. Life!GiveAway(j)
    BY <1>2, <1>3, <1>5 DEF Life!GiveAway, RemoveRecording
  <2> QED
    BY <1>1, <2>1 DEF Life!LifeNext
<1> QED
  BY <1>4, <1>5 DEF RemoveRecording

\* Every step of the lane, the network and the API is a step of JobLife or a stutter.
LEMMA LifeSteps ==
  ASSUME IInv, [Next]_vars
  PROVE  [Life!LifeNext]_Life!lifeVars
<1>1. CASE LeaseJobs
  BY <1>1, LifeGrant
<1>2. ASSUME NEW e \in batch, StartJob(e) \/ StartMonitor(e) \/ Ignore(e)
      PROVE  UNCHANGED Life!lifeVars
  BY <1>2, LifeStutters DEF StartJob, StartMonitor, Ignore
<1>3. ASSUME NEW e \in batch, RunSilent(e)
      PROVE  Life!LifeNext
  BY <1>3, LifeWork DEF RunSilent, IInv, TypeOK, LeasesBounded
<1>4. ASSUME NEW a \in Actors, WorkSucceeds(a)
      PROVE  Life!LifeNext
  <2>1. exec[a] \in Executions /\ exec[a].lease <= api[exec[a].job].lease
    BY <1>4 DEF WorkSucceeds, IInv, TypeOK, ActorsBusy, LeasesBounded
  <2> QED
    BY <1>4, <2>1, LifeWork DEF WorkSucceeds
<1>5. ASSUME NEW a \in Actors,
             \/ Reject(a) \/ BeginWork(a) \/ WorkFails(a) \/ Send(a) \/ Unreachable(a)
             \/ Refused(a) \/ Accepted(a) \/ UpdateHeartbeat(a)
      PROVE  UNCHANGED Life!lifeVars
  BY <1>5, LifeStutters
  DEF Reject, BeginWork, WorkFails, Send, Unreachable, Refused, Accepted, UpdateHeartbeat
<1>6. ASSUME NEW a \in Actors, RemoveRecording(a)
      PROVE  Life!LifeNext \/ UNCHANGED Life!lifeVars
  BY <1>6, LifeGiveAway
<1>7. ASSUME NEW r \in wire, Handle(r)
      PROVE  Life!LifeNext \/ UNCHANGED Life!lifeVars
  BY <1>7, LifeHandle
<1>8. ASSUME NEW j \in Jobs, Expire(j)
      PROVE  Life!LifeNext
  BY <1>8, LifeExpire
<1>9. CASE Crash \/ UNCHANGED vars
  BY <1>9, LifeStutters DEF Crash, vars
<1> QED
  BY <1>1, <1>2, <1>3, <1>4, <1>5, <1>6, <1>7, <1>8, <1>9 DEF Next, TakeNext, ActorStep

\* The lane, the monitor, the network and the API together give every job the life of
\* JobLife, for all jobs, retries, leases and crashes: an ended job stays as it is, a
\* completion is of work that succeeded, under the present lease where the report names
\* it, and a recording is given up only for a completion on record (main.ts pollJobs,
\* executeLeasedJob, jsonRequest, uploadJob).
THEOREM LaneImplementsJobLife == Spec => RefinesJobLife
<1>1. Init => Life!LifeInit
  <2> SUFFICES ASSUME Init PROVE Life!LifeInit
    OBVIOUS
  <2>1. api \in [Jobs -> [st : {"queued", "failed"}, lease : {0}]]
    BY DEF Init
  <2>2. Claims \in [Jobs -> {"last", "any", "none"}]
    BY DEF Claims, ClaimOf
  <2> QED
    BY <2>1, <2>2 DEF Init, Life!LifeInit
<1>2. IInv /\ [Next]_vars => [Life!LifeNext]_Life!lifeVars
  BY LifeSteps
<1> QED
  BY InductiveInvariant, <1>1, <1>2, PTL DEF Spec, RefinesJobLife, Life!LifeSpec
=============================================================================
