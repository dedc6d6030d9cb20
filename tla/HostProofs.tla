----------------------------- MODULE HostProofs -----------------------------
(***************************************************************************)
(* Proofs about the parts of the Agent that keep their state to            *)
(* themselves, for every value of the constants: captureCommand never      *)
(* turns a cut-short command into a success, a failed CrowdSec job leaves  *)
(* a validated profile and no listed address unblocked, a schema apply     *)
(* runs the plan of its own last plan job, and a rebuild of table          *)
(* maintenance has room. The rate window, the PABX commands and the file   *)
(* jobs have modules of their own; what is proved of each part alone holds *)
(* of the parts together (HostParts).                                      *)
(***************************************************************************)
EXTENDS HostWork, VoipProofs, FileJobsProofs, HeartbeatLane, FiniteSetTheorems, TLAPS
-----------------------------------------------------------------------------
(* captureCommand                                                          *)

\* What a step relies on: a reader that saw the end saw all, and what killed the
\* group left none of it.
CaptureInv ==
  /\ CaptureTypeOK
  /\ \A p \in Pipes : reader[p] = "done" => Whole(p)
  /\ captured = "returned" => status # "running" /\ \A p \in Pipes : reader[p] = "done"
  /\ linux /\ (alarm = "fired" \/ captured \in {"failing", "timeout", "thrown"}) => alive = {}

\* The invariant holds at first.
LEMMA CaptureInitInv == CaptureInit => CaptureInv
BY DEF CaptureInit, CaptureInv, CaptureTypeOK, Pipes, Processes

\* A write needs a process, so that no reader had seen the end.
LEMMA WriteInv ==
  ASSUME CaptureInv, NEW p \in Pipes, Write(p)
  PROVE  CaptureInv'
BY DEF CaptureInv, CaptureTypeOK, Write, Whole

\* An exit leaves fewer processes.
LEMMA ExitInv ==
  ASSUME CaptureInv, NEW q \in Processes, Exit(q)
  PROVE  CaptureInv'
<1>1. CaptureTypeOK'
  BY DEF CaptureInv, CaptureTypeOK, Exit
<1>2. alive = {} => alive' = {}
  BY DEF Exit
<1>3. status # "running" => status' # "running"
  BY DEF Exit
<1> QED BY <1>1, <1>2, <1>3 DEF CaptureInv, Exit, Whole

\* A read takes no more than was written.
LEMMA ReadInv ==
  ASSUME CaptureInv, NEW p \in Pipes, Read(p)
  PROVE  CaptureInv'
<1>1. CaptureTypeOK'
  BY DEF CaptureInv, CaptureTypeOK, Read
<1>2. \A r \in Pipes : reader'[r] = "done" => Whole(r)'
  <2> SUFFICES ASSUME NEW r \in Pipes, reader'[r] = "done" PROVE Whole(r)'
    OBVIOUS
  <2>1. CASE r = p
    BY <2>1 DEF CaptureInv, CaptureTypeOK, Read, Whole
  <2>2. CASE r # p
    BY <2>2 DEF CaptureInv, CaptureTypeOK, Read, Whole
  <2> QED BY <2>1, <2>2
<1>3. captured # "returned"
  BY DEF CaptureInv, Read
<1> QED BY <1>1, <1>2, <1>3 DEF CaptureInv, Read

\* The timer and an overflow kill the group.
LEMMA KillInv ==
  ASSUME CaptureInv, Alarm \/ CaptureFails
  PROVE  CaptureInv'
<1>1. CaptureTypeOK'
  BY DEF CaptureInv, CaptureTypeOK, Alarm, CaptureFails, Killed
<1>2. alive = {} => alive' = {}
  BY DEF Alarm, CaptureFails, Killed
<1>3. linux => alive' = {}
  BY DEF Alarm, CaptureFails, Killed
<1>4. status # "running" => status' # "running"
  BY DEF Alarm, CaptureFails, Killed
<1> QED BY <1>1, <1>2, <1>3, <1>4 DEF CaptureInv, Alarm, CaptureFails, Whole

\* A capture that settles changes no process.
LEMMA SettleInv ==
  ASSUME CaptureInv, CaptureReturns \/ CaptureThrows
  PROVE  CaptureInv'
BY DEF CaptureInv, CaptureTypeOK, CaptureReturns, CaptureThrows, Whole

\* The invariant is inductive.
LEMMA CaptureNextInv == CaptureInv /\ [CaptureNext]_captureVars => CaptureInv'
<1> SUFFICES ASSUME CaptureInv, [CaptureNext]_captureVars PROVE CaptureInv'
  OBVIOUS
<1>1. CASE UNCHANGED captureVars
  BY <1>1 DEF CaptureInv, CaptureTypeOK, captureVars, Whole
<1>2. CASE CaptureNext
  BY <1>2, WriteInv, ReadInv, ExitInv, KillInv, SettleInv DEF CaptureNext
<1> QED BY <1>1, <1>2

\* The invariant holds of every behaviour.
LEMMA CaptureAlways == CaptureSpec => []CaptureInv
BY CaptureInitInv, CaptureNextInv, PTL DEF CaptureSpec

\* Whatever the budget and the order of output, exits, overflow and timeout, a
\* result other than 124 is the whole output, and on Linux a command cut short
\* leaves no process (bounded-io.ts captureCommand).
THEOREM NeverCutIntoSuccessHolds == CaptureSpec => []NeverCutIntoSuccess
<1>1. CaptureInv => NeverCutIntoSuccess
  BY DEF CaptureInv, NeverCutIntoSuccess
<1> QED BY <1>1, CaptureAlways, PTL
-----------------------------------------------------------------------------
(* The CrowdSec profile and its blocklist                                  *)

\* A file is one of the saved artifacts and holds some content.
USE CrowdSecAssumption DEF rest, files, lasting, Nothing, NoProfile, Content

\* The files of a job are those it saved until it writes them, and again once it has
\* restored them.
PolicyInv ==
  /\ secPc = "write" => \A f \in pending : policy[f] = backups[f]
  /\ secPc = "restore" => \A f \in Artifacts \ pending : policy[f] = backups[f]
  /\ ~cut => IF secPc \in {"write", "restore"} THEN backups \in valid ELSE policy \in valid

\* What is still to be deleted was made before the additions, each of which stays.
BlocklistInv ==
  /\ \A d \in decisions : d.id < nextId
  /\ \A i \in deletes : i < nextId
  /\ secPc = "change" => \A a \in profile.list \ adds :
       \E d \in decisions : d.value = a /\ d.id \notin deletes

SecInv == SecTypeOK /\ PolicyInv /\ BlocklistInv

\* There is no file and no decision at first.
LEMMA SecInitInv == SecInit => SecInv
<1> SUFFICES ASSUME SecInit PROVE SecInv
  OBVIOUS
<1>1. SecTypeOK
  BY DEF SecInit, SecTypeOK, Decision
<1> QED
  BY <1>1 DEF SecInit, SecInv, PolicyInv, BlocklistInv

\* A job saves the files it is to write.
LEMMA StartApplyInv ==
  ASSUME SecInv,
         NEW F \in SUBSET Artifacts, NEW L \in SUBSET Addresses, NEW b \in BOOLEAN,
         StartApply(F, L, b)
  PROVE  SecInv'
<1>1. SecTypeOK'
  BY DEF SecInv, SecTypeOK, StartApply
<1> QED
  BY <1>1 DEF SecInv, PolicyInv, BlocklistInv, StartApply

\* What a job leaves of its locals is of their types.
LEMMA SecEndsTypes ==
  ASSUME SecEnds
  PROVE  /\ secPc' = "idle" /\ backups' \in [Artifacts -> Content] /\ pending' = {}
         /\ adds' = {} /\ deletes' = {}
         /\ profile' \in [policy : [Artifacts -> Content], list : SUBSET Addresses,
                           enabled : BOOLEAN]
BY DEF SecEnds

\* A job that ends before it writes, or after crowdsec took its policy, leaves files
\* that were taken.
LEMMA ApplyFailsInv ==
  ASSUME SecInv, ApplyFails
  PROVE  SecInv'
<1>1. SecTypeOK'
  BY DEF SecInv, SecTypeOK, ApplyFails, SecEnds
<1>2. secPc = "write" => policy = backups
  BY DEF SecInv, SecTypeOK, PolicyInv, ApplyFails, SecEnds
<1> QED
  BY <1>1, <1>2 DEF SecInv, PolicyInv, BlocklistInv, ApplyFails, SecEnds

\* Writes, the judgement and the restoration.
LEMMA WriteArtifactInv ==
  ASSUME SecInv, NEW f \in Artifacts, WriteArtifact(f)
  PROVE  SecInv'
<1>1. SecTypeOK'
  BY DEF SecInv, SecTypeOK, WriteArtifact
<1>2. PolicyInv'
  BY DEF SecInv, SecTypeOK, PolicyInv, WriteArtifact
<1> QED
  BY <1>1, <1>2 DEF SecInv, BlocklistInv, WriteArtifact

\* A valid profile goes on to the blocklist, another to the restoration.
LEMMA ValidateInv ==
  ASSUME SecInv, Validate
  PROVE  SecInv'
<1>1. SecTypeOK'
  BY DEF SecInv, SecTypeOK, Validate
<1> QED
  BY <1>1 DEF SecInv, PolicyInv, BlocklistInv, Validate

\* A restored file is the saved one.
LEMMA RestoreArtifactInv ==
  ASSUME SecInv, NEW f \in Artifacts, RestoreArtifact(f)
  PROVE  SecInv'
<1>1. SecTypeOK'
  <2>1. policy' \in [Artifacts -> Content] /\ cut' \in BOOLEAN
    BY DEF SecInv, SecTypeOK, RestoreArtifact
  <2>2. CASE UNCHANGED <<secPc, backups, profile, adds, deletes>> /\ pending' = pending \ {f}
    BY <2>1, <2>2 DEF SecInv, SecTypeOK, RestoreArtifact
  <2>3. CASE SecEnds
    BY <2>1, <2>3, SecEndsTypes DEF SecInv, SecTypeOK, RestoreArtifact
  <2> QED
    BY <2>2, <2>3 DEF RestoreArtifact
<1>2. PolicyInv'
  <2>1. CASE /\ policy' = [policy EXCEPT ![f] = backups[f]]
             /\ pending' = pending \ {f} /\ UNCHANGED <<secPc, cut, backups>>
    BY <2>1 DEF SecInv, SecTypeOK, PolicyInv, RestoreArtifact, SecEnds
  <2>2. CASE cut' = (cut \/ policy' # backups) /\ secPc' = "idle"
    <3>1. ~cut' => ~cut /\ policy' = backups
      BY <2>2
    <3>2. secPc = "restore" /\ UNCHANGED valid
      BY DEF RestoreArtifact, SecEnds
    <3> QED
      BY <2>2, <3>1, <3>2 DEF SecInv, PolicyInv
  <2> QED
    BY <2>1, <2>2 DEF RestoreArtifact, SecEnds
<1> QED
  BY <1>1, <1>2 DEF SecInv, BlocklistInv, RestoreArtifact, SecEnds

\* When all are restored the profile is the saved one.
LEMMA RestoredInv ==
  ASSUME SecInv, Restored
  PROVE  SecInv'
<1>1. SecTypeOK'
  BY DEF SecInv, SecTypeOK, Restored, SecEnds
<1>2. policy = backups
  BY DEF SecInv, SecTypeOK, PolicyInv, Restored, SecEnds
<1> QED
  BY <1>1, <1>2 DEF SecInv, PolicyInv, BlocklistInv, Restored, SecEnds

\* The reload and the two lists of commands.
LEMMA ConvergeInv ==
  ASSUME SecInv, Reload \/ ListDecisions \/ Converged
  PROVE  SecInv'
<1>1. \A d \in decisions : d.id \in Nat
  BY DEF SecInv, SecTypeOK, Decision
<1>2. SecTypeOK'
  <2>1. CASE Reload
    BY <2>1, SecEndsTypes DEF SecInv, SecTypeOK, Reload
  <2>2. CASE ListDecisions
    BY <1>1, <2>2 DEF SecInv, SecTypeOK, ListDecisions
  <2>3. CASE Converged
    BY <2>3 DEF SecInv, SecTypeOK, Converged, SecEnds
  <2> QED
    BY <2>1, <2>2, <2>3
<1> QED
  BY <1>2 DEF SecInv, SecTypeOK, PolicyInv, BlocklistInv, Reload, ListDecisions, Converged, SecEnds

\* A new decision has an id that no deletion names.
LEMMA AddDecisionInv ==
  ASSUME SecInv, NEW a \in Addresses, AddDecision(a)
  PROVE  SecInv'
<1>1. SecTypeOK'
  BY DEF SecInv, SecTypeOK, Decision, AddDecision
<1>2. /\ \A i \in deletes : i < nextId
      /\ decisions' = decisions \cup {[id |-> nextId, value |-> a]}
      /\ nextId' = nextId + 1 /\ adds' \in {adds, adds \ {a}}
      /\ secPc = "change" /\ UNCHANGED <<secPc, profile, deletes>>
  BY DEF SecInv, BlocklistInv, AddDecision
<1>3. nextId \in Nat /\ (\A d \in decisions : d.id \in Nat) /\ deletes \subseteq Nat
  BY DEF SecInv, SecTypeOK, Decision
<1>4. \A d \in decisions' : d.id < nextId'
  BY <1>2, <1>3 DEF SecInv, BlocklistInv
<1>5. \A i \in deletes' : i < nextId'
  <2>1. deletes' = deletes /\ nextId' = nextId + 1
    BY <1>2
  <2> QED
    BY <1>2, <1>3, <2>1
<1>6. \E d \in decisions' : d.value = a /\ d.id \notin deletes'
  <2>1. nextId \notin deletes
    BY <1>2, <1>3
  <2>2. [id |-> nextId, value |-> a] \in decisions' /\ deletes' = deletes
    BY <1>2
  <2> QED
    BY <2>1, <2>2
<1>7. \A b \in profile'.list \ adds' : \E d \in decisions' : d.value = b /\ d.id \notin deletes'
  BY <1>2, <1>6 DEF SecInv, BlocklistInv
<1>8. BlocklistInv'
  BY <1>4, <1>5, <1>7 DEF BlocklistInv
<1> QED
  BY <1>1, <1>8 DEF SecInv, PolicyInv, AddDecision

\* A deletion leaves each listed address a decision.
LEMMA DeleteDecisionInv ==
  ASSUME SecInv, NEW i \in deletes, DeleteDecision(i)
  PROVE  SecInv'
<1>1. SecTypeOK'
  BY DEF SecInv, SecTypeOK, DeleteDecision
<1>2. BlocklistInv'
  BY DEF SecInv, SecTypeOK, BlocklistInv, DeleteDecision
<1> QED
  BY <1>1, <1>2 DEF SecInv, PolicyInv, DeleteDecision

\* A stop that leaves other files than the saved ones is remembered.
LEMMA SecStopInv ==
  ASSUME SecInv, SecStop
  PROVE  SecInv'
<1>1. policy' \in [Artifacts -> Content]
  BY DEF SecInv, SecTypeOK, SecStop, SecEnds
<1>2. SecTypeOK'
  <2>1. SecEnds /\ secStops' = secStops + 1 /\ UNCHANGED lasting
    BY DEF SecStop
  <2>2. cut' \in BOOLEAN
    BY DEF SecInv, SecTypeOK, SecStop, SecEnds
  <2> QED
    BY <1>1, <2>1, <2>2 DEF SecInv, SecTypeOK, SecEnds
<1> QED
  BY <1>2 DEF SecInv, PolicyInv, BlocklistInv, SecStop, SecEnds

\* Every step keeps the invariant.
LEMMA SecNextInv == SecInv /\ [SecNext]_secVars => SecInv'
<1> SUFFICES ASSUME SecInv, [SecNext]_secVars PROVE SecInv'
  OBVIOUS
<1>1. CASE UNCHANGED secVars
  BY <1>1 DEF secVars, SecInv, SecTypeOK, PolicyInv, BlocklistInv
<1>2. ASSUME NEW F \in SUBSET Artifacts, NEW L \in SUBSET Addresses, NEW b \in BOOLEAN,
             StartApply(F, L, b)
      PROVE  SecInv'
  BY <1>2, StartApplyInv
<1>3. ASSUME NEW f \in Artifacts, WriteArtifact(f) \/ RestoreArtifact(f)
      PROVE  SecInv'
  BY <1>3, WriteArtifactInv, RestoreArtifactInv
<1>4. ASSUME NEW a \in Addresses, AddDecision(a) PROVE SecInv'
  BY <1>4, AddDecisionInv
<1>5. ASSUME NEW i \in deletes, DeleteDecision(i) PROVE SecInv'
  BY <1>5, DeleteDecisionInv
<1> QED
  BY <1>1, <1>2, <1>3, <1>4, <1>5, ApplyFailsInv, ValidateInv, RestoredInv, ConvergeInv,
     SecStopInv
  DEF SecNext

\* The invariant holds through every failed write, judgement, command and stop.
LEMMA SecAlways == SecSpec => []SecInv
BY SecInitInv, SecNextInv, PTL DEF SecSpec

\* writeCrowdSecPolicyArtifacts: between jobs the files are a policy crowdsec -t took,
\* unless a stop or a failed restoration left other files than the job had found and
\* none was taken since, for any files, jobs and failures.
THEOREM LeftPolicyHolds == SecSpec => []LeftPolicyValidated
<1>1. SecInv => LeftPolicyValidated
  BY DEF SecInv, PolicyInv, LeftPolicyValidated
<1> QED
  BY SecAlways, <1>1, PTL

\* applyCyberSecurityBlocklist: no step lifts the block of a listed address.
THEOREM ListedStaysHolds == SecSpec => ListedStaysBlocked
<1> DEFINE Stays == \A a \in profile.list : Banned(decisions, a) => Banned(decisions', a)
<1>1. SecInv /\ [SecNext]_secVars => [Stays]_secVars
  <2> SUFFICES ASSUME SecInv, SecNext PROVE Stays
    OBVIOUS
  <2>1. ASSUME NEW i \in deletes, DeleteDecision(i) PROVE Stays
    BY <2>1 DEF SecInv, BlocklistInv, DeleteDecision, Banned
  <2>2. ASSUME NEW a \in Addresses, AddDecision(a) PROVE Stays
    BY <2>2 DEF AddDecision, Banned
  <2>3. CASE UNCHANGED decisions
    BY <2>3 DEF Banned
  <2> QED
    BY <2>1, <2>2, <2>3
    DEF SecNext, StartApply, ApplyFails, WriteArtifact, RestoreArtifact, Validate, Restored,
        Reload, ListDecisions, Converged, SecStop
<1> QED
  BY SecAlways, <1>1, PTL DEF SecSpec, ListedStaysBlocked

HIDE CrowdSecAssumption DEF rest, files, Content
-----------------------------------------------------------------------------
(* Releases and schema plans                                               *)

USE SchemaAssumption DEF disk_, world, notes, counts, Keys

\* A job under a release is of its tag's commit; its worktree has been verified, and a
\* schema job's digest, before it works.
ReleaseInv ==
  /\ schemaPc \in {"fetch", "checkout", "verify"} => schemaJob.tag \in Tags
  /\ schemaPc \in {"checkout", "verify"} \/ (schemaPc \in {"work", "run"} /\ commit # NoEntry) =>
       /\ schemaJob.tag \in Tags /\ commit \in Commits /\ tags[schemaJob.tag] = commit
  /\ schemaPc \in {"work", "run"} /\ commit # NoEntry =>
       /\ trees[Key(commit)].head = commit /\ trees[Key(commit)].clean
       /\ product = "db" => schemaOf[commit] = schemaJob.sha
  /\ schemaPc \in {"work", "prune"} => product = "db"

\* The trees that ran under a tag held what the tag stands for.
RanInv ==
  \A r \in ran :
    /\ r.tag \in Tags /\ r.head \in Commits /\ tags[r.tag] = r.head /\ r.clean
    /\ product = "db" => schemaOf[r.head] = r.sha

\* A plan on disk is of the last plan job.
PlanInv ==
  /\ product = "db" /\ schemaPc # "idle" => schemaJob.sha \in Digests
  /\ ~keptPlan => \A d \in Digests : plans[d] \in {NoEntry, lastPlan[d]}
  /\ product = "db" /\ schemaPc = "run" /\ schemaJob.stage = "plan" =>
       lastPlan[schemaJob.sha] = schemaJob.n
  /\ product = "db" /\ schemaPc = "run" /\ schemaJob.stage = "apply" =>
       plans[schemaJob.sha] # NoEntry
  /\ ~keptPlan => \A a \in applied : a.plan = a.last

SchemaInv == SchemaTypeOK /\ schemaJobs \in Nat /\ ReleaseInv /\ RanInv /\ PlanInv

\* There is nothing on the host at first.
LEMMA SchemaInitInv == SchemaInit => SchemaInv
<1> SUFFICES ASSUME SchemaInit PROVE SchemaInv
  OBVIOUS
<1>1. SchemaTypeOK
  BY DEF SchemaInit, SchemaTypeOK, Stages, NoSchemaJob
<1> QED
  BY <1>1 DEF SchemaInit, SchemaInv, ReleaseInv, RanInv, PlanInv

\* What a job leaves of its locals is of their types.
LEMMA SchemaEndsTypes ==
  ASSUME SchemaEnds
  PROVE  /\ schemaPc' = "idle" /\ commit' = NoEntry
         /\ schemaJob' \in [stage : Stages, tag : Tags \cup {NoEntry},
                            sha : Digests \cup {NoEntry}, n : Nat]
BY DEF SchemaEnds, NoSchemaJob, Stages

\* A job starts, or is refused.
LEMMA StartSchemaInv ==
  ASSUME SchemaInv, NEW s \in Stages, NEW t \in Tags \cup {NoEntry},
         NEW d \in Digests \cup {NoEntry}, StartSchema(s, t, d),
         product = "db" => d \in Digests,
         product = "module" => t \in Tags
  PROVE  SchemaInv'
<1>1. SchemaTypeOK' /\ schemaJobs' \in Nat
  BY DEF SchemaInv, SchemaTypeOK, StartSchema
<1>2. ReleaseInv' /\ RanInv'
  BY DEF SchemaInv, SchemaTypeOK, ReleaseInv, RanInv, StartSchema
<1>3. PlanInv'
  BY DEF SchemaInv, PlanInv, StartSchema
<1> QED
  BY <1>1, <1>2, <1>3 DEF SchemaInv

\* A tag is taken once.
LEMMA FetchTagInv ==
  ASSUME SchemaInv, FetchTag
  PROVE  SchemaInv'
<1>0. schemaJob.tag \in Tags /\ remote[schemaJob.tag] \in Commits
  BY DEF SchemaInv, SchemaTypeOK, ReleaseInv, FetchTag
<1>1. SchemaTypeOK' /\ schemaJobs' \in Nat
  BY <1>0 DEF SchemaInv, SchemaTypeOK, FetchTag
<1>2. /\ tags'[schemaJob.tag] = remote[schemaJob.tag]
      /\ \A t \in Tags : tags[t] # NoEntry => tags'[t] = tags[t]
  BY <1>0 DEF SchemaInv, SchemaTypeOK, FetchTag
<1>3. RanInv'
  BY <1>2 DEF SchemaInv, RanInv, FetchTag
<1>4. ReleaseInv'
  BY <1>0, <1>2 DEF SchemaInv, ReleaseInv, FetchTag
<1>5. PlanInv'
  BY DEF SchemaInv, PlanInv, FetchTag
<1> QED
  BY <1>1, <1>3, <1>4, <1>5 DEF SchemaInv

\* The release is checked out at the tag's commit.
LEMMA CheckoutInv ==
  ASSUME SchemaInv, Checkout
  PROVE  SchemaInv'
<1>1. SchemaTypeOK' /\ schemaJobs' \in Nat
  <2>1. commit \in Commits /\ day \in Nat /\ schemaJob.tag \in Tags
        /\ schemaJob.sha \in Digests \cup {NoEntry}
    BY DEF SchemaInv, SchemaTypeOK, ReleaseInv, Checkout
  <2>2. \A b \in BOOLEAN : [head |-> commit, clean |-> b, mtime |-> day] \in Tree
    BY <2>1 DEF Tree
  <2>3. trees' \in [Keys -> Tree \cup {NoEntry}]
    BY <2>2, SchemaEndsTypes DEF SchemaInv, SchemaTypeOK, Checkout
  <2> QED
    BY <2>1, <2>3, SMTT(30), SchemaEndsTypes DEF SchemaInv, SchemaTypeOK, Checkout
<1>2. ReleaseInv' /\ RanInv'
  BY DEF SchemaInv, ReleaseInv, RanInv, Checkout, SchemaEnds
<1>3. PlanInv'
  BY DEF SchemaInv, PlanInv, Checkout, SchemaEnds
<1> QED
  BY <1>1, <1>2, <1>3 DEF SchemaInv

\* A schema job is verified against its hash.
LEMMA VerifyInv ==
  ASSUME SchemaInv, Verify
  PROVE  SchemaInv'
<1>1. SchemaTypeOK' /\ schemaJobs' \in Nat
  BY DEF SchemaInv, SchemaTypeOK, Verify
<1>2. ReleaseInv' /\ RanInv'
  BY DEF SchemaInv, SchemaTypeOK, ReleaseInv, RanInv, Verify, Key
<1>3. PlanInv'
  BY DEF SchemaInv, SchemaTypeOK, PlanInv, Verify
<1> QED
  BY <1>1, <1>2, <1>3 DEF SchemaInv

\* A plan job leaves no plan but its own; an apply finds one.
LEMMA PrepareWorkInv ==
  ASSUME SchemaInv, PrepareWork
  PROVE  SchemaInv'
<1>0. schemaJob.sha \in Digests /\ schemaJob.n \in Nat
  BY DEF SchemaInv, SchemaTypeOK, ReleaseInv, PlanInv, PrepareWork
<1>1. SchemaTypeOK' /\ schemaJobs' \in Nat
  <2>1. works' \in [Digests -> Nat \cup {NoEntry}]
    BY <1>0 DEF SchemaInv, SchemaTypeOK, PrepareWork
  <2>2. plans' \in [Digests -> Nat \cup {NoEntry}]
    BY <1>0 DEF SchemaInv, SchemaTypeOK, PrepareWork
  <2>3. lastPlan' \in [Digests -> Nat]
    BY <1>0 DEF SchemaInv, SchemaTypeOK, PrepareWork
  <2>4. keptPlan' \in BOOLEAN
    BY DEF SchemaInv, SchemaTypeOK, PrepareWork
  <2> QED
    BY <2>1, <2>2, <2>3, <2>4 DEF SchemaInv, SchemaTypeOK, PrepareWork
<1>2. ReleaseInv' /\ RanInv'
  BY DEF SchemaInv, ReleaseInv, RanInv, PrepareWork, Key
<1>3. PlanInv'
  BY <1>0 DEF SchemaInv, SchemaTypeOK, PlanInv, PrepareWork
<1> QED
  BY <1>1, <1>2, <1>3 DEF SchemaInv

\* The script is of the tag's commit, and an apply's plan of the last plan job.
LEMMA RunScriptInv ==
  ASSUME SchemaInv, NEW ok \in BOOLEAN, RunScript(ok)
  PROVE  SchemaInv'
<1>0. /\ product = "db" => schemaJob.sha \in Digests
      /\ schemaJob.n \in Nat /\ NoEntry \notin Nat
  BY DEF SchemaInv, SchemaTypeOK, PlanInv, RunScript
<1>1. SchemaTypeOK' /\ schemaJobs' \in Nat
  BY <1>0, SchemaEndsTypes DEF SchemaInv, SchemaTypeOK, RunScript
<1>2. ReleaseInv'
  BY DEF SchemaInv, ReleaseInv, RunScript, SchemaEnds
<1>3. RanInv'
  BY DEF SchemaInv, ReleaseInv, RanInv, RunScript, SchemaEnds
<1>4. PlanInv'
  BY <1>0 DEF SchemaInv, SchemaTypeOK, PlanInv, RunScript, SchemaEnds
<1> QED
  BY <1>1, <1>2, <1>3, <1>4 DEF SchemaInv

\* A job ends.
LEMMA SchemaEndInv ==
  ASSUME SchemaInv, SchemaFails \/ SchemaCompleted
  PROVE  SchemaInv'
<1>1. SchemaTypeOK' /\ schemaJobs' \in Nat
  BY SchemaEndsTypes DEF SchemaInv, SchemaTypeOK, SchemaFails, SchemaCompleted
<1>2. ReleaseInv' /\ RanInv'
  BY DEF SchemaInv, SchemaTypeOK, ReleaseInv, RanInv, SchemaFails, SchemaCompleted, SchemaEnds
<1>3. PlanInv'
  BY DEF SchemaInv, PlanInv, SchemaFails, SchemaCompleted, SchemaEnds
<1> QED
  BY <1>1, <1>2, <1>3 DEF SchemaInv

\* A prune removes, and adds nothing.
LEMMA PruneInv ==
  ASSUME SchemaInv, Prune
  PROVE  SchemaInv'
<1>1. PICK T, W : Removed(T, W)
  BY DEF Prune
<1>2. SchemaTypeOK' /\ schemaJobs' \in Nat
  BY <1>1, SchemaEndsTypes DEF SchemaInv, SchemaTypeOK, Removed
<1>3. ReleaseInv' /\ RanInv'
  BY <1>1 DEF SchemaInv, ReleaseInv, RanInv, Removed, SchemaEnds
<1>4. PlanInv'
  BY <1>1 DEF SchemaInv, PlanInv, Removed, SchemaEnds
<1> QED
  BY <1>2, <1>3, <1>4 DEF SchemaInv

\* A stop leaves the files as they are.
LEMMA SchemaStopInv ==
  ASSUME SchemaInv, SchemaStop
  PROVE  SchemaInv'
<1>1. trees' \in [Keys -> Tree \cup {NoEntry}]
  <2>1. schemaPc = "checkout" => commit \in Commits /\ day \in Nat
    BY DEF SchemaInv, SchemaTypeOK, ReleaseInv, SchemaStop
  <2>2. schemaPc = "checkout" => [head |-> commit, clean |-> FALSE, mtime |-> day] \in Tree
    BY <2>1 DEF Tree
  <2>3. trees \in [Keys -> Tree \cup {NoEntry}]
    BY DEF SchemaInv, SchemaTypeOK
  <2>4. \/ trees' = trees
        \/ /\ schemaPc = "checkout"
           /\ trees' = [trees EXCEPT ![Key(commit)] = [head |-> commit, clean |-> FALSE,
                                                       mtime |-> day]]
    BY DEF SchemaStop
  <2> QED
    BY <2>2, <2>3, <2>4
<1>2. SchemaTypeOK' /\ schemaJobs' \in Nat
  BY <1>1, SchemaEndsTypes DEF SchemaInv, SchemaTypeOK, SchemaStop
<1>3. ReleaseInv' /\ RanInv'
  BY DEF SchemaInv, ReleaseInv, RanInv, SchemaStop, SchemaEnds
<1>4. PlanInv'
  BY DEF SchemaInv, PlanInv, SchemaStop, SchemaEnds
<1> QED
  BY <1>2, <1>3, <1>4 DEF SchemaInv

\* Days, moved tags and edits leave the base checkout and the plans alone.
LEMMA OutsideInv ==
  ASSUME SchemaInv,
         \/ DayPasses
         \/ \E t \in Tags, c \in Commits : TagMoves(t, c)
         \/ \E k \in Keys : TreeEdited(k)
  PROVE  SchemaInv'
<1>1. CASE DayPasses
  BY <1>1 DEF SchemaInv, SchemaTypeOK, ReleaseInv, RanInv, PlanInv, Key, DayPasses
<1>2. ASSUME NEW t \in Tags, NEW c \in Commits, TagMoves(t, c) PROVE SchemaInv'
  BY <1>2 DEF SchemaInv, SchemaTypeOK, ReleaseInv, RanInv, PlanInv, Key, TagMoves
<1>3. ASSUME NEW k \in Keys, TreeEdited(k) PROVE SchemaInv'
  <2>1. trees' \in [Keys -> Tree \cup {NoEntry}]
    <3>1. trees[k] \in Tree
      BY <1>3 DEF SchemaInv, SchemaTypeOK, TreeEdited
    <3>2. \A c \in Commits, b \in BOOLEAN :
            [head |-> c, clean |-> b, mtime |-> trees[k].mtime] \in Tree
      BY <3>1 DEF Tree
    <3> QED
      BY <1>3, <3>2 DEF SchemaInv, SchemaTypeOK, TreeEdited
  <2> QED
    BY <1>3, <2>1 DEF SchemaInv, SchemaTypeOK, ReleaseInv, RanInv, PlanInv, TreeEdited
<1> QED
  BY <1>1, <1>2, <1>3

\* One step per action of the releases.
LEMMA SchemaNextInv == SchemaInv /\ [SchemaNext]_schemaVars => SchemaInv'
<1> SUFFICES ASSUME SchemaInv, [SchemaNext]_schemaVars PROVE SchemaInv'
  OBVIOUS
<1>1. CASE UNCHANGED schemaVars
  BY <1>1 DEF schemaVars, SchemaInv, SchemaTypeOK, ReleaseInv, RanInv, PlanInv, Key
<1>2. ASSUME NEW s \in Stages, NEW t \in Tags \cup {NoEntry}, NEW d \in Digests,
             product = "db", StartSchema(s, t, d)
      PROVE  SchemaInv'
  BY <1>2, StartSchemaInv
<1>3. ASSUME NEW t \in Tags, product = "module", StartSchema("apply", t, NoEntry)
      PROVE  SchemaInv'
  BY <1>3, StartSchemaInv DEF Stages
<1>4. CASE RunScript(TRUE) \/ RunScript(FALSE)
  BY <1>4, RunScriptInv
<1> QED
  BY <1>1, <1>2, <1>3, <1>4, FetchTagInv, CheckoutInv, VerifyInv, PrepareWorkInv, SchemaEndInv,
     PruneInv, SchemaStopInv, OutsideInv
  DEF SchemaNext, DatabaseJob, ModuleJob, ModuleRelease

\* The invariant holds of every behaviour.
LEMMA SchemaAlways == SchemaSpec => []SchemaInv
BY SchemaInitInv, SchemaNextInv, PTL DEF SchemaSpec

\* prepareSchemaRelease and prepareModuleRelease: whatever was edited, cut short or moved,
\* every tree a script runs from is clean, of the one commit of its tag, and of the approved
\* schema.
THEOREM OneSourceHolds == SchemaSpec => []OneSourcePerTag
<1>1. SchemaInv => OneSourcePerTag
  BY DEF SchemaInv, RanInv, OneSourcePerTag
<1> QED
  BY SchemaAlways, <1>1, PTL

\* schemaReconcile: an apply loads the plan of the last plan job, if the removal of an
\* older plan never failed.
THEOREM AppliesLastHolds == SchemaSpec => []AppliesLastPlan
<1>1. SchemaInv => AppliesLastPlan
  BY DEF SchemaInv, PlanInv, AppliesLastPlan
<1> QED
  BY SchemaAlways, <1>1, PTL

\* What expires is old, not in use, and beyond the entries to keep, which are as new.
LEMMA ExpiredBeyondKept ==
  ASSUME NEW S, IsFiniteSet(S), NEW age, NEW keep \in Nat, NEW current,
         NEW E \in Expired(S, age, keep, current), NEW e \in E
  PROVE  /\ e \in S /\ e \notin current /\ age[e] > MinAgeDays
         /\ \E K \in SUBSET (S \ {e}) :
              Cardinality(K) = keep /\ \A k \in K : age[k] <= age[e]
<1>1. PICK K \in SUBSET S :
        /\ Cardinality(K) = IF Cardinality(S) < keep THEN Cardinality(S) ELSE keep
        /\ \A k \in K, x \in S \ K : age[k] <= age[x]
        /\ E = {x \in S \ K : x \notin current /\ age[x] > MinAgeDays}
  BY DEF Expired
<1>2. e \in S \ K
  BY <1>1
<1>3. Cardinality(K) = keep
  <2>1. Cardinality(S) \in Nat /\ Cardinality(K) # Cardinality(S)
    BY <1>2, FS_CardinalityType, FS_Subset
  <2> QED
    BY <1>1, <2>1
<1>4. K \in SUBSET (S \ {e}) /\ \A k \in K : age[k] <= age[e]
  BY <1>1, <1>2
<1> QED
  BY <1>1, <1>2, <1>3, <1>4

\* pruneSchemaArtifacts: for any finite set of digests, a prune leaves the plans of the
\* job that prunes, of the last days, and of the newest work directories, as many as are
\* to be kept.
THEOREM PruneKeepsHolds ==
  ASSUME IsFiniteSet(Digests)
  PROVE  SchemaSpec => PruneKeepsRecentPlans
<1> DEFINE AsNew(d) == {e \in Digests \ {d} : works[e] # NoEntry /\ works[e] >= works[d]}
           Kept == \A d \in Digests :
              plans[d] # NoEntry /\ plans'[d] = NoEntry =>
                \/ schemaPc = "work" /\ schemaJob.sha = d
                \/ /\ schemaJob.sha # d /\ day - works[d] > MinAgeDays
                   /\ Cardinality(AsNew(d)) >= KeepBackups
<1>1. SchemaInv /\ [SchemaNext]_schemaVars => [Kept]_schemaVars
  <2> SUFFICES ASSUME SchemaInv, SchemaNext PROVE Kept
    OBVIOUS
  <2>1. CASE UNCHANGED plans
    BY <2>1
  <2>2. CASE PrepareWork
    BY <2>2 DEF SchemaInv, SchemaTypeOK, ReleaseInv, PlanInv, PrepareWork
  <2>3. ASSUME NEW ok \in BOOLEAN, RunScript(ok) PROVE Kept
    BY <2>3 DEF SchemaInv, SchemaTypeOK, PlanInv, RunScript
  <2>4. CASE Prune
    <3> DEFINE S == {e \in Digests : works[e] # NoEntry}
    <3>1. PICK W \in Expired(DOMAIN WorkAges, WorkAges, KeepBackups, {schemaJob.sha}) :
            \E T1 : \E W1 \in SUBSET W : Removed(T1, W1)
      BY <2>4 DEF Prune
    <3>2. DOMAIN WorkAges = S /\ \A e \in S : WorkAges[e] = day - works[e]
      BY DEF WorkAges
    <3>3. IsFiniteSet(S)
      BY FS_Subset
    <3>4. ASSUME NEW d \in Digests, plans[d] # NoEntry, plans'[d] = NoEntry
          PROVE  /\ schemaJob.sha # d /\ day - works[d] > MinAgeDays
                 /\ Cardinality(AsNew(d)) >= KeepBackups
      <4>1. d \in W
        BY <3>1, <3>4 DEF Removed
      <4>2. /\ d \in S /\ d \notin {schemaJob.sha} /\ WorkAges[d] > MinAgeDays
            /\ \E K \in SUBSET (S \ {d}) :
                 Cardinality(K) = KeepBackups /\ \A k \in K : WorkAges[k] <= WorkAges[d]
        BY <3>1, <3>2, <3>3, <4>1, ExpiredBeyondKept
      <4>3. PICK K \in SUBSET (S \ {d}) :
              Cardinality(K) = KeepBackups /\ \A k \in K : WorkAges[k] <= WorkAges[d]
        BY <4>2
      <4>4. day \in Nat /\ \A e \in S : works[e] \in Nat
        BY DEF SchemaInv, SchemaTypeOK
      <4>5. K \subseteq AsNew(d)
        BY <3>2, <4>2, <4>3, <4>4
      <4>6. IsFiniteSet(AsNew(d))
        BY FS_Subset
      <4>7. Cardinality(K) <= Cardinality(AsNew(d)) /\ Cardinality(AsNew(d)) \in Nat
        BY <4>5, <4>6, FS_Subset, FS_CardinalityType
      <4>8. Cardinality(AsNew(d)) >= KeepBackups
        BY <4>3, <4>7
      <4> QED
        BY <3>2, <4>2, <4>8
    <3> QED
      BY <3>4
  <2> QED
    BY <2>1, <2>2, <2>3, <2>4
    DEF SchemaNext, DatabaseJob, ModuleJob, ModuleRelease, StartSchema, FetchTag, Checkout,
        Verify, SchemaCompleted, SchemaFails, SchemaStop, DayPasses, TagMoves, TreeEdited
<1> QED
  BY SchemaAlways, <1>1, PTL DEF SchemaSpec, PruneKeepsRecentPlans

HIDE SchemaAssumption DEF disk_, world, notes, counts, Keys
-----------------------------------------------------------------------------
(* The version cache of the heartbeats                                     *)

\* After a clean update the cache, and a collection on its way there, is of the version
\* installed.
HeartbeatInv ==
  /\ inst \in Nat /\ cache \in Nat /\ posture \in Nat
  /\ beat \in [version : Nat, posture : Nat]
  /\ clean => /\ cached => cache \in {inst, 0}
              /\ phase = "reading" => beat.version \in {inst, 0}

\* Nothing is cached at first.
LEMMA HeartbeatInitInv == Init => HeartbeatInv
BY DEF Init, HeartbeatInv, NoBeat

\* A heartbeat joined or started is not yet a collection.
LEMMA JoinInv ==
  ASSUME HeartbeatInv, NEW st \in Nat, JoinOrStart(st)
  PROVE  /\ beat' \in [version : Nat, posture : Nat]
         /\ phase' = "reading" => UNCHANGED <<phase, beat>>
<1>1. CASE phase = "none"
  BY <1>1 DEF HeartbeatInv, JoinOrStart, NoBeat
<1>2. CASE phase # "none"
  BY <1>2 DEF HeartbeatInv, JoinOrStart
<1> QED
  BY <1>1, <1>2

\* The lane's part of the heartbeat.
LEMMA LaneHeartbeatInv ==
  ASSUME HeartbeatInv, LaneRun \/ LaneHeartbeat
  PROVE  HeartbeatInv'
<1>1. CASE LaneRun
  BY <1>1 DEF HeartbeatInv, LaneRun, host, versions
<1>2. CASE LaneHeartbeat
  <2>1. \/ UNCHANGED <<phase, beat>>
        \/ \E st \in Nat : JoinOrStart(st)
    BY <1>2 DEF HeartbeatInv, LaneHeartbeat
  <2>2. /\ beat' \in [version : Nat, posture : Nat]
        /\ phase' = "reading" => UNCHANGED <<phase, beat>>
    BY <2>1, JoinInv DEF HeartbeatInv
  <2> QED
    BY <1>2, <2>2 DEF HeartbeatInv, LaneHeartbeat, host, versions
<1> QED
  BY <1>1, <1>2

\* The collection of versions and the request.
LEMMA BeatInv ==
  ASSUME HeartbeatInv, Versions \/ StoreVersions \/ BeatSucceeds \/ BeatFails
  PROVE  HeartbeatInv'
<1>1. CASE Versions
  <2>1. /\ VersionRead \in {inst, 0} /\ UNCHANGED <<host, caps, versions, clean>>
        /\ \/ cached /\ phase' = "sending" /\ beat' = [beat EXCEPT !.version = cache]
           \/ beat' = [beat EXCEPT !.version = VersionRead]
    BY <1>1 DEF Versions, VersionRead
  <2> QED
    BY <2>1 DEF HeartbeatInv, host, versions
<1>2. CASE StoreVersions
  BY <1>2 DEF HeartbeatInv, StoreVersions, host, due
<1>3. CASE BeatSucceeds \/ BeatFails
  <2>1. /\ phase' = "none" /\ beat' = NoBeat
        /\ UNCHANGED <<host, versions, clean>>
    BY <1>3 DEF BeatSucceeds, BeatFails, BeatOver
  <2> QED
    BY <2>1 DEF HeartbeatInv, NoBeat, host, versions
<1> QED
  BY <1>1, <1>2, <1>3

\* An update clears the cache last.
LEMMA UpdateInv ==
  ASSUME HeartbeatInv, Install \/ UpdateEnds \/ UpdateHeartbeat
  PROVE  HeartbeatInv'
<1>1. CASE Install
  BY <1>1 DEF HeartbeatInv, Install, versions
<1>2. CASE UpdateEnds
  <2>1. /\ UNCHANGED <<host, cache, phase, beat>>
        /\ \/ ~cached' /\ (clean' => phase # "reading")
           \/ UNCHANGED <<cached, clean>>
    BY <1>2 DEF UpdateEnds
  <2> QED
    BY <2>1 DEF HeartbeatInv, host
<1>3. CASE UpdateHeartbeat
  <2>1. /\ beat' \in [version : Nat, posture : Nat]
        /\ phase' = "reading" => UNCHANGED <<phase, beat>>
    BY <1>3, JoinInv DEF HeartbeatInv, UpdateHeartbeat
  <2> QED
    BY <1>3, <2>1 DEF HeartbeatInv, UpdateHeartbeat, host, versions
<1> QED
  BY <1>1, <1>2, <1>3

\* One step per action; time and the host touch neither the cache nor the version.
LEMMA HeartbeatNextInv == HeartbeatInv /\ [Next]_vars => HeartbeatInv'
<1> SUFFICES ASSUME HeartbeatInv, [Next]_vars PROVE HeartbeatInv'
  OBVIOUS
<1>1. CASE \/ CapabilityIntervalPasses \/ CacheExpires \/ HeartbeatIntervalPasses
           \/ CyberIntervalPasses
  BY <1>1 DEF HeartbeatInv, CapabilityIntervalPasses, CacheExpires,
     HeartbeatIntervalPasses, CyberIntervalPasses, host, versions
<1>2. CASE HostChanges
  BY <1>2 DEF HeartbeatInv, HostChanges, versions
<1>3. CASE UNCHANGED vars
  BY <1>3 DEF HeartbeatInv, vars
<1> QED
  BY <1>1, <1>2, <1>3, LaneHeartbeatInv, BeatInv, UpdateInv DEF Next

\* The invariant holds of every behaviour.
LEMMA HeartbeatAlways == Spec => []HeartbeatInv
BY HeartbeatInitInv, HeartbeatNextInv, PTL DEF Spec

\* An update that cleared the cache with no collection under way is what every later
\* collection caches (executeRuntimeUpdateJob, collectRuntimeVersions).
THEOREM FreshAfterUpdate == Spec => []FreshAfterCleanUpdate
<1>1. HeartbeatInv => FreshAfterCleanUpdate
  BY DEF HeartbeatInv, FreshAfterCleanUpdate
<1> QED
  BY <1>1, HeartbeatAlways, PTL

(* Types of the heartbeat: the host with its caches, and what is on its way to the API.   *)

CacheTypes ==
  /\ inst \in 1..MaxVersion /\ script \in BOOLEAN /\ posture \in Nat \ {0}
  /\ caps \in BOOLEAN /\ cached \in BOOLEAN /\ cache \in 0..MaxVersion
  /\ capsDue \in BOOLEAN /\ beatDue \in BOOLEAN /\ cyberDue \in BOOLEAN
  /\ lane \in {"asleep", "collecting", "waiting"}
  /\ job \in {"idle", "updating", "reporting", "waiting"}

BeatTypes ==
  /\ phase \in {"none", "versions", "reading", "sending"}
  /\ beat \in [version : 0..MaxVersion, posture : Nat]
  /\ api \in [version : 0..MaxVersion, posture : Nat, caps : BOOLEAN]
  /\ changes \in Nat /\ faults \in Nat
  /\ clean \in BOOLEAN

\* The host and the caches.
LEMMA CacheTypesKept == TypeOK /\ [Next]_vars => CacheTypes'
<1> SUFFICES ASSUME TypeOK, [Next]_vars PROVE CacheTypes'
  OBVIOUS
<1> USE BoundAssumption DEF CacheTypes, TypeOK, host, versions, due
<1>1. CASE LaneRun
  BY <1>1 DEF LaneRun
<1>2. CASE LaneHeartbeat
  BY <1>2 DEF LaneHeartbeat
<1>3. CASE Versions
  BY <1>3 DEF Versions
<1>4. CASE StoreVersions
  BY <1>4 DEF StoreVersions
<1>5. CASE BeatSucceeds
  BY <1>5 DEF BeatSucceeds, BeatOver
<1>6. CASE BeatFails
  BY <1>6 DEF BeatFails, BeatOver
<1>7. CASE Install
  BY <1>7 DEF Install
<1>8. CASE UpdateEnds
  BY <1>8 DEF UpdateEnds
<1>9. CASE UpdateHeartbeat
  BY <1>9 DEF UpdateHeartbeat
<1>10. CASE \/ CapabilityIntervalPasses \/ CacheExpires \/ HeartbeatIntervalPasses
           \/ CyberIntervalPasses
  BY <1>10 DEF CapabilityIntervalPasses, CacheExpires, HeartbeatIntervalPasses,
     CyberIntervalPasses
<1>11. CASE HostChanges
  <2>1. script' \in BOOLEAN
    BY <1>11, Zenon DEF HostChanges
  <2> QED
    BY <1>11, <2>1 DEF HostChanges
<1>12. CASE UNCHANGED vars
  BY <1>12 DEF vars
<1> QED
  BY <1>1, <1>2, <1>3, <1>4, <1>5, <1>6, <1>7, <1>8, <1>9, <1>10, <1>11, <1>12
  DEF Next

\* The heartbeat, and what the API hears of it.
LEMMA BeatTypesKept == TypeOK /\ [Next]_vars => BeatTypes'
<1> SUFFICES ASSUME TypeOK, [Next]_vars PROVE BeatTypes'
  OBVIOUS
<1> USE BoundAssumption DEF BeatTypes, TypeOK, host, versions, due
<1>1. CASE LaneRun
  BY <1>1 DEF LaneRun
<1>2. CASE LaneHeartbeat
  BY <1>2 DEF LaneHeartbeat, JoinOrStart, NoBeat, Fault
<1>3. CASE Versions
  BY <1>3 DEF Versions, VersionRead
<1>4. CASE StoreVersions
  BY <1>4 DEF StoreVersions
<1>5. CASE BeatSucceeds
  BY <1>5 DEF BeatSucceeds, BeatOver, ApiHears, NoBeat
<1>6. CASE BeatFails
  BY <1>6 DEF BeatFails, BeatOver, ApiHears, NoBeat, Fault
<1>7. CASE Install
  BY <1>7 DEF Install
<1>8. CASE UpdateEnds
  <2>1. clean' \in BOOLEAN
    BY <1>8, Zenon DEF UpdateEnds
  <2> QED
    BY <1>8, <2>1 DEF UpdateEnds, Fault
<1>9. CASE UpdateHeartbeat
  BY <1>9 DEF UpdateHeartbeat, JoinOrStart, NoBeat, Fault
<1>10. CASE \/ CapabilityIntervalPasses \/ CacheExpires \/ HeartbeatIntervalPasses
           \/ CyberIntervalPasses
  BY <1>10 DEF CapabilityIntervalPasses, CacheExpires, HeartbeatIntervalPasses,
     CyberIntervalPasses
<1>11. CASE HostChanges
  BY <1>11 DEF HostChanges
<1>12. CASE UNCHANGED vars
  BY <1>12 DEF vars
<1> QED
  BY <1>1, <1>2, <1>3, <1>4, <1>5, <1>6, <1>7, <1>8, <1>9, <1>10, <1>11, <1>12
  DEF Next

\* Every variable of the heartbeat keeps its type: the versions it caches and reports are
\* ones the host can have (collectRuntimeVersions, performHeartbeat).
THEOREM HeartbeatTypeCorrect == Spec => []TypeOK
<1>1. Init => TypeOK
  <2> SUFFICES ASSUME Init PROVE TypeOK
    OBVIOUS
  <2>1. script \in BOOLEAN /\ caps \in BOOLEAN
    <3>1. script \in BOOLEAN /\ caps = script
      BY Zenon DEF Init
    <3> QED
      BY <3>1, Zenon
  <2>2. /\ inst = 1 /\ posture = 1 /\ ~cached /\ cached \in BOOLEAN /\ cache = 0
        /\ capsDue \in BOOLEAN /\ beatDue \in BOOLEAN /\ cyberDue \in BOOLEAN
        /\ lane = "asleep" /\ job = "idle" /\ phase = "none" /\ beat = NoBeat
        /\ api = [version |-> 0, posture |-> 0, caps |-> FALSE]
        /\ changes = 0 /\ faults = 0 /\ clean \in BOOLEAN
    BY Zenon DEF Init
  <2>3. CacheTypes
    BY <2>1, <2>2, BoundAssumption DEF CacheTypes
  <2>4. BeatTypes
    BY <2>2, BoundAssumption DEF BeatTypes, NoBeat
  <2> QED
    BY <2>3, <2>4 DEF TypeOK, CacheTypes, BeatTypes
<1>2. TypeOK /\ [Next]_vars => TypeOK'
  BY CacheTypesKept, BeatTypesKept DEF TypeOK, CacheTypes, BeatTypes
<1> QED
  BY <1>1, <1>2, PTL DEF Spec

-----------------------------------------------------------------------------
(* Table maintenance                                                       *)

\* A table of the list has not outgrown its size by more than the host has written since;
\* a copy is written by a rebuild; and what an undisturbed rebuild was promised of the disk
\* is still there, or in its copy, or written by the host.
TableInv ==
  /\ TableTypeOK
  /\ maintPc = "idle" => Listed = {}
  /\ maintPc \notin {"idle", "measure"} => remaining \subseteq Listed
  /\ maintPc \notin {"idle", "measure", "next"} => table \in Listed
  /\ maintPc = "rebuilds" => table \notin orphans
  /\ \A t \in Tables : copied[t] > 0 => t \in Rebuilding
  /\ \A t \in Listed : pages[t] <= sizes[t] + grown
  /\ alone /\ maintPc \in {"announced", "waits", "rebuilds"} =>
       orphans = {} /\ 5 * (space + copied[table] + grown) >= 6 * sizes[table]

\* No table is listed at first.
LEMMA TableInitInv == TableInit => TableInv
<1> SUFFICES ASSUME TableInit PROVE TableInv
  OBVIOUS
<1>1. PICK free \in [Tables -> Purged] :
        /\ \A t \in Tables : free[t] <= used[t]
        /\ pages = [t \in Tables |-> used[t] - free[t]]
  BY DEF TableInit
<1>2. used \in [Tables -> Nat] /\ free \in [Tables -> Nat] /\ space \in Nat
  BY MaintenanceAssumption DEF TableInit
<1>3. \A t \in Tables : used[t] - free[t] \in Nat /\ 0 <= used[t] - free[t]
                        /\ used[t] - free[t] <= used[t]
  BY <1>1, <1>2
<1>4. TableTypeOK
  BY <1>1, <1>2, <1>3 DEF TableInit, TableTypeOK, MaintPcs, TableOutcomes
<1> QED
  BY <1>4 DEF TableInit, TableInv, Listed

\* A job begins with nothing listed, and lists what it measures.
LEMMA MeasureInv ==
  ASSUME TableInv, StartMaintenance \/ StartLoop \/ \E t \in Tables : MeasureTable(t)
  PROVE  TableInv'
<1>1. CASE StartMaintenance
  BY <1>1 DEF TableInv, TableTypeOK, StartMaintenance, tableDisk, Listed, Rebuilding, MaintPcs
<1>2. CASE StartLoop
  BY <1>2 DEF TableInv, TableTypeOK, StartLoop, tableDisk, Listed, Rebuilding, MaintPcs
<1>3. ASSUME NEW t \in Tables, MeasureTable(t)
      PROVE  TableInv'
  <2>1. TableTypeOK'
    BY <1>3 DEF TableInv, TableTypeOK, MeasureTable, tableDisk, TableOutcomes
  <2>2. Listed' = Listed \cup {t} /\ pages[t] <= sizes'[t] + grown
    BY <1>3 DEF TableInv, TableTypeOK, MeasureTable, Listed
  <2>3. \A s \in Tables \ {t} : sizes'[s] = sizes[s]
    BY <1>3 DEF TableInv, TableTypeOK, MeasureTable
  <2> QED
    BY <1>3, <2>1, <2>2, <2>3 DEF TableInv, TableTypeOK, MeasureTable, tableDisk, Listed,
       Rebuilding
<1> QED
  BY <1>1, <1>2, <1>3

\* A table is considered and its rebuild announced; the comparison is the promise.
LEMMA ConsiderInv ==
  ASSUME TableInv, SendOptimize \/ \E t \in Tables : ConsiderTable(t)
  PROVE  TableInv'
<1>1. CASE SendOptimize
  BY <1>1 DEF TableInv, TableTypeOK, SendOptimize, loop, tableDisk, Listed, Rebuilding, MaintPcs
<1>2. ASSUME NEW t \in Tables, ConsiderTable(t)
      PROVE  TableInv'
  <2>1. TableTypeOK'
    BY <1>2 DEF TableInv, TableTypeOK, ConsiderTable, tableDisk, TableOutcomes, MaintPcs
  <2>2. Listed' = Listed /\ t \in Listed
    BY <1>2 DEF TableInv, TableTypeOK, ConsiderTable, Listed
  <2>3. Rebuilding' = Rebuilding /\ (orphans = {} => copied[t] = 0)
    BY <1>2 DEF TableInv, TableTypeOK, ConsiderTable, tableDisk, Rebuilding
  <2>4. alone' /\ maintPc' \in {"announced", "waits", "rebuilds"} =>
          orphans = {} /\ table' = t /\ 5 * space >= 6 * sizes[t]
    BY <1>2 DEF ConsiderTable, EnoughSpace
  <2>5. 5 * space >= 6 * sizes[t] /\ copied[t] = 0 =>
          5 * (space + copied[t] + grown) >= 6 * sizes[t]
    BY DEF TableInv, TableTypeOK
  <2> QED
    BY <1>2, <2>1, <2>2, <2>3, <2>4, <2>5 DEF TableInv, ConsiderTable, tableDisk
<1> QED
  BY <1>1, <1>2

\* What is copied is taken from the free space.
LEMMA CopyInv ==
  ASSUME TableInv, NEW t \in Tables, CopyGoesOn(t)
  PROVE  TableInv'
<1>1. PICK n \in 1..CopyStep :
        /\ t \in Rebuilding /\ n <= space /\ copied[t] + n <= pages[t]
        /\ copied' = [copied EXCEPT ![t] = @ + n] /\ space' = space - n
        /\ UNCHANGED <<maintPc, loop, used, pages, orphans, grown, maintJobs, deaths>>
  BY DEF CopyGoesOn
<1>2. n \in Nat
  BY <1>1, MaintenanceAssumption
<1>3. TableTypeOK'
  BY <1>1, <1>2 DEF TableInv, TableTypeOK, loop
<1>4. alone /\ maintPc \in {"announced", "waits", "rebuilds"} =>
        t = table /\ space' + copied'[table] = space + copied[table]
  BY <1>1, <1>2 DEF TableInv, TableTypeOK, Rebuilding
<1> QED
  BY <1>1, <1>2, <1>3, <1>4 DEF TableInv, TableTypeOK, loop, Listed, Rebuilding

\* A rebuild that is over leaves no copy, and one that waited for it begins with none.
LEMMA RebuildOverInv ==
  ASSUME TableInv, NEW t \in Tables, RebuildEnds(t) \/ RebuildFails(t)
  PROVE  TableInv'
<1>1. PICK how \in {"rebuilt", "broken"} : RebuildOver(t, how)
  BY DEF RebuildEnds, RebuildFails
<1>2. /\ t \in Rebuilding
      /\ space' \in Nat /\ used' \in [Tables -> Nat]
      /\ \A s \in Tables : pages[s] <= used'[s]
  BY DEF RebuildEnds, RebuildFails, TableInv, TableTypeOK
<1>3. TableTypeOK'
  <2>1. /\ copied' \in [Tables -> Nat] /\ \A s \in Tables : copied'[s] <= pages[s]
        /\ orphans' \subseteq Tables /\ maintPc' \in MaintPcs
    BY <1>1 DEF TableInv, TableTypeOK, RebuildOver, MaintPcs
  <2> QED
    BY <1>1, <1>2, <2>1 DEF TableInv, TableTypeOK, RebuildOver, loop
<1>4. t \notin orphans => maintPc = "rebuilds" /\ t = table
  BY <1>2 DEF Rebuilding
<1>5. maintPc' # maintPc => table \in Listed /\ remaining \subseteq Listed
  BY <1>1, <1>4 DEF TableInv, RebuildOver
<1>6. \A s \in Tables : copied'[s] > 0 => s \in Rebuilding'
  BY <1>1, <1>4 DEF TableInv, TableTypeOK, RebuildOver, Rebuilding, loop
<1>7. alone /\ maintPc \in {"announced", "waits", "rebuilds"} =>
        maintPc' \notin {"announced", "waits", "rebuilds"}
  BY <1>1, <1>2 DEF TableInv, RebuildOver, Rebuilding
<1>8. maintPc' \in {"announced", "waits", "rebuilds"} =>
        maintPc \in {"announced", "waits", "rebuilds"}
  BY <1>1, <1>4 DEF RebuildOver
<1>9. maintPc' = "rebuilds" => table \notin orphans'
  BY <1>1, <1>4 DEF TableInv, RebuildOver
<1>10. UNCHANGED <<loop, pages, grown>> /\ Listed' = Listed
  BY <1>1 DEF RebuildOver, loop, Listed
<1>11. maintPc \in {"idle", "measure", "next"} => maintPc' = maintPc
  BY <1>1, <1>4 DEF RebuildOver
<1>12. maintPc' \notin {"idle", "measure"} => maintPc \notin {"idle", "measure"}
  BY <1>11
<1>13. maintPc' = "idle" => maintPc = "idle"
  BY <1>1 DEF RebuildOver
<1> QED
  BY <1>3, <1>5, <1>6, <1>7, <1>8, <1>9, <1>10, <1>11, <1>12, <1>13 DEF TableInv, loop

\* What the host writes is counted.
LEMMA GrowthInv ==
  ASSUME TableInv, DiskFills \/ \E t \in Tables : TableGrows(t)
  PROVE  TableInv'
<1>1. CASE DiskFills
  BY <1>1 DEF TableInv, TableTypeOK, DiskFills, loop, Listed, Rebuilding
<1>2. ASSUME NEW t \in Tables, TableGrows(t)
      PROVE  TableInv'
  <2>1. /\ grown' = grown + 1 /\ UNCHANGED <<maintPc, loop, copied, orphans, maintJobs, deaths>>
        /\ space' \in Nat /\ space' + 1 >= space
        /\ used' \in [Tables -> Nat] /\ pages' \in [Tables -> Nat]
        /\ \A s \in Tables : /\ pages'[s] <= used'[s]
                             /\ pages[s] <= pages'[s] /\ pages'[s] <= pages[s] + 1
    BY <1>2 DEF TableInv, TableTypeOK, TableGrows
  <2>2. TableTypeOK'
    BY <2>1 DEF TableInv, TableTypeOK, loop
  <2> QED
    BY <2>1, <2>2 DEF TableInv, TableTypeOK, loop, Listed, Rebuilding
<1> QED
  BY <1>1, <1>2

\* A statement returns, or its client dies, and the loop goes on; or the job is over.
LEMMA JobGoesOnInv ==
  ASSUME TableInv,
         \/ StatementReturns \/ ClientDies
         \/ MaintenanceReports \/ MaintenanceFails \/ MaintenanceStops
  PROVE  TableInv'
<1>1. CASE StatementReturns
  BY <1>1 DEF TableInv, TableTypeOK, StatementReturns, tableDisk, Listed, Rebuilding, MaintPcs,
     TableOutcomes
<1>2. CASE ClientDies
  BY <1>2 DEF TableInv, TableTypeOK, ClientDies, Orphaned, tableDisk, Listed, Rebuilding,
     MaintPcs, TableOutcomes
<1>3. CASE MaintenanceReports
  BY <1>3 DEF TableInv, TableTypeOK, MaintenanceReports, JobOver, tableDisk, Listed, Rebuilding,
     MaintPcs, TableOutcomes
<1>4. CASE MaintenanceFails
  BY <1>4 DEF TableInv, TableTypeOK, MaintenanceFails, JobOver, tableDisk, Listed, Rebuilding,
     MaintPcs, TableOutcomes
<1>5. CASE MaintenanceStops
  <2>1. TableTypeOK'
    <3>1. Orphaned \subseteq Tables
      BY DEF TableInv, Orphaned, Listed
    <3>2. /\ maintPc' = "idle" /\ remaining' = {} /\ table' = NoTable /\ alone' = FALSE
          /\ sizes' \in [Tables -> Nat] /\ outcome' \in [Tables -> TableOutcomes]
      BY <1>5 DEF MaintenanceStops, JobOver, TableOutcomes
    <3>3. orphans' \subseteq Tables /\ deaths' \in Nat
      BY <1>5, <3>1 DEF TableInv, TableTypeOK, MaintenanceStops
    <3>4. UNCHANGED <<maintAction, reported, used, pages, copied, space, grown, maintJobs>>
      BY <1>5 DEF MaintenanceStops, tableDisk
    <3> QED
      BY <3>2, <3>3, <3>4 DEF TableInv, TableTypeOK, MaintPcs
  <2>2. Listed' = {} /\ Rebuilding' = Rebuilding /\ maintPc' = "idle" /\ ~alone'
    BY <1>5 DEF MaintenanceStops, JobOver, Orphaned, Listed, Rebuilding
  <2> QED
    BY <1>5, <2>1, <2>2 DEF TableInv, MaintenanceStops, tableDisk
<1> QED
  BY <1>1, <1>2, <1>3, <1>4, <1>5

\* One step per action of the maintenance, the server and the host.
LEMMA TableNextInv == TableInv /\ [TableNext]_tableVars => TableInv'
<1> SUFFICES ASSUME TableInv, [TableNext]_tableVars PROVE TableInv'
  OBVIOUS
<1>1. CASE UNCHANGED tableVars
  BY <1>1 DEF TableInv, TableTypeOK, tableVars, loop, tableDisk, Listed, Rebuilding
<1>2. CASE TableNext
  BY <1>2, MeasureInv, ConsiderInv, CopyInv, RebuildOverInv, GrowthInv, JobGoesOnInv
  DEF TableNext
<1> QED
  BY <1>1, <1>2

\* The invariant holds of every behaviour.
LEMMA TableAlways == TableSpec => []TableInv
BY TableInitInv, TableNextInv, PTL DEF TableSpec

\* executeDatabaseTableMaintenanceJob: for any tables, sizes and disks, a rebuild begins with
\* room for its copy and keeps it, while the host writes less than a tenth of the table's
\* size and no rebuild of a dead client goes on.
THEOREM RebuildHasRoomHolds == TableSpec => []RebuildHasRoom
<1>1. TableInv => RebuildHasRoom
  <2> SUFFICES ASSUME TableInv, maintPc = "rebuilds", alone, 10 * grown <= sizes[table]
               PROVE  pages[table] - copied[table] <= space
    BY DEF RebuildHasRoom
  <2>1. table \in Tables /\ pages[table] <= sizes[table] + grown
    BY DEF TableInv, Listed
  <2>2. 5 * (space + copied[table] + grown) >= 6 * sizes[table]
    BY DEF TableInv
  <2>3. /\ pages[table] \in Nat /\ copied[table] \in Nat /\ space \in Nat /\ grown \in Nat
        /\ sizes[table] \in Nat
    BY <2>1 DEF TableInv, TableTypeOK
  <2> QED
    BY <2>1, <2>2, <2>3
<1> QED
  BY <1>1, TableAlways, PTL

-----------------------------------------------------------------------------
(* The parts together                                                      *)

\* A part at rest takes no step, and one that moves takes a step of its own.
LEMMA PartsStep ==
  [HostNext]_hostVars =>
    /\ [RateNext]_rateVars /\ [FileNext]_fileVars /\ [SchemaNext]_schemaVars
    /\ [PabxNext]_pabxVars /\ [SecNext]_secVars /\ [CaptureNext]_captureVars
    /\ [TableNext]_tableVars
<1> SUFFICES ASSUME [HostNext]_hostVars
             PROVE  /\ [RateNext]_rateVars /\ [FileNext]_fileVars /\ [SchemaNext]_schemaVars
                    /\ [PabxNext]_pabxVars /\ [SecNext]_secVars /\ [CaptureNext]_captureVars
                    /\ [TableNext]_tableVars
  OBVIOUS
<1>1. CASE RateMoves
  BY <1>1 DEF RateMoves
<1>2. CASE FilesMove
  BY <1>2 DEF FilesMove
<1>3. CASE SchemaMoves
  BY <1>3 DEF SchemaMoves
<1>4. CASE PabxMoves
  BY <1>4 DEF PabxMoves
<1>5. CASE CrowdSecMoves
  BY <1>5 DEF CrowdSecMoves
<1>6. CASE CaptureMoves
  BY <1>6 DEF CaptureMoves
<1>7. CASE TablesMove
  BY <1>7 DEF TablesMove
<1>8. CASE UNCHANGED hostVars
  BY <1>8 DEF hostVars
<1> QED
  BY <1>1, <1>2, <1>3, <1>4, <1>5, <1>6, <1>7, <1>8 DEF HostNext

\* The parts do not disturb each other: each behaves beside the others as it does alone
\* (main.ts executeLeasedJob, one job of the lane after the other; voip-rate.ts).
THEOREM HostParts ==
  HostSpec => /\ RateSpec /\ FileSpec /\ SchemaSpec /\ PabxSpec /\ SecSpec /\ CaptureSpec
              /\ TableSpec
<1>1. HostInit => /\ RateInit /\ FileInit /\ SchemaInit /\ PabxInit /\ SecInit /\ CaptureInit
                  /\ TableInit
  BY DEF HostInit
<1> QED
  BY <1>1, PartsStep, PTL
  DEF HostSpec, RateSpec, FileSpec, SchemaSpec, PabxSpec, SecSpec, CaptureSpec, TableSpec

\* Every variable of every part keeps its type, whichever part moves.
THEOREM HostTypeCorrect == HostSpec => []HostTypeOK
<1>1. SchemaInv => SchemaTypeOK
  BY DEF SchemaInv
<1>2. PabxInv => PabxTypeOK
  BY DEF PabxInv
<1>3. SecInv => SecTypeOK
  BY DEF SecInv
<1>4. CaptureInv => CaptureTypeOK
  BY DEF CaptureInv
<1>5. TableInv => TableTypeOK
  BY DEF TableInv
<1>6. RateTypeOK /\ FileTypeOK /\ SchemaTypeOK /\ PabxTypeOK /\ SecTypeOK /\ CaptureTypeOK
        /\ TableTypeOK => HostTypeOK
  BY DEF HostTypeOK
<1> QED
  BY <1>1, <1>2, <1>3, <1>4, <1>5, <1>6, HostParts, RateTypeCorrect, FileTypeCorrect,
     SchemaAlways, PabxAlways, SecAlways, CaptureAlways, TableAlways, PTL

\* What the job lane's work promises holds of the parts together: no mixture of two files is
\* sent, nothing unchecked is removed, no destination holds part of a download, one source
\* stands for a release, an apply runs its last plan, an accepted PABX completion is the
\* latest change, a profile is validated, a cut-short command is no success, a sample is the
\* peak of its window and a rebuild has room.
THEOREM HostSafe ==
  HostSpec => [](/\ SentIsOneVersion /\ RemovedWasChecked /\ DestinationPreserved
                 /\ OneSourcePerTag /\ AppliesLastPlan
                 /\ AcceptedIsLatest /\ MutatesOnceConfirmed
                 /\ LeftPolicyValidated /\ NeverCutIntoSuccess /\ SampleIsPeak
                 /\ RebuildHasRoom)
<1> QED
  BY HostParts, SentIsOneVersionHolds, RemovedWasCheckedHolds, DestinationHolds,
     OneSourceHolds, AppliesLastHolds, AcceptedIsLatestHolds, MutatesOnceConfirmedHolds,
     LeftPolicyHolds, NeverCutIntoSuccessHolds, SampleIsPeakHolds, RebuildHasRoomHolds, PTL

\* So do the promises about steps: a listed address stays blocked through every apply, and
\* PABX commands have the life of JobLife.
THEOREM HostStepsSafe == HostSpec => ListedStaysBlocked /\ CommandsRefineJobLife
<1> QED
  BY HostParts, ListedStaysHolds, CommandsImplementJobLife, PTL
=============================================================================
