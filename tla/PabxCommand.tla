----------------------------- MODULE PabxCommand -----------------------------
(***************************************************************************)
(* pabx.command jobs under their fenced, renewed lease (main.ts            *)
(* executePabxCommandJob, agent.md "Fenced PABX reconciliation").          *)
(*                                                                         *)
(* The job lane runs one execution at a time; beside it a timer chains     *)
(* renewals of the lease.  Requests may arrive late, after their caller    *)
(* gave them up or after a restart of the Agent.  The API and the engines  *)
(* are external: a lease that expired is offered again under a new token.  *)
(***************************************************************************)
EXTENDS Integers, Sequences

CONSTANTS
  PabxJobs,
  NoPabxJob,
  MaxLeases,     \* bounds: leases of a job,
  MaxChain,      \* renewals waiting,
  MaxPabxStops   \* restarts

ASSUME PabxAssumption ==
  MaxLeases \in Nat /\ MaxChain \in Nat /\ MaxPabxStops \in Nat /\ NoPabxJob \notin PabxJobs

\* What each kind of command does: runtime.sync or trunk.unregister of FreeSWITCH,
\* runtime.sync and trunk.unregister of Asterisk, and the diagnostics of both, which
\* only ask.  Every step may throw.
FreeswitchSteps == <<"reconcile", "poll">>
AsteriskSteps == <<"reload", "poll">>
UnregisterSteps == <<"unregister", "reload", "verify">>
DiagnosticSteps == <<"query">>
Steps == [freeswitch |-> FreeswitchSteps, asterisk |-> AsteriskSteps,
          unregister |-> UnregisterSteps, diagnostic |-> DiagnosticSteps]
CommandKinds == DOMAIN Steps
Mutating == {"reconcile", "reload", "unregister"}

\* runtime.sync and trunk.unregister change the runtime.
Mutates(kind) == kind # "diagnostic"

VARIABLES
  kindOf,    \* the command of each job
  lease,     \* external: the job at the API: state, token (0: none), live
  batched,   \* leased by the Agent and not begun, with their tokens
  running,   \* the execution in the lane
  pabxPc, step, reporting, acks,
  call,      \* the executor's request: none, sent, ok or thrown
  timer,     \* the renewal timer is set
  chain,     \* renewals chained behind one another
  posts,     \* requests on their way to the API
  mutated,   \* history: the token under which each job last changed the runtime
  confirmed, \* history: the executions whose lease the API confirmed
  accepted,  \* history: the token of the completion the API took
  succeeded, \* history: the executions all of whose steps succeeded
  pabxStops

lane_ == <<batched, running, pabxPc, step, reporting, acks, call, timer, chain>>
told == <<mutated, confirmed, accepted, succeeded>>
pabxVars == <<kindOf, lease, lane_, posts, told, pabxStops>>

Execution == [job : PabxJobs, token : Nat]
NoExecution == [job |-> NoPabxJob, token |-> 0]
Post == [what : {"progress", "complete", "fail"}, job : PabxJobs, by : Nat, token : Nat]
Idle == pabxPc = "idle"
Kind_ == kindOf[running.job]

\* Mutant of Request: reports do not carry it.
RequestUnfenced(what) == [what |-> what, job |-> running.job, by |-> running.token, token |-> 0]
\* The report of an execution carries its token.
Request(what) == [what |-> what, job |-> running.job, by |-> running.token,
                  token |-> running.token]
-----------------------------------------------------------------------------
PabxInit ==
  /\ kindOf \in [PabxJobs -> CommandKinds]
  /\ lease = [j \in PabxJobs |-> [state |-> "open", token |-> 0, live |-> FALSE]]
  /\ batched = {} /\ running = NoExecution
  /\ pabxPc = "idle" /\ step = 1 /\ reporting = "complete" /\ acks = 0
  /\ call = "none" /\ timer = FALSE /\ chain = 0 /\ posts = {}
  /\ mutated = [j \in PabxJobs |-> 0] /\ confirmed = {}
  /\ accepted = [j \in PabxJobs |-> 0] /\ succeeded = {} /\ pabxStops = 0

\* The lane leases the jobs that are open or whose lease ran out; the answer may
\* not come back.  A job of the older protocol has no token.
LeaseBatch ==
  /\ Idle /\ batched = {}
  /\ \E S \in SUBSET {j \in PabxJobs : /\ lease[j].state \in {"open", "leased"}
                                       /\ ~lease[j].live /\ lease[j].token < MaxLeases} :
       /\ S # {}
       /\ \E fenced \in BOOLEAN :
            /\ lease' = [j \in PabxJobs |->
                 IF j \in S THEN [state |-> "leased", live |-> TRUE,
                                  token |-> lease[j].token + 1]
                 ELSE lease[j]]
            /\ batched' \in {{}, {[job |-> j, token |-> IF fenced THEN lease'[j].token ELSE 0] :
                                    j \in S}}
  /\ UNCHANGED <<kindOf, running, pabxPc, step, reporting, acks, call, timer, chain,
                 posts, told, pabxStops>>

\* Mutant of BeginCommand: the renewals start, the first one is not awaited.
BeginUnconfirmed(e) ==
  /\ Idle /\ e \in batched
  /\ batched' = batched \ {e}
  /\ IF e.token = 0 /\ Mutates(kindOf[e.job])
     THEN UNCHANGED <<running, pabxPc>>
     ELSE running' = e /\ pabxPc' = "run"
  /\ step' = 1 /\ call' = "none" /\ acks' = 0 /\ reporting' = "complete"
  /\ timer' = (e.token # 0)
  /\ UNCHANGED <<kindOf, lease, chain, posts, told, pabxStops>>

\* A mutation without a token is left alone.  With one the lease is renewed first.
BeginCommand(e) ==
  /\ Idle /\ e \in batched
  /\ batched' = batched \ {e}
  /\ IF e.token = 0 /\ Mutates(kindOf[e.job])
     THEN UNCHANGED <<running, pabxPc>>
     ELSE running' = e /\ pabxPc' = IF e.token = 0 THEN "run" ELSE "renew"
  /\ step' = 1 /\ call' = "none" /\ acks' = 0 /\ reporting' = "complete"
  /\ UNCHANGED <<kindOf, lease, timer, chain, posts, told, pabxStops>>

\* The executor's request, and each of its retries, is sent; it is given up at last.
Post_(what) ==
  /\ call \in {"none", "sent"} /\ call' = "sent"
  /\ posts' = posts \cup {Request(what)}
GiveUp == call = "sent" /\ call' = "thrown" /\ UNCHANGED posts

Renew ==
  /\ pabxPc = "renew" /\ (Post_("progress") \/ GiveUp)
  /\ UNCHANGED <<kindOf, lease, batched, running, pabxPc, step, reporting, acks, timer,
                 chain, told, pabxStops>>

\* Confirmed, the command runs and the timer is set; otherwise the job is left, and
\* with it the rest of the batch.
Renewed ==
  /\ pabxPc = "renew"
  /\ \/ call = "ok" /\ pabxPc' = "run" /\ timer' = TRUE /\ UNCHANGED <<running, batched>>
     \/ call = "thrown" /\ pabxPc' = "idle" /\ running' = NoExecution /\ batched' = {}
        /\ UNCHANGED timer
  /\ call' = "none"
  /\ UNCHANGED <<kindOf, lease, step, reporting, acks, chain, posts, told, pabxStops>>

\* setInterval chains a renewal behind the ones before it ...
Tick ==
  /\ timer /\ chain < MaxChain /\ chain' = chain + 1
  /\ UNCHANGED <<kindOf, lease, batched, running, pabxPc, step, reporting, acks, call,
                 timer, posts, told, pabxStops>>

\* ... which is sent in its turn; whatever becomes of it, the next one follows.
ChainedRenewal ==
  /\ chain > 0
  /\ \/ posts' = posts \cup {Request("progress")} /\ UNCHANGED chain
     \/ chain' = chain - 1 /\ UNCHANGED posts
  /\ UNCHANGED <<kindOf, lease, batched, running, pabxPc, step, reporting, acks, call,
                 timer, told, pabxStops>>

\* One step of the command.  One that throws may have changed the runtime as well.
RunStep ==
  /\ pabxPc = "run"
  /\ LET s == Steps[Kind_][step]
         changed == IF s \in Mutating THEN [mutated EXCEPT ![running.job] = running.token]
                    ELSE mutated IN
     \/ /\ mutated' = changed /\ step < Len(Steps[Kind_])
        /\ step' = step + 1 /\ UNCHANGED <<pabxPc, reporting, succeeded>>
     \/ /\ mutated' = changed /\ step = Len(Steps[Kind_])
        /\ pabxPc' = "report" /\ reporting' = "complete" /\ UNCHANGED step
        /\ succeeded' = succeeded \cup {running}
     \/ /\ mutated' \in {mutated, changed}
        /\ pabxPc' = "report" /\ reporting' = "fail" /\ UNCHANGED <<step, succeeded>>
  /\ UNCHANGED <<kindOf, lease, batched, running, acks, call, timer, chain, posts,
                 confirmed, accepted, pabxStops>>

\* The completion of a FreeSWITCH command is posted up to four times, any other
\* once; one that throws ends in failJob, whose own failure is only logged.
ReportCommand ==
  /\ pabxPc = "report" /\ (Post_(reporting) \/ GiveUp)
  /\ UNCHANGED <<kindOf, lease, batched, running, pabxPc, step, reporting, acks, timer,
                 chain, told, pabxStops>>

Reported ==
  /\ pabxPc = "report" /\ call \in {"ok", "thrown"} /\ call' = "none"
  /\ IF call = "thrown" /\ reporting = "complete"
     THEN /\ IF Kind_ = "freeswitch" /\ acks < 3
             THEN acks' = acks + 1 /\ UNCHANGED reporting
             ELSE reporting' = "fail" /\ UNCHANGED acks
          /\ UNCHANGED <<pabxPc, timer>>
     ELSE pabxPc' = "drain" /\ timer' = FALSE /\ UNCHANGED <<acks, reporting>>
  /\ UNCHANGED <<kindOf, lease, batched, running, step, chain, posts, told, pabxStops>>

\* finally: the chain is awaited.
Drained ==
  /\ pabxPc = "drain" /\ chain = 0
  /\ pabxPc' = "idle" /\ running' = NoExecution
  /\ UNCHANGED <<kindOf, lease, batched, step, reporting, acks, call, timer, chain,
                 posts, told, pabxStops>>

\* The API takes a request of the live lease, under its token if it carries one,
\* and refuses any other.  The answer may come too late for the caller.
Answered(p, ok) ==
  IF call = "sent" /\ p.job = running.job /\ p.by = running.token
     /\ p.what = (IF pabxPc = "renew" THEN "progress" ELSE reporting)
  THEN call' \in {call, IF ok THEN "ok" ELSE "thrown"}
  ELSE UNCHANGED call

Deliver(p) ==
  /\ p \in posts /\ posts' = posts \ {p}
  /\ LET L == lease[p.job]
         ok == L.state = "leased" /\ L.live /\ p.token \in {0, L.token} IN
     /\ Answered(p, ok)
     /\ lease' = IF ~ok \/ p.what = "progress" THEN lease
                 ELSE [lease EXCEPT ![p.job].live = FALSE,
                         ![p.job].state = IF p.what = "complete" THEN "completed" ELSE "failed"]
     /\ accepted' = IF ok /\ p.what = "complete" THEN [accepted EXCEPT ![p.job] = p.by]
                    ELSE accepted
     /\ confirmed' = IF ok /\ p.what = "progress"
                     THEN confirmed \cup {[job |-> p.job, token |-> p.by]} ELSE confirmed
  /\ UNCHANGED <<kindOf, batched, running, pabxPc, step, reporting, acks, timer, chain,
                 mutated, succeeded, pabxStops>>

\* The API: a lease that was not renewed in time runs out.
LeaseExpires(j) ==
  /\ lease[j].live /\ lease' = [lease EXCEPT ![j].live = FALSE]
  /\ UNCHANGED <<kindOf, lane_, posts, told, pabxStops>>

\* The Agent restarts; what it sent may still arrive.
PabxStop ==
  /\ pabxStops < MaxPabxStops /\ pabxStops' = pabxStops + 1
  /\ batched' = {} /\ running' = NoExecution /\ pabxPc' = "idle"
  /\ step' = 1 /\ reporting' = "complete" /\ acks' = 0 /\ call' = "none"
  /\ timer' = FALSE /\ chain' = 0
  /\ UNCHANGED <<kindOf, lease, posts, told>>

PabxNext ==
  \/ LeaseBatch
  \/ \E e \in batched : BeginCommand(e)
  \/ Renew \/ Renewed \/ Tick \/ ChainedRenewal
  \/ RunStep \/ ReportCommand \/ Reported \/ Drained
  \/ \E p \in posts : Deliver(p)
  \/ \E j \in PabxJobs : LeaseExpires(j)
  \/ PabxStop

PabxSpec == PabxInit /\ [][PabxNext]_pabxVars
-----------------------------------------------------------------------------
(* Properties.                                                             *)

\* Every variable keeps its type (main.ts executePabxCommandJob).
PabxTypeOK ==
  /\ kindOf \in [PabxJobs -> CommandKinds]
  /\ lease \in [PabxJobs -> [state : {"open", "leased", "completed", "failed"},
                             token : Nat, live : BOOLEAN]]
  /\ batched \subseteq Execution /\ running \in Execution \cup {NoExecution}
  /\ pabxPc \in {"idle", "renew", "run", "report", "drain"}
  /\ step \in Nat \ {0} /\ reporting \in {"complete", "fail"} /\ acks \in 0..3
  /\ call \in {"none", "sent", "ok", "thrown"} /\ timer \in BOOLEAN /\ chain \in Nat
  /\ posts \subseteq Post
  /\ mutated \in [PabxJobs -> Nat] /\ accepted \in [PabxJobs -> Nat]
  /\ confirmed \subseteq Execution /\ succeeded \subseteq Execution /\ pabxStops \in Nat

\* The completion the API took is that of the last execution that changed the
\* runtime for the job: a late one, of before a restart or of an expired lease,
\* never stands for a runtime that was changed again (agent.md "The API rejects
\* reports from an expired/replaced execution").
AcceptedIsLatest ==
  \A j \in PabxJobs :
    accepted[j] # 0 /\ mutated[j] # 0 => accepted[j] = mutated[j]

\* No execution changes the runtime unless the API confirmed its lease after the
\* execution was handed out: a job that waited in its batch beyond its lease is
\* left (main.ts "if (job.leaseToken) await renew()").
MutatesOnceConfirmed ==
  \A j \in PabxJobs :
    mutated[j] # 0 => [job |-> j, token |-> mutated[j]] \in confirmed

\* The commands have the life of JobLife, in which a lease that ran out is a job offered
\* again: whatever arrives late, a command ends once, and the completion of one that
\* changes the runtime is of an execution under the present lease all of whose steps
\* succeeded (main.ts executePabxCommandJob, failJob; agent.md "The API rejects reports
\* from an expired/replaced execution").
PabxRecord ==
  [j \in PabxJobs |->
     [st |-> IF lease[j].live THEN "leased" ELSE IF lease[j].state = "completed" THEN "done"
             ELSE IF lease[j].state = "failed" THEN "failed" ELSE "queued",
      lease |-> lease[j].token]]
PabxClaim == [j \in PabxJobs |-> IF Mutates(kindOf[j]) THEN "last" ELSE "any"]
CommandLife == INSTANCE JobLife
  WITH Jobs <- PabxJobs, claim <- PabxClaim, record <- PabxRecord,
       worked <- {[job |-> e.job, lease |-> e.token] : e \in succeeded},
       kept <- [j \in PabxJobs |-> TRUE]
CommandsRefineJobLife == CommandLife!LifeSpec
=============================================================================
