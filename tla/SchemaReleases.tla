---------------------------- MODULE SchemaReleases ----------------------------
(***************************************************************************)
(* Release checkouts for database.schema.reconcile and runtime.reconcile   *)
(* (schema-release.ts, runtime-reconcile.ts, main.ts): a job fetches the   *)
(* release tag, adds or finds its worktree, verifies it and runs its       *)
(* script.  A schema plan and its apply are two jobs that meet in one work *)
(* directory named by the schema's digest; a completed schema job prunes   *)
(* old worktrees and work directories.                                     *)
(*                                                                         *)
(* git, the scripts and the days are external.  A behaviour is about one   *)
(* product, the database or a module.                                      *)
(***************************************************************************)
EXTENDS Integers, FiniteSets

CONSTANTS
  Tags, Commits, Digests,
  NoEntry,       \* no tag, no worktree, no plan, no work directory
  KeepReleases, KeepBackups, MinAgeDays,   \* 5, 10 and 3 in the code
  MaxDay, MaxSchemaJobs, MaxMishaps   \* bounds: days, jobs, moved tags + edits + stops

ASSUME SchemaAssumption ==
  /\ KeepReleases \in Nat /\ KeepBackups \in Nat /\ MinAgeDays \in Nat
  /\ MaxDay \in Nat /\ MaxSchemaJobs \in Nat /\ MaxMishaps \in Nat
  /\ NoEntry \notin Nat \cup Tags \cup Commits \cup Digests
  /\ Commits \cap Digests = {}

Stages == {"inspect", "plan", "apply"}
Keys == Tags \X (Commits \cup Digests)
Tree == [head : Commits, clean : BOOLEAN, mtime : Nat]

VARIABLES
  product,   \* "db" or "module"
  schemaOf,  \* external: the digest of the schema in each commit
  remote,    \* external: the tags of the canonical repository
  tags,      \* the tags of the base checkout
  trees,     \* the worktrees under <repo>-releases
  works,     \* when each schema-reconcile-<digest> directory last changed
  plans,     \* the job that wrote each plan.json
  day,
  schemaPc, schemaJob, commit,   \* the running job
  ran,       \* history: the releases that were executed, with what the worktree held
  applied,   \* history: the plans that were applied, with the last one begun
  lastPlan,  \* history: the last plan job of a digest that reached its script
  keptPlan,  \* history: a plan file could not be removed
  schemaJobs, mishaps  \* bounded counters

disk_ == <<tags, trees, works, plans>>
world == <<product, schemaOf, remote, day>>
notes == <<ran, applied, lastPlan, keptPlan>>
counts == <<schemaJobs, mishaps>>
schemaVars == <<world, disk_, schemaPc, schemaJob, commit, notes, counts>>

NoSchemaJob == [stage |-> "inspect", tag |-> NoEntry, sha |-> NoEntry, n |-> 0]

\* The worktree of the running job: a module's is named by its commit.
Key(c) == <<schemaJob.tag, IF product = "db" THEN schemaJob.sha ELSE c>>

\* Mutant of Expired: the entries are sorted the other way around.
ExpiredNewest(S, age, keep, current) ==
  {E \in SUBSET S :
     \E K \in SUBSET S :
       /\ Cardinality(K) = IF Cardinality(S) < keep THEN Cardinality(S) ELSE keep
       /\ \A k \in K, e \in S \ K : age[k] >= age[e]
       /\ E = {e \in S \ K : e \notin current /\ age[e] > MinAgeDays}}

\* expired: beyond some newest `keep` of the entries, too old, and not in use.
Expired(S, age, keep, current) ==
  {E \in SUBSET S :
     \E K \in SUBSET S :
       /\ Cardinality(K) = IF Cardinality(S) < keep THEN Cardinality(S) ELSE keep
       /\ \A k \in K, e \in S \ K : age[k] <= age[e]
       /\ E = {e \in S \ K : e \notin current /\ age[e] > MinAgeDays}}
-----------------------------------------------------------------------------
SchemaInit ==
  /\ product \in {"db", "module"}
  /\ schemaOf \in [Commits -> Digests]
  /\ remote \in [Tags -> Commits]
  /\ tags = [t \in Tags |-> NoEntry]
  /\ trees = [k \in Keys |-> NoEntry]
  /\ works = [d \in Digests |-> NoEntry]
  /\ plans = [d \in Digests |-> NoEntry]
  /\ day = 0
  /\ schemaPc = "idle"
  /\ schemaJob = NoSchemaJob /\ commit = NoEntry
  /\ ran = {} /\ applied = {} /\ lastPlan = [d \in Digests |-> 0] /\ keptPlan = FALSE
  /\ schemaJobs = 0 /\ mishaps = 0

\* The locals of a job are gone with it.  How it is reported is the job lane's.
SchemaEnds == schemaPc' = "idle" /\ schemaJob' = NoSchemaJob /\ commit' = NoEntry

\* A failure at any step is reported and ends the job.
SchemaFails ==
  /\ schemaPc \notin {"idle", "prune"} /\ SchemaEnds
  /\ UNCHANGED <<world, disk_, notes, counts>>

\* A job names a stage, a digest and a release; a schema job without a release
\* runs the base checkout's script.
StartSchema(stage, tag, sha) ==
  /\ schemaPc = "idle" /\ schemaJobs < MaxSchemaJobs
  /\ schemaJobs' = schemaJobs + 1
  /\ schemaJob' = [stage |-> stage, tag |-> tag, sha |-> sha, n |-> schemaJobs']
  /\ schemaPc' = IF tag = NoEntry THEN "work" ELSE "fetch"
  /\ commit' = NoEntry
  /\ UNCHANGED <<world, disk_, notes, mishaps>>

\* git fetch without force takes a tag the base checkout does not have, and
\* refuses one that moved (SchemaFails).
FetchTag ==
  /\ schemaPc = "fetch"
  /\ tags[schemaJob.tag] \in {NoEntry, remote[schemaJob.tag]}
  /\ tags' = [tags EXCEPT ![schemaJob.tag] = remote[schemaJob.tag]]
  /\ commit' = tags'[schemaJob.tag]
  /\ schemaPc' = "checkout"
  /\ UNCHANGED <<world, trees, works, plans, schemaJob, notes, counts>>

\* git worktree add when the directory is not there; cut short, it leaves part of
\* a checkout.
Checkout ==
  /\ schemaPc = "checkout"
  /\ \/ /\ trees[Key(commit)] # NoEntry
        /\ schemaPc' = "verify" /\ UNCHANGED <<trees, schemaJob, commit>>
     \/ /\ trees[Key(commit)] = NoEntry
        /\ \/ /\ trees' = [trees EXCEPT ![Key(commit)] =
                             [head |-> commit, clean |-> TRUE, mtime |-> day]]
              /\ schemaPc' = "verify" /\ UNCHANGED <<schemaJob, commit>>
           \/ /\ trees' = [trees EXCEPT ![Key(commit)] =
                             [head |-> commit, clean |-> FALSE, mtime |-> day]]
              /\ SchemaEnds
  /\ UNCHANGED <<world, tags, works, plans, notes, counts>>

\* Mutant of Verify: the digest alone is looked at.
VerifyDigest ==
  /\ schemaPc = "verify"
  /\ product = "db" => schemaOf[trees[Key(commit)].head] = schemaJob.sha
  /\ schemaPc' = IF product = "db" THEN "work" ELSE "run"
  /\ UNCHANGED <<world, disk_, schemaJob, commit, notes, counts>>

\* The worktree must be at the commit and clean, and the digest of the schema in it
\* the approved one; otherwise SchemaFails.
Verify ==
  /\ schemaPc = "verify"
  /\ trees[Key(commit)].head = commit /\ trees[Key(commit)].clean
  /\ product = "db" => schemaOf[trees[Key(commit)].head] = schemaJob.sha
  /\ schemaPc' = IF product = "db" THEN "work" ELSE "run"
  /\ UNCHANGED <<world, disk_, schemaJob, commit, notes, counts>>

\* Mutant of PrepareWork: a plan job keeps the plan before it.
PrepareWorkOnly ==
  /\ schemaPc = "work"
  /\ schemaJob.stage = "apply" => plans[schemaJob.sha] # NoEntry
  /\ works' = [works EXCEPT ![schemaJob.sha] = IF @ = NoEntry THEN day ELSE @]
  /\ schemaPc' = "run"
  /\ lastPlan' = IF schemaJob.stage = "plan"
                 THEN [lastPlan EXCEPT ![schemaJob.sha] = schemaJob.n] ELSE lastPlan
  /\ UNCHANGED <<world, tags, trees, plans, schemaJob, commit, ran,
                 applied, keptPlan, counts>>

\* The work directory is made if need be.  A plan job removes the plan before it;
\* a removal that fails goes unnoticed.  An apply without a plan is refused.
PrepareWork ==
  /\ schemaPc = "work"
  /\ LET sha == schemaJob.sha IN
     \/ /\ schemaJob.stage = "plan"
        /\ lastPlan' = [lastPlan EXCEPT ![sha] = schemaJob.n]
        /\ \/ /\ plans' = [plans EXCEPT ![sha] = NoEntry]
              /\ works' = [works EXCEPT ![sha] =
                             IF @ = NoEntry \/ plans[sha] # NoEntry THEN day ELSE @]
              /\ UNCHANGED keptPlan
           \/ /\ plans[sha] # NoEntry /\ keptPlan' = TRUE
              /\ UNCHANGED <<plans, works>>
     \/ /\ schemaJob.stage # "plan"
        /\ schemaJob.stage = "apply" => plans[sha] # NoEntry
        /\ works' = [works EXCEPT ![sha] = IF @ = NoEntry THEN day ELSE @]
        /\ UNCHANGED <<plans, lastPlan, keptPlan>>
  /\ schemaPc' = "run"
  /\ UNCHANGED <<world, tags, trees, schemaJob, commit, ran, applied, counts>>

\* The script runs: a plan writes its file, any stage may write its result file,
\* and a script that fails may have done either.
RunScript(ok) ==
  /\ schemaPc = "run"
  /\ LET sha == schemaJob.sha
         planned == product = "db" /\ schemaJob.stage = "plan" IN
     /\ ran' = IF commit = NoEntry THEN ran
               ELSE ran \cup {[tag |-> schemaJob.tag, sha |-> sha,
                               head |-> trees[Key(commit)].head,
                               clean |-> trees[Key(commit)].clean]}
     /\ applied' = IF product = "db" /\ schemaJob.stage = "apply"
                   THEN applied \cup {[plan |-> plans[sha], last |-> lastPlan[sha]]}
                   ELSE applied
     /\ \/ /\ planned
           /\ plans' = [plans EXCEPT ![sha] = schemaJob.n]
           /\ works' = [works EXCEPT ![sha] = day]
        \/ ~ok /\ UNCHANGED <<plans, works>>
        \/ /\ ~planned /\ product = "db" /\ UNCHANGED plans
           /\ works' \in {works, [works EXCEPT ![sha] = day]}
        \/ product = "module" /\ UNCHANGED <<plans, works>>
  /\ IF ok THEN schemaPc' = "complete" /\ UNCHANGED <<schemaJob, commit>> ELSE SchemaEnds
  /\ UNCHANGED <<world, tags, trees, lastPlan, keptPlan, counts>>

\* The completion is taken; a schema job then prunes.
SchemaCompleted ==
  /\ schemaPc = "complete"
  /\ IF product = "db" THEN schemaPc' = "prune" /\ UNCHANGED <<schemaJob, commit>>
     ELSE SchemaEnds
  /\ UNCHANGED <<world, disk_, notes, counts>>

\* entriesByAge, of the work directories and of the worktrees.
WorkAges == [d \in {d \in Digests : works[d] # NoEntry} |-> day - works[d]]
TreeAges == [k \in {k \in Keys : trees[k] # NoEntry} |-> day - trees[k].mtime]

\* What a prune that got through some of its removals leaves.
Removed(T, W) ==
  /\ trees' = [k \in Keys |-> IF k \in T THEN NoEntry ELSE trees[k]]
  /\ works' = [d \in Digests |-> IF d \in W THEN NoEntry ELSE works[d]]
  /\ plans' = [d \in Digests |-> IF d \in W THEN NoEntry ELSE plans[d]]
  /\ SchemaEnds
  /\ UNCHANGED <<world, tags, notes, counts>>

\* pruneSchemaArtifacts: any of the removals may fail, and its failure is only
\* logged.
Prune ==
  /\ schemaPc = "prune"
  /\ LET tree == IF schemaJob.tag = NoEntry THEN {} ELSE {Key(commit)} IN
     \E T \in Expired(DOMAIN TreeAges, TreeAges, KeepReleases, tree),
        W \in Expired(DOMAIN WorkAges, WorkAges, KeepBackups, {schemaJob.sha}) :
       \E T1 \in SUBSET T, W1 \in SUBSET W : Removed(T1, W1)

\* The Agent stops in the middle of a job and of its checkout.
SchemaStop ==
  /\ schemaPc # "idle" /\ mishaps < MaxMishaps /\ mishaps' = mishaps + 1
  /\ SchemaEnds
  /\ trees' \in {trees} \cup
       (IF schemaPc = "checkout" /\ trees[Key(commit)] = NoEntry
        THEN {[trees EXCEPT ![Key(commit)] = [head |-> commit, clean |-> FALSE, mtime |-> day]]}
        ELSE {})
  /\ UNCHANGED <<world, tags, works, plans, notes, schemaJobs>>

\* Outside: days pass between jobs, a tag of the repository moves, someone edits a
\* checkout, which is taken not to happen between its verification and its script.
DayPasses ==
  /\ schemaPc = "idle" /\ day < MaxDay /\ day' = day + 1
  /\ UNCHANGED <<product, schemaOf, remote, disk_, schemaPc, schemaJob, commit,
                 notes, counts>>

TagMoves(t, c) ==
  /\ mishaps < MaxMishaps /\ mishaps' = mishaps + 1 /\ c # remote[t]
  /\ remote' = [remote EXCEPT ![t] = c]
  /\ UNCHANGED <<product, schemaOf, day, disk_, schemaPc, schemaJob, commit,
                 notes, schemaJobs>>

TreeEdited(k) ==
  /\ schemaPc = "idle" /\ mishaps < MaxMishaps /\ mishaps' = mishaps + 1
  /\ trees[k] # NoEntry
  /\ \E c \in Commits, b \in BOOLEAN :
       trees' = [trees EXCEPT ![k] = [head |-> c, clean |-> b, mtime |-> @.mtime]]
  /\ UNCHANGED <<world, tags, works, plans, schemaPc, schemaJob, commit,
                 notes, schemaJobs>>

\* prepareModuleRelease: a module's release is fetched, checked out and verified as
\* a schema's is, but its directory is named by the commit and no digest is approved.
ModuleRelease == FetchTag \/ Checkout \/ Verify

\* runtime.reconcile runs the adapter of the release, in a directory of its own.
ModuleJob ==
  /\ product = "module"
  /\ \/ \E t \in Tags : StartSchema("apply", t, NoEntry)
     \/ ModuleRelease \/ RunScript(TRUE) \/ RunScript(FALSE) \/ SchemaCompleted

DatabaseJob ==
  /\ product = "db"
  /\ \/ \E s \in Stages, t \in Tags \cup {NoEntry}, d \in Digests : StartSchema(s, t, d)
     \/ FetchTag \/ Checkout \/ Verify
     \/ PrepareWork \/ RunScript(TRUE) \/ RunScript(FALSE) \/ SchemaCompleted \/ Prune

SchemaNext ==
  \/ DatabaseJob \/ ModuleJob
  \/ SchemaFails \/ SchemaStop
  \/ DayPasses
  \/ \E t \in Tags, c \in Commits : TagMoves(t, c)
  \/ \E k \in Keys : TreeEdited(k)

SchemaSpec == SchemaInit /\ [][SchemaNext]_schemaVars
-----------------------------------------------------------------------------
(* Properties.                                                             *)

\* Every variable keeps its type (schema-release.ts, runtime-reconcile.ts).
SchemaTypeOK ==
  /\ product \in {"db", "module"} /\ schemaOf \in [Commits -> Digests]
  /\ remote \in [Tags -> Commits] /\ tags \in [Tags -> Commits \cup {NoEntry}]
  /\ trees \in [Keys -> Tree \cup {NoEntry}]
  /\ works \in [Digests -> Nat \cup {NoEntry}] /\ plans \in [Digests -> Nat \cup {NoEntry}]
  /\ day \in Nat
  /\ schemaPc \in {"idle", "fetch", "checkout", "verify", "work", "run", "complete", "prune"}
  /\ schemaJob \in [stage : Stages, tag : Tags \cup {NoEntry},
                    sha : Digests \cup {NoEntry}, n : Nat]
  /\ commit \in Commits \cup {NoEntry}
  /\ lastPlan \in [Digests -> Nat] /\ keptPlan \in BOOLEAN

\* A release tag stands for one source for good: through moved tags, cut-short
\* checkouts, edits, restarts and prunes every script that runs under a tag runs from
\* a clean tree of the same commit, and a schema job's from the schema it was approved
\* for (prepareSchemaRelease "a moved tag must fail instead of silently changing
\* approved source", "DB release checkout changed; refusing schema execution.").
OneSourcePerTag ==
  /\ \A r \in ran : r.clean /\ (product = "db" => schemaOf[r.head] = r.sha)
  /\ \A a, b \in ran : a.tag = b.tag => a.head = b.head

\* An apply never loads a plan older than the last plan job that came as far as
\* its script, whatever became of that job; a plan job that ends before leaves the plan
\* there is, and so does a removal that failed unnoticed, which is excused (main.ts "keep
\* the reviewed plan artifact keyed by schema SHA so apply can load the plan produced by
\* the prior plan stage").
AppliesLastPlan ==
  ~keptPlan => \A a \in applied : a.plan = a.last

\* A prune takes a plan only if it is not the pruning job's, not of the last days, and
\* at least the number to keep of other work directories are as new or newer
\* (pruneSchemaArtifacts "The newest entries and anything recent stay, so a plan/apply
\* pair and recent rollback dumps are untouched").
PruneKeepsRecentPlans ==
  [][\A d \in Digests :
       plans[d] # NoEntry /\ plans'[d] = NoEntry =>
         \/ schemaPc = "work" /\ schemaJob.sha = d
         \/ /\ schemaJob.sha # d /\ day - works[d] > MinAgeDays
            /\ Cardinality({e \in Digests \ {d} : works[e] # NoEntry /\ works[e] >= works[d]})
                 >= KeepBackups]_schemaVars
=============================================================================
