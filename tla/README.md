# A TLA+ model of the MNSCloud Agent

The Agent runs on customer hosts. It tells the MNSCloud API how the host is (the
heartbeat), leases jobs from the API and carries them out (nginx server blocks,
certificates, databases, PABX engines, file transfers, updates), and reports the
registrations of the local PABX engines. It keeps almost nothing on disk, talks
to an API that restarts and a network that loses answers, and runs several
asynchronous activities in one process. This directory models those activities,
checks them with TLC and proves the most important properties with TLAPS.

`PROJECT.json` lists for every definition the source lines it models, for every
run its properties, for every property a plausible bug in the code that it
detects (a mutant), and the hazards the properties are aimed at.

## 1. The system

### 1.1 Components, state and interaction

| component | source | state | operations | interacts with |
|---|---|---|---|---|
| job lane | `main.ts` `pollJobs`, `executeLeasedJob`, executors, `jsonRequest`, `failJob`; `job-report.ts` | the leased batch, the executor's locals; no job survives a restart | lease, dispatch, work, complete, fail, retry | API (leases, reports), every executor |
| DNS monitor | `main.ts` `startDnsMonitorJob`, `dns-monitor.ts`, `dns-probe.ts` | the one cycle in flight | start, measure, report | runs in the background of the job lane |
| lane scheduler | `scheduler.ts` `runLane` | failure count, timer | one operation at a time, back-off | the two lanes of `main` |
| presence tracker | `pabx-presence.ts` `PabxPresenceTracker` | baseline, `forceFull`, `lastFullAt` | build, acknowledge | heartbeat and event task, under one lock |
| engine events | `pabx-events.ts` | a connection per engine, coalescing timer, `running`, `again` | subscribe, read, drop, signal, run | AMI/ESL engines, presence tracker |
| heartbeat lane | `main.ts` `heartbeat`, `performHeartbeat`, `collectRuntimeVersions`, `applyRuntimeCapabilities` | heartbeat in flight, capabilities, version cache, interval clocks | run, join, collect, send | API, job lane (`runtime.update`) |
| nginx edge | `main.ts` `nginx.edge.*`, `website.edge.*`, certbot jobs, `ensureNginxEdgeRenderRevision`; `website-edge.ts`, `nginx-webapps.ts` | vhost files, domain list, certificates, render marker | render, test, reload, restore, issue, remove | nginx, certbot, nginx.env |
| DNS-01 hooks | `main.ts` `issueWebsiteWildcard`, `website-edge.ts` | request, answer and cleanup files, open map | publish, answer, release | certbot (child process), API, DNS |
| PABX commands | `main.ts` `executePabxCommandJob` and reconcile, `pabx-state.ts`, `pabx-registration-insight.ts` | fenced lease renewed by a timer | probe, change, acknowledge | engines, API |
| file transfers | `filesystem-transfer.py`, `main.ts` | files of the host | list, send, delete by identity | API, object store |
| databases | `schema-release.ts`, `runtime-reconcile.ts`, `database-*.ts` | worktrees of releases, work directory and plan of a schema | fetch, check out, verify, plan, apply, prune, principals, maintenance | git, adapters |
| channel-start rate | `voip-rate.ts`, `voip-load.ts` | 61 buckets, stream | count, sample, reset | FreeSWITCH stream, heartbeat |
| bounded I/O | `bounded-io.ts` | byte budget, timer | run, read, download | every command and request |
| CrowdSec | `cyber-security-policy.ts`, `main.ts` | policy files, decisions of the blocklist | write, validate, restore, add, delete | CrowdSec |
| status readers | `host-resources.ts`, `openvault-status.ts`, `webapps-status.ts` | none | parse | heartbeat |
| diagnostics, installers | `diagnostics/`, `scripts/` | files of the host | install, collect | SSH, package manager |

The process is single-threaded, so the interleavings are those between
`await`s: the heartbeat lane, the job lane, the DNS monitor, the event task, one
connection loop per engine, and the background publications of the DNS-01 hooks.
nginx, certbot and its hooks, the engines, the DNS and the API run beside it.

### 1.2 What is hard

* A report is at-least-once: its answer may be lost, it may arrive after the
  Agent gave it up, and after a new lease of the same job. Each executor has its
  own discipline (one `catch` for work and report, or two; a retry loop around
  the report; a removal after it), so the question is asked of each class.
* Nothing is remembered across a restart, except through files: the domain list,
  the vhosts, the certificates, the render marker.
* Three files and one running nginx must agree although every write, test and
  reload may fail and the process may stop between any two.
* State is shared between activities across `await`s: the tracker under a lock,
  the heartbeat in flight, the version cache without one.
* Signals may come at any moment of a coalesced task: before, during, after.
* A mutation of an engine runs under a lease that a timer renews beside it; its
  requests may arrive after another execution of the same job began.
* The host acts on the same files: audio is rewritten or replaced while it is sent,
  hashed or deleted; a release tag moves and a checkout is edited or cut short
  between the jobs that use it.
* Output, exit, overflow and timeout of one command come in any order; a clock may
  step back under a window of seconds.

### 1.3 What makes each component correct

* Job lane: what the API records is what the work did; no recording is lost; no
  work is done twice under a lease; the lane always comes back to poll.
* Presence: the API's view only takes values an engine held, is complete after a
  report was applied, and becomes right once faults end.
* Events: each change leads to a read; runs keep their interval, are neither
  lost nor doubled.
* Heartbeat: the API ends up with the host's version, capabilities and security
  state, in spite of caches and shared heartbeats.
* nginx edge: between jobs the files load, follow the stored list and are what
  nginx runs after a success; nginx serves with no certificate that is gone; the
  render marker tells the truth.
* DNS-01: the CA validates only what is visible, and what was published is
  released.
* PABX commands: no execution changes an engine without a confirmed lease, and the
  completion the API keeps is that of the last change.
* Files: what was sent was the file at one moment, what a checked deletion removes
  was what the API expected, a failed download leaves the destination whole.
* Databases: a tag stands for one source for good, and what runs under it is a clean
  checkout of that source; an apply runs the last plan; a prune takes nothing that is
  recent, in use or among the latest kept.
* Table maintenance: a rebuild that the job begins finds room on the disk to its end.
* Rate window: a sample is the peak of whole seconds of one connection.
* Commands: a result that is not a timeout is the whole output.
* CrowdSec: the policy between jobs is one CrowdSec took, unless a job was cut short
  among its writes or restorations; a listed address stays blocked.

## 2. The modules

| module | models | state ↔ code |
|---|---|---|
| `JobLane` | the job lane and the DNS monitor | `batch` is `pollJobs`' loop, `phase`/`exec`/`what` the running executor of each of two actors, `inner` the retries left in `jsonRequest`, `outer` the deliveries left in the executor's own loop, `file` the local recordings; `api` and `wire` are the API's job records and the requests on the network |
| `JobLife` | abstract: the life of a job at the API, whoever reports it | `record` is the API's record, `claim` what a completion of the job stands for, `worked` the executions whose work succeeded, `kept` the local source |
| `JobLane_MC` | instances: one job per executor class; an upload with two monitors | |
| `JobLaneProofs` | the inductive invariant of the lane and what follows from it; finished work is never left running; the lane implements `JobLife` | |
| `Presence` | tracker, its two callers and the lock | `baseline`, `known` (baseline is not null), `forceFull`, `fullDue` are the tracker; `phase` is the lock and the request; `report`, `snap` the pending report |
| `Presence_MC`, `PresenceProofs` | one extension on each of two engines; proofs | |
| `Wakeups` | abstract: signals are merged, a due run starts, runs end | |
| `PresenceEvents` | connection loops and `coalesce`, in ticks | `conn`, `inbox` per engine; `timer`, `running`, `again`, `sinceRun` (time since `lastRun`) are `coalesce` |
| `PresenceEventsProofs` | interval and refinement proofs | |
| `HeartbeatLane` | heartbeat lane, shared heartbeat, caches, end of an update | `phase`, `beat` are `heartbeatInFlight`; `cached`, `cache` are `runtimeVersionCache`; `…Due` says that an interval has passed |
| `NginxEdge`, `NginxEdge_MC` | every job and the startup step of the edge | `vhost`, `list`, `cert`, `marker` are files; `loaded` is what nginx runs; `pc`, `todo`, `prev` are the locals of the running job; `hurt` (history) is what a job cut short left undone |
| `NginxEdge_Instances` | two instances of `NginxEdge` with bounds of their own, in one run | `instance` says which |
| `NginxEdgeProofs` | certificates, the render marker, the files and their modes | |
| `AcmeHooks` | `issueWebsiteWildcard` with certbot and its hooks | `reqs`, `answers`, `cleanups` are the files; `task` the background publications; `open` the open map |
| `AcmeHooksProofs` | what is validated is visible, what was answered is released | |
| `PabxCommand` | `executePabxCommandJob`: lease, renewals, steps, acknowledgement, fenced report | `pabxPc`, `step`, `acks` are where the function stands, `call` the request it awaits, `timer` and `chain` the interval and the promise chain of renewals; `lease` and `posts` are the API's lease and the requests on the network |
| `FileJobs` | `filesystem-transfer.py`, `uploadJob`, `syncMediaFileJob` and a host that writes | `fd`, `before`, `got` are the open file, its first `fstat` and what was read; `inodes`, `audio` are the file system |
| `FileJobsProofs` | the modification time as a fence, and a download apart | |
| `SchemaReleases` | `prepareSchemaRelease`, `prepareModuleRelease`, the schema and runtime reconcile jobs, `pruneSchemaArtifacts` | `tags`, `trees`, `works`, `plans` are what the host keeps; `schemaPc`, `commit` the running job; `ran` (history) is the tree each script was run from |
| `CrowdSecPolicy` | `applyCyberSecurityProfile` and the blocklist | `policy`, `backups`, `pending` are the files, their copies and those left to do; `adds`, `deletes` the commands left of `blocklistCommands` |
| `VoipRate` | `VoipRateWindow` with the stream that feeds it | `connectedAt`, `acknowledgedAt`, `buckets` are the fields of the class |
| `VoipProofs` | the agreement of the buckets of the rate window with the history; the invariant of the PABX fence; the commands implement `JobLife` | |
| `CommandCapture` | `captureCommand` and its two readers | `reader`, `drained` are the two loops, `alarm` the timer, `captured` the promise |
| `TableMaintenance` | `executeDatabaseTableMaintenanceJob` beside a server that rebuilds and a host that writes | `sizes`, `outcome` are the rows of `results`, `table` and `remaining` the loop; `used`, `pages`, `copied`, `space` are the files of the server and the disk; `orphans` the rebuilds whose client is gone |
| `HostProofs` | proofs about `CommandCapture`, `CrowdSecPolicy`, `SchemaReleases`, `TableMaintenance` and `HeartbeatLane`, and about the composition `HostWork` | |
| `HostWork` | `PabxCommand`, `FileJobs`, `SchemaReleases`, `CrowdSecPolicy`, `VoipRate`, `CommandCapture` and `TableMaintenance`, which share no variable, in one run | `part` is the one that moves |

How the parts are abstracted:

* **Executor classes.** `executeLeasedJob` dispatches some thirty job types. They
  differ for the lane only in how they report, which gives twelve classes
  (`Kinds` in `JobLane`); the work itself succeeds, fails, or is refused.
* **Rendered files.** A vhost is the record of what its text depends on:
  certificate present, the webapps settings, the mode, the render revision. What
  nginx runs is that file together with the certificate generation it read. The
  `agent.conf` of the host (paths, upstreams, the capability `mnscloud.nginx.update`
  that a rendering asks for) is read at startup and taken as settled: an operator who
  edits it changes the text of later renderings as a new revision would, but without
  a marker that says so.
* **Presence entries.** A value stands for the contact count, user agent and
  address that `build` compares.
* **Time.** `PresenceEvents` counts ticks, because an interval is what it
  promises. In `VoipRate` a moment is a second and a tick in it, so that the code's
  division by 1000 is the first component; `SchemaReleases` has days. The other
  modules have steps saying that an interval passed.
* **Files of the host.** In `FileJobs` a file is a sequence of blocks and a
  modification time that every write advances, and a digest is the content. The code
  compares times of the file system, `uploadJob` in milliseconds (`main.ts:1931`): a
  write within the millisecond of the one before is outside of the model. So is a
  body that ends early without an error: `fetch` is trusted to report it, the
  download compares no length (`main.ts:2133-2144`). In
  `SchemaReleases` a checkout is its commit and whether it is clean, a plan is the
  job that wrote it. In `CrowdSecPolicy` the content of a file is the job that wrote
  it, and `Torn` one whose write was cut short.
* **Tables.** Sizes are counted in pages, and a rebuild copies the pages in use to a new
  file beside the old one. Other jobs and programs on the disk are the writes of
  `TableGrows` and `DiskFills`.
* **Commands.** A PABX command is the list of its steps that matter to the fence:
  the ones that change the engine and the ones that only ask.
* **External parts.** The API's lease rules are taken from what the code relies
  on and `agent.md` says: a leased job is settled by the first report; reports of
  the fenced kinds must carry the current lease; a repeated report of the same
  outcome is accepted or refused; an expired lease is offered again or failed.

Assumptions of the models: the write of the small answer file of a hook succeeds;
a crash of the Agent ends certbot (both are in one service); `nginx -s reload`
keeps the running configuration when the files do not load; a validation value of
the CA is fresh, so a hook id is not used twice; a challenge counts as released once its
release was requested (the code only logs a `DELETE` that fails); requests are atomic at
the API; the clock of a rate window goes forward while a connection lasts, or else the
property says nothing of it; days pass and checkouts are edited between schema jobs, not
within one, so nothing is edited between the check of a checkout and its script; decisions with
the reason `mnscloud-list` are made by the Agent only and do not expire during a run; the
database server goes on with a rebuild whose client was killed, and drops a statement that
still waits; its statistics of a table are as fresh as the table's file.

## 3. The runs

Twelve runs. States are distinct states found; all finish within five minutes.

| run | question | bounds | states |
|---|---|---|---|
| `lane` | does the API record what the work did, for every executor class, and does each job have the life `JobLife` allows? | 12 jobs, offered in nine sets of two; 2 leases a job, 1 retry, 2 deliveries, 1 crash | 1.7 M |
| `returns` | does the lane come back to poll? | an upload and two monitors, fair | 177 k |
| `tracker` | is the API's view complete after an applied report? | 2 engines, 3 values, 2 changes, 2 faults, 1 restart; engines readable, no late requests | 0.3 M |
| `converges` | and with unreadable engines and late requests? | 2 values, 2 changes, 2 faults, 1 restart, fair | 0.8 M |
| `wakeups` | is each change read, by runs that keep their interval? | 2 engines, 2 changes each, 2 lost connections, 1 failed run; interval 3, debounce 1, fair | 152 k |
| `heartbeat` | does the API end up with the host's state? | 2 versions, 2 changes of the host, 1 fault, fair | 168 k |
| `edge` | do files, list, certificates, nginx and the render marker agree? | 1 fault; *lists*: 2 ThemeDomains, every job, 1 restart, 1 change of nginx.env; *revisions*: 1 domain, 1 website base, 2 revisions, 2 certificate generations, 2 restarts, each under either revision | 2.4 M |
| `host` | do the seven parts below keep their promises? | see below | 1.3 M |
| `hooks` | is a validated challenge visible, and released? | 2 challenges, 2 runs, 2 faults, 1 crash, fair | 148 k |
| `ensure`, `leak`, `stale` | three statements of the repository that the code does not meet | the same modules, smaller | |

`lane` has to distinguish: a lost report before and after a retry, an expired
lease while the report is late, a second lease run after the first one, a crash in
each phase. Two leases, one retry, two deliveries and one crash reach all of them;
a third lease repeats the relation of the second to the first. Jobs of different
kinds meet only in the batch and through the monitor, so pairs suffice. In
`tracker` two changes and two faults let a removal meet a lost answer and then
a refused one. In `edge` one fault is a failure at any step of any job, before
and after any others. A failing restoration is reached as well: it follows a test
that refuses a bad upstream of `nginx.env`, which costs no fault. Its two instances
ask the same properties of the same module; the variable `instance` only chooses the
bounds, so each is explored as it would be alone. *revisions* has two restarts, each into
either release: the first changes the revision, the second repeats or interrupts the
re-rendering of the first, or goes back to the older release in the middle of it. In `wakeups` an interval three times the debounce makes
both arguments of the `Math.max` of `coalesce` win.

`host` explores the seven modules of `HostWork` one at a time: they share no variable,
so a state of one part with the others at rest stands for all of them. The bounds are
those of each part:

* rate: a window of 2 seconds, patience 1, two ticks a second, six seconds, three
  starts against a ceiling of 2, one step back of the clock. The window passes over
  its first second, and a connection begins in the middle of a second.
* files: contents of two values and up to three blocks against a budget of two, every
  range, one job and two acts of the host (a change and its reversal, or a replacement
  and a write), one stop. Jobs meet only through the file, and the host stands for
  another job.
* schema: one tag, two commits, two digests, three jobs, days 0 to 2, one mishap (a
  moved tag, an edit, a stop); keep one release and one backup, and what is of today. A
  plan, a failed plan and an apply, or a plan and two other jobs that prune, fit, and
  two plans of different days before the job that prunes one of them.
* PABX: one job of any kind, two leases, one chained renewal, one restart. The second
  lease meets the late requests of the first.
* CrowdSec: two files, two addresses, two jobs, three decisions, one stop.
* tables: two tables of ten pages, none or one of them free, on a disk with eleven to
  spare; one write during a job, which is the tenth the property allows; two jobs, one dead
  client. Eleven is too little for a table of ten, and just enough once the rebuild of the
  other has given a page back.
* capture: two pipes, budget 1 and two chunks, the child and a helper, on Linux and off.

Commits and digests are symmetric there: the run has invariants and action properties
only. Each part ends when its bounds are used up, so deadlock is not checked in it.
`AcmeHooks` ends too when its hook ids and runs are used up. All other runs check
deadlock.

Each property of a run has a mutant in `PROJECT.json`: a version of one handler
with a plausible mistake (a retry loop around the work instead of the report, a
reset that is missing, a restoration left out, an answer given too early). With
the mutant in the place of the handler TLC finds the property violated in the same
run, so the bounds are large enough for what the property is about.

### What the violations show

* `ensure` (`CompletedEnsureServed`): a website base gets its certificate, its
  vhost is written and tested, and the reload fails. The retried
  `website.edge.ensure` finds certificate and file unchanged, does not reload and
  reports `issued`; nginx serves port 80 only until some other reload.
* `leak` (`EveryChallengeReleased`): a challenge enters the open map only after
  it is visible. One whose publication fails or outlasts certbot is never
  released by the Agent, although the comment of `issueWebsiteWildcard` says each
  is.
* `stale` (`UpdateSeenAtOnce`): a collection of versions that started before the
  end of an update stores the old version after the update cleared the cache, so
  the invalidation `agent.md` calls immediate is undone for five minutes.

### Other differences noticed while modelling

These have no run; the models follow the code.

* `runtime.update` may report a failure after its completion was accepted, when
  the heartbeat that follows throws (`main.ts:4802-4804`); `agent.md:22-23`. The
  API refuses it.
* A database principal under a *second* lease runs its adapter again and may fail
  after the first success (`main.ts:7776-7778` protects within one lease only).
* The comment in `pabx-presence.ts:4-5` does not cover a report for which no
  engine could be read: the heartbeat still sends it.
* The reload after a re-rendering is outside of the `try` block of
  `rerenderNginxEdgeDomains` (`main.ts:3664`): when it fails, a sync puts its list back
  but not its files, against its comment (`main.ts:3764`) and `agent.md:605`. From then
  on `ModesFollowList` counts the modes as disturbed, until the next rendering of every
  domain.
* After a crash between storing the list and rendering, the retried sync is an
  unchanged list and does nothing (`main.ts:3774-3787`); `ModesFollowList` treats it
  likewise.
* The render marker is written although nginx was not reloaded when there is no
  ThemeDomain to render (`main.ts:3697-3706`).
* The render marker is compared for equality (`main.ts:3703`) and only written after a
  complete rendering, while `scripts/update-agent.sh --ref` installs older releases as
  well. Release 1 renders and writes its marker; release 2 starts and renders a file
  (or runs a job) but stops or fails before its marker; release 1 comes back, finds
  marker 1 and keeps the files of release 2. TLC finds it in six states when
  `MarkerMeansRendered` has no condition. `Restart` chooses any revision, and `hurt`
  holds "revisions" from such a return until the next marker is written: for that time
  the property and `MarkerTells` say nothing.
* `uploadJob` with `deleteAfterUpload` removes the recording by its path, unchecked:
  a file that took its place since is removed (`main.ts:1956-1958`).
  `RemovedWasChecked` is about the deletions that check.
* A CrowdSec job that is stopped among its writes, or while it restores, leaves a mix
  of files that was never judged (`main.ts:5170-5180`); a later job copies it
  as what to restore. `LeftPolicyValidated` excludes a policy left so, until a later job
  has written one that CrowdSec accepts.
* The log acquisition of CrowdSec is written before the policy and is not put back
  when the policy is refused (`main.ts:6271`).
* A failed removal of the old plan goes unnoticed (`main.ts:7072-7076`), after which a
  plan job that fails leaves it for the apply; `AppliesLastPlan` excludes such
  histories.
* A statement of table maintenance that is killed after its timeout (`main.ts:7226-7230`)
  goes on in the server. The comparison of the next table (`main.ts:7306-7307`) sees only
  what that rebuild has written so far, so that both may run out of room; without its
  condition `alone` TLC finds `RebuildHasRoom` violated. The server puts back the table
  that fails, and the job calls it failed.
* A helper that left the process group, or any on Windows, may hold the pipes of a
  command that was killed: `captureCommand` waits for it.
* All chained renewals are awaited before the lane goes on, each with the retries of
  its request (`main.ts:2585`).
* Capabilities are refreshed every five minutes (`main.ts:8030-8033`), later than
  `README.md:278-279` of the repository suggests.

## 4. Fairness

* `JobLane`: the lane's next job and each actor's next step are weakly fair.
  `runLane` loops for ever; every command, request and transfer has a timeout, and
  the retries are counted. Nothing is assumed of the API: no request needs to be
  answered. Leasing, expiry and crashes are not fair.
* `Presence`: the heartbeat lane builds and sends, time passes, an answered report
  is acknowledged; the API applies the report the Agent is waiting for, which is
  needed for convergence and only for it. Faults are bounded, i.e. they end.
* `PresenceEvents`: time passes, timers fire, the task ends (each of its requests
  has a timeout), each connection loop goes on. Reading the engines needs *strong*
  fairness: the heartbeat may take the lock again and again, but the promise queue
  serves the task in between.
* `HeartbeatLane`: the lane polls far more often than its intervals pass, so a due
  capability refresh or heartbeat is served; a heartbeat ends within its timeouts.
* The modules of `HostWork` have safety properties only and no fairness.
* `AcmeHooks`: the loop and the background tasks go on; certbot has a time limit
  of 30 minutes and therefore exits; the DNS worker settles each challenge.

## 5. What is proved

All theorems hold for every value of the constants allowed by the named
assumptions: any number of jobs, engines, extensions, leases, retries, changes and
restarts.

**Job lane** (`JobLaneProofs`). `IInv` is the conjunction of the types, the two
safety properties and five relations:

* `ActorsBusy`: an actor has an execution exactly when it is busy, and monitor and
  lane never hold one execution;
* `LeasesBounded`: no execution is newer than the API's lease counter, so that a
  new lease is new to every set of the model;
* `NotBegun`: an execution in the batch or being checked has left no trace, one at
  work has reported nothing;
* `ReportsTruthful`: a request on the network or being made says what the work did;
* `AcceptedIsDone`: an accepted completion is final at the API.

`RecordingKeptUntilConfirmed` alone is not inductive: the removal is enabled by
a local phase, and only `AcceptedIsDone` ties it to the API's record, which in turn
needs that the request being answered is the actor's own. One lemma per action
shows that it keeps `IInv`. From it: `RecordingsSafe`, `DoneMeansWork`,
`FailureMeansFailedWork` and the action property `WorkBeginsOnce`, whose argument is
`NotBegun` (an execution being checked has not begun).

`FinishedIsReported` is about the at-least-once reports:
while the Agent did not stop and the API was away for no longer than a report is
retried, finished work under a current lease is still in the hands of an executor.
Its invariant adds that an actor whose report was answered holds no current lease
(`AnsweredIsOver`), and that the retries an actor has left outlast what is left of
the outage (`ReportersOutlast`). It needs `DeliveryAssumption`: the executor of a
database principal delivers more often than one report is retried, which the code
does with 12 against 5.

**The life of a job** (`JobLife`, `JobLaneProofs`, `VoipProofs`). `JobLife` says what
remains of a job when one forgets who reports and what the network does: it is leased
under ever new numbers, an ended job stays as it is, a completion stands for work
that succeeded (under the last lease where reports are fenced, under any lease up to it
elsewhere, for nothing where a finished probe reports its own failure), and the local
source is given up only for a completed job. `LaneImplementsJobLife` reads the
API's records, the executions that succeeded and the local recordings of `JobLane` as
its variables: with `IInv`, leasing is `Grant`, the end of work is `Work`, a handled
report and an expiry are `Complete` or `Release`, the removal of a recording is
`GiveAway`, and every other step stutters. Only `ReportsTruthful` makes a handled report
a `Complete`: what is on the network was true when it was sent, and stays so.
`CommandsImplementJobLife` does the same for `PabxCommand`, whose lease and fence are
modelled apart. A completion there is of the last lease because the API compares
the token, but that its work succeeded *under that lease* needs `WorkedInv`: an execution that
reports a completion, and each completion on the network, has its work behind it.

**nginx edge** (`NginxEdgeProofs`). `CertificatesServed`: nginx serves with no
certificate that was removed; the invariant `RemovalUnserved` says that a removal
reaches the certificate only when the file is gone and nginx does not serve the
domain. `MarkerTells`: a marker of the running revision speaks for every file, whatever
revisions were installed in between, except after a return to the release of the marker
(see "other differences"). It needs two relations: `MarkerCoversFiles`, that it speaks also for what a failing
job would put back, and `StartupRenders`, that whatever a startup has no longer
before it is rendered. `JobOnCourse` ties a job's step to its kind.

`FilesFollowList`, `FilesStayLoadable` and `CompletedServed` are about the files that
several jobs write and put back. The properties speak of the time between jobs; within
one, the induction must say which of two sets of files is the good one. `FilesLoad`:
while a job writes or restores, what it would put back passes nginx -t, otherwise the
files themselves do. `FilesFollow`: outside of a sync the files and their copies both
follow the stored list; within one, the files already written follow the new list and
the copies the previous one. `RenderedSoFar`: whatever is no longer in `todo` is on disk
as it renders now.

The code has no journal, so a stop or a failed restoration may leave files of two
renderings. `hurt` remembers this, no more of it than the code does wrong and no longer
than it lasts: "files" from a stop among writes or a failed restoration until nginx
loads a rendering, "modes" from a sync that was cut short until every domain is rendered
again, "revisions" from a return to the release the marker names until the next marker. That a rendering of every domain repairs the modes *whatever* was there before is
the part of `FilesFollow` outside of its condition on `hurt`. All of it holds for
any domains, bases, revisions, changes of `nginx.env`, failures and restarts.

**DNS-01** (`AcmeHooksProofs`). `ValidatedVisible` and `AnsweredReleased`, for any
challenges, runs, failed calls and crashes. `OpenWhileValidated` carries what the task
saw (published, visible, in the open map) from the task to its answer file and to the
hook, until certbot cleans up; `HooksOfRun` says that hooks exist only while certbot
runs, under the loop of their own run, so that neither the end of a run nor a late
cleanup releases what is validated; `OkIsReleased` that an answered challenge is either
released or in the open map of a run that has not ended.

**Presence** (`PresenceProofs`). `OnlyObserved`: for any engines, unreadable ones
included, with late and lost requests, the API's view only takes values the engine
held; the invariant is `ReportsObserved`. `ReportsComplete`: where the engines can
be read and no request is late (`~EnginesFail`, `~LateDelivery`), an applied report
leaves the API with exactly what was read; the invariant `IInv` itself is
`TrackerInvariant`. `IInv` needs `BaselineMatchesApi` (a
tracker that may send a difference holds what the API holds) and `PendingCovers`
(what the pending report leaves out is unchanged). Both conditions are necessary:
a late report overwrites the view until the next complete one, and the run
`converges` is what remains true then.

**Coalescing** (`PresenceEventsProofs`). `IntervalKept`: a set timer covers what is
left of the interval. `CoalesceRefines`: with `due` read as "a timer is set or a
signal is remembered", every step of `PresenceEvents` is a step of `Wakeups` or a
stutter, so no signal is lost and no two runs overlap. The fair version of the
refinement is checked by the run `wakeups`.

**PABX commands** (`VoipProofs`). `AcceptedIsLatest`: the completion the API
keeps is that of the last execution that changed the engine. `MutatesOnceConfirmed`:
an execution changes an engine only after the API confirmed its lease. Neither is
inductive. `PabxInv` adds

* `LaneInv`: an execution is in the lane from its begin to its end, and the timer and
  the chain of renewals live within it;
* `TokenInv`: what is executed is of the last lease or has no token, and no request
  is newer than the lease;
* `ConfirmedInv`: an execution under a token runs once the API confirmed it, one
  without is a diagnostic;
* `ChangedInv`: a completion is posted after the engine was changed, so none on the
  network is newer than the last change;
* `AcceptedInv`: an accepted completion is of the last lease there will be.

It holds for any number of jobs, leases, renewals, late requests and restarts.

**Rate window** (`VoipProofs`). `SampleIsPeak` for every window, ceiling and
patience. `Agrees` says that, of a connection on a clock that goes forward, each
recent bucket is the count of the history, that no bucket is of the future and that
the connection was not given up; that the buckets never exceed a window and its
current second (`WindowSize`) is what keeps the last line of `record` from giving it
up.

**Captured commands** (`HostProofs`). `NeverCutIntoSuccess` for every
budget, amount of output and order of events.

**CrowdSec** (`HostProofs`). `LeftPolicyHolds`: in the write phase every file still to
be written equals its copy, in the restoration every file already restored does
(`PolicyInv`), so that the end of either is the old set or a judged one. A stop in either
phase, and a restoration that fails, with files that differ from their copies is the
exception (`cut`).
`ListedStaysHolds` is an action property: no step unblocks a listed address. Its
invariant `BlocklistInv` says that the decisions still to be deleted are older than the
additions, and that once the additions are done each listed address has a decision that
is not among the deletions.

**Releases and plans** (`HostProofs`). `OneSourceHolds`: every script ran from a clean worktree
of the commit the host holds for its tag, which no step replaces, with the digest that
was approved (`RanInv`). Its invariant `ReleaseInv` carries what `Verify` saw of the worktree
(its head, its cleanness, its digest) to the script.
`AppliesLastHolds`: a plan on disk is the last plan job's or is gone (`PlanInv`).
`PruneKeepsHolds`: a directory that is removed leaves as many others that are as new or
newer as are to be kept. It needs finitely many schemas: the kept ones are a set of that
size without the removed one (`ExpiredBeyondKept`), and a subset of those as new as it.

**Versions in heartbeats** (`HostProofs`). `FreshAfterUpdate`: after an update that
ended with no collection under way, the cache and a collection on its way there are of
the installed version.

**Table maintenance** (`HostProofs`). `RebuildHasRoomHolds`: the comparison asks for 1.2
times a size that was measured before the rebuilds of other tables. `TableInv` says that a
table has outgrown its size by no more than the host wrote since the job began, and
that the space compared is still there, or in the copy, or written by the host; of the
fifth beyond the size one half is for the growth of the table, the other for the disk,
so writes up to a tenth of the table leave room. It needs that no other rebuild runs: the
job begins one at a time, and `alone` says that no client died over another.

**File jobs** (`FileJobsProofs`). `SentIsOneVersionHolds`, `RemovedWasCheckedHolds` and
`DestinationHolds`, for any size, range, number of jobs and whatever the host does. The
argument is the modification time as a fence (`SourceOpen`): no file is newer than the
host's last act, so as long as the open inode has the time of the first `fstat` its
content is the one that was opened, and each block read agrees with that version
(`ReadSoFar`); the comparison at the end then speaks for all blocks at once.
`RemovalChecked` carries the comparison to the removal by name while the host does not
act; `DownloadApart` says that a download's inode is not the one the path names. It
assumes what the model does: every write advances the time the code compares.

`FileTypeCorrect` needs to know that no file outgrows the bound of blocks: a download
writes to an inode that was empty when it began and has received no more than was read
of it (`Sized`).

**The composed host** (`HostProofs`). `HostParts`: a behaviour of `HostWork` is a
behaviour of each of its seven parts, since a step of one part leaves the variables of
the others alone, which is a step or a stutter of each. So every theorem about a part
is one about the composition: `HostTypeCorrect`, `HostSafe` and `HostStepsSafe`
collect them. `PruneKeepsHolds` stays a theorem of `SchemaReleases`, because it assumes
finitely many schemas. `HeartbeatTypeCorrect` is the type invariant of the heartbeat lane.

**Only model-checked.** Liveness (`LaneReturns`, `Converges`, `ChangesAreRead`,
`RefinesFairWakeups`, `HostConverges`, `PostureConverges`, `RunEnds`), since
arguments with fairness and `ENABLED` are out of the prover's reach, as are
induction over data and recursive operators (no module declares one). The types of
`NginxEdge`, `PresenceEvents`, `AcmeHooks` and `HeartbeatLane` are proved and not checked
again by a run. Every
safety property that a passing run checks has a theorem.

## 6. What is not modelled, and the plan

Not modelled for good: parsing of ini files, tokens and engine output, the text of
server blocks, host metrics and status readers (no state between heartbeats), the
SSH diagnostics program (a separate program without shared state), package
installation.

Not modelled, and why:

* *Lane scheduler.* `runLane` is one operation at a time, which the lane modules
  assume, and a back-off whose length no property here is about.
* *The measuring workers of the DNS monitor* share a deadline and a result list.
* *Framing* of AMI and ESL (`VoipEventFrames`), the registration insight and the
  output of diagnostics: text to text.
* *Installation* of CrowdSec, its Windows form and its status collection; *runtime
  files* of SBC, softswitch and WebRTC beyond their class in `JobLane`: straight
  sequences without a restoration.
* *Installer and updater scripts*: shell, in units of their own.

The modelled parts are the ones whose behaviour is spread over several activities,
jobs or faults; their definitions stand for about three in ten lines of the implementation.

Next: an abstract specification of a file's transfer (one version, sent whole or not at
all) implemented by `FileJobs`, and one of a challenge's life implemented by `AcmeHooks`;
the directory checks of `filesystem.transfer`.
