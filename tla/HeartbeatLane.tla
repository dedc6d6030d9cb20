---------------------------- MODULE HeartbeatLane ----------------------------
(***************************************************************************)
(* What a heartbeat tells the API, and when (main.ts: the heartbeat lane   *)
(* of main, heartbeat, performHeartbeat, collectRuntimeVersions,           *)
(* applyRuntimeCapabilities, and the end of executeRuntimeUpdateJob).      *)
(*                                                                         *)
(* The heartbeat lane and the job lane share one heartbeat in flight: who  *)
(* calls heartbeat while one runs waits for that one.  The reports are     *)
(* cached: capabilities for five minutes, runtime versions for five        *)
(* minutes or until an update clears them, the cyber security status is    *)
(* collected once per its own interval.  Time is a set of intervals that   *)
(* may have passed.  The installed runtime, its update script, the         *)
(* security state of the host and the API are external.                    *)
(***************************************************************************)
EXTENDS Integers

CONSTANTS
  MaxVersion,  \* bound: versions of the installed runtime
  MaxChanges,  \* bound: changes of the script and of the security state
  MaxFaults    \* bound: failed heartbeats, collections and updates

ASSUME BoundAssumption ==
  MaxVersion \in Nat \ {0} /\ MaxChanges \in Nat /\ MaxFaults \in Nat

VARIABLES
  inst,      \* external: the installed version of the runtime
  script,    \* external: its update script is executable
  posture,   \* external: the security state of the host
  caps,      \* config.capabilities has the runtime's update
  cached,    \* runtimeVersionCache is set and younger than five minutes
  cache,     \* the version it holds, 0 for a runtime not reported
  capsDue, beatDue, cyberDue,  \* the interval of each has passed
  lane,      \* the heartbeat lane
  job,       \* the job lane's runtime.update
  phase,     \* heartbeatInFlight and its performHeartbeat
  beat,      \* the heartbeat being built
  api,       \* external: what the API last heard
  changes, faults,  \* bounded counters
  clean             \* history: the last update cleared the cache, with no
                    \* collection of versions under way

host == <<inst, script, posture>>
due == <<capsDue, beatDue, cyberDue>>
versions == <<cached, cache>>
vars == <<inst, script, posture, caps, cached, cache, capsDue, beatDue,
          cyberDue, lane, job, phase, beat, api, changes, faults,
          clean>>

NoBeat == [version |-> 0, posture |-> 0]
Fault == faults < MaxFaults /\ faults' = faults + 1

\* loadBuildMetadata of a runtime with the capability.
VersionRead == IF caps THEN inst ELSE 0
-----------------------------------------------------------------------------
Init ==
  /\ inst = 1 /\ script \in BOOLEAN /\ posture = 1
  /\ caps = script
  /\ cached = FALSE /\ cache = 0
  /\ capsDue = FALSE /\ beatDue = TRUE /\ cyberDue = TRUE
  /\ lane = "asleep"
  /\ job = "idle"
  /\ phase = "none" /\ beat = NoBeat
  /\ api = [version |-> 0, posture |-> 0, caps |-> FALSE]
  /\ changes = 0 /\ faults = 0
  /\ clean = FALSE
-----------------------------------------------------------------------------
\* Mutant of JoinOrStart: the caller's status is not passed on.
StartWithoutStatus(status) ==
  IF phase = "none" THEN phase' = "versions" /\ beat' = NoBeat
  ELSE UNCHANGED <<phase, beat>>

\* heartbeat: join the one in flight, or start one with the caller's status.
JoinOrStart(status) ==
  IF phase = "none"
  THEN phase' = "versions" /\ beat' = [NoBeat EXCEPT !.posture = status]
  ELSE UNCHANGED <<phase, beat>>

\* Mutant of LaneRun: the capabilities of the startup stay.
RunWithOldCapabilities ==
  /\ lane = "asleep"
  /\ capsDue' = FALSE
  /\ lane' = IF beatDue THEN "collecting" ELSE "asleep"
  /\ UNCHANGED <<host, caps, versions, beatDue, cyberDue, job, phase, beat, api,
                 changes, faults, clean>>

\* The lane's run: capabilities when they are due, then a heartbeat when one is.
LaneRun ==
  /\ lane = "asleep"
  /\ caps' = IF capsDue THEN script ELSE caps
  /\ capsDue' = FALSE
  /\ lane' = IF beatDue THEN "collecting" ELSE "asleep"
  /\ UNCHANGED <<host, versions, beatDue, cyberDue, job, phase, beat,
                 api, changes, faults, clean>>

\* The security status is collected at most once per interval, which counts
\* from here; a heartbeat then takes it, or the one in flight goes without it.
LaneHeartbeat ==
  /\ lane = "collecting"
  /\ \/ /\ JoinOrStart(IF cyberDue THEN posture ELSE 0)
        /\ cyberDue' = FALSE
        /\ lane' = "waiting"
        /\ UNCHANGED faults
     \/ /\ cyberDue /\ Fault
        /\ lane' = "asleep"
        /\ UNCHANGED <<phase, beat, cyberDue>>
  /\ UNCHANGED <<host, caps, versions, capsDue, beatDue, job, api, changes,
                 clean>>

\* collectRuntimeVersions answers from its cache or reads the host.
Versions ==
  /\ phase = "versions"
  /\ IF cached
     THEN phase' = "sending" /\ beat' = [beat EXCEPT !.version = cache]
     ELSE phase' = "reading" /\ beat' = [beat EXCEPT !.version = VersionRead]
  /\ UNCHANGED <<host, caps, versions, due, lane, job, api, changes,
                 faults, clean>>

\* The read ends and fills the cache.
StoreVersions ==
  /\ phase = "reading"
  /\ cached' = TRUE /\ cache' = beat.version
  /\ phase' = "sending"
  /\ UNCHANGED <<host, caps, due, lane, job, beat, api, changes,
                 faults, clean>>

ApiHears ==
  api' = [version |-> beat.version, caps |-> caps,
          posture |-> IF beat.posture = 0 THEN api.posture ELSE beat.posture]

\* The heartbeat is over for everyone who waits for it.
BeatOver ==
  /\ phase' = "none" /\ beat' = NoBeat
  /\ job' = IF job = "waiting" THEN "idle" ELSE job
  /\ lane' = IF lane = "waiting" THEN "asleep" ELSE lane

\* The API accepts it: the lane counts its interval from this run.
BeatSucceeds ==
  /\ phase = "sending"
  /\ ApiHears
  /\ BeatOver
  /\ beatDue' = IF lane = "waiting" THEN FALSE ELSE beatDue
  /\ UNCHANGED <<host, caps, versions, capsDue, cyberDue, changes, faults,
                 clean>>

\* It fails, heard by the API or not: the lane backs off and tries again.
BeatFails ==
  /\ phase \in {"versions", "reading", "sending"}
  /\ Fault
  /\ \/ phase = "sending" /\ ApiHears
     \/ UNCHANGED api
  /\ BeatOver
  /\ UNCHANGED <<host, caps, versions, due, changes, clean>>
-----------------------------------------------------------------------------
(* The job lane's runtime.update.                                          *)

\* The local updater installs a new version.
Install ==
  /\ job = "idle" /\ caps /\ inst < MaxVersion
  /\ inst' = inst + 1
  /\ job' = "updating"
  /\ clean' = FALSE
  /\ UNCHANGED <<script, posture, caps, versions, due, lane, phase,
                 beat, api, changes, faults>>

\* Mutant of UpdateEnds: the cache is kept.
UpdateKeepsCache ==
  /\ job = "updating"
  /\ job' = "reporting"
  /\ clean' = (phase # "reading")
  /\ UNCHANGED <<host, caps, versions, due, lane, phase, beat, api, changes,
                 faults>>

\* The updater ends: a success clears the cache, a failure returns before.
UpdateEnds ==
  /\ job = "updating"
  /\ \/ /\ cached' = FALSE
        /\ job' = "reporting"
        /\ clean' = (phase # "reading")
        /\ UNCHANGED faults
     \/ /\ Fault
        /\ job' = "idle"
        /\ UNCHANGED <<cached, clean>>
  /\ UNCHANGED <<host, caps, cache, due, lane, phase, beat, api,
                 changes>>

\* The completion is reported and a heartbeat follows; a completion that is not
\* delivered leaves for the catch block without one.
UpdateHeartbeat ==
  /\ job = "reporting"
  /\ \/ /\ JoinOrStart(0)
        /\ job' = "waiting"
        /\ UNCHANGED faults
     \/ /\ Fault
        /\ job' = "idle"
        /\ UNCHANGED <<phase, beat>>
  /\ UNCHANGED <<host, caps, versions, due, lane, api, changes, clean>>
-----------------------------------------------------------------------------
(* Time and the host.                                                      *)

CapabilityIntervalPasses ==
  /\ ~capsDue /\ capsDue' = TRUE
  /\ UNCHANGED <<host, caps, versions, beatDue, cyberDue, lane, job,
                 phase, beat, api, changes, faults, clean>>

CacheExpires ==
  /\ cached /\ cached' = FALSE
  /\ UNCHANGED <<host, caps, cache, due, lane, job, phase, beat, api,
                 changes, faults, clean>>

HeartbeatIntervalPasses ==
  /\ ~beatDue /\ beatDue' = TRUE
  /\ UNCHANGED <<host, caps, versions, capsDue, cyberDue, lane, job,
                 phase, beat, api, changes, faults, clean>>

CyberIntervalPasses ==
  /\ ~cyberDue /\ cyberDue' = TRUE
  /\ UNCHANGED <<host, caps, versions, capsDue, beatDue, lane, job,
                 phase, beat, api, changes, faults, clean>>

HostChanges ==
  /\ changes < MaxChanges /\ changes' = changes + 1
  /\ \/ script' = ~script /\ UNCHANGED posture
     \/ posture' = posture + 1 /\ UNCHANGED script
  /\ UNCHANGED <<inst, caps, versions, due, lane, job, phase, beat,
                 api, faults, clean>>

Next ==
  \/ LaneRun \/ LaneHeartbeat
  \/ Versions \/ StoreVersions \/ BeatSucceeds \/ BeatFails
  \/ Install \/ UpdateEnds \/ UpdateHeartbeat
  \/ CapabilityIntervalPasses \/ CacheExpires \/ HeartbeatIntervalPasses
  \/ CyberIntervalPasses \/ HostChanges

Spec == Init /\ [][Next]_vars

\* The lanes run, a heartbeat ends within its timeouts and time passes.  The
\* lane polls far more often than its intervals pass.
FairSpec ==
  /\ Spec
  /\ WF_vars(LaneRun /\ (capsDue \/ beatDue)) /\ WF_vars(LaneHeartbeat)
  /\ WF_vars(Versions \/ StoreVersions \/ BeatSucceeds)
  /\ WF_vars(UpdateEnds) /\ WF_vars(UpdateHeartbeat)
  /\ WF_vars(CapabilityIntervalPasses) /\ WF_vars(CacheExpires)
  /\ WF_vars(HeartbeatIntervalPasses) /\ WF_vars(CyberIntervalPasses)
-----------------------------------------------------------------------------
(* Properties.                                                             *)

\* Every variable keeps its type (main.ts, the heartbeat's caches).
TypeOK ==
  /\ inst \in 1..MaxVersion /\ script \in BOOLEAN /\ posture \in Nat \ {0}
  /\ caps \in BOOLEAN /\ cached \in BOOLEAN /\ cache \in 0..MaxVersion
  /\ capsDue \in BOOLEAN /\ beatDue \in BOOLEAN /\ cyberDue \in BOOLEAN
  /\ lane \in {"asleep", "collecting", "waiting"}
  /\ job \in {"idle", "updating", "reporting", "waiting"}
  /\ phase \in {"none", "versions", "reading", "sending"}
  /\ beat \in [version : 0..MaxVersion, posture : Nat]
  /\ api \in [version : 0..MaxVersion, posture : Nat, caps : BOOLEAN]
  /\ changes \in Nat /\ faults \in Nat
  /\ clean \in BOOLEAN

\* An update that cleared the version cache, with no collection under way, is
\* what every later collection caches (executeRuntimeUpdateJob).
FreshAfterCleanUpdate == clean /\ cached => cache \in {inst, 0}

\* Once the host settles and faults end, the API knows its version and its
\* capabilities for good, although the caches, the shared heartbeat and an
\* update in between may each serve it an old value.
HostConverges ==
  <>[](api.caps = script /\ api.version = IF script THEN inst ELSE 0)

\* And it knows the security state, although a heartbeat that fails, or is
\* shared, loses the status collected for it.
PostureConverges == <>[](api.posture = posture)

\* agent.md: "a completed runtime update invalidates the version cache
\* immediately": while its heartbeat is awaited, the cache holds no older version
\* (executeRuntimeUpdateJob, collectRuntimeVersions).
UpdateSeenAtOnce == job = "waiting" /\ cached => cache \in {inst, 0}
=============================================================================
