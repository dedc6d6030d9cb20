------------------------------ MODULE Presence ------------------------------
(***************************************************************************)
(* Extension presence: the agent reads the local PABX engines, keeps the   *)
(* last report the API applied and sends only what changed                 *)
(* (pabx-presence.ts PabxPresenceTracker; main.ts performHeartbeat and     *)
(* sendPabxPresenceChanges, which share the tracker under one lock).       *)
(*                                                                         *)
(* The engines and the API are external.  An entry is one extension of one *)
(* engine; its value stands for the contact count, user agent and address  *)
(* the code compares, Absent for an extension with no contact.             *)
(***************************************************************************)
EXTENDS Integers

CONSTANTS
  Engines,        \* the engines of the host
  Keys,           \* extensions, each of one engine
  EngineOf,       \* the engine of each extension
  Values,         \* what a registration may look like
  Absent,         \* no registration
  EnginesFail,    \* TRUE: the read of an engine may fail
  LateDelivery,   \* TRUE: a request may arrive after the agent gave it up
  MaxChanges,     \* bound: changes of the registrations
  MaxFaults,      \* bound: failed reads, lost answers, refusals
  MaxRestarts     \* bound: restarts of the agent

ASSUME EngineAssumption == EngineOf \in [Keys -> Engines]
ASSUME AbsentAssumption == Absent \in Values
ASSUME BoundAssumption ==
  /\ MaxChanges \in Nat /\ MaxFaults \in Nat /\ MaxRestarts \in Nat
  /\ EnginesFail \in BOOLEAN /\ LateDelivery \in BOOLEAN

VARIABLES
  reg,        \* external: the registrations the engines hold
  baseline,   \* tracker: the last report the API applied
  known,      \* tracker: baseline is not null
  forceFull,  \* tracker: the next report must be complete
  fullDue,    \* tracker: fullIntervalMs have passed since lastFullAt
  phase,      \* the lock: "free", or a report "built" or "sent"
  source,     \* who built the report: "heartbeat" or "event"
  report,     \* the pending report
  snap,       \* the pending snapshot
  answer,     \* the API's answer to the pending report, if it came
  wire,       \* external: reports that reached the network
  api,        \* external: the API's view of the registrations
  changes, faults, restarts,  \* bounded counters
  had         \* history: the values each registration ever had

tracker == <<baseline, known, forceFull, fullDue>>
pending == <<phase, source, report, snap, answer>>
counters == <<changes, faults, restarts>>
vars == <<reg, baseline, known, forceFull, fullDue, phase, source, report,
          snap, answer, wire, api, changes, faults, restarts, had>>

Table == [Keys -> Values]
Nothing == [k \in Keys |-> Absent]
\* full and engines as sent; keys are the registrations and removals it carries.
Reports == [full : BOOLEAN, engines : SUBSET Engines, keys : SUBSET Keys,
            value : Table]
NoReport == [full |-> FALSE, engines |-> {}, keys |-> {}, value |-> Nothing]
Answers == {"none", "rejected", "applied", "needsFull"}
-----------------------------------------------------------------------------
\* aggregatePresence of the engines E that could be read.
Snapshot(E) == [k \in Keys |-> IF EngineOf[k] \in E THEN reg[k] ELSE Absent]

\* Mutant of Changed: the entries of an engine that was not read count as gone.
ChangedUnread(E) == {k \in Keys : Snapshot(E)[k] # baseline[k]}

\* An observed entry that differs from the baseline, or a baseline entry of a
\* read engine that is gone.
Changed(E) == {k \in Keys : EngineOf[k] \in E /\ Snapshot(E)[k] # baseline[k]}

\* Mutant of BuildFull: no periodic complete report.
FullWhenForced == forceFull \/ ~known

\* build: complete when forced, first or due, else only the changes.
BuildFull == forceFull \/ ~known \/ fullDue

Build(E) ==
  [full |-> BuildFull,
   engines |-> E,
   keys |-> IF BuildFull THEN {k \in Keys : EngineOf[k] \in E} ELSE Changed(E),
   value |-> Snapshot(E)]

\* Mutant of Acknowledge: a report that was not applied is forgotten.
AcknowledgeForgets(a) ==
  IF a \in {"applied", "needsFull"}
  THEN /\ baseline' = [k \in Keys |-> IF EngineOf[k] \in report.engines
                                      THEN snap[k] ELSE baseline[k]]
       /\ known' = TRUE
       /\ fullDue' = (fullDue /\ ~report.full)
       /\ forceFull' = (a = "needsFull")
  ELSE UNCHANGED <<baseline, known, fullDue, forceFull>>

\* acknowledge: commit what the API applied, keep the entries of the engines the
\* report left out; anything else forces a complete report.
Acknowledge(a) ==
  IF a \in {"applied", "needsFull"}
  THEN /\ baseline' = [k \in Keys |-> IF EngineOf[k] \in report.engines
                                      THEN snap[k] ELSE baseline[k]]
       /\ known' = TRUE
       /\ fullDue' = (fullDue /\ ~report.full)
       /\ forceFull' = (a = "needsFull")
  ELSE /\ forceFull' = TRUE
       /\ UNCHANGED <<baseline, known, fullDue>>

\* The lock is released.
Release ==
  /\ phase' = "free" /\ source' = "event"
  /\ report' = NoReport /\ snap' = Nothing /\ answer' = "none"
-----------------------------------------------------------------------------
Init ==
  /\ reg \in Table
  /\ api \in Table
  /\ baseline = Nothing /\ known = FALSE /\ forceFull = TRUE /\ fullDue = TRUE
  /\ phase = "free" /\ source = "event"
  /\ report = NoReport /\ snap = Nothing /\ answer = "none"
  /\ wire = {}
  /\ changes = 0 /\ faults = 0 /\ restarts = 0
  /\ had = [k \in Keys |-> {reg[k]}]

\* A device registers, moves or unregisters.
Register(k, v) ==
  /\ changes < MaxChanges /\ v # reg[k]
  /\ reg' = [reg EXCEPT ![k] = v]
  /\ had' = [had EXCEPT ![k] = @ \cup {v}]
  /\ changes' = changes + 1
  /\ UNCHANGED <<tracker, pending, wire, api, faults, restarts>>

\* fullIntervalMs pass since the last complete report.
FullIntervalPasses ==
  /\ ~fullDue
  /\ fullDue' = TRUE
  /\ UNCHANGED <<reg, baseline, known, forceFull, pending, wire, api, counters, had>>

\* Reading the engines: E is the set whose read succeeded.
Read(E) ==
  /\ E \subseteq Engines
  /\ \/ E = Engines /\ UNCHANGED faults
     \/ /\ EnginesFail /\ E # Engines
        /\ faults < MaxFaults /\ faults' = faults + 1

\* performHeartbeat takes the lock, reads and builds; the report goes out even
\* when no engine could be read.
BuildHeartbeat(E) ==
  /\ phase = "free"
  /\ Read(E)
  /\ phase' = "built" /\ source' = "heartbeat"
  /\ report' = Build(E) /\ snap' = Snapshot(E)
  /\ UNCHANGED <<reg, tracker, answer, wire, api, changes, restarts, had>>

\* sendPabxPresenceChanges after an engine event or a reconnection: nothing is
\* sent when no engine answered or nothing changed.
BuildChange(E) ==
  /\ phase = "free"
  /\ Read(E)
  /\ E # {} /\ (Build(E).full \/ Build(E).keys # {})
  /\ phase' = "built" /\ source' = "event"
  /\ report' = Build(E) /\ snap' = Snapshot(E)
  /\ UNCHANGED <<reg, tracker, answer, wire, api, changes, restarts, had>>

\* A later collection of the heartbeat throws before the request: the report is
\* dropped and the tracker learns nothing.
AbortHeartbeat ==
  /\ phase = "built" /\ source = "heartbeat"
  /\ faults < MaxFaults /\ faults' = faults + 1
  /\ Release
  /\ UNCHANGED <<reg, tracker, wire, api, changes, restarts, had>>

SendReport ==
  /\ phase = "built"
  /\ phase' = "sent"
  /\ wire' = wire \cup {report}
  /\ UNCHANGED <<reg, tracker, source, report, snap, answer, api, counters, had>>

\* The API applies a report: it replaces its view of the keys it carries.
ApiApply(r) ==
  /\ r \in wire
  /\ wire' = wire \ {r}
  /\ api' = [k \in Keys |-> IF k \in r.keys THEN r.value[k] ELSE api[k]]
  /\ IF phase = "sent" /\ r = report /\ answer = "none"
     THEN \/ answer' = "applied" /\ UNCHANGED faults
          \/ answer' = "needsFull" /\ faults < MaxFaults /\ faults' = faults + 1
     ELSE UNCHANGED <<answer, faults>>
  /\ UNCHANGED <<reg, tracker, phase, source, report, snap, changes, restarts, had>>

\* The API does not apply a report.
ApiReject(r) ==
  /\ r \in wire
  /\ faults < MaxFaults /\ faults' = faults + 1
  /\ wire' = wire \ {r}
  /\ answer' = IF phase = "sent" /\ r = report /\ answer = "none"
               THEN "rejected" ELSE answer
  /\ UNCHANGED <<reg, tracker, phase, source, report, snap, api, changes,
                 restarts, had>>

\* The answer reaches the agent, in the finally of the request.
AnswerArrives ==
  /\ phase = "sent" /\ answer # "none"
  /\ Acknowledge(answer)
  /\ Release
  /\ UNCHANGED <<reg, wire, api, counters, had>>

\* No answer: the request failed, or was applied and its answer lost, or arrives
\* later.
AnswerLost ==
  /\ phase = "sent"
  /\ faults < MaxFaults /\ faults' = faults + 1
  /\ Acknowledge("none")
  /\ Release
  /\ \/ wire' = wire \ {report}
     \/ LateDelivery /\ UNCHANGED wire
  /\ UNCHANGED <<reg, api, changes, restarts, had>>

\* The agent starts again with a new tracker.
Restart ==
  /\ restarts < MaxRestarts /\ restarts' = restarts + 1
  /\ baseline' = Nothing /\ known' = FALSE /\ forceFull' = TRUE /\ fullDue' = TRUE
  /\ Release
  /\ wire' = IF LateDelivery THEN wire ELSE {}
  /\ UNCHANGED <<reg, api, changes, faults, had>>

Next ==
  \/ \E k \in Keys, v \in Values : Register(k, v)
  \/ FullIntervalPasses
  \/ \E E \in SUBSET Engines : BuildHeartbeat(E) \/ BuildChange(E)
  \/ AbortHeartbeat
  \/ SendReport
  \/ \E r \in wire : ApiApply(r) \/ ApiReject(r)
  \/ AnswerArrives
  \/ AnswerLost
  \/ Restart

Spec == Init /\ [][Next]_vars

\* The heartbeat lane goes on, time passes, and the API answers the report the
\* agent waits for.
FairSpec ==
  /\ Spec
  /\ WF_vars(FullIntervalPasses)
  /\ WF_vars(\E E \in SUBSET Engines : BuildHeartbeat(E))
  /\ WF_vars(SendReport)
  /\ WF_vars(phase = "sent" /\ \E r \in wire : r = report /\ ApiApply(r))
  /\ WF_vars(AnswerArrives)
-----------------------------------------------------------------------------
\* Every variable keeps its type (PabxPresenceTracker and its pending report).
TypeOK ==
  /\ reg \in Table /\ api \in Table /\ baseline \in Table /\ snap \in Table
  /\ known \in BOOLEAN /\ forceFull \in BOOLEAN /\ fullDue \in BOOLEAN
  /\ phase \in {"free", "built", "sent"}
  /\ source \in {"heartbeat", "event"}
  /\ report \in Reports
  /\ answer \in Answers
  /\ wire \subseteq Reports
  /\ changes \in Nat /\ faults \in Nat /\ restarts \in Nat
  /\ had \in [Keys -> SUBSET Values]

\* pabx-presence.ts: "A complete report goes every fullIntervalMs, on start,
\* after a rejected or failed heartbeat" and "Commit the report only when the API
\* applied it; otherwise resend everything next time".  So when the API has just
\* applied a report for which every engine was read, its view is what was read,
\* whatever was lost or refused before.
AppliedReportIsComplete ==
  answer \in {"applied", "needsFull"} /\ report.engines = Engines => api = snap

\* agent.md: "a failed read never turns extensions offline".  The API's view of
\* an extension only ever takes a value the engine really held, even when reads
\* fail and reports are lost, repeated or late.
OnlyObservedStates ==
  [][\A k \in Keys : api'[k] # api[k] => api'[k] \in had[k]]_vars

\* Once registrations settle and faults end, the API's view is right for good:
\* the heartbeat is the safety net of lost events, answers and late requests.
Converges == <>[](api = reg)
-----------------------------------------------------------------------------
(* The inductive invariant behind AppliedReportIsComplete, for hosts whose  *)
(* engines can be read and a network without late requests.                *)

\* A tracker that is not about to send a complete report holds what the API
\* holds, but for a report the API applied and whose answer is under way.
BaselineMatchesApi ==
  ~forceFull /\ answer \notin {"applied", "needsFull"} => api = baseline

\* The pending report covers every engine: what it leaves out is unchanged.
PendingCovers ==
  phase # "free" =>
    /\ report.engines = Engines
    /\ report.value = snap
    /\ \A k \in Keys \ report.keys : ~forceFull /\ snap[k] = baseline[k]

\* The network holds at most the report the agent waits for.
WireHoldsPending ==
  /\ \A r \in wire : phase = "sent" /\ r = report /\ answer = "none"
  /\ answer # "none" => phase = "sent"

\* The inductive invariant of the tracker.
IInv ==
  /\ TypeOK
  /\ BaselineMatchesApi
  /\ PendingCovers
  /\ WireHoldsPending
  /\ AppliedReportIsComplete

\* The invariant behind OnlyObservedStates: every report carries states the
\* engines really held.
ReportsObserved ==
  /\ \A k \in Keys : reg[k] \in had[k]
  /\ \A r \in wire : \A k \in r.keys : r.value[k] \in had[k]
  /\ phase # "free" => \A k \in report.keys : report.value[k] \in had[k]
=============================================================================
