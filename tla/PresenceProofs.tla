--------------------------- MODULE PresenceProofs ---------------------------
(***************************************************************************)
(* Proofs about Presence for any engines, extensions and entry values.     *)
(***************************************************************************)
EXTENDS Presence, TLAPS

USE EngineAssumption, AbsentAssumption, BoundAssumption
    DEF Table, Nothing, Reports, NoReport, Answers, tracker, pending, counters

-----------------------------------------------------------------------------
(* Types and the reports' provenance, with no assumption on the faults.    *)

\* The empty table and the empty report have their types.
LEMMA EmptyTyped == Nothing \in Table /\ NoReport \in Reports
OBVIOUS

\* Acknowledging keeps the tracker's types.
LEMMA AcknowledgeTyped ==
  ASSUME TypeOK, NEW a \in Answers, Acknowledge(a)
  PROVE  /\ baseline' \in Table /\ known' \in BOOLEAN
         /\ forceFull' \in BOOLEAN /\ fullDue' \in BOOLEAN
<1>1. CASE a \in {"applied", "needsFull"}
  <2>1. baseline' \in Table /\ known' \in BOOLEAN
    BY <1>1 DEF TypeOK, Acknowledge
  <2>2. forceFull' = (a = "needsFull") /\ fullDue' = (fullDue /\ ~report.full)
    BY <1>1 DEF Acknowledge
  <2> QED
    BY <2>1, <2>2
<1>2. CASE a \notin {"applied", "needsFull"}
  BY <1>2 DEF TypeOK, Acknowledge
<1> QED
  BY <1>1, <1>2

\* A built report has the type of a report and carries observed states.
LEMMA BuildTyped ==
  ASSUME TypeOK, NEW E \in SUBSET Engines
  PROVE  Build(E) \in Reports /\ Snapshot(E) \in Table
BY DEF TypeOK, Build, BuildFull, Snapshot, Changed

LEMMA BuildObserved ==
  ASSUME TypeOK, ReportsObserved, NEW E \in SUBSET Engines
  PROVE  \A k \in Build(E).keys : Build(E).value[k] \in had[k]
BY DEF ReportsObserved, Build, Snapshot, Changed

\* The initial states are typed.
LEMMA InitTyped == Init => TypeOK
<1> SUFFICES ASSUME Init PROVE TypeOK
  OBVIOUS
<1> QED
  BY DEF Init, TypeOK

\* Every step keeps the types: each field is set from typed values.
LEMMA TypeStep == TypeOK /\ [Next]_vars => TypeOK'
<1> SUFFICES ASSUME TypeOK, [Next]_vars PROVE TypeOK'
  OBVIOUS
<1>1. ASSUME NEW k \in Keys, NEW v \in Values, Register(k, v) PROVE TypeOK'
  BY <1>1 DEF TypeOK, Register
<1>2. CASE FullIntervalPasses
  BY <1>2 DEF TypeOK, FullIntervalPasses
<1>3. ASSUME NEW E \in SUBSET Engines, BuildHeartbeat(E) PROVE TypeOK'
  BY <1>3, BuildTyped DEF TypeOK, BuildHeartbeat, Read
<1>4. ASSUME NEW E \in SUBSET Engines, BuildChange(E) PROVE TypeOK'
  BY <1>4, BuildTyped DEF TypeOK, BuildChange, Read
<1>5. CASE AbortHeartbeat
  BY <1>5 DEF TypeOK, AbortHeartbeat, Release
<1>6. CASE SendReport
  BY <1>6 DEF TypeOK, SendReport
<1>7. ASSUME NEW r \in wire, ApiApply(r) PROVE TypeOK'
  BY <1>7 DEF TypeOK, ApiApply
<1>8. ASSUME NEW r \in wire, ApiReject(r) PROVE TypeOK'
  BY <1>8 DEF TypeOK, ApiReject
<1>9. CASE AnswerArrives
  BY <1>9, AcknowledgeTyped DEF TypeOK, AnswerArrives, Release
<1>10. CASE AnswerLost
  BY <1>10, AcknowledgeTyped DEF TypeOK, AnswerLost, Release
<1>11. CASE Restart
  <2>1. report' \in Reports /\ snap' \in Table /\ baseline' \in Table
    BY <1>11 DEF Restart, Release
  <2>2. wire' \subseteq Reports
    BY <1>11 DEF TypeOK, Restart
  <2>3. restarts' \in Nat /\ UNCHANGED <<reg, api, changes, faults, had>>
    BY <1>11 DEF TypeOK, Restart
  <2>4. /\ known' = FALSE /\ forceFull' = TRUE /\ fullDue' = TRUE
        /\ phase' = "free" /\ source' = "event" /\ answer' = "none"
    BY <1>11 DEF Restart, Release
  <2> QED
    BY <2>1, <2>2, <2>3, <2>4 DEF TypeOK
<1>12. CASE UNCHANGED vars
  BY <1>12 DEF TypeOK, vars
<1> QED
  BY <1>1, <1>2, <1>3, <1>4, <1>5, <1>6, <1>7, <1>8, <1>9, <1>10, <1>11, <1>12
  DEF Next

\* The types of the tracker's state, for every fault the model knows.
THEOREM TypeCorrect == Spec => []TypeOK
<1> QED
  BY InitTyped, TypeStep, PTL DEF Spec

\* Reports keep carrying observed states: had only grows.
LEMMA ObservedStep ==
  TypeOK /\ ReportsObserved /\ [Next]_vars => ReportsObserved'
<1> SUFFICES ASSUME TypeOK, ReportsObserved, [Next]_vars PROVE ReportsObserved'
  OBVIOUS
<1>1. ASSUME NEW k \in Keys, NEW v \in Values, Register(k, v)
      PROVE  ReportsObserved'
  BY <1>1 DEF TypeOK, ReportsObserved, Register
<1>2. CASE FullIntervalPasses
  BY <1>2 DEF ReportsObserved, FullIntervalPasses
<1>3. ASSUME NEW E \in SUBSET Engines, BuildHeartbeat(E) PROVE ReportsObserved'
  BY <1>3, BuildObserved DEF ReportsObserved, BuildHeartbeat
<1>4. ASSUME NEW E \in SUBSET Engines, BuildChange(E) PROVE ReportsObserved'
  BY <1>4, BuildObserved DEF ReportsObserved, BuildChange
<1>5. CASE AbortHeartbeat
  BY <1>5 DEF ReportsObserved, AbortHeartbeat, Release
<1>6. CASE SendReport
  BY <1>6 DEF ReportsObserved, SendReport
<1>7. ASSUME NEW r \in wire, ApiApply(r) PROVE ReportsObserved'
  BY <1>7 DEF ReportsObserved, ApiApply
<1>8. ASSUME NEW r \in wire, ApiReject(r) PROVE ReportsObserved'
  BY <1>8 DEF ReportsObserved, ApiReject
<1>9. CASE AnswerArrives
  BY <1>9 DEF ReportsObserved, AnswerArrives, Release
<1>10. CASE AnswerLost
  BY <1>10 DEF ReportsObserved, AnswerLost, Release
<1>11. CASE Restart
  BY <1>11 DEF ReportsObserved, Restart, Release
<1>12. CASE UNCHANGED vars
  BY <1>12 DEF ReportsObserved, vars
<1> QED
  BY <1>1, <1>2, <1>3, <1>4, <1>5, <1>6, <1>7, <1>8, <1>9, <1>10, <1>11, <1>12
  DEF Next

\* A failed read, a lost answer or a late report never shows an extension in a
\* state its engine never held.
THEOREM OnlyObserved == Spec => OnlyObservedStates
<1> DEFINE Observed == \A k \in Keys : api'[k] # api[k] => api'[k] \in had[k]
<1>1. Init => TypeOK /\ ReportsObserved
  BY InitTyped DEF Init, ReportsObserved
<1>2. TypeOK /\ ReportsObserved /\ [Next]_vars => [Observed]_vars
  <2> SUFFICES ASSUME TypeOK, ReportsObserved, Next PROVE Observed
    OBVIOUS
  <2>1. ASSUME NEW r \in wire, ApiApply(r) PROVE Observed
    BY <2>1 DEF ReportsObserved, ApiApply
  <2>2. CASE UNCHANGED api
    BY <2>2
  <2> QED
    BY <2>1
    DEF Next, Register, FullIntervalPasses, BuildHeartbeat, BuildChange,
        AbortHeartbeat, SendReport, ApiReject, AnswerArrives, AnswerLost,
        Restart
<1> QED
  BY <1>1, <1>2, TypeStep, ObservedStep, PTL DEF Spec, OnlyObservedStates

-----------------------------------------------------------------------------
(* Completeness of applied reports, when every engine can be read and no    *)
(* request arrives late.                                                   *)

\* A report of every engine leaves out only what the baseline already has.
LEMMA BuildCovers ==
  ASSUME TypeOK, ReportsObserved
  PROVE  /\ Build(Engines).engines = Engines
         /\ Build(Engines).value = Snapshot(Engines)
         /\ \A k \in Keys \ Build(Engines).keys :
              ~forceFull /\ Snapshot(Engines)[k] = baseline[k]
BY DEF Build, BuildFull, Changed

\* Every step keeps the invariant.
LEMMA InvStep ==
  ASSUME ~EnginesFail, ~LateDelivery, IInv, ReportsObserved, [Next]_vars
  PROVE  IInv'
<1> USE DEF IInv, BaselineMatchesApi, PendingCovers, WireHoldsPending,
            AppliedReportIsComplete
<1>0. TypeOK'
  BY TypeStep
<1>1. ASSUME NEW k \in Keys, NEW v \in Values, Register(k, v) PROVE IInv'
  BY <1>0, <1>1 DEF Register
<1>2. CASE FullIntervalPasses
  BY <1>0, <1>2 DEF FullIntervalPasses
<1>3. ASSUME NEW E \in SUBSET Engines, BuildHeartbeat(E) PROVE IInv'
  BY <1>0, <1>3, BuildCovers DEF BuildHeartbeat, Read
<1>4. ASSUME NEW E \in SUBSET Engines, BuildChange(E) PROVE IInv'
  BY <1>0, <1>4, BuildCovers DEF BuildChange, Read
<1>5. CASE AbortHeartbeat
  BY <1>0, <1>5 DEF AbortHeartbeat, Release
<1>6. CASE SendReport
  BY <1>0, <1>6 DEF SendReport
<1>7. ASSUME NEW r \in wire, ApiApply(r) PROVE IInv'
  BY <1>7 DEF TypeOK, ApiApply
<1>8. ASSUME NEW r \in wire, ApiReject(r) PROVE IInv'
  BY <1>0, <1>8 DEF ApiReject
<1>9. CASE AnswerArrives
  BY <1>9 DEF TypeOK, AnswerArrives, Acknowledge, Release
<1>10. CASE AnswerLost
  BY <1>0, <1>10 DEF AnswerLost, Acknowledge, Release
<1>11. CASE Restart
  BY <1>0, <1>11 DEF Restart, Release
<1>12. CASE UNCHANGED vars
  BY <1>0, <1>12 DEF vars
<1> QED
  BY <1>1, <1>2, <1>3, <1>4, <1>5, <1>6, <1>7, <1>8, <1>9, <1>10, <1>11, <1>12
  DEF Next

\* On a host whose engines can always be read, over a network without late requests,
\* the tracker's baseline, the pending report and the API's view keep agreeing through
\* any refusals, lost answers and restarts (PabxPresenceTracker build and acknowledge).
THEOREM TrackerInvariant ==
  ASSUME ~EnginesFail, ~LateDelivery
  PROVE  Spec => []IInv
<1>1. Init => IInv /\ ReportsObserved
  BY InitTyped
  DEF Init, IInv, BaselineMatchesApi, PendingCovers, WireHoldsPending,
      AppliedReportIsComplete, ReportsObserved
<1>2. IInv /\ ReportsObserved /\ [Next]_vars => IInv' /\ ReportsObserved'
  BY InvStep, ObservedStep DEF IInv
<1> QED
  BY <1>1, <1>2, PTL DEF Spec

\* An applied report leaves the API of such a host with exactly what was read.
THEOREM ReportsComplete ==
  ASSUME ~EnginesFail, ~LateDelivery
  PROVE  Spec => []AppliedReportIsComplete
<1>1. IInv => AppliedReportIsComplete
  BY DEF IInv
<1> QED
  BY TrackerInvariant, <1>1, PTL
=============================================================================
