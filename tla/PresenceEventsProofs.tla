------------------------ MODULE PresenceEventsProofs ------------------------
(***************************************************************************)
(* Coalescing, for any engines, debounce and interval: types, the interval *)
(* a set timer keeps, and the implementation of Wakeups without its        *)
(* fairness (pabx-events.ts coalesce).                                     *)
(***************************************************************************)
EXTENDS PresenceEvents, TLAPS

\* The inductive invariant: TimerKeepsInterval is inductive with the types.
IInv == TypeOK /\ TimerKeepsInterval

\* A wait computed from the debounce and what is left of the interval is a wait
\* that keeps the interval and is no longer than it.
LEMMA WaitKeepsInterval ==
  ASSUME sinceRun \in 0..MinInterval
  PROVE  LET wait == Larger(Debounce, MinInterval - sinceRun) IN
         /\ wait \in 0..MinInterval
         /\ wait # NoTimer
         /\ wait >= MinInterval - sinceRun
  BY TimingAssumption DEF Larger, NoTimer

\* A signal keeps the invariant of the coalescer.
LEMMA TriggerInv ==
  ASSUME IInv, Trigger
  PROVE  /\ timer' \in 0..MinInterval \cup {NoTimer}
         /\ running' \in BOOLEAN /\ again' \in BOOLEAN
         /\ sinceRun' \in 0..MinInterval
         /\ TimerKeepsInterval'
<1>1. CASE running
  BY <1>1 DEF IInv, TypeOK, TimerKeepsInterval, Trigger
<1>2. CASE ~running
  <2>1. CASE timer = NoTimer
    <3>1. timer' = Larger(Debounce, MinInterval - sinceRun)
      BY <1>2, <2>1 DEF Trigger
    <3>2. again' = again /\ running' = running /\ sinceRun' = sinceRun
      BY <1>2 DEF Trigger
    <3>3. sinceRun \in 0..MinInterval
      BY DEF IInv, TypeOK
    <3>4. timer' \in 0..MinInterval /\ timer' >= MinInterval - sinceRun
      BY <3>1, <3>3, WaitKeepsInterval
    <3> QED
      BY <1>2, <3>2, <3>4 DEF IInv, TypeOK, TimerKeepsInterval
  <2>2. CASE timer # NoTimer
    BY <2>2 DEF IInv, TypeOK, TimerKeepsInterval, Trigger
  <2> QED
    BY <2>1, <2>2
<1> QED
  BY <1>1, <1>2

\* Initially no timer is set and the interval has passed.
LEMMA InitInv == Init => IInv
<1> SUFFICES ASSUME Init PROVE IInv
  OBVIOUS
<1>1. /\ timer \in 0..MinInterval \cup {NoTimer}
      /\ sinceRun \in 0..MinInterval
  BY TimingAssumption DEF Init
<1>2. TypeOK
  BY <1>1 DEF Init, TypeOK
<1>3. TimerKeepsInterval
  BY DEF Init, TimerKeepsInterval
<1> QED
  BY <1>2, <1>3 DEF IInv

\* Every step keeps the invariant.
LEMMA StepInv == IInv /\ [Next]_vars => IInv'
<1> SUFFICES ASSUME IInv, [Next]_vars PROVE IInv'
  OBVIOUS
<1> USE DEF IInv
<1>1. CASE RunTask
  <2>1. 0 \in 0..MinInterval
    BY TimingAssumption
  <2>2. TypeOK'
    BY <1>1, <2>1 DEF RunTask, TypeOK
  <2>3. TimerKeepsInterval'
    BY <1>1 DEF RunTask, TimerKeepsInterval
  <2> QED
    BY <2>2, <2>3
<1>2. CASE ReadEngines
  BY <1>2 DEF ReadEngines, TypeOK, TimerKeepsInterval, coalescer
<1>3. CASE EndTask
  <2>1. TypeOK'
    <3>1. sinceRun \in 0..MinInterval /\ failures' \in Nat
      BY <1>3 DEF EndTask, TypeOK
    <3>2. timer' \in 0..MinInterval \cup {NoTimer}
      BY <1>3, <3>1, WaitKeepsInterval DEF EndTask
    <3> QED
      BY <1>3, <3>1, <3>2 DEF EndTask, TypeOK
  <2>2. TimerKeepsInterval'
    <3>1. sinceRun \in 0..MinInterval
      BY DEF TypeOK
    <3>2. timer' # NoTimer => timer' >= MinInterval - sinceRun
      BY <1>3, <3>1, WaitKeepsInterval DEF EndTask
    <3> QED
      BY <1>3, <3>2 DEF EndTask, TimerKeepsInterval
  <2> QED
    BY <2>1, <2>2
<1>4. ASSUME NEW e \in Engines, Subscribe(e) PROVE IInv'
  BY <1>4 DEF Subscribe, TypeOK, TimerKeepsInterval, coalescer
<1>5. ASSUME NEW e \in Engines, LoggedIn(e) PROVE IInv'
  <2>1. TimerKeepsInterval'
    BY <1>5, TriggerInv DEF LoggedIn
  <2>2. TypeOK'
    BY <1>5, TriggerInv DEF LoggedIn, TypeOK
  <2> QED
    BY <2>1, <2>2
<1>6. ASSUME NEW e \in Engines, ReadEvent(e) PROVE IInv'
  <2>1. TimerKeepsInterval'
    BY <1>6, TriggerInv DEF ReadEvent
  <2>2. TypeOK'
    BY <1>6, TriggerInv DEF ReadEvent, TypeOK
  <2> QED
    BY <2>1, <2>2
<1>7. ASSUME NEW e \in Engines, Drop(e) PROVE IInv'
  BY <1>7 DEF Drop, TypeOK, TimerKeepsInterval, coalescer
<1>8. ASSUME NEW e \in Engines, Change(e) PROVE IInv'
  BY <1>8 DEF Change, TypeOK, TimerKeepsInterval, coalescer
<1>9. CASE HeartbeatLock
  BY <1>9 DEF HeartbeatLock, TypeOK, TimerKeepsInterval, coalescer
<1>10. CASE HeartbeatUnlock
  BY <1>10 DEF HeartbeatUnlock, TypeOK, TimerKeepsInterval, coalescer
<1>11. CASE Tick
  BY <1>11, TimingAssumption DEF Tick, TypeOK, TimerKeepsInterval, NoTimer
<1>12. CASE UNCHANGED vars
  BY <1>12 DEF vars, TypeOK, TimerKeepsInterval
<1> QED
  BY <1>1, <1>2, <1>3, <1>4, <1>5, <1>6, <1>7, <1>8, <1>9, <1>10, <1>11, <1>12
  DEF Next

\* Types hold and a set timer keeps the interval for every engine set, debounce
\* and interval (coalesce "never closer than minIntervalMs to the previous run").
THEOREM Inductive == Spec => []IInv
  BY InitInv, StepInv, PTL DEF Spec

\* Every variable keeps its type.
THEOREM TypeCorrect == Spec => []TypeOK
  BY Inductive, PTL DEF IInv

\* A timer that fires is never closer than MinInterval to the previous run.
THEOREM IntervalKept == Spec => []TimerKeepsInterval
  BY Inductive, PTL DEF IInv
-----------------------------------------------------------------------------
(* The refinement: a set timer or a remembered signal is a run that is due. *)

\* A signal is a signal of Wakeups.
LEMMA TriggerSignals ==
  ASSUME IInv, Trigger
  PROVE  Wake!Signal
<1>1. running' = running
  BY DEF Trigger
<1>2. timer' # NoTimer \/ again'
  <2>1. sinceRun \in 0..MinInterval
    BY DEF IInv, TypeOK
  <2> QED
    BY <2>1, WaitKeepsInterval DEF Trigger
<1> QED
  BY <1>1, <1>2 DEF Wake!Signal

\* A step that leaves the coalescer alone is a stutter of Wakeups.
LEMMA QuietStutters ==
  ASSUME UNCHANGED coalescer
  PROVE  UNCHANGED Wake!wakeVars
  BY DEF coalescer, Wake!wakeVars

\* Every step of coalesce is a step of Wakeups or a stutter.
LEMMA StepRefines == IInv /\ [Next]_vars => [Wake!WakeNext]_Wake!wakeVars
<1> SUFFICES ASSUME IInv, [Next]_vars PROVE [Wake!WakeNext]_Wake!wakeVars
  OBVIOUS
<1>1. CASE RunTask
  <2>1. timer # NoTimer /\ ~running /\ ~again
    BY <1>1 DEF RunTask, IInv, TimerKeepsInterval, NoTimer
  <2>2. timer' = NoTimer /\ running' = TRUE /\ again' = again
    BY <1>1 DEF RunTask
  <2>3. Wake!StartRun
    BY <2>1, <2>2 DEF Wake!StartRun
  <2> QED
    BY <2>3 DEF Wake!WakeNext
<1>2. CASE EndTask
  <2>1. running /\ timer = NoTimer /\ running' = FALSE /\ again' = FALSE
    BY <1>2 DEF EndTask, IInv, TimerKeepsInterval
  <2>2. sinceRun \in 0..MinInterval /\ again \in BOOLEAN
    BY DEF IInv, TypeOK
  <2>3. timer' # NoTimer <=> again
    BY <1>2, <2>2, WaitKeepsInterval DEF EndTask
  <2>4. Wake!EndRun
    BY <2>1, <2>3 DEF Wake!EndRun
  <2> QED
    BY <2>4 DEF Wake!WakeNext
<1>3. ASSUME NEW e \in Engines, LoggedIn(e) \/ ReadEvent(e)
      PROVE  Wake!WakeNext
  <2>1. Trigger
    BY <1>3 DEF LoggedIn, ReadEvent
  <2> QED
    BY <2>1, TriggerSignals DEF Wake!WakeNext
<1>4. CASE ReadEngines \/ HeartbeatLock \/ HeartbeatUnlock
  <2>1. UNCHANGED coalescer
    BY <1>4 DEF ReadEngines, HeartbeatLock, HeartbeatUnlock
  <2> QED
    BY <2>1, QuietStutters
<1>5. ASSUME NEW e \in Engines, Subscribe(e) \/ Drop(e) \/ Change(e)
      PROVE  UNCHANGED Wake!wakeVars
  <2>1. UNCHANGED coalescer
    BY <1>5 DEF Subscribe, Drop, Change
  <2> QED
    BY <2>1, QuietStutters
<1>6. CASE Tick
  <2>1. timer' # NoTimer <=> timer # NoTimer
    BY <1>6 DEF Tick, NoTimer
  <2>2. again' = again /\ running' = running
    BY <1>6 DEF Tick
  <2> QED
    BY <2>1, <2>2 DEF Wake!wakeVars
<1>7. CASE UNCHANGED vars
  BY <1>7 DEF vars, Wake!wakeVars
<1> QED
  BY <1>1, <1>2, <1>3, <1>4, <1>5, <1>6, <1>7 DEF Next

\* coalesce implements Wakeups for every engine set, debounce and interval: no
\* signal is lost, none makes two runs, and runs never overlap.
THEOREM CoalesceRefines == Spec => RefinesWakeups
<1>1. Init => Wake!WakeInit
  BY DEF Init, Wake!WakeInit
<1> QED
  BY <1>1, Inductive, StepRefines, PTL DEF Spec, RefinesWakeups, Wake!WakeSpec
=============================================================================
