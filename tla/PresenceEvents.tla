---------------------------- MODULE PresenceEvents ----------------------------
(***************************************************************************)
(* Engine events: one connection per engine wakes one coalesced task that  *)
(* reads the engines (pabx-events.ts listenPabxEvents and coalesce, main.ts *)
(* startPabxPresenceEvents and the lock of sendPabxPresenceChanges).       *)
(*                                                                         *)
(* The engines are external: each holds a count of its changes, sends an   *)
(* event for each change to a subscribed connection, and may close it.     *)
(* Time passes in ticks; a timer is the ticks left, a clock the ticks since *)
(* something, up to MinInterval.                                           *)
(***************************************************************************)
EXTENDS Integers

CONSTANTS
  Engines,      \* the engines of the host
  Debounce,     \* debounceMs, in ticks
  MinInterval,  \* minIntervalMs, in ticks
  MaxChanges,   \* bound: changes of each engine
  MaxDrops,     \* bound: connections lost or refused
  MaxFailures   \* bound: runs of the task that fail

ASSUME TimingAssumption ==
  /\ Debounce \in Nat /\ MinInterval \in Nat /\ Debounce <= MinInterval
ASSUME BoundAssumption ==
  /\ MaxChanges \in Nat /\ MaxDrops \in Nat /\ MaxFailures \in Nat

VARIABLES
  state,      \* external: the changes of each engine so far
  seen,       \* the changes the last read of the engines saw
  conn,       \* the connection of each engine
  inbox,      \* a registration event is in the connection, not yet read
  timer,      \* coalesce: ticks left, NoTimer for null
  running,    \* coalesce: the task runs
  again,      \* coalesce: a signal came during the run
  sinceRun,   \* ticks since lastRun
  didRead,    \* the running task has read the engines
  lock,       \* withPabxPresenceLock: "free", or held by the heartbeat
  drops, failures  \* bounded counters

NoTimer == -1
coalescer == <<timer, running, again, sinceRun>>
clocks == <<timer, sinceRun>>
vars == <<state, seen, conn, inbox, timer, running, again, sinceRun,
          didRead, lock, drops, failures>>

Larger(a, b) == IF a > b THEN a ELSE b
-----------------------------------------------------------------------------
Init ==
  /\ state = [e \in Engines |-> 0] /\ seen = state
  /\ conn = [e \in Engines |-> "down"] /\ inbox = [e \in Engines |-> FALSE]
  /\ timer = NoTimer /\ running = FALSE /\ again = FALSE
  /\ sinceRun = MinInterval
  /\ didRead = FALSE /\ lock = "free"
  /\ drops = 0 /\ failures = 0
-----------------------------------------------------------------------------
(* coalesce.                                                               *)

\* Mutant of Trigger: the time since the previous run is not counted.
TriggerAfterDebounce ==
  /\ IF running
     THEN again' = TRUE /\ UNCHANGED timer
     ELSE /\ timer' = IF timer = NoTimer THEN Debounce ELSE timer
          /\ UNCHANGED again
  /\ UNCHANGED <<running, sinceRun>>

\* A signal starts the timer, or is remembered during a run.
Trigger ==
  /\ IF running
     THEN again' = TRUE /\ UNCHANGED timer
     ELSE /\ timer' = IF timer = NoTimer
                      THEN Larger(Debounce, MinInterval - sinceRun) ELSE timer
          /\ UNCHANGED again
  /\ UNCHANGED <<running, sinceRun>>

\* The timer fires and the task starts.
RunTask ==
  /\ timer = 0
  /\ timer' = NoTimer /\ running' = TRUE /\ sinceRun' = 0
  /\ didRead' = FALSE
  /\ UNCHANGED <<state, seen, conn, inbox, again, lock, drops,
                 failures>>

\* Under the lock the task reads every engine.
ReadEngines ==
  /\ running /\ ~didRead /\ lock = "free"
  /\ didRead' = TRUE /\ seen' = state
  /\ UNCHANGED <<state, conn, inbox, coalescer, lock, drops, failures>>

\* Mutant of EndTask: the remembered signal is dropped.
EndForgets ==
  /\ running /\ didRead
  /\ running' = FALSE /\ again' = FALSE
  /\ didRead' = FALSE
  /\ UNCHANGED <<state, seen, conn, inbox, timer, sinceRun, lock,
                 drops, failures>>

\* The task ends or fails; a signal remembered during the run starts the timer.
EndTask ==
  /\ running
  /\ \/ didRead /\ UNCHANGED failures
     \/ failures < MaxFailures /\ failures' = failures + 1
  /\ running' = FALSE /\ again' = FALSE
  /\ timer' = IF again THEN Larger(Debounce, MinInterval - sinceRun) ELSE NoTimer
  /\ didRead' = FALSE
  /\ UNCHANGED <<state, seen, conn, inbox, sinceRun, lock, drops>>
-----------------------------------------------------------------------------
(* listenPabxEvents.                                                       *)

\* login: the engine accepts the subscription before the Agent reads its reply.
Subscribe(e) ==
  /\ conn[e] = "down"
  /\ conn' = [conn EXCEPT ![e] = "subscribed"]
  /\ UNCHANGED <<state, seen, inbox, coalescer, didRead, lock, drops,
                 failures>>

\* Mutant of LoggedIn: a fresh subscription does not read the engine.
LoggedInQuietly(e) ==
  /\ conn[e] = "subscribed"
  /\ conn' = [conn EXCEPT ![e] = "up"]
  /\ UNCHANGED <<state, seen, inbox, coalescer, didRead, lock, drops,
                 failures>>

\* The login reply is read: the subscription is fresh, so the engine is read
\* once, and events that came with the reply are looked at.
LoggedIn(e) ==
  /\ conn[e] = "subscribed"
  /\ conn' = [conn EXCEPT ![e] = "up"]
  /\ inbox' \in {inbox, [inbox EXCEPT ![e] = FALSE]}
  /\ Trigger
  /\ UNCHANGED <<state, seen, didRead, lock, drops, failures>>

\* An event is read from the connection.
ReadEvent(e) ==
  /\ conn[e] = "up" /\ inbox[e]
  /\ inbox' = [inbox EXCEPT ![e] = FALSE]
  /\ Trigger
  /\ UNCHANGED <<state, seen, conn, didRead, lock, drops, failures>>

\* The connection is refused or lost with what it carried; the loop sleeps and
\* connects again.
Drop(e) ==
  /\ conn[e] # "down" /\ drops < MaxDrops /\ drops' = drops + 1
  /\ conn' = [conn EXCEPT ![e] = "down"]
  /\ inbox' = [inbox EXCEPT ![e] = FALSE]
  /\ UNCHANGED <<state, seen, coalescer, didRead, lock, failures>>
-----------------------------------------------------------------------------
(* The engines, the heartbeat and time.                                    *)

\* A registration changes; a subscribed connection gets the event.
Change(e) ==
  /\ state[e] < MaxChanges
  /\ state' = [state EXCEPT ![e] = @ + 1]
  /\ inbox' = [inbox EXCEPT ![e] = @ \/ conn[e] # "down"]
  /\ UNCHANGED <<seen, conn, coalescer, didRead, lock, drops,
                 failures>>

\* The heartbeat takes the lock, between two reads of the task, and lets it go.
HeartbeatLock ==
  /\ lock = "free" /\ ~didRead
  /\ lock' = "heartbeat"
  /\ UNCHANGED <<state, seen, conn, inbox, coalescer, didRead, drops,
                 failures>>

HeartbeatUnlock ==
  /\ lock = "heartbeat"
  /\ lock' = "free"
  /\ UNCHANGED <<state, seen, conn, inbox, coalescer, didRead, drops,
                 failures>>

\* A tick; a timer at zero may fire late.
Tick ==
  /\ timer' = IF timer > 0 THEN timer - 1 ELSE timer
  /\ sinceRun' = IF sinceRun < MinInterval THEN sinceRun + 1 ELSE sinceRun
  /\ clocks' # clocks
  /\ UNCHANGED <<state, seen, conn, inbox, running, again, didRead, lock, drops,
                 failures>>

Next ==
  \/ RunTask \/ ReadEngines \/ EndTask
  \/ \E e \in Engines :
       Subscribe(e) \/ LoggedIn(e) \/ ReadEvent(e) \/ Drop(e) \/ Change(e)
  \/ HeartbeatLock \/ HeartbeatUnlock
  \/ Tick

Spec == Init /\ [][Next]_vars

\* Time passes, timers fire, tasks end within their timeouts, the lock comes
\* round and each loop connects again and reads.
FairSpec ==
  /\ Spec
  /\ WF_vars(Tick) /\ WF_vars(RunTask) /\ SF_vars(ReadEngines)
  /\ WF_vars(EndTask) /\ WF_vars(HeartbeatUnlock)
  /\ \A e \in Engines :
       WF_vars(Subscribe(e)) /\ WF_vars(LoggedIn(e)) /\ WF_vars(ReadEvent(e))
-----------------------------------------------------------------------------
(* Properties.                                                             *)

\* Every variable keeps its type (coalesce, listenPabxEvents).
TypeOK ==
  /\ state \in [Engines -> Nat] /\ seen \in [Engines -> Nat]
  /\ conn \in [Engines -> {"down", "subscribed", "up"}]
  /\ inbox \in [Engines -> BOOLEAN]
  /\ timer \in 0..MinInterval \cup {NoTimer}
  /\ running \in BOOLEAN /\ again \in BOOLEAN /\ didRead \in BOOLEAN
  /\ sinceRun \in 0..MinInterval
  /\ lock \in {"free", "heartbeat"}
  /\ drops \in Nat /\ failures \in Nat

\* The timer never runs during a task, and a timer that fires is never closer
\* than MinInterval to the previous run: a set timer covers what is left of it.
TimerKeepsInterval ==
  /\ timer # NoTimer => ~running /\ timer >= MinInterval - sinceRun
  /\ again => running

\* coalesce keeps the promise of Wakeups: a timer or a remembered signal is a
\* run that is due, none is lost and none doubled.
Wake == INSTANCE Wakeups WITH due <- timer # NoTimer \/ again
RefinesWakeups == Wake!WakeSpec
RefinesFairWakeups == Wake!FairWakeSpec

\* Every change is read once connections settle, in whatever order the change,
\* the subscription, its reply, a lost connection and the runs of the task come
\* (listenPabxEvents "A fresh subscription may have missed changes while
\* disconnected").  Runs do not fail here; a failed one waits for the heartbeat.
ChangesAreRead == [](failures = 0) => <>[](seen = state)
=============================================================================
