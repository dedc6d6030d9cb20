------------------------------- MODULE Wakeups -------------------------------
(***************************************************************************)
(* What coalescing promises, whatever its timers do: signals are merged,   *)
(* the task runs once at a time, and a signal is followed by a run that    *)
(* starts after it (pabx-events.ts coalesce, "the first event runs task    *)
(* after debounceMs ... and events during a run schedule exactly one       *)
(* more").                                                                 *)
(***************************************************************************)
VARIABLES
  due,      \* a signal has come since the last run started
  running   \* the task runs

wakeVars == <<due, running>>

WakeInit == due = FALSE /\ running = FALSE

Signal == due' = TRUE /\ UNCHANGED running

StartRun == due /\ ~running /\ due' = FALSE /\ running' = TRUE

EndRun == running /\ running' = FALSE /\ UNCHANGED due

WakeNext == Signal \/ StartRun \/ EndRun

WakeSpec == WakeInit /\ [][WakeNext]_wakeVars

\* A run always ends, and what is due runs.
FairWakeSpec == WakeSpec /\ WF_wakeVars(EndRun) /\ WF_wakeVars(StartRun)
=============================================================================
