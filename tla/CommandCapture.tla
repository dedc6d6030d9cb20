---------------------------- MODULE CommandCapture ----------------------------
(***************************************************************************)
(* One external command under captureCommand and readCommandOutput         *)
(* (bounded-io.ts) as runLocalCommand (main.ts) starts it: two readers     *)
(* drain its pipes under a byte budget each, beside a timer that kills.    *)
(*                                                                         *)
(* The processes are external: the child writes, leaves a helper behind    *)
(* that holds its pipes, and exits as it likes.                            *)
(***************************************************************************)
EXTENDS Integers, FiniteSets

CONSTANTS
  Budget,     \* 4 MiB in the code
  MaxOutput   \* bound on what the processes write to a pipe

ASSUME CaptureAssumption == Budget \in Nat /\ MaxOutput \in Nat

Pipes == {"stdout", "stderr"}
Processes == {"child", "helper"}

VARIABLES
  linux,     \* elsewhere the group is not killed
  alive,     \* processes that run
  status,    \* the exit of the child: running, ok, error
  written,   \* what was written to each pipe
  drained,   \* what its reader took
  reader,    \* reading, done or failed
  alarm,     \* the timer: set, fired or cleared
  captured   \* waiting, failing, returned, timeout (code 124) or thrown

captureVars == <<linux, alive, status, written, drained, reader, alarm, captured>>

Settled_(p) == reader[p] # "reading"
Whole(p) == drained[p] = written[p] /\ alive = {}
-----------------------------------------------------------------------------
CaptureInit ==
  /\ linux \in BOOLEAN
  /\ alive \in {{"child"}, {"child", "helper"}} /\ status = "running"
  /\ written = [p \in Pipes |-> 0] /\ drained = [p \in Pipes |-> 0]
  /\ reader = [p \in Pipes |-> "reading"]
  /\ alarm = "set" /\ captured = "waiting"

\* The processes write and end.
Write(p) ==
  /\ alive # {} /\ written[p] < MaxOutput /\ reader[p] # "failed"
  /\ written' = [written EXCEPT ![p] = @ + 1]
  /\ UNCHANGED <<linux, alive, status, drained, reader, alarm, captured>>

Exit(q) ==
  /\ q \in alive /\ alive' = alive \ {q}
  /\ status' \in IF q = "child" THEN {"ok", "error"} ELSE {status}
  /\ UNCHANGED <<linux, written, drained, reader, alarm, captured>>

\* What kill leaves: on Linux nothing of the group.
Killed ==
  /\ alive' = IF linux THEN {} ELSE alive \ {"child"}
  /\ status' = IF status = "running" THEN "error" ELSE status

\* Mutant of Read: beyond the budget the reader stops as if the pipe had ended.
ReadTruncated(p) ==
  /\ reader[p] = "reading"
  /\ \/ /\ drained[p] < written[p]
        /\ IF drained[p] < Budget
           THEN drained' = [drained EXCEPT ![p] = @ + 1] /\ UNCHANGED reader
           ELSE reader' = [reader EXCEPT ![p] = "done"] /\ UNCHANGED drained
     \/ Whole(p) /\ reader' = [reader EXCEPT ![p] = "done"] /\ UNCHANGED drained
  /\ UNCHANGED <<linux, alive, status, written, alarm, captured>>

\* A reader takes a chunk, fails beyond its budget, or sees the end: nothing left to
\* read and nobody left to write.
Read(p) ==
  /\ reader[p] = "reading"
  /\ \/ /\ drained[p] < written[p]
        /\ drained' = [drained EXCEPT ![p] = @ + 1]
        /\ reader' = [reader EXCEPT ![p] = IF drained'[p] > Budget THEN "failed" ELSE @]
     \/ Whole(p) /\ reader' = [reader EXCEPT ![p] = "done"] /\ UNCHANGED drained
  /\ UNCHANGED <<linux, alive, status, written, alarm, captured>>

Alarm ==
  /\ alarm = "set" /\ alarm' = "fired"
  /\ Killed
  /\ UNCHANGED <<linux, written, drained, reader, captured>>

\* Promise.all: both readers and the exit; a fired timer makes the code 124.
CaptureReturns ==
  /\ captured = "waiting" /\ status # "running"
  /\ \A p \in Pipes : reader[p] = "done"
  /\ captured' = IF alarm = "fired" THEN "timeout" ELSE "returned"
  /\ alarm' = "cleared"
  /\ UNCHANGED <<linux, alive, status, written, drained, reader>>

\* The first failure of a reader kills, the rest is awaited before it is thrown.
CaptureFails ==
  /\ captured = "waiting" /\ \E p \in Pipes : reader[p] = "failed"
  /\ captured' = "failing" /\ Killed
  /\ UNCHANGED <<linux, written, drained, reader, alarm>>

CaptureThrows ==
  /\ captured = "failing" /\ status # "running" /\ \A p \in Pipes : Settled_(p)
  /\ captured' = "thrown" /\ alarm' = "cleared"
  /\ UNCHANGED <<linux, alive, status, written, drained, reader>>

CaptureNext ==
  \/ \E p \in Pipes : Write(p) \/ Read(p)
  \/ \E q \in Processes : Exit(q)
  \/ Alarm \/ CaptureReturns \/ CaptureFails \/ CaptureThrows

CaptureSpec == CaptureInit /\ [][CaptureNext]_captureVars
-----------------------------------------------------------------------------
(* Properties.                                                             *)

\* Every variable keeps its type (bounded-io.ts).
CaptureTypeOK ==
  /\ linux \in BOOLEAN /\ alive \subseteq Processes
  /\ status \in {"running", "ok", "error"}
  /\ written \in [Pipes -> Nat] /\ drained \in [Pipes -> Nat]
  /\ reader \in [Pipes -> {"reading", "done", "failed"}]
  /\ alarm \in {"set", "fired", "cleared"}
  /\ captured \in {"waiting", "failing", "returned", "timeout", "thrown"}

\* Whatever the order of output, exits, overflow and timeout: a result other than
\* 124 is all the command wrote, and a command that was cut short left no process
\* of its group on Linux (agent.md "Overflow fails the command and terminates its
\* process group on Linux; timeout returns status 124 ... Output is never silently
\* truncated into a successful result").
NeverCutIntoSuccess ==
  /\ captured = "returned" => status # "running" /\ \A p \in Pipes : Whole(p)
  /\ captured \in {"timeout", "thrown"} /\ linux => alive = {}
=============================================================================
