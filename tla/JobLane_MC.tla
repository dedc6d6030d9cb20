----------------------------- MODULE JobLane_MC -----------------------------
(***************************************************************************)
(* Instances of JobLane for TLC: one job of each executor class, and which *)
(* of them share the lane.                                                 *)
(***************************************************************************)
EXTENDS JobLane

JobOfEachKind == Kinds
KindItself == [k \in Kinds |-> k]

\* Pairs that meet every report discipline with a job that fails on expiry, a
\* job that reports nothing, or the monitor in the background.
Together == {{"upload", "silent"}, {"media", "reconcile"},
             {"principal", "reconcile"}, {"authPrincipal", "silent"},
             {"update", "silent"}, {"transfer", "silent"},
             {"guarded", "silent"}, {"probe", "silent"},
             {"monitor", "lifecycle"}}

TwoMonitors == {"m1", "m2", "u"}
MonitorKinds == [j \in TwoMonitors |-> IF j = "u" THEN "upload" ELSE "monitor"]
AllTogether == {TwoMonitors}
=============================================================================
