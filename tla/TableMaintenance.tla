--------------------------- MODULE TableMaintenance ---------------------------
(***************************************************************************)
(* Table maintenance (main.ts executeDatabaseTableMaintenanceJob,          *)
(* database-maintenance.ts): the tables of a job are measured one after    *)
(* the other and then rebuilt one after the other, each if the free space  *)
(* of the moment is 1.2 times the size measured before.                    *)
(*                                                                         *)
(* The database server and the host are external: a rebuild copies the     *)
(* pages in use into a new file, follows the writes to the table and then  *)
(* drops the old file; while one runs, another statement on the table      *)
(* waits.  A rebuild whose client is gone goes on, a waiting one does not. *)
(* Sizes are counted in pages; the statistics of a table are as fresh as   *)
(* its file.                                                               *)
(***************************************************************************)
EXTENDS Integers, FiniteSets

CONSTANTS
  Tables,      \* the allowlisted tables of the database
  NoTable,     \* no table is considered
  Sizes, Purged, Spaces,  \* pages of a file, those of it free again, and those of
               \* the free disk, before the first job
  CopyStep,    \* pages a rebuild copies at a time
  MaxGrowth, MaxMaintJobs, MaxDeaths  \* bounds: writes during a job, jobs, dead clients

ASSUME TableAssumption == NoTable \notin Tables

ASSUME MaintenanceAssumption ==
  /\ Sizes \subseteq Nat /\ Purged \subseteq Nat /\ Spaces \subseteq Nat
  /\ CopyStep \in Nat \ {0}
  /\ MaxGrowth \in Nat /\ MaxMaintJobs \in Nat /\ MaxDeaths \in Nat

VARIABLES
  maintPc, maintAction,
  remaining,        \* tables still to be measured, then to be considered
  sizes,      \* item.fileBytes, or data and index where there is no file to stat
  outcome,    \* item.status
  table,      \* the table of the loop
  reported,   \* how the last job was reported
  used, pages, \* external: the file of each table, and the pages in use in it
  copied,     \* external: what the rebuild of each table has written
  space,      \* external: free pages of the disk
  orphans,    \* external: tables rebuilt for a client that is gone
  grown,      \* history: pages written on the disk since the job began
  alone,      \* history: no orphan ran when the space was compared
  maintJobs, deaths  \* bounded counters

tableDisk == <<used, pages, copied, space>>
loop == <<maintAction, remaining, sizes, outcome, table, reported, alone>>
tableVars == <<maintPc, loop, tableDisk, orphans, grown, maintJobs, deaths>>

\* The rebuilds the server is at.
Rebuilding == orphans \cup (IF maintPc = "rebuilds" THEN {table} ELSE {})
Listed == {t \in Tables : outcome[t] # "none"}
-----------------------------------------------------------------------------
TableInit ==
  /\ maintPc = "idle" /\ maintAction = "inspect" /\ reported = "none"
  /\ remaining = {} /\ table = NoTable /\ alone = FALSE
  /\ sizes = [t \in Tables |-> 0] /\ outcome = [t \in Tables |-> "none"]
  /\ used \in [Tables -> Sizes]
  /\ \E free \in [Tables -> Purged] :
       /\ \A t \in Tables : free[t] <= used[t]
       /\ pages = [t \in Tables |-> used[t] - free[t]]
  /\ copied = [t \in Tables |-> 0] /\ space \in Spaces /\ orphans = {}
  /\ grown = 0 /\ maintJobs = 0 /\ deaths = 0

\* The job may name any of the tables; those the database lacks have no row.
StartMaintenance ==
  /\ maintPc = "idle" /\ maintJobs < MaxMaintJobs /\ maintJobs' = maintJobs + 1
  /\ maintAction' \in {"inspect", "optimize"} /\ remaining' \in SUBSET Tables
  /\ maintPc' = "measure" /\ reported' = "none" /\ grown' = 0
  /\ UNCHANGED <<outcome, sizes, table, alone, tableDisk, orphans, deaths>>

MeasureTable(t) ==
  /\ maintPc = "measure" /\ t \in remaining /\ remaining' = remaining \ {t}
  /\ \E n \in {used[t], pages[t]} : sizes' = [sizes EXCEPT ![t] = n]
  /\ outcome' = [outcome EXCEPT ![t] =
                   IF maintAction = "inspect" THEN "inspected" ELSE "pending"]
  /\ UNCHANGED <<maintPc, maintAction, table, reported, alone, tableDisk, orphans, grown,
                 maintJobs, deaths>>

StartLoop ==
  /\ maintPc = "measure" /\ remaining = {} /\ maintPc' = "next"
  /\ remaining' = IF maintAction = "optimize" THEN Listed ELSE {}
  /\ UNCHANGED <<maintAction, sizes, outcome, table, reported, alone, tableDisk, orphans,
                 grown, maintJobs, deaths>>

\* Mutant of EnoughSpace: room for the copy is thought to be enough.
RoomForCopy(t) == space >= sizes[t]

\* hasRebuildDiskSpace, DATABASE_MAINTENANCE_DISK_FACTOR.
EnoughSpace(t) == 5 * space >= 6 * sizes[t]

\* df may fail, and a table is then skipped as well.
ConsiderTable(t) ==
  /\ maintPc = "next" /\ t \in remaining /\ remaining' = remaining \ {t}
  /\ \/ /\ EnoughSpace(t)
        /\ maintPc' = "announced" /\ table' = t /\ alone' = (orphans = {})
        /\ UNCHANGED outcome
     \/ /\ outcome' = [outcome EXCEPT ![t] = "skipped"]
        /\ UNCHANGED <<maintPc, table, alone>>
  /\ UNCHANGED <<maintAction, sizes, reported, tableDisk, orphans, grown, maintJobs,
                 deaths>>

\* The progress report between the comparison and the statement takes its time.
SendOptimize ==
  /\ maintPc = "announced"
  /\ maintPc' = IF table \in orphans THEN "waits" ELSE "rebuilds"
  /\ UNCHANGED <<loop, tableDisk, orphans, grown, maintJobs, deaths>>
-----------------------------------------------------------------------------
(* The server.                                                             *)

CopyGoesOn(t) ==
  \E n \in 1..CopyStep :
    /\ t \in Rebuilding /\ n <= space /\ copied[t] + n <= pages[t]
    /\ n = CopyStep \/ copied[t] + n = pages[t]
    /\ copied' = [copied EXCEPT ![t] = @ + n] /\ space' = space - n
    /\ UNCHANGED <<maintPc, loop, used, pages, orphans, grown, maintJobs, deaths>>

\* A statement that waited for the end of an orphan begins.
RebuildOver(t, how) ==
  /\ copied' = [copied EXCEPT ![t] = 0]
  /\ orphans' = orphans \ {t}
  /\ maintPc' = IF t \notin orphans THEN how
                ELSE IF maintPc = "waits" /\ table = t THEN "rebuilds" ELSE maintPc
  /\ UNCHANGED <<loop, pages, grown, maintJobs, deaths>>

RebuildEnds(t) ==
  /\ t \in Rebuilding /\ copied[t] = pages[t]
  /\ used' = [used EXCEPT ![t] = copied[t]] /\ space' = space + used[t]
  /\ RebuildOver(t, "rebuilt")

\* For want of space, or for any other reason.
RebuildFails(t) ==
  /\ t \in Rebuilding /\ space' = space + copied[t] /\ UNCHANGED used
  /\ RebuildOver(t, "broken")

\* Rows of the table, and whatever else is written on the disk.
TableGrows(t) ==
  /\ grown < MaxGrowth /\ grown' = grown + 1
  /\ pages' = [pages EXCEPT ![t] = @ + 1]
  /\ \/ pages[t] < used[t] /\ UNCHANGED <<used, space>>
     \/ /\ pages[t] = used[t] /\ space > 0 /\ space' = space - 1
        /\ used' = [used EXCEPT ![t] = @ + 1]
  /\ UNCHANGED <<maintPc, loop, copied, orphans, maintJobs, deaths>>

DiskFills ==
  /\ grown < MaxGrowth /\ grown' = grown + 1 /\ space > 0 /\ space' = space - 1
  /\ UNCHANGED <<maintPc, loop, used, pages, copied, orphans, maintJobs, deaths>>
-----------------------------------------------------------------------------
\* optimizeSucceeded; an answer it cannot read counts as a failure.
StatementReturns ==
  /\ maintPc \in {"rebuilt", "broken"} /\ maintPc' = "next"
  /\ \E s \in IF maintPc = "rebuilt" THEN {"optimized", "failed"} ELSE {"failed"} :
       outcome' = [outcome EXCEPT ![table] = s]
  /\ UNCHANGED <<maintAction, remaining, sizes, table, reported, alone, tableDisk, orphans,
                 grown, maintJobs, deaths>>

Orphaned == IF maintPc = "rebuilds" THEN {table} ELSE {}

\* The client is killed after the timeout of its statement, or dies.
ClientDies ==
  /\ maintPc \in {"waits", "rebuilds"} /\ deaths < MaxDeaths /\ deaths' = deaths + 1
  /\ maintPc' = "next" /\ orphans' = orphans \cup Orphaned
  /\ outcome' = [outcome EXCEPT ![table] = "failed"]
  /\ UNCHANGED <<maintAction, remaining, sizes, table, reported, alone, tableDisk, grown,
                 maintJobs>>

\* The locals of the job are gone with it.
JobOver ==
  /\ maintPc' = "idle" /\ remaining' = {} /\ table' = NoTable /\ alone' = FALSE
  /\ sizes' = [t \in Tables |-> 0] /\ outcome' = [t \in Tables |-> "none"]

MaintenanceReports ==
  /\ maintPc = "next" /\ remaining = {} /\ JobOver
  /\ reported' = IF /\ maintAction = "optimize" /\ Listed # {}
                    /\ \A t \in Listed : outcome[t] # "optimized"
                 THEN "fail" ELSE "complete"
  /\ UNCHANGED <<maintAction, tableDisk, orphans, grown, maintJobs, deaths>>

\* A refused job, a query that fails or a df that cannot be started.
MaintenanceFails ==
  /\ maintPc \in {"measure", "next"} /\ JobOver /\ reported' = "fail"
  /\ UNCHANGED <<maintAction, tableDisk, orphans, grown, maintJobs, deaths>>

\* The Agent stops, and its client with it.
MaintenanceStops ==
  /\ maintPc # "idle" /\ deaths < MaxDeaths /\ deaths' = deaths + 1
  /\ JobOver /\ orphans' = orphans \cup Orphaned
  /\ UNCHANGED <<maintAction, reported, tableDisk, grown, maintJobs>>

TableNext ==
  \/ StartMaintenance \/ StartLoop \/ SendOptimize \/ StatementReturns \/ ClientDies
  \/ MaintenanceReports \/ MaintenanceFails \/ MaintenanceStops \/ DiskFills
  \/ \E t \in Tables :
       \/ MeasureTable(t) \/ ConsiderTable(t) \/ CopyGoesOn(t) \/ RebuildEnds(t)
       \/ RebuildFails(t) \/ TableGrows(t)

TableSpec == TableInit /\ [][TableNext]_tableVars
-----------------------------------------------------------------------------
MaintPcs ==
  {"idle", "measure", "next", "announced", "waits", "rebuilds", "rebuilt", "broken"}
TableOutcomes == {"none", "inspected", "pending", "skipped", "optimized", "failed"}

\* Every variable keeps its type, and no copy outgrows its table (main.ts,
\* executeDatabaseTableMaintenanceJob).
TableTypeOK ==
  /\ maintPc \in MaintPcs /\ maintAction \in {"inspect", "optimize"}
  /\ remaining \subseteq Tables /\ table \in Tables \cup {NoTable}
  /\ sizes \in [Tables -> Nat]
  /\ outcome \in [Tables -> TableOutcomes]
  /\ reported \in {"none", "complete", "fail"} /\ alone \in BOOLEAN
  /\ used \in [Tables -> Nat] /\ pages \in [Tables -> Nat] /\ copied \in [Tables -> Nat]
  /\ \A t \in Tables : copied[t] <= pages[t] /\ pages[t] <= used[t]
  /\ space \in Nat /\ orphans \subseteq Tables
  /\ grown \in Nat /\ maintJobs \in Nat /\ deaths \in Nat

\* A rebuild the job begins finds room on the disk to its end, although its table was
\* measured before the rebuilds of others and the space compared before it was
\* announced: as long as the host has written less than a tenth of the table since the job
\* began, and no rebuild of a dead client went on beside it (main.ts, the loop of
\* executeDatabaseTableMaintenanceJob; hasRebuildDiskSpace).
RebuildHasRoom ==
  maintPc = "rebuilds" /\ alone /\ 10 * grown <= sizes[table] =>
    pages[table] - copied[table] <= space
=============================================================================
