------------------------------- MODULE JobLife -------------------------------
(***************************************************************************)
(* What the life of a job promises, whoever reports and whatever is lost   *)
(* on the way: a queued job is leased, each time under a new number; a     *)
(* leased one ends or is offered again; an ended one stays as it is.  A    *)
(* completion stands for work that succeeded, that of the lease itself     *)
(* where reports are fenced, and the local source of a job is given up     *)
(* only once its completion is on record (README "removed only after       *)
(* upload is confirmed", main.ts pollJobs and the executors).              *)
(***************************************************************************)
EXTENDS Naturals

CONSTANT Jobs

VARIABLES
  claim,    \* what a completion of each job stands for: the work of the "last" lease,
            \* of "any" lease up to it, or of "none"
  record,   \* the API's record of each job: its state and the number of its lease
  worked,   \* the executions whose work succeeded
  kept      \* the local source of each job exists

lifeVars == <<claim, record, worked, kept>>

LifeInit ==
  /\ claim \in [Jobs -> {"last", "any", "none"}]
  /\ record \in [Jobs -> [st : {"queued", "failed"}, lease : {0}]]
  /\ worked = {}
  /\ kept = [j \in Jobs |-> TRUE]

\* Queued jobs are leased under numbers never used before.
Grant ==
  /\ UNCHANGED <<claim, worked, kept>>
  /\ \E S \in SUBSET {j \in Jobs : record[j].st = "queued"} :
       record' = [j \in Jobs |-> IF j \in S THEN [st |-> "leased", lease |-> record[j].lease + 1]
                                 ELSE record[j]]

\* The work under a lease succeeds, perhaps long after the lease is over.
Work(j) ==
  /\ UNCHANGED <<claim, record, kept>>
  /\ \E n \in 0..record[j].lease : worked' = worked \cup {[job |-> j, lease |-> n]}

Claimed(j) ==
  \/ claim[j] = "none"
  \/ claim[j] = "any" /\ \E e \in worked : e.job = j /\ e.lease <= record[j].lease
  \/ claim[j] = "last" /\ [job |-> j, lease |-> record[j].lease] \in worked

\* A leased job ends as its report or its expiry says, or is offered again.
Complete(j) ==
  /\ record[j].st = "leased" /\ Claimed(j)
  /\ record' = [record EXCEPT ![j] = [st |-> "done", lease |-> @.lease]]
  /\ UNCHANGED <<claim, worked, kept>>

Release(j) ==
  /\ record[j].st = "leased"
  /\ \E st \in {"failed", "queued"} : record' = [record EXCEPT ![j] = [st |-> st, lease |-> @.lease]]
  /\ UNCHANGED <<claim, worked, kept>>

\* The local source of a completed job is given up.
GiveAway(j) ==
  /\ record[j].st = "done" /\ \E e \in worked : e.job = j
  /\ kept' = [kept EXCEPT ![j] = FALSE]
  /\ UNCHANGED <<claim, record, worked>>

LifeNext == Grant \/ \E j \in Jobs : Work(j) \/ Complete(j) \/ Release(j) \/ GiveAway(j)

LifeSpec == LifeInit /\ [][LifeNext]_lifeVars
=============================================================================
