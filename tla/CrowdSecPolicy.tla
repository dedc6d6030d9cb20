---------------------------- MODULE CrowdSecPolicy ----------------------------
(***************************************************************************)
(* cyber.security.profile.apply (main.ts applyCyberSecurityProfile,        *)
(* cyber-security-policy.ts): a job writes the policy files of CrowdSec,   *)
(* has crowdsec -t judge them and restores them when it refuses, installs  *)
(* collections, reloads, and converges the decisions of the blocklist.     *)
(*                                                                         *)
(* The contents of the files are the job that wrote them.  crowdsec and    *)
(* cscli are external: a cscli command that took effect may still report a *)
(* failure, and is then run again.                                         *)
(***************************************************************************)
EXTENDS Integers, FiniteSets

CONSTANTS
  Artifacts,   \* the policy files
  Addresses,
  Absent,      \* no file
  Torn,        \* the content of a write that was cut short
  MaxApplies, MaxDecisions, MaxSecStops   \* bounds

ASSUME CrowdSecAssumption ==
  /\ MaxApplies \in Nat /\ MaxDecisions \in Nat /\ MaxSecStops \in Nat
  /\ {Absent, Torn} \cap Nat = {} /\ Absent # Torn

Content == Nat \cup {Absent, Torn}
Decision == [id : Nat, value : Addresses]

VARIABLES
  policy,     \* the files
  secPc,      \* where the job stands
  profile,    \* the job's policy, blocklist and bouncerEnabled
  backups,    \* the files before the job
  pending,    \* the files left to write or to restore
  decisions,  \* those CrowdSec enforces with the reason mnscloud-list; any other is
              \* filtered out and never touched
  adds, deletes,  \* the cscli commands left
  applies, nextId, secStops,  \* bounded counters
  valid,      \* history: the policies that crowdsec -t took
  cut         \* history: a stop among the writes or in the restoration, or a
              \* restoration that failed, left other files than the job had found,
              \* and crowdsec -t has taken none since

rest == <<decisions, adds, deletes, nextId>>
files == <<policy, backups, pending, valid, cut>>
secVars == <<files, secPc, profile, rest, applies, secStops>>

\* What stays when a job ends.
lasting == <<valid, decisions, nextId, applies>>

Nothing == [f \in Artifacts |-> Absent]
NoProfile == [policy |-> Nothing, list |-> {}, enabled |-> FALSE]

Banned(D, a) == \E d \in D : d.value = a
-----------------------------------------------------------------------------
SecInit ==
  /\ policy = Nothing /\ backups = Nothing /\ pending = {}
  /\ secPc = "idle" /\ profile = NoProfile
  /\ decisions = {} /\ adds = {} /\ deletes = {}
  /\ applies = 0 /\ nextId = 1 /\ secStops = 0
  /\ valid = {policy} /\ cut = FALSE

\* A job's policy has some of the files and has the others removed.  The files are
\* read before any of them is written.
StartApply(F, L, enabled) ==
  /\ secPc = "idle" /\ applies < MaxApplies /\ applies' = applies + 1
  /\ profile' = [policy |-> [f \in Artifacts |-> IF f \in F THEN applies' ELSE Absent],
                 list |-> L, enabled |-> enabled]
  /\ backups' = policy /\ pending' = Artifacts
  /\ secPc' = "write"
  /\ UNCHANGED <<policy, valid, cut, rest, secStops>>

\* The locals of a job are gone with it.
SecEnds ==
  /\ secPc' = "idle" /\ profile' = NoProfile
  /\ backups' = Nothing /\ pending' = {} /\ adds' = {} /\ deletes' = {}

\* Any other step that throws ends the job.
ApplyFails ==
  /\ \/ secPc \in {"reload", "list", "change"}
     \/ secPc = "write" /\ pending = Artifacts
  /\ SecEnds
  /\ UNCHANGED <<policy, cut, lasting, secStops>>

\* One file is written or removed; if that fails the files are restored.
WriteArtifact(f) ==
  /\ secPc = "write" /\ f \in pending
  /\ \/ /\ policy' = [policy EXCEPT ![f] = profile.policy[f]]
        /\ pending' = pending \ {f} /\ UNCHANGED secPc
     \/ /\ policy' \in {policy} \cup {[policy EXCEPT ![f] = Torn]}
        /\ pending' = Artifacts /\ secPc' = "restore"
  /\ UNCHANGED <<backups, valid, cut, profile, rest, applies, secStops>>

\* crowdsec -t.
Validate ==
  /\ secPc = "write" /\ pending = {}
  /\ \/ /\ \A f \in Artifacts : policy[f] # Torn
        /\ valid' = valid \cup {policy} /\ cut' = FALSE
        /\ secPc' = "reload" /\ UNCHANGED pending
     \/ secPc' = "restore" /\ pending' = Artifacts /\ UNCHANGED <<valid, cut>>
  /\ UNCHANGED <<policy, backups, profile, rest, applies, secStops>>

\* Mutant of RestoreArtifact: a file that was not there stays.
RestorePresent(f) ==
  /\ secPc = "restore" /\ f \in pending
  /\ pending' = pending \ {f}
  /\ policy' = IF backups[f] = Absent THEN policy ELSE [policy EXCEPT ![f] = backups[f]]
  /\ UNCHANGED <<backups, valid, cut, secPc, profile, rest, applies, secStops>>

\* One file is restored; a failure ends the restoration and the job.
RestoreArtifact(f) ==
  /\ secPc = "restore" /\ f \in pending
  /\ \/ /\ policy' = [policy EXCEPT ![f] = backups[f]]
        /\ pending' = pending \ {f}
        /\ UNCHANGED <<secPc, cut, backups, profile, adds, deletes>>
     \/ /\ policy' \in {policy, [policy EXCEPT ![f] = Torn]}
        /\ cut' = (cut \/ policy' # backups) /\ SecEnds
  /\ UNCHANGED <<lasting, secStops>>

Restored ==
  /\ secPc = "restore" /\ pending = {} /\ SecEnds
  /\ UNCHANGED <<policy, cut, lasting, secStops>>

\* Collections and the reload.
Reload ==
  /\ secPc = "reload"
  /\ IF profile.enabled
     THEN secPc' = "list" /\ UNCHANGED <<backups, pending, profile, adds, deletes>>
     ELSE SecEnds
  /\ UNCHANGED <<policy, cut, lasting, secStops>>

\* Mutant of ListDecisions: the old decisions are deleted by their address.
ListByAddress ==
  /\ secPc = "list"
  /\ adds' = profile.list /\ deletes' = {d.value : d \in decisions}
  /\ secPc' = "change"
  /\ UNCHANGED <<files, profile, decisions, nextId, applies, secStops>>

\* blocklistCommands: every listed address is added again, every decision the Agent
\* had made is deleted by its id.
ListDecisions ==
  /\ secPc = "list"
  /\ adds' = profile.list /\ deletes' = {d.id : d \in decisions}
  /\ secPc' = "change"
  /\ UNCHANGED <<files, profile, decisions, nextId, applies, secStops>>

\* retryCrowdSecCommand: a command whose failure is reported is run again, whether it
\* took effect or not.
AddDecision(a) ==
  /\ secPc = "change" /\ a \in adds /\ nextId <= MaxDecisions
  /\ decisions' = decisions \cup {[id |-> nextId, value |-> a]}
  /\ nextId' = nextId + 1
  /\ adds' \in {adds, adds \ {a}}
  /\ UNCHANGED <<files, secPc, profile, deletes, applies, secStops>>

\* Mutant of DeleteDecision: it does not wait for the additions.
DeleteEarly(i) ==
  /\ secPc = "change" /\ i \in deletes
  /\ decisions' = {d \in decisions : d.id # i}
  /\ deletes' \in {deletes, deletes \ {i}}
  /\ UNCHANGED <<files, secPc, profile, adds, nextId, applies, secStops>>

\* The deletions follow the additions.
DeleteDecision(i) ==
  /\ secPc = "change" /\ adds = {} /\ i \in deletes
  /\ decisions' = {d \in decisions : d.id # i}
  /\ deletes' \in {deletes, deletes \ {i}}
  /\ UNCHANGED <<files, secPc, profile, adds, nextId, applies, secStops>>

Converged ==
  /\ secPc = "change" /\ adds = {} /\ deletes = {} /\ SecEnds
  /\ UNCHANGED <<policy, cut, lasting, secStops>>

\* The Agent stops, perhaps within a write; nothing restores the files later.
SecStop ==
  /\ secPc # "idle" /\ secStops < MaxSecStops /\ secStops' = secStops + 1
  /\ SecEnds
  /\ IF secPc \in {"write", "restore"}
     THEN /\ policy' \in {policy} \cup {[policy EXCEPT ![f] = Torn] : f \in pending}
          /\ cut' = (cut \/ policy' # backups)
     ELSE UNCHANGED <<policy, cut>>
  /\ UNCHANGED lasting

SecNext ==
  \/ \E F \in SUBSET Artifacts, L \in SUBSET Addresses, b \in BOOLEAN : StartApply(F, L, b)
  \/ ApplyFails
  \/ \E f \in Artifacts : WriteArtifact(f) \/ RestoreArtifact(f)
  \/ Validate \/ Restored \/ Reload \/ ListDecisions
  \/ \E a \in Addresses : AddDecision(a)
  \/ \E i \in deletes : DeleteDecision(i)
  \/ Converged \/ SecStop

SecSpec == SecInit /\ [][SecNext]_secVars
-----------------------------------------------------------------------------
(* Properties.                                                             *)

\* Every variable keeps its type (main.ts, cyber-security-policy.ts).
SecTypeOK ==
  /\ policy \in [Artifacts -> Content] /\ backups \in [Artifacts -> Content]
  /\ pending \subseteq Artifacts
  /\ secPc \in {"idle", "write", "restore", "reload", "list", "change"}
  /\ profile \in [policy : [Artifacts -> Content], list : SUBSET Addresses,
                  enabled : BOOLEAN]
  /\ decisions \subseteq Decision /\ adds \subseteq Addresses /\ deletes \subseteq Nat
  /\ applies \in Nat /\ nextId \in Nat /\ secStops \in Nat
  /\ valid \subseteq [Artifacts -> Content] /\ cut \in BOOLEAN

\* Between jobs the policy files are together a policy crowdsec -t took, whichever
\* write, judgement or later step failed, and after a stop or a failed restoration that
\* left the files as the job had found them.  One that left others, a mixture nobody
\* judged, is what the code does not make good: they stay until crowdsec -t takes a later
\* job's (main.ts writeCrowdSecPolicyArtifacts).
LeftPolicyValidated ==
  secPc = "idle" /\ ~cut => policy \in valid

\* An address on the list of the last job that the Agent blocked stays blocked:
\* through failed and repeated commands, restarts and the jobs after it (main.ts
\* applyCyberSecurityBlocklist "new decisions are added before stale or refreshed
\* ones are deleted, so a listed address is never left unblocked").
ListedStaysBlocked ==
  [][\A a \in profile.list : Banned(decisions, a) => Banned(decisions', a)]_secVars
=============================================================================
