------------------------------ MODULE AcmeHooks ------------------------------
(***************************************************************************)
(* DNS-01 for the wildcard certificate of a website base (main.ts          *)
(* issueWebsiteWildcard, website-edge.ts): certbot runs as a child of the  *)
(* Agent and its hooks exchange files with it.  The auth hook leaves a     *)
(* request and waits for ok or err; the cleanup hook leaves a request to   *)
(* release.  The Agent's loop reads the directory once a second and        *)
(* publishes each challenge in the background.                             *)
(*                                                                         *)
(* certbot, its hooks, the API and the DNS are external.  A validation     *)
(* value, and so a hook id, is fresh in every run of certbot.              *)
(***************************************************************************)
EXTENDS Integers

CONSTANTS
  Ids,         \* hook ids, each used once
  MaxRuns,     \* bound: runs of issueWebsiteWildcard
  MaxFaults,   \* bound: failed API calls, deadlines, killed certbots
  MaxCrashes   \* bound: crashes of the Agent

ASSUME BoundAssumption ==
  MaxRuns \in Nat /\ MaxFaults \in Nat /\ MaxCrashes \in Nat

VARIABLES
  agent,      \* the job: "idle", in its "loop", or "ending" (releaseAll)
  certbot,    \* external: the child process is "running" or has "exited"
  runs,       \* runs so far
  owner,      \* the run each id belongs to, 0 for none
  hook,       \* external: the auth hook of each id
  reqs,       \* req.<id> files
  cleanups,   \* cleanup.<id> files
  answers,    \* ok.<id> and err.<id> files
  task,       \* the background publication of each id
  open,       \* ids in the open map of their run
  challenge,  \* external: the API's challenge of each id
  txt,        \* external: the TXT is on every authoritative nameserver
  faults, crashes,  \* bounded counters
  known,      \* history: ids whose challenge the API told the Agent
  okd,        \* history: ids whose hook was answered ok
  tried       \* history: ids whose release was requested

dir == <<reqs, cleanups, answers>>
outside == <<certbot, owner, hook>>
vars == <<agent, certbot, runs, owner, hook, reqs, cleanups, answers, task,
          open, challenge, txt, faults, crashes, known, okd, tried>>

Fault == faults < MaxFaults /\ faults' = faults + 1

Settled == {"none", "over"}
-----------------------------------------------------------------------------
Init ==
  /\ agent = "idle" /\ certbot = "exited" /\ runs = 0
  /\ owner = [i \in Ids |-> 0]
  /\ hook = [i \in Ids |-> "new"]
  /\ reqs = {} /\ cleanups = {}
  /\ answers = [i \in Ids |-> "none"]
  /\ task = [i \in Ids |-> "none"]
  /\ open = {}
  /\ challenge = [i \in Ids |-> "none"]
  /\ txt = [i \in Ids |-> FALSE]
  /\ faults = 0 /\ crashes = 0
  /\ known = {} /\ okd = {} /\ tried = {}
-----------------------------------------------------------------------------
(* The run and its loop.                                                   *)

\* The directory is emptied and certbot starts.
StartRun ==
  /\ agent = "idle" /\ runs < MaxRuns
  /\ agent' = "loop" /\ certbot' = "running" /\ runs' = runs + 1
  /\ reqs' = {} /\ cleanups' = {} /\ answers' = [i \in Ids |-> "none"]
  /\ UNCHANGED <<owner, hook, task, open, challenge, txt, faults, crashes, known, okd,
                 tried>>

\* The loop takes a request and publishes it in the background.
TakeRequest(i) ==
  /\ agent = "loop" /\ i \in reqs
  /\ reqs' = reqs \ {i}
  /\ task' = [task EXCEPT ![i] = "creating"]
  /\ UNCHANGED <<agent, runs, outside, cleanups, answers, open, challenge, txt,
                 faults, crashes, known, okd, tried>>

\* The API releases a challenge, or the call fails and is only logged.
Release(i) ==
  /\ open' = open \ {i}
  /\ tried' = tried \cup {i}
  /\ \/ /\ challenge' = [challenge EXCEPT ![i] = "released"]
        /\ txt' = [txt EXCEPT ![i] = FALSE]
        /\ UNCHANGED faults
     \/ Fault /\ UNCHANGED <<challenge, txt>>

\* The loop takes a cleanup: a challenge in the open map is released.
TakeCleanup(i) ==
  /\ agent = "loop" /\ i \in cleanups
  /\ cleanups' = cleanups \ {i}
  /\ IF i \in open THEN Release(i)
     ELSE UNCHANGED <<open, tried, challenge, txt, faults>>
  /\ UNCHANGED <<agent, runs, outside, reqs, answers, task, crashes, known, okd>>

\* certbot is done: the loop ends, perhaps before it saw the last files.
EndLoop ==
  /\ agent = "loop" /\ certbot = "exited"
  /\ agent' = "ending"
  /\ UNCHANGED <<runs, outside, dir, task, open, challenge, txt, faults,
                 crashes, known, okd, tried>>

\* releaseAll goes through the open map of the run.
ReleaseNext(i) ==
  /\ agent = "ending" /\ i \in open /\ owner[i] = runs
  /\ Release(i)
  /\ UNCHANGED <<agent, runs, outside, dir, task, crashes, known, okd>>

\* Mutant of EndRun: the job ends without releaseAll.
EndWithoutRelease ==
  /\ agent = "ending"
  /\ agent' = "idle"
  /\ UNCHANGED <<runs, outside, dir, task, open, challenge, txt, faults,
                 crashes, known, okd, tried>>

EndRun ==
  /\ agent = "ending" /\ \A i \in open : owner[i] # runs
  /\ agent' = "idle"
  /\ UNCHANGED <<runs, outside, dir, task, open, challenge, txt, faults,
                 crashes, known, okd, tried>>
-----------------------------------------------------------------------------
(* The background publication: publishWebsiteChallenge and its answer.     *)

\* The API creates the challenge; the call may fail, or its answer be lost.
Create(i) ==
  /\ task[i] = "creating"
  /\ \/ /\ challenge' = [challenge EXCEPT ![i] = "pending"]
        /\ task' = [task EXCEPT ![i] = "publishing"]
        /\ known' = known \cup {i}
        /\ UNCHANGED faults
     \/ /\ Fault
        /\ challenge' \in {challenge, [challenge EXCEPT ![i] = "pending"]}
        /\ task' = [task EXCEPT ![i] = "failed"]
        /\ UNCHANGED known
  /\ UNCHANGED <<agent, runs, outside, dir, open, txt, crashes, okd, tried>>

\* Mutant of Published: the hook is answered before the TXT is visible.
AnswerWhenPublished(i) ==
  /\ task[i] = "publishing" /\ challenge[i] = "published"
  /\ task' = [task EXCEPT ![i] = "answering"]
  /\ open' = open \cup {i}
  /\ UNCHANGED <<agent, runs, outside, dir, challenge, txt, faults, crashes,
                 known, okd, tried>>

\* The Agent polls until the challenge is published.
Published(i) ==
  /\ task[i] = "publishing"
  /\ \/ /\ challenge[i] = "published"
        /\ task' = [task EXCEPT ![i] = "resolving"]
     \/ /\ challenge[i] \in {"failed", "released"}
        /\ task' = [task EXCEPT ![i] = "failed"]
  /\ UNCHANGED <<agent, runs, outside, dir, open, challenge, txt, faults,
                 crashes, known, okd, tried>>

\* The TXT is visible on every authoritative nameserver.
Visible(i) ==
  /\ task[i] = "resolving" /\ txt[i]
  /\ open' = open \cup {i}
  /\ task' = [task EXCEPT ![i] = "answering"]
  /\ UNCHANGED <<agent, runs, outside, dir, challenge, txt, faults, crashes,
                 known, okd, tried>>

\* The deadline passes, or a poll of the API fails.
GiveUp(i) ==
  /\ task[i] \in {"publishing", "resolving"}
  /\ Fault
  /\ task' = [task EXCEPT ![i] = "failed"]
  /\ UNCHANGED <<agent, runs, outside, dir, open, challenge, txt, crashes, known, okd,
                 tried>>

\* Mutant of Answer: a failure leaves no answer.
AnswerOnlyOk(i) ==
  /\ task[i] \in {"answering", "failed"}
  /\ answers' = IF task[i] = "answering" THEN [answers EXCEPT ![i] = "ok"]
                ELSE answers
  /\ task' = [task EXCEPT ![i] = "over"]
  /\ UNCHANGED <<agent, runs, outside, reqs, cleanups, open, challenge, txt,
                 faults, crashes, known, okd, tried>>

\* answerWebsiteHookRequest writes ok.<id> or err.<id>; the write of the small
\* file itself is taken to succeed.
Answer(i) ==
  /\ task[i] \in {"answering", "failed"}
  /\ answers' = [answers EXCEPT ![i] = IF task[i] = "answering" THEN "ok" ELSE "err"]
  /\ task' = [task EXCEPT ![i] = "over"]
  /\ UNCHANGED <<agent, runs, outside, reqs, cleanups, open, challenge, txt,
                 faults, crashes, known, okd, tried>>
-----------------------------------------------------------------------------
(* certbot and its hooks.                                                  *)

\* certbot runs its auth hooks one after another.
AuthHook(i) ==
  /\ certbot = "running" /\ hook[i] = "new"
  /\ \A k \in Ids : hook[k] # "waiting"
  /\ hook' = [hook EXCEPT ![i] = "waiting"]
  /\ owner' = [owner EXCEPT ![i] = runs]
  /\ reqs' = reqs \cup {i}
  /\ UNCHANGED <<agent, certbot, runs, cleanups, answers, task, open, challenge,
                 txt, faults, crashes, known, okd, tried>>

\* The auth hook takes its answer.
HookAnswered(i) ==
  /\ certbot = "running" /\ hook[i] = "waiting" /\ answers[i] # "none"
  /\ hook' = [hook EXCEPT ![i] = answers[i]]
  /\ okd' = IF answers[i] = "ok" THEN okd \cup {i} ELSE okd
  /\ answers' = [answers EXCEPT ![i] = "none"]
  /\ UNCHANGED <<agent, certbot, runs, owner, reqs, cleanups, task, open,
                 challenge, txt, faults, crashes, known, tried>>

\* The auth hook waits no longer.
HookTimesOut(i) ==
  /\ certbot = "running" /\ hook[i] = "waiting"
  /\ Fault
  /\ hook' = [hook EXCEPT ![i] = "err"]
  /\ UNCHANGED <<agent, certbot, runs, owner, dir, task, open, challenge, txt,
                 crashes, known, okd, tried>>

\* After the validation certbot cleans up every challenge.
CleanupHook(i) ==
  /\ certbot = "running" /\ hook[i] \in {"ok", "err"}
  /\ \A k \in Ids : hook[k] # "waiting"
  /\ hook' = [hook EXCEPT ![i] = "cleaned"]
  /\ cleanups' = cleanups \cup {i}
  /\ UNCHANGED <<agent, certbot, runs, owner, reqs, answers, task, open,
                 challenge, txt, faults, crashes, known, okd, tried>>

\* certbot ends after its cleanups; at its time limit it is killed with its
\* hooks.
CertbotExits ==
  /\ certbot = "running"
  /\ \/ /\ \A i \in Ids : hook[i] \in {"new", "cleaned"}
        /\ UNCHANGED faults
     \/ Fault
  /\ certbot' = "exited"
  /\ hook' = [i \in Ids |-> IF hook[i] = "new" THEN "new" ELSE "cleaned"]
  /\ UNCHANGED <<agent, runs, owner, dir, task, open, challenge, txt, crashes,
                 known, okd, tried>>

\* The platform DNS worker publishes a challenge, and later the TXT is visible.
DnsWorker(i) ==
  /\ \/ /\ challenge[i] = "pending"
        /\ \E s \in {"published", "failed"} :
             challenge' = [challenge EXCEPT ![i] = s]
        /\ UNCHANGED txt
     \/ /\ challenge[i] = "published" /\ ~txt[i]
        /\ txt' = [txt EXCEPT ![i] = TRUE]
        /\ UNCHANGED challenge
  /\ UNCHANGED <<agent, runs, outside, dir, task, open, faults, crashes, known, okd,
                 tried>>

\* The Agent dies, and its child with it; the files stay.
Crash ==
  /\ crashes < MaxCrashes /\ crashes' = crashes + 1
  /\ agent' = "idle" /\ certbot' = "exited"
  /\ hook' = [i \in Ids |-> IF hook[i] = "new" THEN "new" ELSE "cleaned"]
  /\ task' = [i \in Ids |-> IF task[i] = "none" THEN "none" ELSE "over"]
  /\ open' = {}
  /\ UNCHANGED <<runs, owner, dir, challenge, txt, faults, known, okd, tried>>

Publish(i) == Create(i) \/ Published(i) \/ Visible(i) \/ GiveUp(i) \/ Answer(i)

Next ==
  \/ StartRun \/ EndLoop \/ EndRun \/ CertbotExits \/ Crash
  \/ \E i \in Ids :
       \/ TakeRequest(i) \/ TakeCleanup(i) \/ ReleaseNext(i) \/ Publish(i)
       \/ AuthHook(i) \/ HookAnswered(i) \/ HookTimesOut(i) \/ CleanupHook(i)
       \/ DnsWorker(i)

Spec == Init /\ [][Next]_vars

\* The loop and the background tasks go on, the DNS worker settles each
\* challenge, and certbot, whose time is limited, exits.
FairSpec ==
  /\ Spec
  /\ WF_vars(EndLoop) /\ WF_vars(EndRun) /\ WF_vars(CertbotExits)
  /\ \A i \in Ids : /\ WF_vars(TakeRequest(i)) /\ WF_vars(ReleaseNext(i))
                    /\ WF_vars(TakeCleanup(i)) /\ WF_vars(Publish(i))
                    /\ WF_vars(DnsWorker(i)) /\ WF_vars(HookAnswered(i))
                    /\ WF_vars(CleanupHook(i))
-----------------------------------------------------------------------------
(* Properties.                                                             *)

\* Every variable keeps its type (issueWebsiteWildcard).
TypeOK ==
  /\ agent \in {"idle", "loop", "ending"}
  /\ certbot \in {"running", "exited"}
  /\ runs \in Nat /\ owner \in [Ids -> Nat]
  /\ hook \in [Ids -> {"new", "waiting", "ok", "err", "cleaned"}]
  /\ reqs \subseteq Ids /\ cleanups \subseteq Ids
  /\ answers \in [Ids -> {"none", "ok", "err"}]
  /\ task \in [Ids -> Settled \cup {"creating", "publishing", "resolving",
                                    "answering", "failed"}]
  /\ open \subseteq Ids
  /\ challenge \in [Ids -> {"none", "pending", "published", "failed", "released"}]
  /\ txt \in [Ids -> BOOLEAN]
  /\ faults \in Nat /\ crashes \in Nat
  /\ known \subseteq Ids /\ okd \subseteq Ids /\ tried \subseteq Ids

\* While the CA validates, the challenge is published and its TXT is visible:
\* no release, of this run or left over from an earlier one, takes it away
\* (website-edge_test.ts "a challenge is released for certbot only once
\* published and visible on every nameserver").
ValidatedWhileVisible ==
  \A i \in Ids : hook[i] = "ok" =>
    challenge[i] = "published" /\ txt[i] /\ i \in open

\* A challenge whose hook was answered ok is released by the end of the run,
\* however certbot ended (issueWebsiteWildcard, releaseAll).  Released means that
\* its release was requested: a DELETE that fails is only logged.
AnsweredAreReleased ==
  agent = "idle" /\ crashes = 0 => okd \subseteq tried

\* A run comes to its end, whatever certbot and the API do.
RunEnds == agent # "idle" ~> agent = "idle"

\* main.ts, issueWebsiteWildcard: "answers the hook requests (publish through the
\* API, wait for the authoritative TXT) and releases each challenge on cleanup or
\* at the end".  So once the run and its background tasks are over no challenge
\* the Agent knew of stays with the API.
EveryChallengeReleased ==
  agent = "idle" /\ crashes = 0 /\ (\A i \in Ids : task[i] \in Settled) =>
    \A i \in known : challenge[i] \in {"pending", "published"} => i \in tried
=============================================================================
