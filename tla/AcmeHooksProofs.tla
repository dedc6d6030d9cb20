--------------------------- MODULE AcmeHooksProofs ---------------------------
(***************************************************************************)
(* Proofs about the DNS-01 hooks of a website base, for any number of      *)
(* challenges, runs, failed calls and crashes: what the CA validates is    *)
(* visible, and what was answered is released (main.ts                     *)
(* issueWebsiteWildcard).                                                  *)
(***************************************************************************)
EXTENDS AcmeHooks, TLAPS

\* The vocabulary of every step.
USE BoundAssumption DEF Settled, dir, outside, Fault

\* A hook is of the running certbot, which is a child of the loop; one that has not
\* begun left no request, and a cleanup is asked for by one that is over.
HooksOfRun(i) ==
  /\ certbot = "exited" => hook[i] \in {"new", "cleaned"}
  /\ hook[i] \in {"waiting", "ok", "err"} => owner[i] = runs
  /\ hook[i] = "new" => i \notin reqs /\ task[i] = "none"
  /\ i \in cleanups => hook[i] = "cleaned"

\* A publication is asked for once and answers at its end; its challenge is in the open
\* map from the moment the TXT was seen.
TasksInOrder(i) ==
  /\ i \in reqs => task[i] = "none"
  /\ task[i] # "over" => answers[i] = "none" /\ hook[i] # "ok" /\ i \notin okd
  /\ task[i] \in {"none", "creating", "publishing", "resolving"} => i \notin open
  /\ task[i] = "resolving" => challenge[i] = "published"

\* Until its hook is over, what is answered ok, or about to be, is visible and open.
OpenWhileValidated(i) ==
  hook[i] # "cleaned" /\ (task[i] = "answering" \/ answers[i] = "ok" \/ hook[i] = "ok") =>
    challenge[i] = "published" /\ txt[i] /\ i \in open

\* What was answered ok was released or is in the open map of the run.
OkIsReleased(i) ==
  i \in okd /\ crashes = 0 =>
    i \in tried \/ (i \in open /\ owner[i] = runs /\ agent # "idle")

AcmeInv ==
  /\ TypeOK
  /\ agent # "loop" => certbot = "exited"
  /\ \A i \in Ids : HooksOfRun(i) /\ TasksInOrder(i) /\ OpenWhileValidated(i) /\ OkIsReleased(i)

\* There is no hook at first.
LEMMA AcmeInitInv == Init => AcmeInv
BY DEF Init, AcmeInv, TypeOK, HooksOfRun, TasksInOrder, OpenWhileValidated, OkIsReleased

\* A release, or one that failed, keeps the types.
LEMMA ReleaseTypes ==
  ASSUME TypeOK, NEW i \in Ids, Release(i)
  PROVE  /\ challenge' \in [Ids -> {"none", "pending", "published", "failed", "released"}]
         /\ txt' \in [Ids -> BOOLEAN] /\ open' \subseteq Ids /\ tried' \subseteq Ids
         /\ faults' \in Nat
<1>1. CASE /\ challenge' = [challenge EXCEPT ![i] = "released"]
           /\ txt' = [txt EXCEPT ![i] = FALSE] /\ UNCHANGED faults
  BY <1>1 DEF TypeOK, Release
<1>2. CASE faults' = faults + 1 /\ UNCHANGED <<challenge, txt>>
  BY <1>2 DEF TypeOK, Release
<1> QED
  BY <1>1, <1>2 DEF Release

\* A run begins with an empty directory, and with no hook of an earlier one.
LEMMA StartRunInv ==
  ASSUME AcmeInv, StartRun
  PROVE  AcmeInv'
<1>1. TypeOK' /\ (agent' # "loop" => certbot' = "exited")
  BY DEF AcmeInv, TypeOK, StartRun
<1>2. ASSUME NEW j \in Ids PROVE HooksOfRun(j)' /\ TasksInOrder(j)'
  BY DEF AcmeInv, TypeOK, HooksOfRun, TasksInOrder, StartRun
<1>3. ASSUME NEW j \in Ids PROVE OpenWhileValidated(j)' /\ OkIsReleased(j)'
  BY DEF AcmeInv, TypeOK, HooksOfRun, TasksInOrder, OpenWhileValidated, OkIsReleased,
         StartRun
<1> QED
  BY <1>1, <1>2, <1>3 DEF AcmeInv

\* The loop ends after its child.
LEMMA EndLoopInv ==
  ASSUME AcmeInv, EndLoop
  PROVE  AcmeInv'
<1>1. TypeOK' /\ (agent' # "loop" => certbot' = "exited")
  BY DEF AcmeInv, TypeOK, EndLoop
<1>2. ASSUME NEW j \in Ids PROVE HooksOfRun(j)' /\ TasksInOrder(j)'
  BY DEF AcmeInv, TypeOK, HooksOfRun, TasksInOrder, EndLoop
<1>3. ASSUME NEW j \in Ids PROVE OpenWhileValidated(j)' /\ OkIsReleased(j)'
  BY DEF AcmeInv, TypeOK, HooksOfRun, TasksInOrder, OpenWhileValidated, OkIsReleased,
         EndLoop
<1> QED
  BY <1>1, <1>2, <1>3 DEF AcmeInv

\* A run ends when its part of the open map is empty.
LEMMA EndRunInv ==
  ASSUME AcmeInv, EndRun
  PROVE  AcmeInv'
<1>1. TypeOK' /\ (agent' # "loop" => certbot' = "exited")
  BY DEF AcmeInv, TypeOK, EndRun
<1>2. ASSUME NEW j \in Ids PROVE HooksOfRun(j)' /\ TasksInOrder(j)'
  BY DEF AcmeInv, TypeOK, HooksOfRun, TasksInOrder, EndRun
<1>3. ASSUME NEW j \in Ids PROVE OpenWhileValidated(j)' /\ OkIsReleased(j)'
  BY DEF AcmeInv, TypeOK, HooksOfRun, TasksInOrder, OpenWhileValidated, OkIsReleased,
         EndRun
<1> QED
  BY <1>1, <1>2, <1>3 DEF AcmeInv

\* certbot leaves no hook behind.
LEMMA CertbotExitsInv ==
  ASSUME AcmeInv, CertbotExits
  PROVE  AcmeInv'
<1>1. TypeOK' /\ (agent' # "loop" => certbot' = "exited")
  BY DEF AcmeInv, TypeOK, CertbotExits
<1>2. ASSUME NEW j \in Ids PROVE HooksOfRun(j)' /\ TasksInOrder(j)'
  BY DEF AcmeInv, TypeOK, HooksOfRun, TasksInOrder, CertbotExits
<1>3. ASSUME NEW j \in Ids PROVE OpenWhileValidated(j)' /\ OkIsReleased(j)'
  BY DEF AcmeInv, TypeOK, HooksOfRun, TasksInOrder, OpenWhileValidated, OkIsReleased,
         CertbotExits
<1> QED
  BY <1>1, <1>2, <1>3 DEF AcmeInv

\* A crash ends the hooks and the tasks.
LEMMA CrashInv ==
  ASSUME AcmeInv, Crash
  PROVE  AcmeInv'
<1>1. TypeOK' /\ (agent' # "loop" => certbot' = "exited")
  BY DEF AcmeInv, TypeOK, Crash
<1>2. ASSUME NEW j \in Ids PROVE HooksOfRun(j)' /\ TasksInOrder(j)'
  BY DEF AcmeInv, TypeOK, HooksOfRun, TasksInOrder, Crash
<1>3. ASSUME NEW j \in Ids PROVE OpenWhileValidated(j)' /\ OkIsReleased(j)'
  BY DEF AcmeInv, TypeOK, HooksOfRun, TasksInOrder, OpenWhileValidated, OkIsReleased,
         Crash
<1> QED
  BY <1>1, <1>2, <1>3 DEF AcmeInv

\* A request is taken once.
LEMMA TakeRequestInv ==
  ASSUME AcmeInv, NEW i \in Ids, TakeRequest(i)
  PROVE  AcmeInv'
<1>1. TypeOK' /\ (agent' # "loop" => certbot' = "exited")
  BY DEF AcmeInv, TypeOK, TakeRequest
<1>2. ASSUME NEW j \in Ids PROVE HooksOfRun(j)' /\ TasksInOrder(j)'
  BY DEF AcmeInv, TypeOK, HooksOfRun, TasksInOrder, TakeRequest
<1>3. ASSUME NEW j \in Ids PROVE OpenWhileValidated(j)' /\ OkIsReleased(j)'
  BY DEF AcmeInv, TypeOK, HooksOfRun, TasksInOrder, OpenWhileValidated, OkIsReleased,
         TakeRequest
<1> QED
  BY <1>1, <1>2, <1>3 DEF AcmeInv

\* A cleanup is of a hook that is over.
LEMMA TakeCleanupInv ==
  ASSUME AcmeInv, NEW i \in Ids, TakeCleanup(i)
  PROVE  AcmeInv'
<1>1. TypeOK' /\ (agent' # "loop" => certbot' = "exited")
  <2>1. CASE Release(i)
    BY <2>1, ReleaseTypes DEF AcmeInv, TypeOK, TakeCleanup
  <2>2. CASE ~Release(i)
    BY <2>2 DEF AcmeInv, TypeOK, TakeCleanup
  <2> QED
    BY <2>1, <2>2
<1>2. ASSUME NEW j \in Ids PROVE HooksOfRun(j)' /\ TasksInOrder(j)'
  BY DEF AcmeInv, TypeOK, HooksOfRun, TasksInOrder, TakeCleanup, Release
<1>3. ASSUME NEW j \in Ids PROVE OpenWhileValidated(j)' /\ OkIsReleased(j)'
  BY DEF AcmeInv, TypeOK, HooksOfRun, TasksInOrder, OpenWhileValidated, OkIsReleased,
         TakeCleanup, Release
<1> QED
  BY <1>1, <1>2, <1>3 DEF AcmeInv

\* The end of a run releases after the hooks are over.
LEMMA ReleaseNextInv ==
  ASSUME AcmeInv, NEW i \in Ids, ReleaseNext(i)
  PROVE  AcmeInv'
<1>1. TypeOK' /\ (agent' # "loop" => certbot' = "exited")
  BY ReleaseTypes DEF AcmeInv, TypeOK, ReleaseNext
<1>2. ASSUME NEW j \in Ids PROVE HooksOfRun(j)' /\ TasksInOrder(j)'
  BY DEF AcmeInv, TypeOK, HooksOfRun, TasksInOrder, ReleaseNext, Release
<1>3. ASSUME NEW j \in Ids PROVE OpenWhileValidated(j)' /\ OkIsReleased(j)'
  BY DEF AcmeInv, TypeOK, HooksOfRun, TasksInOrder, OpenWhileValidated, OkIsReleased,
         ReleaseNext, Release
<1> QED
  BY <1>1, <1>2, <1>3 DEF AcmeInv

\* A challenge is created before anything is answered.
LEMMA CreateInv ==
  ASSUME AcmeInv, NEW i \in Ids, Create(i)
  PROVE  AcmeInv'
<1>1. TypeOK' /\ (agent' # "loop" => certbot' = "exited")
  BY DEF AcmeInv, TypeOK, Create
<1>2. ASSUME NEW j \in Ids PROVE HooksOfRun(j)' /\ TasksInOrder(j)'
  BY DEF AcmeInv, TypeOK, HooksOfRun, TasksInOrder, Create
<1>3. ASSUME NEW j \in Ids PROVE OpenWhileValidated(j)' /\ OkIsReleased(j)'
  BY DEF AcmeInv, TypeOK, HooksOfRun, TasksInOrder, OpenWhileValidated, OkIsReleased,
         Create
<1> QED
  BY <1>1, <1>2, <1>3 DEF AcmeInv

\* The task saw it published.
LEMMA PublishedInv ==
  ASSUME AcmeInv, NEW i \in Ids, Published(i)
  PROVE  AcmeInv'
<1>1. TypeOK' /\ (agent' # "loop" => certbot' = "exited")
  BY DEF AcmeInv, TypeOK, Published
<1>2. ASSUME NEW j \in Ids PROVE HooksOfRun(j)' /\ TasksInOrder(j)'
  BY DEF AcmeInv, TypeOK, HooksOfRun, TasksInOrder, Published
<1>3. ASSUME NEW j \in Ids PROVE OpenWhileValidated(j)' /\ OkIsReleased(j)'
  BY DEF AcmeInv, TypeOK, HooksOfRun, TasksInOrder, OpenWhileValidated, OkIsReleased,
         Published
<1> QED
  BY <1>1, <1>2, <1>3 DEF AcmeInv

\* The task saw the TXT and remembers the challenge.
LEMMA VisibleInv ==
  ASSUME AcmeInv, NEW i \in Ids, Visible(i)
  PROVE  AcmeInv'
<1>1. TypeOK' /\ (agent' # "loop" => certbot' = "exited")
  BY DEF AcmeInv, TypeOK, Visible
<1>2. ASSUME NEW j \in Ids PROVE HooksOfRun(j)' /\ TasksInOrder(j)'
  BY DEF AcmeInv, TypeOK, HooksOfRun, TasksInOrder, Visible
<1>3. ASSUME NEW j \in Ids PROVE OpenWhileValidated(j)' /\ OkIsReleased(j)'
  BY DEF AcmeInv, TypeOK, HooksOfRun, TasksInOrder, OpenWhileValidated, OkIsReleased,
         Visible
<1> QED
  BY <1>1, <1>2, <1>3 DEF AcmeInv

\* A task that gives up answers no ok.
LEMMA GiveUpInv ==
  ASSUME AcmeInv, NEW i \in Ids, GiveUp(i)
  PROVE  AcmeInv'
<1>1. TypeOK' /\ (agent' # "loop" => certbot' = "exited")
  BY DEF AcmeInv, TypeOK, GiveUp
<1>2. ASSUME NEW j \in Ids PROVE HooksOfRun(j)' /\ TasksInOrder(j)'
  BY DEF AcmeInv, TypeOK, HooksOfRun, TasksInOrder, GiveUp
<1>3. ASSUME NEW j \in Ids PROVE OpenWhileValidated(j)' /\ OkIsReleased(j)'
  BY DEF AcmeInv, TypeOK, HooksOfRun, TasksInOrder, OpenWhileValidated, OkIsReleased,
         GiveUp
<1> QED
  BY <1>1, <1>2, <1>3 DEF AcmeInv

\* An ok is written for what is visible.
LEMMA AnswerInv ==
  ASSUME AcmeInv, NEW i \in Ids, Answer(i)
  PROVE  AcmeInv'
<1>1. TypeOK' /\ (agent' # "loop" => certbot' = "exited")
  BY DEF AcmeInv, TypeOK, Answer
<1>2. ASSUME NEW j \in Ids PROVE HooksOfRun(j)' /\ TasksInOrder(j)'
  BY DEF AcmeInv, TypeOK, HooksOfRun, TasksInOrder, Answer
<1>3. ASSUME NEW j \in Ids PROVE OpenWhileValidated(j)' /\ OkIsReleased(j)'
  BY DEF AcmeInv, TypeOK, HooksOfRun, TasksInOrder, OpenWhileValidated, OkIsReleased,
         Answer
<1> QED
  BY <1>1, <1>2, <1>3 DEF AcmeInv

\* A hook of this run leaves its request.
LEMMA AuthHookInv ==
  ASSUME AcmeInv, NEW i \in Ids, AuthHook(i)
  PROVE  AcmeInv'
<1>1. TypeOK' /\ (agent' # "loop" => certbot' = "exited")
  BY DEF AcmeInv, TypeOK, AuthHook
<1>2. ASSUME NEW j \in Ids PROVE HooksOfRun(j)' /\ TasksInOrder(j)'
  BY DEF AcmeInv, TypeOK, HooksOfRun, TasksInOrder, AuthHook
<1>3. ASSUME NEW j \in Ids PROVE OpenWhileValidated(j)' /\ OkIsReleased(j)'
  BY DEF AcmeInv, TypeOK, HooksOfRun, TasksInOrder, OpenWhileValidated, OkIsReleased,
         AuthHook
<1> QED
  BY <1>1, <1>2, <1>3 DEF AcmeInv

\* An answered hook is of this run, its challenge in the open map.
LEMMA HookAnsweredInv ==
  ASSUME AcmeInv, NEW i \in Ids, HookAnswered(i)
  PROVE  AcmeInv'
<1>1. TypeOK' /\ (agent' # "loop" => certbot' = "exited")
  BY DEF AcmeInv, TypeOK, HookAnswered, HooksOfRun, TasksInOrder
<1>2. ASSUME NEW j \in Ids PROVE HooksOfRun(j)' /\ TasksInOrder(j)'
  BY DEF AcmeInv, TypeOK, HooksOfRun, TasksInOrder, HookAnswered
<1>3. ASSUME NEW j \in Ids PROVE OpenWhileValidated(j)' /\ OkIsReleased(j)'
  BY DEF AcmeInv, TypeOK, HooksOfRun, TasksInOrder, OpenWhileValidated, OkIsReleased,
         HookAnswered
<1> QED
  BY <1>1, <1>2, <1>3 DEF AcmeInv

\* A hook that waits no longer is not ok.
LEMMA HookTimesOutInv ==
  ASSUME AcmeInv, NEW i \in Ids, HookTimesOut(i)
  PROVE  AcmeInv'
<1>1. TypeOK' /\ (agent' # "loop" => certbot' = "exited")
  BY DEF AcmeInv, TypeOK, HookTimesOut
<1>2. ASSUME NEW j \in Ids PROVE HooksOfRun(j)' /\ TasksInOrder(j)'
  BY DEF AcmeInv, TypeOK, HooksOfRun, TasksInOrder, HookTimesOut
<1>3. ASSUME NEW j \in Ids PROVE OpenWhileValidated(j)' /\ OkIsReleased(j)'
  BY DEF AcmeInv, TypeOK, HooksOfRun, TasksInOrder, OpenWhileValidated, OkIsReleased,
         HookTimesOut
<1> QED
  BY <1>1, <1>2, <1>3 DEF AcmeInv

\* A cleanup ends a hook.
LEMMA CleanupHookInv ==
  ASSUME AcmeInv, NEW i \in Ids, CleanupHook(i)
  PROVE  AcmeInv'
<1>1. TypeOK' /\ (agent' # "loop" => certbot' = "exited")
  BY DEF AcmeInv, TypeOK, CleanupHook
<1>2. ASSUME NEW j \in Ids PROVE HooksOfRun(j)' /\ TasksInOrder(j)'
  BY DEF AcmeInv, TypeOK, HooksOfRun, TasksInOrder, CleanupHook
<1>3. ASSUME NEW j \in Ids PROVE OpenWhileValidated(j)' /\ OkIsReleased(j)'
  BY DEF AcmeInv, TypeOK, HooksOfRun, TasksInOrder, OpenWhileValidated, OkIsReleased,
         CleanupHook
<1> QED
  BY <1>1, <1>2, <1>3 DEF AcmeInv

\* The worker moves only what is not yet visible.
LEMMA DnsWorkerInv ==
  ASSUME AcmeInv, NEW i \in Ids, DnsWorker(i)
  PROVE  AcmeInv'
<1>1. TypeOK' /\ (agent' # "loop" => certbot' = "exited")
  <2>1. \/ txt' = txt /\ \E st \in {"published", "failed"} :
             challenge' = [challenge EXCEPT ![i] = st]
        \/ challenge' = challenge /\ txt' = [txt EXCEPT ![i] = TRUE]
    BY DEF DnsWorker
  <2>2. /\ challenge' \in [Ids -> {"none", "pending", "published", "failed", "released"}]
        /\ txt' \in [Ids -> BOOLEAN]
    <3>1. /\ challenge \in [Ids -> {"none", "pending", "published", "failed", "released"}]
          /\ txt \in [Ids -> BOOLEAN]
      BY DEF AcmeInv, TypeOK
    <3>2. challenge' \in [Ids -> {"none", "pending", "published", "failed", "released"}]
      BY <2>1, <3>1
    <3> QED
      BY <2>1, <3>1, <3>2
  <2>3. UNCHANGED <<agent, runs, outside, dir, task, open, faults, crashes, known, okd, tried>>
    BY DEF DnsWorker
  <2> QED
    BY <2>2, <2>3 DEF AcmeInv, TypeOK
<1>2. ASSUME NEW j \in Ids PROVE HooksOfRun(j)' /\ TasksInOrder(j)'
  BY DEF AcmeInv, TypeOK, HooksOfRun, TasksInOrder, DnsWorker
<1>3. ASSUME NEW j \in Ids PROVE OpenWhileValidated(j)' /\ OkIsReleased(j)'
  BY DEF AcmeInv, TypeOK, HooksOfRun, TasksInOrder, OpenWhileValidated, OkIsReleased,
         DnsWorker
<1> QED
  BY <1>1, <1>2, <1>3 DEF AcmeInv

\* One step per action.
LEMMA AcmeNextInv == AcmeInv /\ [Next]_vars => AcmeInv'
<1> SUFFICES ASSUME AcmeInv, [Next]_vars PROVE AcmeInv'
  OBVIOUS
<1>1. CASE StartRun
  BY <1>1, StartRunInv
<1>2. CASE EndLoop
  BY <1>2, EndLoopInv
<1>3. CASE EndRun
  BY <1>3, EndRunInv
<1>4. CASE CertbotExits
  BY <1>4, CertbotExitsInv
<1>5. CASE Crash
  BY <1>5, CrashInv
<1>6. CASE \E i \in Ids : TakeRequest(i)
  BY <1>6, TakeRequestInv
<1>7. CASE \E i \in Ids : TakeCleanup(i)
  BY <1>7, TakeCleanupInv
<1>8. CASE \E i \in Ids : ReleaseNext(i)
  BY <1>8, ReleaseNextInv
<1>9. CASE \E i \in Ids : Create(i)
  BY <1>9, CreateInv
<1>10. CASE \E i \in Ids : Published(i)
  BY <1>10, PublishedInv
<1>11. CASE \E i \in Ids : Visible(i)
  BY <1>11, VisibleInv
<1>12. CASE \E i \in Ids : GiveUp(i)
  BY <1>12, GiveUpInv
<1>13. CASE \E i \in Ids : Answer(i)
  BY <1>13, AnswerInv
<1>14. CASE \E i \in Ids : AuthHook(i)
  BY <1>14, AuthHookInv
<1>15. CASE \E i \in Ids : HookAnswered(i)
  BY <1>15, HookAnsweredInv
<1>16. CASE \E i \in Ids : HookTimesOut(i)
  BY <1>16, HookTimesOutInv
<1>17. CASE \E i \in Ids : CleanupHook(i)
  BY <1>17, CleanupHookInv
<1>18. CASE \E i \in Ids : DnsWorker(i)
  BY <1>18, DnsWorkerInv
<1>19. CASE UNCHANGED vars
  BY <1>19 DEF vars, AcmeInv, TypeOK, HooksOfRun, TasksInOrder, OpenWhileValidated, OkIsReleased
<1> QED
  BY <1>1, <1>2, <1>3, <1>4, <1>5, <1>6, <1>7, <1>8, <1>9, <1>10, <1>11, <1>12,
     <1>13, <1>14, <1>15, <1>16, <1>17, <1>18, <1>19 DEF Next, Publish

\* The invariant holds of every behaviour.
LEMMA AcmeAlways == Spec => []AcmeInv
BY AcmeInitInv, AcmeNextInv, PTL DEF Spec

\* While the CA validates a challenge it is published and visible, and no release, of
\* this run or left over from an earlier one, takes it away (issueWebsiteWildcard,
\* website-edge.ts).
THEOREM ValidatedVisible == Spec => []ValidatedWhileVisible
<1>1. AcmeInv => ValidatedWhileVisible
  BY DEF AcmeInv, OpenWhileValidated, ValidatedWhileVisible
<1> QED
  BY <1>1, AcmeAlways, PTL

\* A challenge whose hook was answered ok is released by the end of the run, however
\* certbot ended (issueWebsiteWildcard, releaseAll).
THEOREM AnsweredReleased == Spec => []AnsweredAreReleased
<1>1. AcmeInv => AnsweredAreReleased
  BY DEF AcmeInv, TypeOK, OkIsReleased, AnsweredAreReleased
<1> QED
  BY <1>1, AcmeAlways, PTL

\* Every variable keeps its type (issueWebsiteWildcard).
THEOREM AcmeTypeCorrect == Spec => []TypeOK
<1>1. AcmeInv => TypeOK
  BY DEF AcmeInv
<1> QED
  BY <1>1, AcmeAlways, PTL
=============================================================================
