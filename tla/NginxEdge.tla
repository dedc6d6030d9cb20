------------------------------ MODULE NginxEdge ------------------------------
(***************************************************************************)
(* The nginx edge: server blocks of ThemeDomains and of website bases,     *)
(* written to disk, tested, loaded by a reload and restored on failure     *)
(* (main.ts, the nginx.edge, certbot and website.edge jobs and the render  *)
(* revision at startup).  Jobs run one at a time in the job lane; a crash  *)
(* may come between any two steps of one.                                  *)
(*                                                                         *)
(* nginx, certbot and nginx.env are external.  A file is the record of     *)
(* what its rendering depends on, but for the agent.conf of the host. That *)
(* is taken as settled: the paths and upstreams in it, and the capability  *)
(* mnscloud.nginx.update that adds a limit zone to every ThemeDomain.      *)
(***************************************************************************)
EXTENDS Integers

CONSTANTS
  Domains,     \* ThemeDomains, with vhosts in nginxEdgeConfigDir
  Bases,       \* website bases, with vhosts in nginxEdgeWebsiteDir
  None,        \* no file, no server, no job argument
  Lists,       \* the site and root domain lists the API may send
  NoList,      \* the empty lists
  MaxRev,      \* bound: render revisions (Agent updates)
  MaxCert,     \* bound: certificate generations of one name
  MaxEnv,      \* bound: changes of nginx.env
  MaxFaults,   \* bound: failed writes, tests, reloads and certbot runs
  MaxCrashes   \* bound: restarts of the Agent

Files == Domains \cup Bases
AllLists == [site : SUBSET Domains, root : SUBSET Domains]
\* Contents of nginx.env: webapps off, on, or on with an upstream nginx refuses.
Envs == {"off", "on", "bad"}
Modes == {"app", "site", "website"}
Contents == [ssl : BOOLEAN, web : Envs, rev : Nat, mode : Modes]

ASSUME NoneAssumption ==
  /\ None \notin Contents /\ None \notin Files
  /\ None \notin [file : Contents, gen : Nat]
ASSUME NamesAssumption == Domains \cap Bases = {}
ASSUME ListAssumption == Lists \subseteq AllLists /\ NoList \in AllLists
ASSUME BoundAssumption ==
  /\ MaxRev \in Nat \ {0}
  /\ MaxCert \in Nat /\ MaxEnv \in Nat /\ MaxFaults \in Nat /\ MaxCrashes \in Nat

VARIABLES
  env,       \* external: nginx.env
  conf,      \* what the Agent last read of nginx.env
  list,      \* site-domains.json
  cert,      \* generation of the certificate on disk, 0 for none
  vhost,     \* the server block files
  loaded,    \* external: what nginx runs, each with its certificate
  rev,       \* NGINX_EDGE_RENDER_REVISION of the running Agent
  marker,    \* .render-revision
  pc,        \* the step of the running job, "idle" between jobs
  job,       \* the running job, or the last one
  result,    \* how the last job ended
  todo,      \* files the rendering has still to write
  sites,     \* bases the startup rendering has still to visit
  issued,    \* the certificate step of issue and ensure
  prev,      \* the files saved before the rendering
  prevList,  \* the list saved before the rendering
  envs, faults, crashes,  \* bounded counters
  hurt       \* history: what was left undone, and no rendering since made good:
             \* "files" untested or "modes" of another list, by a job cut short;
             \* "revisions", by a return to the release that the marker names

disk == <<list, cert, vhost, marker>>
saved == <<prev, prevList>>
run == <<pc, job, result, todo, sites, issued>>
vars == <<env, conf, list, cert, vhost, loaded, rev, marker, pc, job, result,
          todo, sites, issued, prev, prevList, envs, faults, crashes, hurt>>

Kinds == {"none", "sync", "activate", "remove", "issue", "ensure", "reconcile",
          "startup"}
Steps == {"idle", "unlink", "write", "reload", "restore", "restoreList",
          "certs", "activate", "issue", "sites"}

\* nginxEdgeRootMode: a tenant site wins over the institutional list.
RootMode(d) == IF d \in list.site THEN "site"
               ELSE IF d \in list.root THEN "website" ELSE "app"

\* renderNginxEdgeDomainConfig serves the App when webapps is off.
ServedMode(web, mode) == IF web = "off" THEN "app" ELSE mode

\* renderNginxEdgeDomainConfig and renderWebsiteEdgeConfig.
Render(f) ==
  [ssl |-> cert[f] > 0, web |-> conf, rev |-> rev,
   mode |-> IF f \in Domains THEN ServedMode(conf, RootMode(f)) ELSE "site"]

\* What nginx runs once it has loaded the files.
Serving(fs) ==
  [f \in Files |-> IF fs[f] = None THEN None
                   ELSE [file |-> fs[f], gen |-> IF fs[f].ssl THEN cert[f] ELSE 0]]

\* nginx -t: each upstream resolves and each certificate file exists.
Valid(fs) ==
  \A f \in Files : fs[f] # None =>
    fs[f].web # "bad" /\ (fs[f].ssl => cert[f] > 0)

Existing(S) == {f \in S : vhost[f] # None}

\* Jobs that render every existing ThemeDomain (rerenderNginxEdgeDomains).
Rerenders == \/ job.kind \in {"sync", "reconcile"}
             \/ job.kind = "startup" /\ job.file = None

\* A sync cut short leaves files of one list beside another.
OfSync == IF job.kind = "sync" THEN {"modes"} ELSE {}

Fault == faults < MaxFaults /\ faults' = faults + 1
-----------------------------------------------------------------------------
Init ==
  /\ env \in Envs \ {"bad"} /\ conf = env
  /\ list = NoList
  /\ cert = [f \in Files |-> 0]
  /\ vhost = [f \in Files |-> None]
  /\ loaded = [f \in Files |-> None]
  /\ rev = 1 /\ marker = 1
  /\ pc = "idle" /\ job = [kind |-> "none", file |-> None] /\ result = "none"
  /\ todo = {} /\ sites = {} /\ issued = "no"
  /\ prev = vhost /\ prevList = list
  /\ envs = 0 /\ faults = 0 /\ crashes = 0
  /\ hurt = {}
-----------------------------------------------------------------------------
(* Starting a job.                                                         *)

Begin(k, f, step, S) ==
  /\ pc = "idle"
  /\ pc' = step
  /\ job' = [kind |-> k, file |-> f]
  /\ result' = "none"
  /\ todo' = S
  /\ prev' = vhost /\ prevList' = list
  /\ issued' = "no"
  /\ UNCHANGED <<env, cert, vhost, loaded, rev, marker, sites, envs, faults,
                 crashes, hurt>>

\* The running job ends.
Finish(r) ==
  /\ pc' = "idle" /\ result' = r
  /\ todo' = {} /\ sites' = {} /\ issued' = "no"
  /\ prev' = vhost' /\ prevList' = list'

\* website.edge.domains: an unchanged list is done at once, a new one is stored
\* before the vhosts are rendered.
StartSync(L) ==
  /\ conf' = env
  /\ IF L = list
     THEN /\ pc = "idle"
          /\ job' = [kind |-> "sync", file |-> None]
          /\ UNCHANGED disk
          /\ Finish("done")
          /\ UNCHANGED <<env, loaded, rev, envs, faults, crashes, hurt>>
     ELSE /\ list' = L
          /\ Begin("sync", None, "write", Existing(Domains))

\* nginx.edge.domain.activate
StartActivate(d) ==
  /\ conf' = env
  /\ Begin("activate", d, "write", {d})
  /\ UNCHANGED list

\* nginx.edge.domain.remove
StartRemove(d) ==
  /\ conf' = env
  /\ Begin("remove", d, "unlink", {})
  /\ UNCHANGED list

\* certbot.certificate.issue activates the domain before it runs certbot; the
\* certbot jobs do not read nginx.env.
StartIssue(d) == Begin("issue", d, "write", {d}) /\ UNCHANGED <<conf, list>>

\* website.edge.ensure
StartEnsure(b) == Begin("ensure", b, "activate", {}) /\ UNCHANGED <<conf, list>>

\* An applied reconcile of mnscloud-nginx re-renders the ThemeDomains.
StartReconcile ==
  /\ conf' = env
  /\ Begin("reconcile", None, "write", Existing(Domains))
  /\ UNCHANGED list
-----------------------------------------------------------------------------
(* One rendering: write, test, reload, restore.                            *)

\* The rendering of the running job succeeded.
Continue ==
  \/ /\ \/ job.kind \in {"sync", "activate", "reconcile"}
        \/ job.kind \in {"issue", "ensure"} /\ issued # "no"
     /\ Finish("done")
     /\ UNCHANGED job
  \/ /\ job.kind \in {"issue", "ensure"} /\ issued = "no"
     /\ pc' = "issue"
     /\ UNCHANGED <<job, result, todo, sites, issued, saved>>
  \/ /\ job.kind = "remove"
     /\ pc' = "certs"
     /\ UNCHANGED <<job, result, todo, sites, issued, saved>>
  \/ /\ job.kind = "startup"
     /\ pc' = "sites"
     /\ sites' = IF job.file = None THEN Existing(Bases) ELSE sites
     /\ UNCHANGED <<job, result, todo, issued, saved>>

\* removeNginxEdgeDomain removes the file before the test.
Unlink ==
  /\ pc = "unlink" /\ UNCHANGED list
  /\ \/ /\ vhost' = [vhost EXCEPT ![job.file] = None]
        /\ pc' = "write"
        /\ UNCHANGED <<result, todo, sites, issued, saved, faults>>
     \/ /\ Fault /\ UNCHANGED vhost
        /\ Finish("failed")
  /\ UNCHANGED <<env, conf, cert, loaded, rev, marker, job, envs, crashes, hurt>>

WriteFile ==
  /\ pc = "write"
  /\ \E f \in todo :
       \/ /\ vhost' = [vhost EXCEPT ![f] = Render(f)]
          /\ todo' = todo \ {f}
          /\ UNCHANGED <<pc, faults>>
       \/ /\ Fault
          /\ pc' = "restore"
          /\ UNCHANGED <<vhost, todo>>
  /\ UNCHANGED <<env, conf, list, cert, loaded, rev, marker, job, result,
                 sites, issued, saved, envs, crashes, hurt>>

\* Mutant of TestFiles: a removal goes on to the certificate without a reload.
TestWithoutReload ==
  /\ pc = "write" /\ todo = {}
  /\ IF Valid(vhost) THEN pc' = IF job.kind = "remove" THEN "certs" ELSE "reload"
     ELSE pc' = "restore"
  /\ UNCHANGED <<env, conf, disk, loaded, rev, job, result, todo, sites,
                 issued, saved, envs, faults, crashes, hurt>>

\* nginx -t, once for all the files written; a missing configuration directory
\* ends a rendering of no domain without a test.
TestFiles ==
  /\ pc = "write" /\ todo = {}
  /\ \/ Valid(vhost) /\ pc' = "reload" /\ UNCHANGED faults
     \/ Rerenders /\ Existing(Domains) = {} /\ pc' = "reload" /\ UNCHANGED faults
     \/ ~Valid(vhost) /\ pc' = "restore" /\ UNCHANGED faults
     \/ Fault /\ pc' = "restore"
  /\ UNCHANGED <<env, conf, disk, loaded, rev, job, result, todo, sites,
                 issued, saved, envs, crashes, hurt>>

\* The reload follows the test outside of the try block; a rendering of no
\* ThemeDomain does not reload.
Reload ==
  /\ pc = "reload" /\ UNCHANGED disk
  /\ \/ /\ Rerenders /\ Existing(Domains) = {}
        /\ Continue
        /\ hurt' = hurt \ {"modes"}
        /\ UNCHANGED loaded
     \/ /\ ~(Rerenders /\ Existing(Domains) = {})
        /\ Valid(vhost)
        /\ loaded' = Serving(vhost)
        /\ hurt' = hurt \ (IF Rerenders THEN {"files", "modes"} ELSE {"files"})
        /\ Continue
  /\ UNCHANGED <<env, conf, rev, envs, faults, crashes>>

\* The reload fails, and with it the job: the files stay, a sync restores its
\* list.
ReloadFails ==
  /\ pc = "reload" /\ ~(Rerenders /\ Existing(Domains) = {})
  /\ Fault
  /\ hurt' = hurt \cup OfSync /\ UNCHANGED disk
  /\ IF job.kind = "sync"
     THEN pc' = "restoreList" /\ UNCHANGED <<result, todo, sites, issued, saved>>
     ELSE Finish("failed")
  /\ UNCHANGED <<env, conf, loaded, rev, job, envs, crashes>>

\* Mutant of Restore: the files are left as they are.
LeaveFiles ==
  /\ pc = "restore"
  /\ UNCHANGED <<vhost, list>>
  /\ IF job.kind = "sync"
     THEN pc' = "restoreList" /\ UNCHANGED <<result, todo, sites, issued, saved>>
     ELSE Finish("failed")
  /\ UNCHANGED <<env, conf, cert, loaded, rev, marker, job, envs, faults,
                 crashes, hurt>>

\* Mutant of Restore: a startup goes on to its marker.
RestoreAndGoOn ==
  /\ pc = "restore"
  /\ vhost' = prev
  /\ UNCHANGED list
  /\ IF job.kind = "startup"
     THEN pc' = "sites" /\ UNCHANGED <<result, todo, sites, issued, saved>>
     ELSE Finish("failed")
  /\ UNCHANGED <<env, conf, cert, loaded, rev, marker, job, envs, faults,
                 crashes, hurt>>

\* The files are put back after a failed write or test, and a file that was not
\* there is removed; a write that fails leaves the rest.
Restore ==
  /\ pc = "restore"
  /\ \/ vhost' = prev /\ UNCHANGED <<faults, hurt>>
     \/ /\ Fault /\ hurt' = hurt \cup {"files"} \cup OfSync
        /\ \E S \in SUBSET Files :
             vhost' = [f \in Files |-> IF f \in S THEN prev[f] ELSE vhost[f]]
  /\ IF job.kind = "sync"
     THEN pc' = "restoreList" /\ UNCHANGED <<result, todo, sites, issued, saved, list>>
     ELSE UNCHANGED list /\ Finish("failed")
  /\ UNCHANGED <<env, conf, cert, loaded, rev, marker, job, envs, crashes>>

\* Mutant of RestoreList: the new list stays.
KeepList ==
  /\ pc = "restoreList"
  /\ UNCHANGED <<env, conf, disk, loaded, rev, job, envs, faults, crashes, hurt>>
  /\ Finish("failed")

\* syncWebsiteSiteDomains puts the previous list back.
RestoreList ==
  /\ pc = "restoreList"
  /\ \/ list' = prevList /\ UNCHANGED <<faults, hurt>>
     \/ Fault /\ hurt' = hurt \cup OfSync /\ UNCHANGED list
  /\ UNCHANGED <<env, conf, cert, vhost, loaded, rev, marker, job, envs, crashes>>
  /\ Finish("failed")
-----------------------------------------------------------------------------
(* Certificates.                                                           *)

\* removeNginxEdgeDomain removes the certificate after the reload: its live
\* directory first, then the archive and the renewal.
RemoveCertificate ==
  /\ pc = "certs" /\ UNCHANGED <<vhost, list>>
  /\ \/ /\ cert' = [cert EXCEPT ![job.file] = 0]
        /\ Finish("done")
        /\ UNCHANGED faults
     \/ /\ Fault
        /\ cert' \in {cert, [cert EXCEPT ![job.file] = 0]}
        /\ Finish("failed")
  /\ UNCHANGED <<env, conf, loaded, rev, marker, job, envs, crashes, hurt>>

\* Mutant of IssueDomain: nginx is reloaded, but the domain is not rendered with
\* its certificate.
IssueWithoutRender ==
  /\ pc = "issue" /\ job.kind = "issue"
  /\ cert[job.file] < MaxCert
  /\ cert' = [cert EXCEPT ![job.file] = @ + 1]
  /\ issued' = "new"
  /\ pc' = "reload"
  /\ UNCHANGED <<env, conf, list, vhost, loaded, rev, marker, job, result, todo,
                 sites, saved, envs, faults, crashes, hurt>>

\* certbot certonly keeps, renews or issues the certificate of a ThemeDomain,
\* which is activated again.
IssueDomain ==
  /\ pc = "issue" /\ job.kind = "issue"
  /\ \E g \in {cert[job.file], cert[job.file] + 1} \ {0} :
       /\ g <= MaxCert
       /\ cert' = [cert EXCEPT ![job.file] = g]
  /\ issued' = "new"
  /\ pc' = "write" /\ todo' = {job.file} /\ prev' = vhost
  /\ UNCHANGED <<env, conf, list, vhost, loaded, rev, marker, job, result,
                 sites, prevList, envs, faults, crashes, hurt>>

\* ensureWebsiteEdge issues the wildcard certificate only when it is due.
IssueWildcard ==
  /\ pc = "issue" /\ job.kind = "ensure"
  /\ \/ /\ cert[job.file] > 0
        /\ issued' = "kept" /\ UNCHANGED cert
     \/ /\ cert[job.file] < MaxCert
        /\ cert' = [cert EXCEPT ![job.file] = @ + 1]
        /\ issued' = "new"
  /\ pc' = "activate"
  /\ UNCHANGED <<env, conf, list, vhost, loaded, rev, marker, job, result, todo,
                 sites, saved, envs, faults, crashes, hurt>>

IssueFails ==
  /\ pc = "issue"
  /\ Fault
  /\ UNCHANGED <<env, conf, disk, loaded, rev, job, envs, crashes, hurt>>
  /\ Finish("failed")

\* certbot.certificates.renew renews some ThemeDomain certificates; its deploy
\* hook tests and reloads, and its failure is not the job's.
RenewCertificates ==
  /\ pc = "idle"
  /\ \E S \in SUBSET {d \in Domains : cert[d] > 0 /\ cert[d] < MaxCert} :
       cert' = [f \in Files |-> IF f \in S THEN cert[f] + 1 ELSE cert[f]]
  /\ job' = [kind |-> "none", file |-> None] /\ UNCHANGED vhost
  /\ \/ Valid(vhost) /\ loaded' = Serving(vhost)'
     \/ UNCHANGED loaded
  /\ UNCHANGED <<env, conf, list, rev, marker, pc, result, todo, sites,
                 issued, saved, envs, faults, crashes, hurt>>

\* activateWebsiteEdge writes, tests and reloads only a changed file; a new
\* certificate behind an unchanged file is reloaded by ensureWebsiteEdge.
ActivateWebsite ==
  /\ pc = "activate" /\ UNCHANGED disk
  /\ IF vhost[job.file] = Render(job.file)
     THEN \/ /\ issued = "no"
             /\ pc' = "issue"
             /\ UNCHANGED <<result, todo, sites, issued, saved>>
          \/ /\ issued = "new"
             /\ pc' = "reload"
             /\ UNCHANGED <<result, todo, sites, issued, saved>>
          \/ /\ issued = "kept"
             /\ Finish("done")
     ELSE /\ pc' = "write" /\ todo' = {job.file} /\ prev' = vhost
          /\ UNCHANGED <<result, sites, issued, prevList>>
  /\ UNCHANGED <<env, conf, loaded, rev, job, envs, faults, crashes, hurt>>
-----------------------------------------------------------------------------
(* The Agent's startup: ensureNginxEdgeRenderRevision.                     *)

\* The Agent stops at any step and starts, perhaps with a newer or an older release
\* installed; it re-renders when the marker names another revision than its own.
Restart(r) ==
  /\ crashes < MaxCrashes /\ crashes' = crashes + 1
  /\ hurt' = hurt \cup (IF pc \in {"write", "restore"} THEN {"files"} ELSE {})
                  \cup (IF pc # "idle" THEN OfSync ELSE {})
                  \cup (IF marker = r /\ rev # r THEN {"revisions"} ELSE {})
  /\ rev' = r
  /\ conf' = env
  /\ IF marker = r
     THEN /\ pc' = "idle" /\ todo' = {}
          /\ job' = [kind |-> "none", file |-> None]
     ELSE /\ pc' = "write" /\ todo' = Existing(Domains)
          /\ job' = [kind |-> "startup", file |-> None]
  /\ result' = "none" /\ sites' = {} /\ issued' = "no"
  /\ prev' = vhost /\ prevList' = list
  /\ UNCHANGED <<env, disk, loaded, envs, faults>>

\* rerenderWebsiteEdges takes the next base: an unchanged file is left alone.
NextSite ==
  /\ pc = "sites"
  /\ \E b \in sites :
       /\ sites' = sites \ {b}
       /\ job' = [kind |-> "startup", file |-> b]
       /\ IF vhost[b] = Render(b)
          THEN UNCHANGED <<pc, todo, prev>>
          ELSE pc' = "write" /\ todo' = {b} /\ prev' = vhost
  /\ UNCHANGED <<env, conf, disk, loaded, rev, result, issued, prevList, envs,
                 faults, crashes, hurt>>

\* The marker is written last.
WriteMarker ==
  /\ pc = "sites" /\ sites = {}
  /\ marker' = rev /\ hurt' = hurt \ {"revisions"}
  /\ UNCHANGED <<env, conf, list, cert, vhost, loaded, rev, job, envs, faults, crashes>>
  /\ Finish("done")
-----------------------------------------------------------------------------
(* Outside of the Agent.                                                   *)

\* nginx.env changes; the Agent sees it when it next reads the file.
EnvChanges(e) ==
  /\ envs < MaxEnv /\ envs' = envs + 1
  /\ pc = "idle" /\ e # env
  /\ env' = e
  /\ UNCHANGED <<conf, disk, loaded, rev, run, saved, faults, crashes, hurt>>

\* A reload without a test, by nginx.edge.reload or by the host at any moment:
\* nginx keeps what it runs when the files are not valid.
ReloadOutside ==
  /\ Valid(vhost)
  /\ loaded' = Serving(vhost)
  /\ UNCHANGED <<env, conf, disk, rev, run, saved, envs, faults, crashes, hurt>>

Start ==
  \/ \E L \in Lists : StartSync(L)
  \/ \E d \in Domains : StartActivate(d) \/ StartRemove(d) \/ StartIssue(d)
  \/ \E b \in Bases : StartEnsure(b)
  \/ StartReconcile
  \/ RenewCertificates

Step ==
  \/ Unlink \/ WriteFile \/ TestFiles \/ Reload \/ ReloadFails \/ Restore
  \/ RestoreList \/ RemoveCertificate \/ IssueDomain \/ IssueWildcard
  \/ IssueFails \/ ActivateWebsite \/ NextSite \/ WriteMarker

Next ==
  \/ Start
  \/ Step
  \/ \E r \in 1..MaxRev : Restart(r)
  \/ \E e \in Envs : EnvChanges(e)
  \/ ReloadOutside

Spec == Init /\ [][Next]_vars
-----------------------------------------------------------------------------
(* Properties.                                                             *)

\* Every variable keeps its type (main.ts, the nginx edge).
TypeOK ==
  /\ env \in Envs /\ conf \in Envs
  /\ list \in AllLists /\ prevList \in AllLists
  /\ cert \in [Files -> Nat]
  /\ vhost \in [Files -> Contents \cup {None}]
  /\ prev \in [Files -> Contents \cup {None}]
  /\ loaded \in [Files -> [file : Contents, gen : Nat] \cup {None}]
  /\ rev \in Nat /\ marker \in Nat
  /\ pc \in Steps
  /\ job \in [kind : Kinds, file : Files \cup {None}]
  /\ result \in {"none", "done", "failed"}
  /\ todo \subseteq Files /\ sites \subseteq Bases
  /\ issued \in {"no", "kept", "new"}
  /\ envs \in Nat /\ faults \in Nat /\ crashes \in Nat
  /\ hurt \subseteq {"files", "modes", "revisions"}

\* A certificate is removed only when nginx no longer serves with it, whatever
\* fails between the removal of the vhost and the reload
\* (removeNginxEdgeDomain).
ServedCertificatesExist ==
  \A f \in Files : loaded[f] # None /\ loaded[f].file.ssl => cert[f] > 0

\* Between jobs each ThemeDomain is rendered in the mode of the stored list,
\* whatever failed or stopped in any job; only a sync cut short (its reload lost,
\* its restoration failed, the Agent stopped in it) leaves other modes, and no
\* longer than until the next rendering of every domain (syncWebsiteSiteDomains,
\* rerenderNginxEdgeDomains, activateNginxEdgeDomain).
ModesFollowList ==
  pc = "idle" /\ "modes" \notin hurt =>
    \A d \in Existing(Domains) :
      vhost[d].mode = ServedMode(vhost[d].web, RootMode(d))

\* Between jobs the files pass nginx -t, so that nginx can start again, whatever
\* failed; only a stop among writes or a failed restoration may leave others, and
\* no longer than until the next rendering nginx loaded (rerenderNginxEdgeDomains
\* "One config test for all files; any failure restores them all").
FilesLoadable ==
  pc = "idle" /\ "files" \notin hurt => Valid(vhost)

\* A completed activation, issue, removal or reconcile is what nginx runs,
\* whatever failed in the jobs before it.
CompletedIsServed ==
  pc = "idle" /\ result = "done" =>
    LET served(f) == vhost[f] = Render(f) /\ loaded[f] = Serving(vhost)[f] IN
    /\ job.kind \in {"activate", "issue"} => served(job.file)
    /\ job.kind = "issue" => vhost[job.file].ssl
    /\ job.kind = "reconcile" => \A d \in Existing(Domains) : served(d)
    /\ job.kind = "remove" => /\ vhost[job.file] = None /\ loaded[job.file] = None
                              /\ cert[job.file] = 0

\* The marker names the running revision only when every vhost on disk was
\* rendered by it, through updates, returns to older releases, crashes and failures
\* at any step, with one exception that the code has: the Agent came back to the
\* release the marker names from another one, which did not get as far as its own
\* marker and may have written files; until the next marker these may stay
\* (ensureNginxEdgeRenderRevision, main.ts:3703).
MarkerMeansRendered ==
  marker = rev /\ "revisions" \notin hurt => \A f \in Existing(Files) : vhost[f].rev = rev

\* agent.md, website.edge.ensure: "keeps the wildcard certificate and writes
\* <base>.conf: port 80 ACME and redirect, 443 server_name *.<base>".  So an
\* ensure that ends in success, reported as issued, is served on 443.
CompletedEnsureServed ==
  pc = "idle" /\ job.kind = "ensure" /\ result = "done" =>
    loaded[job.file] # None /\ loaded[job.file].file.ssl
=============================================================================
