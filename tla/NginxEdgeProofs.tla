--------------------------- MODULE NginxEdgeProofs ---------------------------
(***************************************************************************)
(* Certificates, files and the render marker, for any domains, bases,      *)
(* revisions, failures and restarts (main.ts, the nginx edge jobs and       *)
(* ensureNginxEdgeRenderRevision).                                         *)
(***************************************************************************)
EXTENDS NginxEdge, TLAPS

\* The vocabulary of every step.
USE NamesAssumption, ListAssumption, BoundAssumption
    DEF disk, saved, run

-----------------------------------------------------------------------------
(* The inductive invariant.                                                *)

\* A job names the file its kind is about, and its steps are of its kind.
JobOnCourse ==
  /\ job.kind \in {"activate", "remove", "issue"} => job.file \in Domains
  /\ job.kind = "ensure" => job.file \in Bases
  /\ pc = "unlink" => job.kind = "remove"
  /\ pc = "activate" => job.kind = "ensure"
  /\ pc = "sites" => job.kind = "startup"
  /\ pc \in {"unlink", "issue", "activate", "reload", "sites"} => todo = {}

\* A removal goes on only when the file is gone, and reaches the certificate
\* only when nginx does not serve the domain.
RemovalUnserved ==
  /\ job.kind = "remove" /\ pc \in {"write", "reload", "certs"} =>
       vhost[job.file] = None /\ todo = {}
  /\ pc = "certs" => job.kind = "remove" /\ loaded[job.file] = None

\* Every file of fs was rendered by revision r.
RenderedBy(fs, r) == \A f \in Files : fs[f] # None => fs[f].rev = r

\* A marker that names the running revision speaks for the files and for what a
\* failed job would put back, unless the Agent came back to it from another release.
MarkerCoversFiles ==
  marker = rev /\ "revisions" \notin hurt => RenderedBy(vhost, rev) /\ RenderedBy(prev, rev)

\* What the startup has still to render: the rest is of this revision.
Pending(f) == f \in todo \cup sites

\* Before the bases are listed only the domains are rendered.
StartupRenders ==
  job.kind = "startup" /\ pc \in {"write", "reload", "sites"} =>
    /\ \A d \in Domains : vhost[d] # None /\ ~Pending(d) => vhost[d].rev = rev
    /\ job.file # None \/ pc = "sites" =>
         \A b \in Bases : vhost[b] # None /\ ~Pending(b) => vhost[b].rev = rev

IInv == /\ TypeOK /\ JobOnCourse /\ RemovalUnserved /\ MarkerCoversFiles
        /\ StartupRenders /\ ServedCertificatesExist

-----------------------------------------------------------------------------
(* Lemmas about renderings.                                                *)

\* A rendering is a content of the running revision.
LEMMA RenderType ==
  ASSUME TypeOK, NEW f \in Files
  PROVE  Render(f) \in Contents /\ Render(f).rev = rev
BY DEF TypeOK, Render, ServedMode, RootMode, Contents, Modes

-----------------------------------------------------------------------------
(* One lemma per action.                                                   *)

\* A job begins with the files as they are, at a step of its kind.
LEMMA BeginInv ==
  ASSUME IInv,
         NEW k \in Kinds \ {"none", "startup"}, NEW f \in Files \cup {None},
         NEW step \in {"unlink", "write", "activate"}, NEW S \in SUBSET Files,
         Begin(k, f, step, S),
         conf' \in Envs, list' \in AllLists,
         k \in {"activate", "remove", "issue"} => f \in Domains,
         k = "ensure" => f \in Bases,
         step = "unlink" <=> k = "remove",
         step = "activate" => k = "ensure",
         step # "write" => S = {}
  PROVE  IInv'
<1>1. TypeOK'
  BY DEF IInv, TypeOK, Steps, Begin
<1>2. JobOnCourse'
  BY DEF JobOnCourse, Begin
<1>3. RemovalUnserved'
  BY DEF RemovalUnserved, Begin
<1>4. MarkerCoversFiles'
  BY DEF IInv, MarkerCoversFiles, Begin
<1>5. StartupRenders'
  BY DEF StartupRenders, Begin
<1>6. ServedCertificatesExist'
  BY DEF IInv, ServedCertificatesExist, Begin
<1> QED
  BY <1>1, <1>2, <1>3, <1>4, <1>5, <1>6 DEF IInv

\* A job of one domain or base begins.
LEMMA StartOneInv ==
  ASSUME IInv,
         \/ \E d \in Domains : StartActivate(d) \/ StartRemove(d) \/ StartIssue(d)
         \/ \E b \in Bases : StartEnsure(b)
  PROVE  IInv'
<1>1. /\ conf \in Envs /\ env \in Envs /\ list \in AllLists
      /\ \A d \in Domains : d \in Files /\ {d} \in SUBSET Files
      /\ \A b \in Bases : b \in Files
  BY DEF IInv, TypeOK, Files
<1>2. ASSUME NEW d \in Domains, StartActivate(d) PROVE IInv'
  <2>1. Begin("activate", d, "write", {d}) /\ conf' = env /\ list' = list
    BY <1>2 DEF StartActivate
  <2> QED
    BY <1>1, <2>1, BeginInv DEF Kinds
<1>3. ASSUME NEW d \in Domains, StartRemove(d) PROVE IInv'
  <2>1. Begin("remove", d, "unlink", {}) /\ conf' = env /\ list' = list
    BY <1>3 DEF StartRemove
  <2> QED
    BY <1>1, <2>1, BeginInv DEF Kinds
<1>4. ASSUME NEW d \in Domains, StartIssue(d) PROVE IInv'
  <2>1. Begin("issue", d, "write", {d}) /\ conf' = conf /\ list' = list
    BY <1>4 DEF StartIssue
  <2> QED
    BY <1>1, <2>1, BeginInv DEF Kinds
<1>5. ASSUME NEW b \in Bases, StartEnsure(b) PROVE IInv'
  <2>1. Begin("ensure", b, "activate", {}) /\ conf' = conf /\ list' = list
    BY <1>5 DEF StartEnsure
  <2> QED
    BY <1>1, <2>1, BeginInv DEF Kinds
<1> QED
  BY <1>2, <1>3, <1>4, <1>5

\* A job that renders every domain begins, or a sync of the same list is over.
LEMMA StartAllInv ==
  ASSUME IInv, StartReconcile \/ \E L \in Lists : StartSync(L)
  PROVE  IInv'
<1>1. /\ env \in Envs /\ list \in AllLists /\ Lists \subseteq AllLists
      /\ Existing(Domains) \in SUBSET Files
  BY DEF IInv, TypeOK, Files, Existing
<1>2. CASE StartReconcile
  <2>1. /\ Begin("reconcile", None, "write", Existing(Domains))
        /\ conf' = env /\ list' = list
    BY <1>2 DEF StartReconcile
  <2> QED
    BY <1>1, <2>1, BeginInv DEF Kinds
<1>3. ASSUME NEW L \in Lists, StartSync(L), L # list PROVE IInv'
  <2>1. /\ Begin("sync", None, "write", Existing(Domains))
        /\ conf' = env /\ list' = L
    BY <1>3 DEF StartSync
  <2> QED
    BY <1>1, <2>1, BeginInv DEF Kinds
<1>4. ASSUME StartSync(list) PROVE IInv'
  <2>1. /\ UNCHANGED <<env, list, cert, vhost, marker, loaded, rev, envs, faults,
                      crashes, hurt>>
        /\ conf' = env /\ job' = [kind |-> "sync", file |-> None]
    BY <1>4 DEF StartSync
  <2>2. /\ pc' = "idle" /\ result' = "done" /\ todo' = {} /\ sites' = {}
        /\ issued' = "no" /\ prev' = vhost' /\ prevList' = list'
    BY <1>4 DEF StartSync, Finish
  <2>3. TypeOK'
    BY <2>1, <2>2 DEF IInv, TypeOK, Kinds, Steps
  <2>4. JobOnCourse' /\ RemovalUnserved' /\ StartupRenders'
    BY <2>1, <2>2 DEF JobOnCourse, RemovalUnserved, StartupRenders
  <2>5. MarkerCoversFiles' /\ ServedCertificatesExist'
    BY <2>1, <2>2 DEF IInv, MarkerCoversFiles, ServedCertificatesExist
  <2> QED
    BY <2>3, <2>4, <2>5 DEF IInv
<1> QED
  BY <1>2, <1>3, <1>4

\* A renewal only adds generations.
LEMMA RenewInv ==
  ASSUME IInv, RenewCertificates
  PROVE  IInv'
<1>1. cert' \in [Files -> Nat] /\ \A f \in Files : cert[f] > 0 => cert'[f] > 0
  BY DEF IInv, TypeOK, RenewCertificates
<1>2. TypeOK' /\ ServedCertificatesExist'
  <2>1. CASE loaded' = Serving(vhost)' /\ Valid(vhost)
    <3>1. vhost' = vhost /\ vhost' \in [Files -> Contents \cup {None}]
      BY DEF IInv, TypeOK, RenewCertificates
    <3>2. /\ loaded' \in [Files -> [file : Contents, gen : Nat] \cup {None}]
          /\ \A f \in Files : loaded'[f] # None /\ loaded'[f].file.ssl => cert'[f] > 0
      BY <1>1, <2>1, <3>1 DEF Serving, Valid
    <3> QED
      BY <3>2
      DEF IInv, TypeOK, Kinds, RenewCertificates, ServedCertificatesExist
  <2>2. CASE loaded' = loaded
    BY <2>2 DEF IInv, TypeOK, Kinds, RenewCertificates, ServedCertificatesExist
  <2> QED
    BY <2>1, <2>2 DEF RenewCertificates
<1>3. JobOnCourse' /\ RemovalUnserved'
  BY DEF JobOnCourse, RemovalUnserved, RenewCertificates
<1>4. MarkerCoversFiles' /\ StartupRenders'
  BY DEF IInv, MarkerCoversFiles, StartupRenders, RenewCertificates
<1> QED
  BY <1>2, <1>3, <1>4 DEF IInv

\* A removed file is of no revision.
LEMMA UnlinkInv ==
  ASSUME IInv, Unlink
  PROVE  IInv'
<1>1. TypeOK'
  BY DEF IInv, TypeOK, Steps, Unlink, Finish, Fault
<1>2. JobOnCourse'
  BY DEF IInv, JobOnCourse, Unlink, Finish
<1>3. RemovalUnserved'
  BY DEF IInv, TypeOK, JobOnCourse, RemovalUnserved, Files, Unlink, Finish
<1>4. MarkerCoversFiles'
  BY DEF IInv, TypeOK, MarkerCoversFiles, RenderedBy, Unlink, Finish
<1>5. StartupRenders'
  BY DEF IInv, JobOnCourse, StartupRenders, Unlink
<1>6. ServedCertificatesExist'
  BY DEF IInv, ServedCertificatesExist, Unlink
<1> QED
  BY <1>1, <1>2, <1>3, <1>4, <1>5, <1>6 DEF IInv

\* A written file is of the running revision.
LEMMA WriteFileInv ==
  ASSUME IInv, WriteFile
  PROVE  IInv'
<1>1. TypeOK'
  BY RenderType DEF IInv, TypeOK, Steps, WriteFile, Fault
<1>2. JobOnCourse'
  BY DEF IInv, JobOnCourse, WriteFile
<1>3. RemovalUnserved'
  BY DEF IInv, RemovalUnserved, WriteFile
<1>4. MarkerCoversFiles'
  BY RenderType DEF IInv, TypeOK, MarkerCoversFiles, RenderedBy, WriteFile
<1>5. StartupRenders'
  BY RenderType DEF IInv, TypeOK, StartupRenders, Pending, Files, WriteFile
<1>6. ServedCertificatesExist'
  BY DEF IInv, ServedCertificatesExist, WriteFile
<1> QED
  BY <1>1, <1>2, <1>3, <1>4, <1>5, <1>6 DEF IInv

\* The test leaves the files alone.
LEMMA TestFilesInv ==
  ASSUME IInv, TestFiles
  PROVE  IInv'
<1>1. TypeOK'
  BY DEF IInv, TypeOK, Steps, TestFiles, Fault
<1>2. JobOnCourse'
  BY DEF IInv, JobOnCourse, TestFiles
<1>3. RemovalUnserved'
  BY DEF IInv, RemovalUnserved, TestFiles
<1>4. MarkerCoversFiles'
  BY DEF IInv, MarkerCoversFiles, TestFiles
<1>5. StartupRenders'
  BY DEF IInv, StartupRenders, Pending, TestFiles
<1>6. ServedCertificatesExist'
  BY DEF IInv, ServedCertificatesExist, TestFiles
<1> QED
  BY <1>1, <1>2, <1>3, <1>4, <1>5, <1>6 DEF IInv

\* nginx loads valid files only.
LEMMA ReloadInv ==
  ASSUME IInv, Reload
  PROVE  IInv'
<1>1. TypeOK'
  <2>1. hurt' \subseteq hurt
    BY DEF Reload
  <2>2. loaded' = loaded \/ loaded' = Serving(vhost)
    BY DEF Reload
  <2>3. loaded' \in [Files -> [file : Contents, gen : Nat] \cup {None}]
    BY <2>2 DEF IInv, TypeOK, Serving
  <2> QED
    BY <2>1, <2>3 DEF IInv, TypeOK, Steps, Reload, Existing, Continue, Finish
<1>2. JobOnCourse'
  BY DEF IInv, JobOnCourse, Reload, Continue, Finish
<1>3. RemovalUnserved'
  BY DEF IInv, JobOnCourse, RemovalUnserved, Files, Reload, Serving, Rerenders,
         Continue, Finish
<1>4. MarkerCoversFiles'
  BY DEF IInv, MarkerCoversFiles, Reload, Continue, Finish
<1>5. StartupRenders'
  BY DEF IInv, TypeOK, StartupRenders, Pending, Existing, Reload, Continue
<1>6. ServedCertificatesExist'
  BY DEF IInv, ServedCertificatesExist, Reload, Valid, Serving
<1> QED
  BY <1>1, <1>2, <1>3, <1>4, <1>5, <1>6 DEF IInv

\* A failed reload changes nothing nginx runs.
LEMMA ReloadFailsInv ==
  ASSUME IInv, ReloadFails
  PROVE  IInv'
<1>1. TypeOK'
  BY DEF IInv, TypeOK, Steps, ReloadFails, OfSync, Fault, Finish
<1>2. JobOnCourse'
  BY DEF IInv, JobOnCourse, ReloadFails, Finish
<1>3. RemovalUnserved'
  BY DEF RemovalUnserved, ReloadFails, Finish
<1>4. MarkerCoversFiles'
  BY DEF IInv, MarkerCoversFiles, ReloadFails, Finish
<1>5. StartupRenders'
  BY DEF StartupRenders, ReloadFails, Finish
<1>6. ServedCertificatesExist'
  BY DEF IInv, ServedCertificatesExist, ReloadFails
<1> QED
  BY <1>1, <1>2, <1>3, <1>4, <1>5, <1>6 DEF IInv

\* What is put back is of the marker's revision.
LEMMA RestoreInv ==
  ASSUME IInv, Restore
  PROVE  IInv'
<1>1. TypeOK'
  <2>1. /\ vhost' \in [Files -> Contents \cup {None}] /\ faults' \in Nat
        /\ hurt' \subseteq {"files", "modes", "revisions"}
    <3>1. CASE vhost' = prev /\ UNCHANGED <<faults, hurt>>
      BY <3>1 DEF IInv, TypeOK
    <3>2. ASSUME NEW S \in SUBSET Files, Fault, hurt' = hurt \cup {"files"} \cup OfSync,
                 vhost' = [f \in Files |-> IF f \in S THEN prev[f] ELSE vhost[f]]
          PROVE  /\ vhost' \in [Files -> Contents \cup {None}] /\ faults' \in Nat
                 /\ hurt' \subseteq {"files", "modes", "revisions"}
      BY <3>2 DEF IInv, TypeOK, OfSync, Fault
    <3> QED
      BY <3>1, <3>2 DEF Restore
  <2> QED
    BY <2>1 DEF IInv, TypeOK, Steps, Restore, Finish
<1>2. JobOnCourse'
  BY DEF IInv, JobOnCourse, Restore, Finish
<1>3. RemovalUnserved'
  BY DEF RemovalUnserved, Restore, Finish
<1>4. MarkerCoversFiles'
  BY DEF IInv, MarkerCoversFiles, RenderedBy, Restore, Finish
<1>5. StartupRenders'
  BY DEF StartupRenders, Restore, Finish
<1>6. ServedCertificatesExist'
  BY DEF IInv, ServedCertificatesExist, Restore
<1> QED
  BY <1>1, <1>2, <1>3, <1>4, <1>5, <1>6 DEF IInv

\* The list is put back.
LEMMA RestoreListInv ==
  ASSUME IInv, RestoreList
  PROVE  IInv'
<1>1. TypeOK'
  <2>1. list' \in AllLists /\ faults' \in Nat
        /\ hurt' \subseteq {"files", "modes", "revisions"}
    <3>1. CASE list' = prevList /\ UNCHANGED <<faults, hurt>>
      BY <3>1 DEF IInv, TypeOK
    <3>2. CASE Fault /\ hurt' = hurt \cup OfSync /\ UNCHANGED list
      BY <3>2 DEF IInv, TypeOK, OfSync, Fault
    <3> QED
      BY <3>1, <3>2 DEF RestoreList
  <2> QED
    BY <2>1 DEF IInv, TypeOK, Steps, RestoreList, Finish
<1>2. JobOnCourse'
  BY DEF IInv, JobOnCourse, RestoreList, Finish
<1>3. RemovalUnserved'
  BY DEF RemovalUnserved, RestoreList, Finish
<1>4. MarkerCoversFiles'
  BY DEF IInv, MarkerCoversFiles, RestoreList, Finish
<1>5. StartupRenders'
  BY DEF StartupRenders, RestoreList, Finish
<1>6. ServedCertificatesExist'
  BY DEF IInv, ServedCertificatesExist, RestoreList
<1> QED
  BY <1>1, <1>2, <1>3, <1>4, <1>5, <1>6 DEF IInv

\* Only a certificate nginx does not serve with is removed.
LEMMA RemoveCertificateInv ==
  ASSUME IInv, RemoveCertificate
  PROVE  IInv'
<1>1. TypeOK'
  BY DEF IInv, TypeOK, Steps, RemoveCertificate, Fault, Finish
<1>2. JobOnCourse'
  BY DEF IInv, JobOnCourse, RemoveCertificate, Finish
<1>3. RemovalUnserved'
  BY DEF RemovalUnserved, RemoveCertificate, Finish
<1>4. MarkerCoversFiles'
  BY DEF IInv, MarkerCoversFiles, RemoveCertificate, Finish
<1>5. StartupRenders'
  BY DEF StartupRenders, RemoveCertificate, Finish
<1>6. ServedCertificatesExist'
  BY DEF IInv, TypeOK, RemovalUnserved, ServedCertificatesExist,
         RemoveCertificate
<1> QED
  BY <1>1, <1>2, <1>3, <1>4, <1>5, <1>6 DEF IInv

\* A certificate is added.
LEMMA IssueDomainInv ==
  ASSUME IInv, IssueDomain
  PROVE  IInv'
<1>1. TypeOK'
  <2>1. job.file \in Files
    BY DEF IInv, JobOnCourse, IssueDomain, Files
  <2> QED
    BY <2>1 DEF IInv, TypeOK, Steps, IssueDomain
<1>2. JobOnCourse'
  BY DEF IInv, JobOnCourse, IssueDomain
<1>3. RemovalUnserved'
  BY DEF RemovalUnserved, IssueDomain
<1>4. MarkerCoversFiles'
  BY DEF IInv, MarkerCoversFiles, IssueDomain
<1>5. StartupRenders'
  BY DEF StartupRenders, IssueDomain
<1>6. ServedCertificatesExist'
  BY DEF IInv, TypeOK, ServedCertificatesExist, IssueDomain
<1> QED
  BY <1>1, <1>2, <1>3, <1>4, <1>5, <1>6 DEF IInv

\* A certificate is kept or added.
LEMMA IssueWildcardInv ==
  ASSUME IInv, IssueWildcard
  PROVE  IInv'
<1>1. TypeOK'
  BY DEF IInv, TypeOK, Steps, IssueWildcard
<1>2. JobOnCourse'
  BY DEF IInv, JobOnCourse, IssueWildcard
<1>3. RemovalUnserved'
  BY DEF RemovalUnserved, IssueWildcard
<1>4. MarkerCoversFiles'
  BY DEF IInv, MarkerCoversFiles, IssueWildcard
<1>5. StartupRenders'
  BY DEF StartupRenders, IssueWildcard
<1>6. ServedCertificatesExist'
  BY DEF IInv, TypeOK, ServedCertificatesExist, IssueWildcard
<1> QED
  BY <1>1, <1>2, <1>3, <1>4, <1>5, <1>6 DEF IInv

\* A failed certbot run changes nothing.
LEMMA IssueFailsInv ==
  ASSUME IInv, IssueFails
  PROVE  IInv'
<1>1. TypeOK'
  BY DEF IInv, TypeOK, Steps, IssueFails, Fault, Finish
<1>2. JobOnCourse'
  BY DEF IInv, JobOnCourse, IssueFails, Finish
<1>3. RemovalUnserved'
  BY DEF RemovalUnserved, IssueFails, Finish
<1>4. MarkerCoversFiles'
  BY DEF IInv, MarkerCoversFiles, IssueFails, Finish
<1>5. StartupRenders'
  BY DEF StartupRenders, IssueFails, Finish
<1>6. ServedCertificatesExist'
  BY DEF IInv, ServedCertificatesExist, IssueFails
<1> QED
  BY <1>1, <1>2, <1>3, <1>4, <1>5, <1>6 DEF IInv

\* An activation leaves an unchanged file alone.
LEMMA ActivateWebsiteInv ==
  ASSUME IInv, ActivateWebsite
  PROVE  IInv'
<1>1. TypeOK'
  <2>1. job.file \in Files
    BY DEF IInv, JobOnCourse, ActivateWebsite, Files
  <2>2. CASE vhost[job.file] = Render(job.file)
    BY <2>2 DEF IInv, TypeOK, Steps, ActivateWebsite, Finish
  <2>3. CASE vhost[job.file] # Render(job.file)
    BY <2>1, <2>3 DEF IInv, TypeOK, Steps, ActivateWebsite
  <2> QED
    BY <2>2, <2>3
<1>2. JobOnCourse'
  BY DEF IInv, JobOnCourse, ActivateWebsite, Finish
<1>3. RemovalUnserved'
  BY DEF IInv, JobOnCourse, RemovalUnserved, ActivateWebsite, Finish
<1>4. MarkerCoversFiles'
  BY DEF IInv, MarkerCoversFiles, ActivateWebsite, Finish
<1>5. StartupRenders'
  <2>1. job'.kind = "ensure" /\ pc' # "sites"
    BY DEF IInv, JobOnCourse, ActivateWebsite, Finish
  <2> QED
    BY <2>1 DEF StartupRenders
<1>6. ServedCertificatesExist'
  BY DEF IInv, ServedCertificatesExist, ActivateWebsite
<1> QED
  BY <1>1, <1>2, <1>3, <1>4, <1>5, <1>6 DEF IInv

\* A base that is left alone is of the running revision.
LEMMA NextSiteInv ==
  ASSUME IInv, NextSite
  PROVE  IInv'
<1>1. TypeOK'
  BY DEF IInv, TypeOK, Files, Kinds, Steps, NextSite
<1>2. JobOnCourse'
  BY DEF IInv, JobOnCourse, NextSite
<1>3. RemovalUnserved'
  BY DEF RemovalUnserved, NextSite
<1>4. MarkerCoversFiles'
  BY DEF IInv, MarkerCoversFiles, NextSite
<1>5. StartupRenders'
  BY RenderType DEF IInv, JobOnCourse, StartupRenders, Pending, Files, NextSite
<1>6. ServedCertificatesExist'
  BY DEF IInv, ServedCertificatesExist, NextSite
<1> QED
  BY <1>1, <1>2, <1>3, <1>4, <1>5, <1>6 DEF IInv

\* Nothing is left to render when the marker is written.
LEMMA WriteMarkerInv ==
  ASSUME IInv, WriteMarker
  PROVE  IInv'
<1>1. TypeOK'
  BY DEF IInv, TypeOK, Steps, WriteMarker, Finish
<1>2. JobOnCourse'
  BY DEF IInv, JobOnCourse, WriteMarker, Finish
<1>3. RemovalUnserved'
  BY DEF RemovalUnserved, WriteMarker, Finish
<1>4. MarkerCoversFiles'
  BY DEF IInv, TypeOK, JobOnCourse, MarkerCoversFiles, RenderedBy,
         StartupRenders, Pending, Files, WriteMarker, Finish
<1>5. StartupRenders'
  BY DEF StartupRenders, WriteMarker, Finish
<1>6. ServedCertificatesExist'
  BY DEF IInv, ServedCertificatesExist, WriteMarker
<1> QED
  BY <1>1, <1>2, <1>3, <1>4, <1>5, <1>6 DEF IInv

\* A restart trusts a marker of its own revision only, which is remembered when
\* another one ran.
LEMMA RestartInv ==
  ASSUME IInv, NEW r \in 1..MaxRev, Restart(r)
  PROVE  IInv'
<1>1. TypeOK'
  <2>1. Existing(Domains) \subseteq Files
    BY DEF Existing, Files
  <2>2. rev' \in Nat /\ hurt' \subseteq {"files", "modes", "revisions"}
    BY BoundAssumption DEF IInv, TypeOK, OfSync, Restart
  <2> QED
    BY <2>1, <2>2 DEF IInv, TypeOK, Kinds, Steps, Restart
<1>2. JobOnCourse'
  BY DEF JobOnCourse, Restart
<1>3. RemovalUnserved'
  BY DEF RemovalUnserved, Restart
<1>4. MarkerCoversFiles'
  BY DEF IInv, TypeOK, MarkerCoversFiles, Restart
<1>5. StartupRenders'
  BY DEF StartupRenders, Pending, Existing, Restart
<1>6. ServedCertificatesExist'
  BY DEF IInv, ServedCertificatesExist, Restart
<1> QED
  BY <1>1, <1>2, <1>3, <1>4, <1>5, <1>6 DEF IInv

\* nginx.env is not rendered yet.
LEMMA EnvChangesInv ==
  ASSUME IInv, NEW e \in Envs, EnvChanges(e)
  PROVE  IInv'
<1>1. TypeOK'
  BY DEF IInv, TypeOK, EnvChanges
<1>2. JobOnCourse'
  BY DEF IInv, JobOnCourse, EnvChanges
<1>3. RemovalUnserved'
  BY DEF RemovalUnserved, EnvChanges
<1>4. MarkerCoversFiles'
  BY DEF IInv, MarkerCoversFiles, EnvChanges
<1>5. StartupRenders'
  BY DEF StartupRenders, EnvChanges
<1>6. ServedCertificatesExist'
  BY DEF IInv, ServedCertificatesExist, EnvChanges
<1> QED
  BY <1>1, <1>2, <1>3, <1>4, <1>5, <1>6 DEF IInv

\* nginx loads valid files only.
LEMMA ReloadOutsideInv ==
  ASSUME IInv, ReloadOutside
  PROVE  IInv'
<1>1. TypeOK'
  BY DEF IInv, TypeOK, ReloadOutside, Serving
<1>2. JobOnCourse'
  BY DEF IInv, JobOnCourse, ReloadOutside
<1>3. RemovalUnserved'
  BY DEF IInv, JobOnCourse, RemovalUnserved, Files, ReloadOutside, Serving
<1>4. MarkerCoversFiles'
  BY DEF IInv, MarkerCoversFiles, ReloadOutside
<1>5. StartupRenders'
  BY DEF IInv, StartupRenders, Pending, ReloadOutside
<1>6. ServedCertificatesExist'
  BY DEF ServedCertificatesExist, ReloadOutside, Valid, Serving
<1> QED
  BY <1>1, <1>2, <1>3, <1>4, <1>5, <1>6 DEF IInv

\* Initially there are no files, no certificates, and nginx serves nothing.
LEMMA InitInv == Init => IInv
<1> SUFFICES ASSUME Init PROVE IInv
  OBVIOUS
<1>1. TypeOK
  BY DEF Init, TypeOK, Kinds, Steps
<1>2. JobOnCourse /\ RemovalUnserved /\ MarkerCoversFiles /\ StartupRenders
      /\ ServedCertificatesExist
  BY DEF Init, JobOnCourse, RemovalUnserved, MarkerCoversFiles, RenderedBy,
         StartupRenders, ServedCertificatesExist
<1> QED
  BY <1>1, <1>2 DEF IInv

-----------------------------------------------------------------------------
(* The theorems.                                                           *)

\* The invariant holds through every job, failure, restart and reload.
THEOREM InductiveInvariant == Spec => []IInv
<1>1. IInv /\ [Next]_vars => IInv'
  <2> SUFFICES ASSUME IInv, [Next]_vars PROVE IInv'
    OBVIOUS
  <2>1. CASE Start
    BY <2>1, StartOneInv, StartAllInv, RenewInv DEF Start
  <2>2. CASE Step
    BY <2>2, UnlinkInv, WriteFileInv, TestFilesInv, ReloadInv, ReloadFailsInv,
       RestoreInv, RestoreListInv, RemoveCertificateInv, IssueDomainInv,
       IssueWildcardInv, IssueFailsInv, ActivateWebsiteInv, NextSiteInv,
       WriteMarkerInv
    DEF Step
  <2>3. ASSUME NEW r \in 1..MaxRev, Restart(r) PROVE IInv'
    BY <2>3, RestartInv
  <2>4. ASSUME NEW e \in Envs, EnvChanges(e) PROVE IInv'
    BY <2>4, EnvChangesInv
  <2>5. CASE ReloadOutside
    BY <2>5, ReloadOutsideInv
  <2>6. CASE UNCHANGED vars
    BY <2>6
    DEF vars, IInv, TypeOK, JobOnCourse, RemovalUnserved, MarkerCoversFiles,
        StartupRenders, Pending, ServedCertificatesExist
  <2> QED
    BY <2>1, <2>2, <2>3, <2>4, <2>5, <2>6 DEF Next
<1> QED
  BY InitInv, <1>1, PTL DEF Spec

\* Every variable keeps its type.
THEOREM TypeCorrect == Spec => []TypeOK
<1>1. IInv => TypeOK
  BY DEF IInv
<1> QED
  BY InductiveInvariant, <1>1, PTL

\* removeNginxEdgeDomain removes no certificate nginx serves with, whatever
\* fails or stops between the removal of the file and the reload.
THEOREM CertificatesServed == Spec => []ServedCertificatesExist
<1>1. IInv => ServedCertificatesExist
  BY DEF IInv
<1> QED
  BY InductiveInvariant, <1>1, PTL

\* ensureNginxEdgeRenderRevision: a marker of the running revision means that
\* every file on disk was rendered by it, through any updates, returns to older
\* releases, restarts and failures, unless the Agent came back to the release the
\* marker names from another one and has not written a marker since.
THEOREM MarkerTells == Spec => []MarkerMeansRendered
<1>1. IInv => MarkerMeansRendered
  BY DEF IInv, MarkerCoversFiles, RenderedBy, MarkerMeansRendered, Existing
<1> QED
  BY InductiveInvariant, <1>1, PTL

-----------------------------------------------------------------------------
(* What the files say between the steps of a job.                          *)

\* While a job writes, what it would put back loads; otherwise the files do.  A
\* removal first has the files as they were, a rendering of the domains writes existing
\* ones only.
FilesLoad ==
  /\ pc = "unlink" => prev = vhost
  /\ pc = "write" /\ Rerenders =>
       /\ todo \subseteq Existing(Domains)
       /\ Existing(Domains) = {} => vhost = prev
  /\ "files" \notin hurt =>
       Valid(IF pc \in {"write", "restore"} THEN prev ELSE vhost)

\* The mode of d in a list, and a file of fs that follows it.
ModeIn(l, d) == IF d \in l.site THEN "site" ELSE IF d \in l.root THEN "website" ELSE "app"
FollowsAt(fs, l, d) == fs[d] # None => fs[d].mode = ServedMode(fs[d].web, ModeIn(l, d))
Follows(fs, l) == \A d \in Domains : FollowsAt(fs, l, d)

\* A rendering of every domain follows the list, file by file, whatever was hurt
\* before it.  Otherwise the files follow it as long as no sync was cut short;
\* within a sync, what it would put back follows the list before it.
FilesFollow ==
  /\ pc # "idle" /\ job.kind = "sync" =>
       pc \in {"write", "reload", "restore", "restoreList"}
  /\ pc = "restoreList" => job.kind = "sync"
  /\ pc = "write" /\ Rerenders => \A d \in Domains \ todo : FollowsAt(vhost, list, d)
  /\ pc = "reload" /\ Rerenders => Follows(vhost, list)
  /\ "modes" \notin hurt =>
       /\ pc = "idle" \/ job.kind # "sync" => Follows(vhost, list)
       /\ pc \in {"write", "restore"} =>
            Follows(prev, IF job.kind = "sync" THEN prevList ELSE list)
       /\ pc = "restoreList" => Follows(vhost, prevList)

\* A rendering is on disk once it is written, a domain's certificate once issued.
RenderedSoFar ==
  /\ job.kind \in {"activate", "issue"} /\ pc \in {"write", "reload"}
       /\ job.file \notin todo => vhost[job.file] = Render(job.file)
  /\ job.kind = "issue" /\ issued # "no" => cert[job.file] > 0
  /\ job.kind = "reconcile" /\ pc \in {"write", "reload"} =>
       \A d \in Existing(Domains) \ todo : vhost[d] = Render(d)

\* What is proved by induction here, beside IInv.
FilesPart == FilesLoad /\ FilesFollow /\ RenderedSoFar /\ CompletedIsServed

FilesInv == IInv /\ FilesPart

\* A job begins with the files as they are.
LEMMA BeginFiles ==
  ASSUME FilesInv,
         NEW k \in Kinds \ {"none", "startup"}, NEW f \in Files \cup {None},
         NEW step \in {"unlink", "write", "activate"}, NEW S \in SUBSET Files,
         Begin(k, f, step, S), job'.file = f,
         k # "sync" => list' = list,
         k \in {"activate", "issue"} /\ step = "write" => f \in S,
         k \in {"sync", "reconcile"} => S = Existing(Domains) /\ step = "write",
         k \in {"remove", "activate", "issue", "ensure"} => f # None
  PROVE  FilesPart'
<1>1. /\ pc = "idle" /\ pc' = step /\ job' = [kind |-> k, file |-> f] /\ todo' = S
      /\ result' = "none" /\ issued' = "no"
      /\ prev' = vhost /\ prevList' = list /\ vhost' = vhost /\ cert' = cert
      /\ hurt' = hurt
  BY DEF Begin
<1>2. FilesLoad'
  BY <1>1 DEF FilesInv, FilesPart, FilesLoad, Valid, Rerenders, Existing
<1>3. FilesFollow'
  <2>1. "modes" \notin hurt => Follows(vhost, list)
    BY <1>1 DEF FilesInv, FilesPart, FilesFollow
  <2>2. CASE k = "sync"
    BY <1>1, <2>1, <2>2 DEF FilesFollow, Follows, FollowsAt, Existing, Rerenders
  <2>3. CASE k # "sync"
    BY <1>1, <2>1, <2>3 DEF FilesFollow, Follows, FollowsAt, Existing, Rerenders
  <2> QED
    BY <2>2, <2>3
<1>4. RenderedSoFar' /\ CompletedIsServed'
  BY <1>1 DEF RenderedSoFar, CompletedIsServed, Existing
<1> QED
  BY <1>2, <1>3, <1>4 DEF FilesPart

\* A job begins, or a sync of the same list is over.
LEMMA StartFiles ==
  ASSUME FilesInv,
         \/ \E L \in Lists : StartSync(L)
         \/ \E d \in Domains : StartActivate(d) \/ StartRemove(d) \/ StartIssue(d)
         \/ \E b \in Bases : StartEnsure(b)
         \/ StartReconcile
  PROVE  FilesPart'
<1>1. /\ \A d \in Domains : d \in Files /\ {d} \in SUBSET Files
      /\ \A b \in Bases : b \in Files
      /\ Existing(Domains) \in SUBSET Files
      /\ None \notin Files
  BY NoneAssumption DEF Files, Existing
<1>2. ASSUME NEW d \in Domains, StartActivate(d) PROVE FilesPart'
  <2>1. Begin("activate", d, "write", {d}) /\ list' = list /\ job'.file = d
    BY <1>2 DEF StartActivate, Begin
  <2> QED
    BY <1>1, <2>1, BeginFiles DEF Kinds
<1>3. ASSUME NEW d \in Domains, StartRemove(d) PROVE FilesPart'
  <2>1. Begin("remove", d, "unlink", {}) /\ list' = list /\ job'.file = d
    BY <1>3 DEF StartRemove, Begin
  <2> QED
    BY <1>1, <2>1, BeginFiles DEF Kinds
<1>4. ASSUME NEW d \in Domains, StartIssue(d) PROVE FilesPart'
  <2>1. Begin("issue", d, "write", {d}) /\ list' = list /\ job'.file = d
    BY <1>4 DEF StartIssue, Begin
  <2> QED
    BY <1>1, <2>1, BeginFiles DEF Kinds
<1>5. ASSUME NEW b \in Bases, StartEnsure(b) PROVE FilesPart'
  <2>1. Begin("ensure", b, "activate", {}) /\ list' = list /\ job'.file = b
    BY <1>5 DEF StartEnsure, Begin
  <2> QED
    BY <1>1, <2>1, BeginFiles DEF Kinds
<1>6. ASSUME StartReconcile PROVE FilesPart'
  <2>1. /\ Begin("reconcile", None, "write", Existing(Domains)) /\ list' = list
        /\ job'.file = None
    BY <1>6 DEF StartReconcile, Begin
  <2> QED
    BY <1>1, <2>1, BeginFiles DEF Kinds
<1>7. ASSUME NEW L \in Lists, StartSync(L), L # list PROVE FilesPart'
  <2>1. /\ Begin("sync", None, "write", Existing(Domains)) /\ job'.file = None
    BY <1>7 DEF StartSync, Begin
  <2> QED
    BY <1>1, <2>1, BeginFiles DEF Kinds
<1>8. ASSUME StartSync(list) PROVE FilesPart'
  <2>1. /\ pc = "idle" /\ pc' = "idle" /\ job'.kind = "sync"
        /\ UNCHANGED <<list, vhost, cert, hurt>>
    BY <1>8 DEF StartSync, Finish
  <2> QED
    BY <2>1 DEF FilesInv, FilesPart, FilesLoad, Valid, FilesFollow, Follows, FollowsAt,
                RenderedSoFar, CompletedIsServed
<1> QED
  BY <1>2, <1>3, <1>4, <1>5, <1>6, <1>7, <1>8

\* A renewal takes no certificate away and is no job of these kinds.
LEMMA RenewFiles ==
  ASSUME FilesInv, RenewCertificates
  PROVE  FilesPart'
<1>1. \A f \in Files : cert[f] > 0 => cert'[f] > 0
  BY DEF FilesInv, IInv, TypeOK, RenewCertificates
<1>2. /\ pc = "idle" /\ pc' = "idle" /\ job'.kind = "none"
      /\ UNCHANGED <<list, vhost, hurt>>
  BY DEF RenewCertificates
<1> QED
  BY <1>1, <1>2
  DEF FilesInv, FilesPart, FilesLoad, Valid, FilesFollow, Follows, FollowsAt,
              RenderedSoFar, CompletedIsServed

\* What a removal would put back is the file it removed.
LEMMA UnlinkFiles ==
  ASSUME FilesInv, Unlink
  PROVE  FilesPart'
<1>1. job.kind = "remove" /\ pc = "unlink" /\ pc' \in {"write", "idle"}
  BY DEF FilesInv, IInv, JobOnCourse, Unlink, Finish
<1>2. UNCHANGED <<job, list, cert, hurt>> /\ (pc' = "write" => prev' = prev)
  BY DEF Unlink, Finish
<1>3. /\ vhost' = vhost \/ vhost' = [vhost EXCEPT ![job.file] = None]
      /\ pc' = "idle" => vhost' = vhost /\ result' = "failed"
  BY DEF Unlink, Finish
<1>4. FilesLoad'
  BY <1>1, <1>2, <1>3 DEF FilesInv, FilesPart, FilesLoad, Valid, Rerenders
<1>5. FilesFollow'
  BY <1>1, <1>2, <1>3 DEF FilesInv, IInv, TypeOK, FilesPart, FilesLoad, FilesFollow,
                          Follows, FollowsAt, Files, Rerenders
<1>6. RenderedSoFar' /\ CompletedIsServed'
  BY <1>1, <1>2, <1>3 DEF RenderedSoFar, CompletedIsServed
<1> QED
  BY <1>4, <1>5, <1>6 DEF FilesPart

\* A written file follows the list.
LEMMA WriteFileFiles ==
  ASSUME FilesInv, WriteFile
  PROVE  FilesPart'
<1>1. /\ pc = "write"
      /\ UNCHANGED <<conf, list, cert, rev, job, result, issued, prev, prevList,
                  hurt>>
  BY DEF WriteFile
<1>2. ASSUME NEW f \in todo, vhost' = [vhost EXCEPT ![f] = Render(f)],
             todo' = todo \ {f}, UNCHANGED pc
      PROVE  FilesPart'
  <2>1. /\ f \in Files /\ Render(f) \in Contents /\ Render(f) # None
        /\ vhost \in [Files -> Contents \cup {None}]
    BY RenderType, NoneAssumption DEF FilesInv, IInv, TypeOK
  <2>2. /\ vhost'[f] = Render(f) /\ vhost'[f] # None
        /\ \A g \in Files : g # f => vhost'[g] = vhost[g]
        /\ \A g : Render(g)' = Render(g)
    BY <1>1, <1>2, <2>1 DEF Render, RootMode
  <2>3. FilesLoad'
    <3>1. Rerenders' = Rerenders
      BY <1>1 DEF Rerenders
    <3>2. ASSUME Rerenders
          PROVE  f \in Existing(Domains) /\ Existing(Domains)' = Existing(Domains)
      BY <1>1, <2>2, <3>2 DEF FilesInv, FilesPart, FilesLoad, Existing, Files
    <3> QED
      BY <1>1, <1>2, <3>1, <3>2 DEF FilesInv, FilesPart, FilesLoad, Valid
  <2>4. FilesFollow'
    <3>1. f \in Domains => FollowsAt(vhost', list, f)
      BY <2>2 DEF FollowsAt, Render, RootMode, ModeIn
    <3>2. \A d \in Domains : d # f => \A l : FollowsAt(vhost, l, d) => FollowsAt(vhost', l, d)
      BY <2>2 DEF FollowsAt, Files
    <3>3. Rerenders' = Rerenders
      BY <1>1 DEF Rerenders
    <3>5. Follows(vhost, list) => Follows(vhost', list)
      BY <3>1, <3>2 DEF Follows
    <3>6. /\ pc = "write" /\ pc' = "write"
          /\ UNCHANGED <<list, prev, prevList, job, hurt>> /\ todo' = todo \ {f}
      BY <1>1, <1>2
    <3>7. Follows(prev, IF job.kind = "sync" THEN prevList ELSE list)' =
          Follows(prev, IF job.kind = "sync" THEN prevList ELSE list)
      BY <3>6 DEF Follows, FollowsAt
    <3>8. (Rerenders => \A d \in Domains \ todo : FollowsAt(vhost, list, d))'
      BY <3>1, <3>2, <3>3, <3>6 DEF FilesInv, FilesPart, FilesFollow, FollowsAt
    <3>9. Follows(vhost, list)' = Follows(vhost', list)
      BY <3>6 DEF Follows, FollowsAt
    <3> QED
      BY <3>5, <3>6, <3>7, <3>8, <3>9 DEF FilesInv, FilesPart, FilesFollow
  <2>5. RenderedSoFar'
    BY <1>1, <1>2, <2>1, <2>2
    DEF FilesInv, IInv, JobOnCourse, FilesPart, RenderedSoFar, Existing, Files
  <2> QED
    BY <1>1, <1>2, <2>3, <2>4, <2>5 DEF FilesPart, CompletedIsServed
<1>3. ASSUME pc' = "restore", UNCHANGED <<vhost, todo>>
      PROVE  FilesPart'
  BY <1>1, <1>3
  DEF FilesInv, FilesPart, FilesLoad, Valid, Rerenders, FilesFollow, Follows, FollowsAt,
                    RenderedSoFar, CompletedIsServed
<1> QED
  BY <1>2, <1>3 DEF WriteFile

\* The test is passed by files that load and, in a rendering of no domain, by the
\* files as they were.
LEMMA TestFilesFiles ==
  ASSUME FilesInv, TestFiles
  PROVE  FilesPart'
<1>1. /\ pc = "write" /\ todo = {} /\ pc' \in {"reload", "restore"}
      /\ UNCHANGED <<conf, list, cert, vhost, rev, job, result, todo, issued, prev,
                  prevList, hurt>>
      /\ pc' = "reload" => Valid(vhost) \/ (Rerenders /\ Existing(Domains) = {})
  BY DEF TestFiles
<1>2. FilesLoad'
  BY <1>1 DEF FilesInv, FilesPart, FilesLoad, Valid
<1>3. FilesFollow'
  BY <1>1 DEF FilesInv, FilesPart, FilesFollow, Follows, FollowsAt, Rerenders
<1>4. RenderedSoFar'
  BY <1>1 DEF FilesInv, FilesPart, RenderedSoFar, Existing, Render, RootMode
<1> QED
  BY <1>1, <1>2, <1>3, <1>4 DEF FilesPart, CompletedIsServed

\* A rendering that ends well is loaded.
LEMMA ReloadFiles ==
  ASSUME FilesInv, Reload
  PROVE  FilesPart'
<1>1. /\ pc = "reload" /\ todo = {} /\ UNCHANGED <<conf, list, cert, vhost, rev>>
      /\ pc' \in {"idle", "issue", "certs", "sites"} /\ UNCHANGED job
      /\ pc' # "idle" => UNCHANGED <<prev, prevList, issued>>
      /\ job.kind = "sync" => pc' = "idle"
  BY DEF FilesInv, IInv, JobOnCourse, Reload, Continue, Finish
<1>2. FilesLoad'
  <2>1. "files" \notin hurt' => "files" \notin hurt \/ Valid(vhost)
    BY DEF Reload
  <2> QED
    BY <1>1, <2>1 DEF FilesInv, FilesPart, FilesLoad, Valid
<1>3. FilesFollow'
  <2>1. "modes" \notin hurt' => "modes" \notin hurt \/ Rerenders
    BY DEF Reload
  <2>2. "modes" \notin hurt' => (pc' = "idle" \/ job.kind # "sync") /\ Follows(vhost, list)
    BY <1>1, <2>1 DEF FilesInv, FilesPart, FilesFollow, Rerenders
  <2> QED
    BY <1>1, <2>2 DEF FilesInv, FilesPart, FilesFollow, Follows, FollowsAt
<1>4. RenderedSoFar'
  BY <1>1 DEF FilesInv, FilesPart, RenderedSoFar, Continue, Finish, Reload
<1>5. CompletedIsServed'
  <2>1. SUFFICES ASSUME pc' = "idle" PROVE CompletedIsServed'
    BY DEF CompletedIsServed
  <2>2. /\ job.kind \in {"sync", "activate", "reconcile", "issue", "ensure"}
        /\ job.kind = "issue" => issued # "no"
    BY <1>1, <2>1 DEF Reload, Continue
  <2>3. \A f : Render(f)' = Render(f)
    BY <1>1 DEF Render, RootMode
  <2>4. job.kind \in {"activate", "issue"} => loaded' = Serving(vhost)
    BY <2>2 DEF Reload, Rerenders
  <2>5. Existing(Domains) # {} => loaded' = Serving(vhost)
    BY DEF Reload
  <2>6. Serving(vhost') = Serving(vhost) /\ Serving(vhost)' = Serving(vhost)
    BY <1>1 DEF Serving
  <2>7. job.kind = "issue" => vhost[job.file].ssl
    <3>1. job.kind = "issue" => cert[job.file] > 0 /\ vhost[job.file] = Render(job.file)
      BY <1>1, <2>2 DEF FilesInv, FilesPart, RenderedSoFar
    <3>2. \A f : Render(f).ssl = (cert[f] > 0)
      BY DEF Render
    <3> QED
      BY <3>1, <3>2
  <2>8. job.kind \in {"activate", "issue"} => vhost[job.file] = Render(job.file)
    BY <1>1 DEF FilesInv, FilesPart, RenderedSoFar
  <2>9. job.kind = "reconcile" => \A d \in Existing(Domains) : vhost[d] = Render(d)
    BY <1>1 DEF FilesInv, FilesPart, RenderedSoFar
  <2> QED
    BY <1>1, <2>2, <2>3, <2>4, <2>5, <2>6, <2>7, <2>8, <2>9
    DEF CompletedIsServed, Existing
<1> QED
  BY <1>2, <1>3, <1>4, <1>5 DEF FilesPart

\* A failed reload leaves the files of a sync, which is remembered.
LEMMA ReloadFailsFiles ==
  ASSUME FilesInv, ReloadFails
  PROVE  FilesPart'
<1>1. /\ pc = "reload" /\ pc' \in {"idle", "restoreList"} /\ UNCHANGED <<cert, vhost, job>>
      /\ hurt' = hurt \cup OfSync /\ (pc' = "idle" => result' = "failed")
      /\ pc' = "restoreList" <=> job.kind = "sync"
      /\ UNCHANGED <<conf, list, rev>> /\ (pc' = "restoreList" => UNCHANGED issued)
      /\ pc' = "idle" => issued' = "no"
  BY DEF ReloadFails, Finish
<1> QED
  BY <1>1
  DEF FilesInv, FilesPart, FilesLoad, Valid, FilesFollow, Follows, FollowsAt, OfSync,
      RenderedSoFar, CompletedIsServed

\* A restoration puts all files back, or is remembered.
LEMMA RestoreFiles ==
  ASSUME FilesInv, Restore
  PROVE  FilesPart'
<1>1. /\ pc = "restore" /\ pc' \in {"idle", "restoreList"} /\ UNCHANGED <<cert, list, job>>
      /\ \/ vhost' = prev /\ hurt' = hurt
         \/ /\ hurt' = hurt \cup {"files"} \cup OfSync
            /\ \A f \in Files : vhost'[f] \in {prev[f], vhost[f]}
      /\ pc' = "idle" => result' = "failed" /\ issued' = "no"
      /\ pc' = "restoreList" => UNCHANGED <<issued, prevList>>
      /\ job.kind = "sync" <=> pc' = "restoreList"
  BY DEF Restore, Finish
<1>2. FilesLoad'
  BY <1>1 DEF FilesInv, FilesPart, FilesLoad, Valid
<1>3. FilesFollow'
  <2>1. \A d \in Domains : d \in Files
    BY DEF Files
  <2>2. CASE job.kind = "sync"
    BY <1>1, <2>2 DEF FilesInv, FilesPart, FilesFollow, Follows, FollowsAt, OfSync
  <2>3. CASE job.kind # "sync"
    BY <1>1, <2>1, <2>3 DEF FilesInv, FilesPart, FilesFollow, Follows, FollowsAt, OfSync
  <2> QED
    BY <2>2, <2>3
<1>4. RenderedSoFar' /\ CompletedIsServed'
  BY <1>1 DEF FilesInv, FilesPart, RenderedSoFar, CompletedIsServed
<1> QED
  BY <1>2, <1>3, <1>4 DEF FilesPart

\* The list is put back, or it is remembered.
LEMMA RestoreListFiles ==
  ASSUME FilesInv, RestoreList
  PROVE  FilesPart'
<1>1. /\ pc = "restoreList" /\ pc' = "idle" /\ UNCHANGED <<cert, vhost, job>>
      /\ \/ list' = prevList /\ hurt' = hurt
         \/ hurt' = hurt \cup OfSync
      /\ result' = "failed" /\ issued' = "no"
  BY DEF RestoreList, Finish
<1>2. /\ "modes" \notin hurt => Follows(vhost, prevList)
      /\ OfSync = {"modes"}
  BY <1>1 DEF FilesInv, FilesPart, FilesFollow, OfSync
<1>3. FilesLoad' /\ RenderedSoFar' /\ CompletedIsServed'
  BY <1>1, <1>2 DEF FilesInv, FilesPart, FilesLoad, Valid, RenderedSoFar, CompletedIsServed
<1>4. FilesFollow'
  BY <1>1, <1>2 DEF FilesFollow, Follows, FollowsAt
<1> QED
  BY <1>3, <1>4 DEF FilesPart

\* A removal that is done has removed a file nginx does not serve.
LEMMA RemoveCertificateFiles ==
  ASSUME FilesInv, RemoveCertificate
  PROVE  FilesPart'
<1>1. /\ pc = "certs" /\ pc' = "idle" /\ UNCHANGED <<conf, list, vhost, loaded, job, hurt, rev>>
      /\ result' = "done" => cert' = [cert EXCEPT ![job.file] = 0]
      /\ cert' \in {cert, [cert EXCEPT ![job.file] = 0]}
      /\ result' \in {"done", "failed"} /\ issued' = "no"
  BY DEF RemoveCertificate, Finish
<1>2. /\ job.kind = "remove" /\ job.file \in Files
      /\ vhost[job.file] = None /\ loaded[job.file] = None
  BY <1>1 DEF FilesInv, IInv, JobOnCourse, RemovalUnserved, Files
<1>3. /\ \A f \in Files : f # job.file => cert'[f] = cert[f]
      /\ result' = "done" => cert'[job.file] = 0
  BY <1>1, <1>2 DEF FilesInv, IInv, TypeOK
<1>4. FilesLoad'
  BY <1>1, <1>2, <1>3 DEF FilesInv, FilesPart, FilesLoad, Valid
<1>5. FilesFollow'
  BY <1>1, <1>2 DEF FilesInv, FilesPart, FilesFollow, Follows, FollowsAt
<1>6. RenderedSoFar' /\ CompletedIsServed'
  BY <1>1, <1>2, <1>3 DEF RenderedSoFar, CompletedIsServed
<1> QED
  BY <1>4, <1>5, <1>6 DEF FilesPart

\* A new certificate is one more the files may name.
LEMMA IssueFiles ==
  ASSUME FilesInv, IssueDomain \/ IssueWildcard
  PROVE  FilesPart'
<1>1. /\ pc = "issue" /\ pc' \in {"write", "activate"}
      /\ job.kind \in {"issue", "ensure"} /\ job.file \in Files
      /\ UNCHANGED <<conf, list, vhost, job, hurt, rev>> /\ pc' # "idle"
  BY DEF FilesInv, IInv, JobOnCourse, Files, IssueDomain, IssueWildcard
<1>2. /\ \A f \in Files : cert[f] > 0 => cert'[f] > 0
      /\ job.kind = "issue" => cert'[job.file] > 0
      /\ job.kind = "issue" => todo' = {job.file}
      /\ pc' = "write" => prev' = vhost
      /\ prev' \in {prev, vhost}
  <2>1. CASE IssueDomain
    <3>1. PICK g \in {cert[job.file], cert[job.file] + 1} \ {0} :
            cert' = [cert EXCEPT ![job.file] = g]
      BY <2>1 DEF IssueDomain
    <3>2. cert \in [Files -> Nat] /\ g > 0
      BY <1>1, <3>1 DEF FilesInv, IInv, TypeOK
    <3> QED
      BY <1>1, <2>1, <3>1, <3>2 DEF IssueDomain
  <2>2. CASE IssueWildcard
    BY <1>1, <2>2 DEF FilesInv, IInv, TypeOK, IssueWildcard
  <2> QED
    BY <2>1, <2>2
<1>3. FilesLoad'
  BY <1>1, <1>2 DEF FilesInv, FilesPart, FilesLoad, Valid, Rerenders
<1>4. FilesFollow'
  BY <1>1, <1>2 DEF FilesInv, FilesPart, FilesFollow, Follows, FollowsAt, Rerenders
<1>5. RenderedSoFar' /\ CompletedIsServed'
  BY <1>1, <1>2 DEF IssueDomain, IssueWildcard, RenderedSoFar, CompletedIsServed
<1> QED
  BY <1>3, <1>4, <1>5 DEF FilesPart

\* A failed certbot run changes no file.
LEMMA IssueFailsFiles ==
  ASSUME FilesInv, IssueFails
  PROVE  FilesPart'
<1>1. /\ pc = "issue" /\ pc' = "idle" /\ result' = "failed" /\ issued' = "no"
      /\ UNCHANGED <<conf, list, vhost, cert, job, hurt, rev>>
  BY DEF IssueFails, Finish
<1>2. job.kind # "sync"
  BY <1>1 DEF FilesInv, FilesPart, FilesFollow
<1> QED
  BY <1>1, <1>2
  DEF FilesInv, FilesPart, FilesLoad, Valid, FilesFollow, Follows, FollowsAt,
                    RenderedSoFar, CompletedIsServed

\* An ensure saves the files as they are before it writes.
LEMMA ActivateWebsiteFiles ==
  ASSUME FilesInv, ActivateWebsite
  PROVE  FilesPart'
<1>1. /\ pc = "activate" /\ pc' \in {"issue", "reload", "idle", "write"}
      /\ job.kind = "ensure" /\ UNCHANGED <<list, vhost, cert, job, hurt, conf, rev>>
      /\ prev' \in {prev, vhost} /\ (pc' = "write" => prev' = vhost)
  BY DEF FilesInv, IInv, JobOnCourse, ActivateWebsite, Finish
<1> QED
  BY <1>1 DEF FilesInv, FilesPart, FilesLoad, Valid, Rerenders, FilesFollow, Follows,
              FollowsAt, RenderedSoFar, CompletedIsServed

\* So does the startup, base by base.
LEMMA NextSiteFiles ==
  ASSUME FilesInv, NextSite
  PROVE  FilesPart'
<1>1. /\ pc = "sites" /\ pc' \in {"sites", "write"} /\ job.kind = "startup"
      /\ job'.kind = "startup" /\ job'.file # None
      /\ UNCHANGED <<list, vhost, cert, hurt, conf, rev>>
      /\ prev' \in {prev, vhost} /\ (pc' = "write" => prev' = vhost)
  <2>1. \A b \in Bases : b # None
    BY NoneAssumption DEF Files
  <2>2. sites \subseteq Bases
    BY DEF FilesInv, IInv, TypeOK
  <2> QED
    BY <2>1, <2>2 DEF FilesInv, IInv, JobOnCourse, NextSite
<1> QED
  BY <1>1 DEF FilesInv, FilesPart, FilesLoad, Valid, Rerenders, FilesFollow, Follows,
              FollowsAt, RenderedSoFar, CompletedIsServed

\* The marker is no server block.
LEMMA WriteMarkerFiles ==
  ASSUME FilesInv, WriteMarker
  PROVE  FilesPart'
<1>1. /\ pc = "sites" /\ pc' = "idle" /\ job.kind = "startup"
      /\ UNCHANGED <<list, vhost, cert, conf, rev, job>>
      /\ hurt' = hurt \ {"revisions"}
  BY DEF FilesInv, IInv, JobOnCourse, WriteMarker, Finish
<1> QED
  BY <1>1 DEF FilesInv, FilesPart, FilesLoad, Valid, FilesFollow, Follows,
              FollowsAt, RenderedSoFar, CompletedIsServed

\* A sync or a rendering cut short is remembered; the startup has the files as they are.
LEMMA RestartFiles ==
  ASSUME FilesInv, NEW r \in 1..MaxRev, Restart(r)
  PROVE  FilesPart'
<1>1. /\ UNCHANGED <<list, vhost, cert>> /\ pc' \in {"idle", "write"}
      /\ job'.kind \in {"none", "startup"} /\ result' = "none"
      /\ prev' = vhost /\ (pc' = "write" => todo' = Existing(Domains))
      /\ hurt' = hurt \cup (IF pc \in {"write", "restore"} THEN {"files"} ELSE {})
                      \cup (IF pc # "idle" THEN OfSync ELSE {})
                      \cup (IF marker = r /\ rev # r THEN {"revisions"} ELSE {})
  BY DEF Restart
<1>2. FilesLoad'
  BY <1>1 DEF FilesInv, FilesPart, FilesLoad, Valid, Existing
<1>3. FilesFollow'
  <2>1. "modes" \notin hurt' => Follows(vhost, list)
    BY <1>1 DEF FilesInv, FilesPart, FilesFollow, OfSync
  <2>2. \A d \in Domains : FollowsAt(vhost, list, d) \/ d \in Existing(Domains)
    BY DEF FollowsAt, Existing
  <2> QED
    BY <1>1, <2>1, <2>2 DEF FilesFollow, Follows, FollowsAt
<1>4. RenderedSoFar' /\ CompletedIsServed'
  BY <1>1 DEF RenderedSoFar, CompletedIsServed
<1> QED
  BY <1>2, <1>3, <1>4 DEF FilesPart

\* A change of nginx.env is not seen yet.
LEMMA EnvChangesFiles ==
  ASSUME FilesInv, NEW e \in Envs, EnvChanges(e)
  PROVE  FilesPart'
<1>1. UNCHANGED <<conf, disk, loaded, rev, run, saved, hurt>>
  BY DEF EnvChanges
<1> QED
  BY <1>1
  DEF FilesInv, FilesPart, FilesLoad, Valid, Rerenders, Existing, FilesFollow, Follows,
              FollowsAt, ModeIn, RenderedSoFar, CompletedIsServed, Render, RootMode, Serving

\* A reload from outside loads what the files say.
LEMMA ReloadOutsideFiles ==
  ASSUME FilesInv, ReloadOutside
  PROVE  FilesPart'
<1>1. /\ UNCHANGED <<conf, disk, rev, run, saved, hurt>>
      /\ loaded' = Serving(vhost)
  BY DEF ReloadOutside
<1>2. FilesLoad' /\ FilesFollow' /\ RenderedSoFar'
  BY <1>1
  DEF FilesInv, FilesPart, FilesLoad, Valid, Rerenders, Existing, FilesFollow, Follows,
              FollowsAt, ModeIn, RenderedSoFar, Render, RootMode
<1>3. CompletedIsServed'
  <2>1. /\ \A f : Render(f)' = Render(f)
        /\ Serving(vhost)' = Serving(vhost)
        /\ Existing(Domains)' = Existing(Domains) /\ Existing(Domains) \subseteq Files
    BY <1>1 DEF Render, RootMode, Serving, Existing, Files
  <2>2. \A f \in Files : vhost[f] = None => Serving(vhost)[f] = None
    BY DEF Serving
  <2>3. job.kind \in {"activate", "issue", "remove"} => job.file \in Files
    BY DEF FilesInv, IInv, JobOnCourse, Files
  <2> QED
    BY <1>1, <2>1, <2>2, <2>3 DEF FilesInv, FilesPart, CompletedIsServed
<1> QED
  BY <1>2, <1>3 DEF FilesPart

\* There are no files initially.
LEMMA InitFiles == Init => FilesPart
<1> SUFFICES ASSUME Init PROVE FilesPart
  OBVIOUS
<1>1. FilesLoad /\ FilesFollow
  BY DEF Init, Files, FilesLoad, Valid, FilesFollow, Follows, FollowsAt
<1>2. RenderedSoFar /\ CompletedIsServed
  BY DEF Init, RenderedSoFar, CompletedIsServed
<1> QED
  BY <1>1, <1>2 DEF FilesPart

\* What the files say holds through every job, failure, restart and reload.
THEOREM FilesInvariant == Spec => []FilesPart
<1>1. FilesPart /\ IInv /\ [Next]_vars => FilesPart'
  <2> SUFFICES ASSUME FilesInv, [Next]_vars PROVE FilesPart'
    BY DEF FilesInv
  <2>1. CASE Start
    BY <2>1, StartFiles, RenewFiles DEF Start
  <2>2. CASE Step
    BY <2>2, UnlinkFiles, WriteFileFiles, TestFilesFiles, ReloadFiles, ReloadFailsFiles,
       RestoreFiles, RestoreListFiles, RemoveCertificateFiles, IssueFiles, IssueFailsFiles,
       ActivateWebsiteFiles, NextSiteFiles, WriteMarkerFiles
    DEF Step
  <2>3. ASSUME NEW r \in 1..MaxRev, Restart(r) PROVE FilesPart'
    BY <2>3, RestartFiles
  <2>4. ASSUME NEW e \in Envs, EnvChanges(e) PROVE FilesPart'
    BY <2>4, EnvChangesFiles
  <2>5. CASE ReloadOutside
    BY <2>5, ReloadOutsideFiles
  <2>6. CASE UNCHANGED vars
    BY <2>6
    DEF vars, FilesInv, FilesPart, FilesLoad, Valid, Rerenders, Existing, FilesFollow, Follows,
        FollowsAt, ModeIn, RenderedSoFar, CompletedIsServed, Render, RootMode, Serving
  <2> QED
    BY <2>1, <2>2, <2>3, <2>4, <2>5, <2>6 DEF Next
<1> QED
  BY InitFiles, InductiveInvariant, <1>1, PTL DEF Spec

\* syncWebsiteSiteDomains: between jobs the files follow the stored list, whatever
\* failed or stopped, unless a sync was cut short since every domain was rendered.
THEOREM FilesFollowList == Spec => []ModesFollowList
<1>1. FilesPart => ModesFollowList
  BY DEF FilesPart, FilesFollow, Follows, FollowsAt, ModeIn, ModesFollowList, RootMode,
         Existing
<1> QED
  BY FilesInvariant, <1>1, PTL

\* rerenderNginxEdgeDomains: between jobs the files pass nginx -t, unless writes or
\* a restoration were cut short since nginx last loaded a rendering.
THEOREM FilesStayLoadable == Spec => []FilesLoadable
<1>1. FilesPart => FilesLoadable
  BY DEF FilesPart, FilesLoad, FilesLoadable
<1> QED
  BY FilesInvariant, <1>1, PTL

\* A completed activation, issue, removal or reconcile is what nginx runs.
THEOREM CompletedServed == Spec => []CompletedIsServed
<1>1. FilesPart => CompletedIsServed
  BY DEF FilesPart
<1> QED
  BY FilesInvariant, <1>1, PTL
=============================================================================
