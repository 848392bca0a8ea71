------------------------------- MODULE Uploads ------------------------------
(***************************************************************************)
(* The handlers that fill the catalogue, in the dashboard and in the API,  *)
(* and the artifact cleanup.  A handler is a list of steps, each a call of *)
(* a store that commits on its own, with the calls that undo it when a     *)
(* step fails.  Requests run concurrently and the server may stop between  *)
(* any two steps.                                                          *)
(***************************************************************************)
EXTENDS Catalogue

CONSTANTS
  Request,   \* what clients may ask for
  Package,   \* package names
  Agent,     \* package of the launcher, seeded at server start
  MaxFaults  \* calls that fail although they could succeed, lost answers, stops

Kind == {"file", "certApi", "bind", "versionApi", "cert", "managed", "app", "publish", "version"}

(* A client names the rows it links to: an app, a file, perhaps an artifact. *)
ASSUME RequestAssumption ==
  /\ \A q \in Request :
       /\ q.kind \in Kind /\ q.sum \in Content /\ q.key \in Key /\ q.path \in Path
       /\ q.pkg \in Package /\ q.body \in BOOLEAN /\ q.vars \in BOOLEAN /\ q.publish \in BOOLEAN
       /\ q.target \in AppId \cup {None} /\ q.art \in Job \cup {Legacy, None}
       /\ q.kind = "bind" => q.target \in Job
       /\ q.kind \in {"version", "versionApi", "publish"} => q.target \in AppId
  /\ Agent \in Package
ASSUME FaultsAssumption == MaxFaults \in Nat

(* The rows the handlers store; None is none of them. *)
Label == {q.name : q \in Request}
Code == {q.code : q \in Request}
Row(names) == [name : names, art : Job \cup {Legacy}, sum : Content, status : {"active", "retired"}]
FileRow == Row({<<n>> : n \in Job \cup Label} \cup (Package \X Code))
CertificateRow == Row(Label)
ManagedRow == [file : Job, vars : BOOLEAN, status : {"active", "retired"}]
AppRow == [pkg : Package, system : BOOLEAN, status : {"active", "retired"}]
VersionRow == [id : Job, app : AppId, name : Label, code : Code, art : Job \cup {Legacy, None},
               sum : Content, status : {"published", "uploaded"}]
ASSUME NoneIsNoRow == None \notin FileRow \cup CertificateRow \cup AppRow

VARIABLES
  job,       \* request |-> where its handler is
  cleanup,   \* the pass of the artifact cleanup: what is left, what is taken, its next step
  faults

vars == <<catVars, job, cleanup, faults>>

Fault == faults < MaxFaults /\ faults' = faults + 1

-----------------------------------------------------------------------------
(* Handlers: steps, and what undoes a failed one. *)

StepName == {"put", "file", "cert", "managed", "version", "findApp", "createApp", "getApp",
             "findVersion", "retire", "drop", "unapp"}

WithBody(q, with, without) == IF q.body THEN with ELSE without

PostFile(q) ==
  [steps |-> WithBody(q, <<"put", "file">>, <<"file">>),
   undo  |-> [file |-> WithBody(q, <<"drop">>, <<>>)]]

PostCertificate(q) ==
  [steps |-> WithBody(q, <<"put", "cert">>, <<"cert">>),
   undo  |-> [cert |-> WithBody(q, <<"drop">>, <<>>)]]

PostManagedFile(q) == [steps |-> <<"managed">>, undo |-> [managed |-> <<>>]]
PostVersion(q)     == [steps |-> <<"version">>, undo |-> [version |-> <<>>]]

(* Mutant: a refused certificate leaves its object behind. *)
createCertificateOnly(q) ==
  [steps |-> <<"put", "cert">>, undo |-> [cert |-> <<>>]]

createCertificate(q) ==
  [steps |-> <<"put", "cert">>, undo |-> [cert |-> <<"drop">>]]

createManagedFile(q) ==
  [steps |-> <<"put", "file", "managed">>,
   undo  |-> [file |-> <<"drop">>, managed |-> <<"retire", "drop">>]]

createApp(q) ==
  [steps |-> <<"findApp", "createApp", "put", "file", "version">>,
   undo  |-> [file |-> <<"drop">>, version |-> <<"retire", "drop", "unapp">>]]

publishAppVersion(q) ==
  [steps |-> <<"getApp", "findVersion", "put", "file", "version">>,
   undo  |-> [file |-> <<"drop">>, version |-> <<"retire", "drop">>]]

createAppVersion(q) == [steps |-> <<"version">>, undo |-> [version |-> <<>>]]

Handler(q) ==
  CASE q.kind = "file"        -> PostFile(q)
    [] q.kind = "certApi"     -> PostCertificate(q)
    [] q.kind = "bind"        -> PostManagedFile(q)
    [] q.kind = "versionApi"  -> PostVersion(q)
    [] q.kind = "cert"        -> createCertificate(q)
    [] q.kind = "managed"     -> createManagedFile(q)
    [] q.kind = "app"         -> createApp(q)
    [] q.kind = "publish"     -> publishAppVersion(q)
    [] q.kind = "version"     -> createAppVersion(q)

Undo(q, step) == IF step \in DOMAIN Handler(q).undo THEN Handler(q).undo[step] ELSE <<>>

-----------------------------------------------------------------------------
(* The rows a request asks for.  The dashboard derives key and name; a     *)
(* client of the API gives them, and may describe a payload without one.   *)

Derived(q) == q.kind \in {"cert", "managed", "app", "publish"}
StorageKey(j) == IF Derived(job[j].req) THEN j ELSE job[j].req.key

AppFileName(p, code) == <<p, code>>
FileName(j) ==
  CASE job[j].req.kind = "managed"            -> <<j>>
    [] job[j].req.kind \in {"app", "publish"} -> AppFileName(job[j].pkg, job[j].req.code)
    [] job[j].req.kind = "file"               -> <<job[j].req.name>>

(* The file a managed file is bound to: the one just uploaded, or any. *)
SourceFile(j) == IF job[j].req.kind = "managed" THEN j ELSE job[j].req.target

VersionUpsert(j) ==
  LET q == job[j].req IN
    [id |-> j, app |-> job[j].app, name |-> q.name, code |-> q.code,
     art |-> IF q.kind \in {"app", "publish"} THEN files[j].art ELSE q.art, sum |-> q.sum,
     status |-> IF q.kind # "versionApi" \/ q.publish THEN "published" ELSE "uploaded"]

-----------------------------------------------------------------------------
(* Control *)

Step(j) == IF job[j].at \in {"run", "undo"} /\ job[j].todo # <<>> THEN Head(job[j].todo) ELSE "none"

(* A client links to rows of other requests, and knows a key the dashboard *)
(* made only from the row that has it.                                     *)
Starts(j, q) ==
  /\ job[j].at = "idle"
  /\ q.kind \in {"bind", "version", "versionApi", "publish"} => q.target # j
  /\ ~Derived(q) /\ q.key \in Job => ArtifactsAt(q.key) # {}
  /\ job' = [job EXCEPT ![j] = [at |-> "run", req |-> q, todo |-> Handler(q).steps,
                                app |-> q.target, pkg |-> q.pkg, reused |-> TRUE]]
  /\ UNCHANGED <<catVars, cleanup, faults>>

Ends(j, outcome) == job' = [job EXCEPT ![j].at = outcome, ![j].todo = <<>>]

(* The step succeeded: go on, or finish. *)
Goes(j) ==
  IF Len(job[j].todo) > 1 THEN job' = [job EXCEPT ![j].todo = Tail(@)]
  ELSE Ends(j, IF job[j].at = "run" THEN "ok" ELSE "failed")

(* The step failed: undo what the handler says, ignoring further failures. *)
Fails(j) ==
  LET undo == Undo(job[j].req, Step(j)) IN
    IF job[j].at = "undo" THEN Goes(j)
    ELSE IF undo = <<>> THEN Ends(j, "failed")
    ELSE job' = [job EXCEPT ![j].at = "undo", ![j].todo = undo]

-----------------------------------------------------------------------------
(* Steps *)

PutsObject(j) ==
  /\ Step(j) = "put"
  /\ Put(StorageKey(j), job[j].req.sum)
  /\ Goes(j)
  /\ UNCHANGED <<artifacts, files, certs, managed, apps, versions>>

CreatesFile(j) ==
  LET q == job[j].req IN
  /\ Step(j) = "file"
  /\ \/ CreateFile(j, FileName(j), StorageKey(j), q.sum) /\ Goes(j)
     \/ /\ ~FileAccepted(FileName(j), StorageKey(j), q.sum)
        /\ Fails(j) /\ UNCHANGED <<artifacts, files>>
  /\ UNCHANGED <<objects, certs, managed, apps, versions>>

CreatesCertificate(j) ==
  LET q == job[j].req IN
  /\ Step(j) = "cert"
  /\ \/ CreateCertificate(j, q.name, StorageKey(j), q.sum) /\ Goes(j)
     \/ /\ ~CertificateAccepted(q.name, StorageKey(j), q.sum)
        /\ Fails(j) /\ UNCHANGED <<artifacts, certs>>
  /\ UNCHANGED <<objects, files, managed, apps, versions>>

BindsFile(j) ==
  LET q == job[j].req IN
  /\ Step(j) = "managed"
  /\ \/ CreateManagedFile(q.path, SourceFile(j), q.vars) /\ Goes(j)
     \/ ~loadSourceFile(SourceFile(j)) /\ Fails(j) /\ UNCHANGED managed
  /\ UNCHANGED <<objects, artifacts, files, certs, apps, versions>>

CreatesVersion(j) ==
  /\ Step(j) = "version"
  /\ \/ CreateVersion(VersionUpsert(j)) /\ Goes(j)
     \/ ~VersionAccepted(VersionUpsert(j)) /\ Fails(j) /\ UNCHANGED versions
  /\ UNCHANGED <<objects, artifacts, files, certs, managed, apps>>

(* findManagedAppForCreate: an app that is there is used if it is active,  *)
(* and nothing is left to do when it has the version with this payload.    *)
FindsApp(j) ==
  LET q == job[j].req
      i == GetAppByPackageName(q.pkg)
      v == GetVersionByCode(i, q.code) IN
  /\ Step(j) = "findApp"
  /\ \/ AppsNamed(q.pkg) = {} /\ Goes(j)
     \/ /\ AppsNamed(q.pkg) # {}
        /\ IF apps[i].status # "active" \/ (v # None /\ v.sum # q.sum) THEN Fails(j)
           ELSE IF v # None THEN Ends(j, "ok")
           ELSE job' = [job EXCEPT ![j].app = i, ![j].todo = Tail(Tail(@))]
  /\ UNCHANGED catVars

CreatesApp(j) ==
  /\ Step(j) = "createApp"
  /\ \/ /\ CreateApp(j, job[j].req.pkg)
        /\ job' = [job EXCEPT ![j].app = j, ![j].reused = FALSE, ![j].todo = Tail(@)]
     \/ AppsNamed(job[j].req.pkg) # {} /\ Fails(j) /\ UNCHANGED apps
  /\ UNCHANGED <<objects, artifacts, files, certs, managed, versions>>

GetsApp(j) ==
  LET i == job[j].app IN
  /\ Step(j) = "getApp"
  /\ IF apps[i] = None \/ apps[i].status # "active" THEN Fails(j)
     ELSE job' = [job EXCEPT ![j].pkg = apps[i].pkg, ![j].todo = Tail(@)]
  /\ UNCHANGED catVars

(* findManagedAppVersionForPublish *)
FindsVersion(j) ==
  LET v == GetVersionByCode(job[j].app, job[j].req.code) IN
  /\ Step(j) = "findVersion"
  /\ IF v = None \/ v.status # "published" THEN Goes(j)
     ELSE IF v.sum # job[j].req.sum THEN Fails(j) ELSE Ends(j, "ok")
  /\ UNCHANGED catVars

Undoes(j) ==
  /\ Goes(j)
  /\ \/ /\ Step(j) = "retire"
        /\ RetireFile(j) /\ UNCHANGED <<objects, artifacts, certs, managed, apps, versions>>
     \/ /\ Step(j) = "drop"
        /\ Delete(StorageKey(j)) /\ UNCHANGED <<artifacts, files, certs, managed, apps, versions>>
     \/ /\ Step(j) = "unapp" /\ ~job[j].reused
        /\ RetireApp(job[j].app) /\ UNCHANGED <<objects, artifacts, files, certs, managed, versions>>
     \/ /\ Step(j) = "unapp" /\ job[j].reused
        /\ UNCHANGED catVars

Steps(j) ==
  /\ \/ PutsObject(j) \/ CreatesFile(j) \/ CreatesCertificate(j) \/ BindsFile(j)
     \/ CreatesVersion(j) \/ FindsApp(j) \/ CreatesApp(j) \/ GetsApp(j) \/ FindsVersion(j)
     \/ Undoes(j)
  /\ UNCHANGED <<cleanup, faults>>

(* A call is refused: the database or the object store is out of reach. *)
StepRefused(j) ==
  /\ Step(j) # "none" /\ Fails(j) /\ Fault
  /\ UNCHANGED <<catVars, cleanup>>

(* A call takes effect and its answer is lost: the handler sees a failure. *)
AnswerLost(j) ==
  LET q == job[j].req IN
  /\ job[j].at = "run" /\ Fails(j) /\ Fault
  /\ \/ /\ Step(j) = "put" /\ Put(StorageKey(j), q.sum)
        /\ UNCHANGED <<artifacts, files, certs, managed, apps, versions>>
     \/ /\ Step(j) = "file" /\ CreateFile(j, FileName(j), StorageKey(j), q.sum)
        /\ UNCHANGED <<objects, certs, managed, apps, versions>>
     \/ /\ Step(j) = "cert" /\ CreateCertificate(j, q.name, StorageKey(j), q.sum)
        /\ UNCHANGED <<objects, files, managed, apps, versions>>
     \/ /\ Step(j) = "managed" /\ CreateManagedFile(q.path, SourceFile(j), q.vars)
        /\ UNCHANGED <<objects, artifacts, files, certs, apps, versions>>
     \/ /\ Step(j) = "createApp" /\ CreateApp(j, q.pkg)
        /\ UNCHANGED <<objects, artifacts, files, certs, managed, versions>>
     \/ /\ Step(j) = "version" /\ CreateVersion(VersionUpsert(j))
        /\ UNCHANGED <<objects, artifacts, files, certs, managed, apps>>
  /\ UNCHANGED cleanup

(* The server stops: nothing is undone. *)
ServerStops(j) ==
  /\ job[j].at \in {"run", "undo"} /\ Ends(j, "failed") /\ Fault
  /\ UNCHANGED <<catVars, cleanup>>

-----------------------------------------------------------------------------
(* Administrators retire and rename; the server seeds the agent. *)

(* DELETE /files/{id} *)
DeleteFile(i) ==
  /\ RetireFile(i)
  /\ UNCHANGED <<objects, artifacts, certs, managed, apps, versions, job, cleanup, faults>>

retireCertificate(i) ==
  /\ RetireCertificate(i)
  /\ UNCHANGED <<objects, artifacts, files, managed, apps, versions, job, cleanup, faults>>

retireManagedFile(p) ==
  /\ RetireManagedFile(p)
  /\ UNCHANGED <<objects, artifacts, files, certs, apps, versions, job, cleanup, faults>>

retireApp(i) ==
  /\ RetireApp(i)
  /\ UNCHANGED <<objects, artifacts, files, certs, managed, versions, job, cleanup, faults>>

updateApp(i, p) ==
  /\ UpdateApp(i, p)
  /\ UNCHANGED <<objects, artifacts, files, certs, managed, versions, job, cleanup, faults>>

(* Each start of the server seeds the agent. *)
syncSeedApps ==
  /\ UpsertSystemOwnedApp(Agent)
  /\ UNCHANGED <<objects, artifacts, files, certs, managed, versions, job, cleanup, faults>>

-----------------------------------------------------------------------------
(* Artifact cleanup: the orphans are listed once, then taken one by one:   *)
(* retire the row, delete the object, delete the row.                      *)

NoPass == [todo |-> {}, now |-> None, step |-> "next"]

CleanupLists ==
  /\ cleanup = NoPass
  /\ cleanup' = [NoPass EXCEPT !.todo = ListOrphanArtifacts]
  /\ UNCHANGED <<catVars, job, faults>>

CleanupRetires ==
  /\ cleanup.step = "next"
  /\ \E a \in cleanup.todo :
       /\ RetireArtifact(a.id)
       /\ cleanup' = [todo |-> cleanup.todo \ {a}, now |-> a, step |-> "object"]
  /\ UNCHANGED <<objects, files, certs, managed, apps, versions, job, faults>>

CleanupDropsObject ==
  /\ cleanup.step = "object"
  /\ Delete(cleanup.now.key)
  /\ cleanup' = [cleanup EXCEPT !.step = "row"]
  /\ UNCHANGED <<artifacts, files, certs, managed, apps, versions, job, faults>>

(* The database refuses to delete the row of a file or a certificate. *)
CleanupDropsRow ==
  /\ cleanup.step = "row"
  /\ \/ /\ Deletable(cleanup.now) /\ DeleteArtifact(cleanup.now.id)
        /\ cleanup' = [cleanup EXCEPT !.now = None, !.step = "next"]
     \/ /\ ~Deletable(cleanup.now)
        /\ cleanup' = NoPass /\ UNCHANGED artifacts
  /\ UNCHANGED <<objects, files, certs, managed, apps, versions, job, faults>>

CleanupRefused ==
  /\ cleanup # NoPass /\ Fault
  /\ cleanup' = NoPass
  /\ UNCHANGED <<catVars, job>>

-----------------------------------------------------------------------------
Idle == [at |-> "idle", req |-> None, todo |-> <<>>, app |-> None, pkg |-> None, reused |-> TRUE]

Init ==
  /\ InitCatalogue
  /\ job = [j \in Job |-> Idle]
  /\ cleanup = NoPass
  /\ faults = 0

Next ==
  \/ \E j \in Job : \/ \E q \in Request : Starts(j, q)
                    \/ Steps(j) \/ StepRefused(j) \/ AnswerLost(j) \/ ServerStops(j)
  \/ \E i \in Job : DeleteFile(i) \/ retireCertificate(i)
  \/ \E p \in Path : retireManagedFile(p)
  \/ \E i \in AppId : retireApp(i) \/ \E p \in Package : updateApp(i, p)
  \/ syncSeedApps
  \/ CleanupLists \/ CleanupRetires \/ CleanupDropsObject \/ CleanupDropsRow \/ CleanupRefused

Spec == Init /\ [][Next]_vars
-----------------------------------------------------------------------------
(***************************************************************************)
(* Properties                                                              *)
(***************************************************************************)

Handling == [at : {"idle", "run", "undo", "ok", "failed"}, req : Request \cup {None},
             todo : Seq(StepName), app : AppId \cup {None}, pkg : Package \cup {None},
             reused : BOOLEAN]

TypeOK ==
  /\ objects \in [Key -> Content \cup {None}]
  /\ artifacts \subseteq Artifact
  /\ files \in [Job -> FileRow \cup {None}]
  /\ certs \in [Job -> CertificateRow \cup {None}]
  /\ managed \in [Path -> ManagedRow \cup {None}]
  /\ \A p \in Path : managed[p] # None => files[managed[p].file] # None
  /\ apps \in [AppId -> AppRow \cup {None}]
  /\ versions \in Seq(VersionRow)
  /\ \A v \in Range(versions) : apps[v.app] # None
  /\ job \in [Job -> Handling]
  /\ cleanup \in [todo : SUBSET Artifact, now : Artifact \cup {None},
                  step : {"next", "object", "row"}]
  /\ faults \in 0..MaxFaults

(* A client of the API has asked to store a payload of its own under a key.*)
Overwrites(j, k) ==
  /\ job[j].at # "idle"
  /\ job[j].req.kind \in {"file", "certApi"} /\ job[j].req.body /\ job[j].req.key = k

(* The artifact an upload of the dashboard made, once it reported success, *)
(* unless a client of the API uploads to its very key.                     *)
Kept(id) ==
  /\ id \in Job /\ job[id].at = "ok" /\ Derived(job[id].req)
  /\ \A j \in Job : ~Overwrites(j, id)

(* What an upload of the dashboard put in the catalogue is served intact,  *)
(* with the checksum a snapshot promises, for as long as it is offered:    *)
(* other uploads that fail and clean up, clients of the API that make rows *)
(* for its key without a payload, administrators that link its artifact    *)
(* elsewhere, the artifact cleanup and stops of the server leave it alone. *)
(* Only POST /files and POST /certificates with a payload for the very key *)
(* do not: they put it over the object before they see the conflict, and   *)
(* then delete the object.                                                 *)
OfferedIsServed ==
  /\ \A i \in ListedApps : LET v == GetLatestPublishedVersion(i) IN
       Kept(v.art) => AppDownload(v) = v.sum /\ downloadApp(i) = v.sum
  /\ \A p \in ListedFiles : LET f == files[managed[p].file] IN
       Kept(f.art) => /\ FileDownload(p) = FileChecksum(p)
                      /\ downloadManagedFile(p) = f.sum
  /\ \A i \in ListedCertificates : Kept(certs[i].art) => CertificateDownload(i) = certs[i].sum
  /\ \A i \in Job : certs[i] # None /\ Kept(certs[i].art) => downloadCertificate(i) = certs[i].sum
  /\ LET v == latestPublishedAgentAppVersion(Agent) IN
       v # None /\ Kept(v.art) => AgentDownload(Agent) = v.sum

(* An upload that has put its object and has not taken it back. *)
HasPut(j) ==
  \/ /\ job[j].at = "run"
     /\ "put" \in Range(Handler(job[j].req).steps) \ Range(job[j].todo)
  \/ job[j].at = "undo" /\ "drop" \in Range(job[j].todo)

(* As long as no call failed and nothing stopped, an object that no        *)
(* artifact row describes belongs to an upload that is still under way:    *)
(* every refused upload takes its object back, and the cleanup deletes no  *)
(* row whose object came back meanwhile.                                   *)
ObjectsAreAccounted ==
  faults = 0 =>
    \A k \in Key : objects[k] # None =>
      \/ ArtifactsAt(k) # {}
      \/ \E j \in Job : HasPut(j) /\ StorageKey(j) = k

(* Two uploads of one package never publish different payloads under one   *)
(* version code, even if both looked before either was stored.             *)
OneContentPerCode ==
  \A v, w \in Range(versions) :
    /\ v.app = w.app /\ v.code = w.code
    /\ \A u \in {v, w} : job[u.id].req.kind \in {"app", "publish"}
    /\ job[v.id].pkg = job[w.id].pkg
    => v.sum = w.sum
=============================================================================
