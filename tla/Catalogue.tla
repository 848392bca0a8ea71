----------------------------- MODULE Catalogue ------------------------------
(***************************************************************************)
(* The tables of apps, versions, files, managed files, certificates and    *)
(* artifacts, the object store beside them, and what the server offers to  *)
(* devices from them.  A row is named by the request that creates it.      *)
(***************************************************************************)
EXTENDS Naturals, Sequences, FiniteSets, SequencesExt

CONSTANTS
  Job,       \* requests, and the ids of the rows they create
  ApiKey,    \* storage keys that the dashboard does not make
  Content,   \* payloads; a payload stands for its checksum, size and type
  Path,      \* paths of managed files
  None,
  Seed,      \* id of the app row the server seeds
  Legacy     \* key, and id, of an artifact row that nothing refers to

ASSUME NoneAssumption == None \notin Content \cup Job \cup {Seed}
ASSUME LegacyAssumption == Legacy \in ApiKey /\ ApiKey \cap Job = {} /\ Seed \notin Job

VARIABLES
  objects,   \* object store: key |-> payload, or None
  artifacts, \* artifact rows
  files,     \* file rows by id, or None
  certs,     \* certificate rows by id, or None
  managed,   \* managed file rows by path, or None
  apps,      \* app rows by id, or None
  versions   \* app version rows, oldest first

catVars == <<objects, artifacts, files, certs, managed, apps, versions>>

(* The dashboard makes a key of its own for every upload, a fresh UUID; a  *)
(* client of the API names any key, also one the dashboard made.           *)
Key == Job \cup ApiKey
AppId == Job \cup {Seed}
Artifact == [id : Job \cup {Legacy}, key : Key, sum : Content, status : {"active", "retired"}]

-----------------------------------------------------------------------------
(* Object store *)

Put(k, c) == objects' = [objects EXCEPT ![k] = c]
Get(k) == objects[k]
Delete(k) == objects' = [objects EXCEPT ![k] = None]

-----------------------------------------------------------------------------
(* Artifacts, files and certificates *)

ArtifactsAt(k) == {a \in artifacts : a.key = k}
ArtifactRow(id) == {a \in artifacts : a.id = id}

(* ensureArtifact refuses a key whose row describes another payload. *)
ArtifactConflict(k, c) == \E a \in ArtifactsAt(k) : a.sum # c

ensureArtifact(j, k, c) ==
  artifacts' = IF ArtifactsAt(k) # {} THEN artifacts
               ELSE artifacts \cup {[id |-> j, key |-> k, sum |-> c, status |-> "active"]}
ArtifactFor(j, k) == IF ArtifactsAt(k) # {} THEN (CHOOSE a \in ArtifactsAt(k) : TRUE).id ELSE j

(* The certificate store has a copy of both. *)
CertArtifactConflict(k, c) == ArtifactConflict(k, c)
ensureCertArtifact(j, k, c) == ensureArtifact(j, k, c)

NameTaken(rows, n) == \E i \in DOMAIN rows : rows[i] # None /\ rows[i].name = n

(* Mutant: file names need not be unique. *)
FileAcceptedAnyName(n, k, c) == ~ArtifactConflict(k, c)

FileAccepted(n, k, c) == ~ArtifactConflict(k, c) /\ ~NameTaken(files, n)
CreateFile(j, n, k, c) ==
  /\ FileAccepted(n, k, c)
  /\ ensureArtifact(j, k, c)
  /\ files' = [files EXCEPT ![j] =
                 [name |-> n, art |-> ArtifactFor(j, k), sum |-> c, status |-> "active"]]

CertificateAccepted(n, k, c) == ~CertArtifactConflict(k, c) /\ ~NameTaken(certs, n)
CreateCertificate(j, n, k, c) ==
  /\ CertificateAccepted(n, k, c)
  /\ ensureCertArtifact(j, k, c)
  /\ certs' = [certs EXCEPT ![j] =
                 [name |-> n, art |-> ArtifactFor(j, k), sum |-> c, status |-> "active"]]

RetireFile(i) == files[i] # None /\ files' = [files EXCEPT ![i].status = "retired"]
RetireCertificate(i) == certs[i] # None /\ certs' = [certs EXCEPT ![i].status = "retired"]

-----------------------------------------------------------------------------
(* Artifact rows no table refers to, whatever the status of the referring row. *)

Referring(rows, a) == \E i \in DOMAIN rows : rows[i] # None /\ rows[i].art = a.id

(* Mutant: files are left out of the query. *)
ListOrphansByCertificate ==
  {a \in artifacts : ~Referring(certs, a) /\ ~Referring(versions, a)}

ListOrphanArtifacts ==
  {a \in artifacts : /\ ~Referring(files, a)
                     /\ ~Referring(certs, a)
                     /\ ~Referring(versions, a)}

RetireArtifact(id) ==
  artifacts' = {IF a.id = id THEN [a EXCEPT !.status = "retired"] ELSE a : a \in artifacts}

(* Foreign keys protect the rows of files and certificates, not versions.  *)
Deletable(a) == ~Referring(files, a) /\ ~Referring(certs, a)
DeleteArtifact(id) == artifacts' = artifacts \ ArtifactRow(id)

-----------------------------------------------------------------------------
(* Managed files: one row per path, taken over by a later binding. *)

(* Mutant: the source is not looked up. *)
loadSourceFileUnchecked(f) == TRUE

loadSourceFile(f) == files[f] # None /\ files[f].status = "active"

CreateManagedFile(p, f, vars) ==
  /\ loadSourceFile(f)
  /\ managed' = [managed EXCEPT ![p] = [file |-> f, vars |-> vars, status |-> "active"]]

RetireManagedFile(p) == managed[p] # None /\ managed' = [managed EXCEPT ![p].status = "retired"]

-----------------------------------------------------------------------------
(* Apps and versions *)

AppsNamed(p) == {i \in AppId : apps[i] # None /\ apps[i].pkg = p}

(* GetAppByPackageName, for a package that has a row. *)
GetAppByPackageName(p) == CHOOSE i \in AppsNamed(p) : TRUE

CreateApp(j, p) ==
  /\ AppsNamed(p) = {}
  /\ apps' = [apps EXCEPT ![j] = [pkg |-> p, system |-> FALSE, status |-> "active"]]

(* Server start: takes over no app of an administrator. *)
UpsertSystemOwnedApp(p) ==
  \/ /\ AppsNamed(p) = {}
     /\ apps' = [apps EXCEPT ![Seed] = [pkg |-> p, system |-> TRUE, status |-> "active"]]
  \/ /\ AppsNamed(p) # {}
     /\ LET i == GetAppByPackageName(p) IN
          /\ apps[i].system
          /\ apps' = [apps EXCEPT ![i].status = "active"]

UpdateApp(i, p) ==
  /\ apps[i] # None /\ ~apps[i].system
  /\ AppsNamed(p) \subseteq {i}
  /\ apps' = [apps EXCEPT ![i].pkg = p]

RetireApp(i) ==
  /\ apps[i] # None /\ ~apps[i].system
  /\ apps' = [apps EXCEPT ![i].status = "retired"]

(* The rows of versions by their place; the last of some of them, or None. *)
VersionsOf(i) == {n \in DOMAIN versions : versions[n].app = i}
LastOf(places) == IF places = {} THEN None ELSE versions[Max(places)]

(* The newest version with a code. *)
GetVersionByCode(i, code) == LastOf({n \in VersionsOf(i) : versions[n].code = code})

(* The version published last, whatever its code. *)
GetLatestPublishedVersion(i) == LastOf({n \in VersionsOf(i) : versions[n].status = "published"})

(* An artifact is optional; with one, the row must have the checksum. *)
VersionAccepted(v) ==
  /\ apps[v.app] # None /\ apps[v.app].status # "retired"
  /\ v.art # None => \E a \in ArtifactRow(v.art) : a.sum = v.sum
  /\ ~\E w \in Range(versions) : w.app = v.app /\ w.name = v.name /\ w.code = v.code
CreateVersion(v) == VersionAccepted(v) /\ versions' = Append(versions, v)

-----------------------------------------------------------------------------
(* What a snapshot offers if everything is assigned, and what the download *)
(* routes answer: None where the row or the object is gone.                *)

ListedApps == {i \in AppId : /\ apps[i] # None
                             /\ apps[i].status = "active"
                             /\ GetLatestPublishedVersion(i) # None
                             /\ GetLatestPublishedVersion(i).art # None}
ListedFiles == {p \in Path : managed[p] # None /\ managed[p].status = "active"}
ListedCertificates == {i \in Job : certs[i] # None /\ certs[i].status = "active"}

Stored(rows) == IF rows = {} THEN None ELSE Get((CHOOSE a \in rows : TRUE).key)

GetVersion(v) == IF v.art = None THEN {} ELSE ArtifactRow(v.art)
GetFile(i) == ArtifactRow(files[i].art)
GetManagedFile(p) == GetFile(managed[p].file)
GetCertificate(i) == ArtifactRow(certs[i].art)

(* Variables are replaced in a managed file that asks for it, both for the *)
(* checksum in the snapshot and in the download.                           *)
RenderTemplate(p, c) == IF managed[p].vars /\ c # None THEN <<c>> ELSE c
renderedManagedFileContent(p) == RenderTemplate(p, Stored(GetManagedFile(p)))
FileChecksum(p) ==
  IF managed[p].vars THEN renderedManagedFileContent(p) ELSE files[managed[p].file].sum

AppDownload(v) == IF v.status = "published" THEN Stored(GetVersion(v)) ELSE None
FileDownload(p) ==
  IF managed[p].status = "active" THEN RenderTemplate(p, Stored(GetManagedFile(p))) ELSE None
CertificateDownload(i) == IF certs[i].status = "active" THEN Stored(GetCertificate(i)) ELSE None

(* The dashboard downloads what is retired, too. *)
downloadApp(i) ==
  LET v == GetLatestPublishedVersion(i) IN IF v = None THEN None ELSE Stored(GetVersion(v))
downloadManagedFile(p) == IF managed[p].status = "active" THEN Stored(GetManagedFile(p)) ELSE None
downloadCertificate(i) == Stored(GetCertificate(i))

(* The enrollment QR points to the agent's latest version, without a login. *)
latestPublishedAgentAppVersion(p) ==
  IF AppsNamed(p) \cap ListedApps = {} THEN None
  ELSE GetLatestPublishedVersion(GetAppByPackageName(p))
AgentDownload(p) ==
  LET v == latestPublishedAgentAppVersion(p) IN IF v = None THEN None ELSE AppDownload(v)

-----------------------------------------------------------------------------
(* A fresh installation, or one that a restore left with an artifact that *)
(* nothing refers to.                                                      *)
InitCatalogue ==
  /\ artifacts \in {{}} \cup
       {{[id |-> Legacy, key |-> Legacy, sum |-> c, status |-> "active"]} : c \in Content}
  /\ objects = [k \in Key |-> IF ArtifactsAt(k) = {} THEN None
                             ELSE (CHOOSE a \in ArtifactsAt(k) : TRUE).sum]
  /\ files = [i \in Job |-> None]
  /\ certs = [i \in Job |-> None]
  /\ managed = [p \in Path |-> None]
  /\ apps = [i \in AppId |-> None]
  /\ versions = <<>>
=============================================================================
