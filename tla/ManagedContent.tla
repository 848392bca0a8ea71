--------------------------- MODULE ManagedContent ---------------------------
(***************************************************************************)
(* Managed files, certificates and apps in the launcher: the decisions     *)
(* maybeApplyManagedFiles, maybeApplyCertificates and maybeApplyManagedApps *)
(* take on a state, and the coroutines that apply a bucket.                *)
(*                                                                         *)
(* What an activity remembers is one record: last is                       *)
(* last...SnapshotVersion, inFlight is ...InstallInFlight, jobs are the    *)
(* coroutines.  Certificates are only ever added to the trust store, which *)
(* nothing reads back; device is what is in the sandbox and installed.     *)
(***************************************************************************)
EXTENDS ConfigSync

(* A path may be written in several ways ("/a", "./a", "a"): SandboxFile   *)
(* picks one path for each file.                                           *)
CONSTANT SandboxFile
ASSUME SandboxFileAssumption == SandboxFile \in [Item -> Item]

VARIABLES
  mem,      \* the activity's memory of what it applied
  device    \* files in the sandbox and versions of installed packages

contentVars == <<mem, device>>

Fresh ==
  [last |-> [b \in Bucket |-> None],
   inFlight |-> [b \in Bucket |-> FALSE],
   jobs |-> {}]

Job ==
  [bucket : Bucket, step : {"apply", "clear", "mark", "reject"},
   snap : Snapshot, key : Key, todo : SUBSET Item]
Memory ==
  [last : [Bucket -> Snapshot \cup [Item -> Value \cup {None}] \cup {None}],
   inFlight : [Bucket -> BOOLEAN],
   jobs : SUBSET Job]

ContentTypeOK ==
  /\ mem \in Memory
  /\ device \in [{"files", "apps"} -> [Item -> Value \cup {None}]]

ContentInit ==
  /\ mem = Fresh
  /\ device = [b \in {"files", "apps"} |-> [i \in Item |-> None]]

-----------------------------------------------------------------------------
(***************************************************************************)
(* Decisions.  s is the snapshot to apply, st the state that was read.     *)
(***************************************************************************)
Has(b, st, s) ==
  st.applied[b] # None /\ Version(b, st.applied[b].snap) = Version(b, s)

(* A bucket that others wait for: on record and not being replaced. *)
Settled(b, m, st, s) ==
  Wanted(b, s) # {} => Has(b, st, s) /\ m.last[b] \in {None, Version(b, s)}

Before(b) ==
  CASE b = "files" -> {}
    [] b = "certificates" -> {"files"}
    [] b = "apps" -> {"files", "certificates"}

(* A snapshot without certificates only clears the record. *)
Clears(b, s) == b = "certificates" /\ Wanted(b, s) = {}

Done(b, st, s) == Has(b, st, s) \/ (Clears(b, s) /\ st.applied[b] = None)

Attempted(b, m, st, s) ==
  /\ m.last[b] = Version(b, s)
  /\ ~Clears(b, s)
  /\ b = "apps" => st.applied[b] # None

(* The verifier rejects what another secret signed, also the snapshot      *)
(* applied before.                                                         *)
Verifies(b, st, key) ==
  /\ key = st.identity
  /\ (b # "certificates" /\ st.applied[b] # None) => st.applied[b].key = st.identity

(* Mutant: a package is removed only when another version replaces it. *)
ToDoWanted(b, st, s) ==
  IF b = "apps" THEN {i \in Wanted(b, s) : device[b][i] # Content[s][b][i]}
  ELSE Wanted(b, s)

(* resolveTarget: where an item is on the phone. *)
Place(b, i) == IF b = "files" THEN SandboxFile[i] ELSE i

(* What a job has to write, install, delete or uninstall.  Paths are       *)
(* compared as they are written.                                           *)
ToDo(b, st, s) ==
  LET gone == IF st.applied[b] = None THEN {}
              ELSE Wanted(b, st.applied[b].snap) \ Wanted(b, s)
  IN  CASE b = "files" -> Wanted(b, s) \cup gone
        [] b = "certificates" -> Wanted(b, s)
        [] b = "apps" -> {i \in Wanted(b, s) : device[b][i] # Content[s][b][i]} \cup gone

Start(b, m, st, s, key) ==
  [m EXCEPT
     !.inFlight[b] = TRUE,
     !.jobs = @ \cup {[bucket |-> b,
                       step |-> IF Clears(b, s) THEN "clear"
                                ELSE IF Verifies(b, st, key) THEN "apply" ELSE "reject",
                       snap |-> s, key |-> st.identity,
                       todo |-> ToDo(b, st, s)]}]

MayStart(b, m, st, s) ==
  /\ st.identity # None
  /\ ~m.inFlight[b]
  /\ \A c \in Before(b) : Settled(c, m, st, s)

Starts(b, m, st, s) ==
  MayStart(b, m, st, s) /\ ~Done(b, st, s) /\ ~Attempted(b, m, st, s)

maybeApply(b, m, st, s, key) ==
  IF Starts(b, m, st, s) THEN Start(b, m, st, s, key)
  ELSE IF MayStart(b, m, st, s) /\ Done(b, st, s)
       THEN [m EXCEPT !.last[b] = Version(b, s)]
       ELSE m

(* The collector's three calls, in their order. *)
maybeApplyAll(st) ==
  LET s == st.cache.snap
      key == st.cache.key
      files == maybeApply("files", mem, st, s, key)
      certificates == maybeApply("certificates", files, st, s, key)
  IN  IF st.cache = None THEN mem
      ELSE maybeApply("apps", certificates, st, s, key)

-----------------------------------------------------------------------------
(***************************************************************************)
(* The coroutines                                                          *)
(***************************************************************************)
Replace(j, k) == [mem EXCEPT !.jobs = (@ \ {j}) \cup {k}]

(* The finally block, on the main thread. *)
Finish(j) == [mem EXCEPT !.jobs = @ \ {j}, !.inFlight[j.bucket] = FALSE]

(* The artifact the server has for an item is the one the job wants. *)
Downloads(j, i) ==
  j.key = serverKey /\ Content[served][j.bucket][i] = Content[j.snap][j.bucket][i]

(* One item: what is wanted comes first, what is gone is removed then.  An *)
(* artifact that is no longer current may still be there.                  *)
Applies(j, i) ==
  LET b == j.bucket
      wanted == j.todo \cap Wanted(b, j.snap)
  IN  /\ j.step = "apply"
      /\ i \in IF wanted # {} THEN wanted ELSE j.todo
      /\ i \in wanted => j.key = serverKey
      /\ device' = IF b = "certificates" THEN device
                   ELSE [device EXCEPT ![b][Place(b, i)] = Content[j.snap][b][i]]
      /\ mem' = Replace(j, [j EXCEPT !.todo = @ \ {i}])
      /\ UNCHANGED <<syncVars, serverVars>>

(* The verifier, a download, an install or the edit throws. *)
JobThrows(j) ==
  /\ j.step # "mark"
  /\ mem' = Finish(j)
  /\ UNCHANGED <<device, syncVars, serverVars>>

(* Mutant: the bucket's version is put where its snapshot belongs. *)
SavesVersion(j) ==
  /\ j.step = "clear" \/ (j.step = "apply" /\ j.todo = {})
  /\ Edit([agent EXCEPT !.applied[j.bucket] =
       IF j.step = "clear" THEN None
       ELSE [snap |-> Version(j.bucket, j.snap), key |-> j.key]])
  /\ mem' = Replace(j, [j EXCEPT !.step = "mark"])
  /\ UNCHANGED <<device, target, sync, serverVars>>

(* saveManagedFiles, saveCertificates, saveManagedApps, clearCertificates. *)
Saves(j) ==
  /\ j.step = "clear" \/ (j.step = "apply" /\ j.todo = {})
  /\ Edit([agent EXCEPT !.applied[j.bucket] =
       IF j.step = "clear" THEN None ELSE [snap |-> j.snap, key |-> j.key]])
  /\ mem' = Replace(j, [j EXCEPT !.step = "mark"])
  /\ UNCHANGED <<device, target, sync, serverVars>>

(* The last...SnapshotVersion of the bucket, and the end of the job. *)
Marks(j) ==
  /\ j.step = "mark"
  /\ mem' = [Finish(j) EXCEPT !.last[j.bucket] = Version(j.bucket, j.snap)]
  /\ UNCHANGED <<device, syncVars, serverVars>>

=============================================================================
