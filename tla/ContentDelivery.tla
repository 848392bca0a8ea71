-------------------------- MODULE ContentDelivery ---------------------------
(***************************************************************************)
(* Content delivery end to end: an administrator publishes snapshots, the  *)
(* launcher syncs them and applies their buckets, through restarts, failed *)
(* calls and a new enrollment.                                             *)
(***************************************************************************)
EXTENDS ManagedContent

CONSTANTS
  MaxPublishes,   \* how many times the administrator changes the content
  MaxFaults,      \* how many things go wrong
  Interrupts      \* a new bootstrap may come while a sync or a job is under way

ASSUME BoundsAssumption ==
  MaxPublishes \in Nat /\ MaxFaults \in Nat /\ Interrupts \in BOOLEAN

VARIABLES publishes, faults

boundVars == <<publishes, faults>>
vars == <<serverVars, syncVars, contentVars, boundVars>>

(* Types, and the bounds: also that a record (saveCertificates and its     *)
(* like, AgentStateStore.kt) names a snapshot and the secret it is signed  *)
(* with.                                                                   *)
TypeOK ==
  /\ SyncTypeOK
  /\ ContentTypeOK
  /\ publishes \in 0..MaxPublishes
  /\ faults \in 0..MaxFaults

Init ==
  /\ SyncInit
  /\ ContentInit
  /\ publishes = 0
  /\ faults = 0

Fault ==
  /\ faults < MaxFaults
  /\ faults' = faults + 1
  /\ UNCHANGED publishes

-----------------------------------------------------------------------------
Publish(s) ==
  /\ s # served
  /\ served' = s
  /\ publishes < MaxPublishes
  /\ publishes' = publishes + 1
  /\ UNCHANGED <<serverKey, syncVars, contentVars, faults>>

Enroll == enroll /\ UNCHANGED <<contentVars, boundVars>>

(* consumeBootstrapIntent, on the main thread: the stored state and the    *)
(* activity's memory are cleared, coroutines go on.                        *)
Reprovision ==
  /\ agent.identity # None
  /\ serverKey < MaxEnrollments
  /\ Interrupts \/ (mem.jobs = {} /\ sync = [x \in Source |-> IdleSync])
  /\ Edit(EmptyState)
  /\ mem' = [Fresh EXCEPT !.jobs = mem.jobs]
  /\ UNCHANGED <<device, target, sync, serverVars, boundVars>>

(* The collector, from maybeStartConfigSync to maybeApplyManagedApps. *)
Collect ==
  /\ dirty
  /\ dirty' = FALSE
  /\ maybeStartConfigSync(agent, sync)
  /\ mem' = maybeApplyAll(agent)
  /\ UNCHANGED <<agent, device, serverVars, boundVars>>

-----------------------------------------------------------------------------
(* The first sync ends on the main thread. *)
InitialSyncEnds ==
  LET x == sync["initial"]
  IN  /\ x.step = "certificates"
      /\ maybeStartConfigSync([EmptyState EXCEPT !.identity = x.key,
                                                 !.cache = [snap |-> x.snap, key |-> x.key]],
                              [sync EXCEPT !["initial"] = IdleSync])
      /\ mem' = maybeApply("certificates", mem, agent, x.snap, x.key)
      /\ UNCHANGED <<agent, dirty, device, serverVars, boundVars>>

(* The others call maybeApplyCertificates on a thread of their own. *)
SyncEnds(x) ==
  /\ x # "initial"
  /\ sync[x].step = "certificates"
  /\ Ends(x)
  /\ mem' = maybeApply("certificates", mem, StateAfter(x), sync[x].snap, sync[x].key)
  /\ UNCHANGED <<agent, dirty, target, device, serverVars, boundVars>>

(* There certInstallInFlight is looked at and set without a lock: a job    *)
(* that another thread starts in between is not noticed.                   *)
SyncRaces(x) ==
  LET unnoticed == [mem EXCEPT !.inFlight["certificates"] = FALSE]
  IN  /\ x # "initial"
      /\ sync[x].step = "certificates"
      /\ mem.inFlight["certificates"]
      /\ Starts("certificates", unnoticed, StateAfter(x), sync[x].snap)
      /\ Ends(x)
      /\ mem' = Start("certificates", mem, StateAfter(x), sync[x].snap, sync[x].key)
      /\ Fault
      /\ UNCHANGED <<agent, dirty, target, device, serverVars>>

SyncStep(x) ==
  \/ (Fetch(x) \/ Save(x)) /\ UNCHANGED <<contentVars, boundVars>>
  \/ SyncEnds(x)

SyncFails(x) ==
  /\ SyncThrows(x)
  /\ IF sync[x].step = "fetch" /\ sync[x].key # serverKey
     THEN UNCHANGED boundVars ELSE Fault
  /\ UNCHANGED contentVars

-----------------------------------------------------------------------------
JobStep(j) ==
  /\ \/ \E i \in j.todo : Applies(j, i)
     \/ Saves(j) \/ Marks(j)
  /\ UNCHANGED boundVars

(* A job fails by a fault, or because what it wants is outdated. *)
JobFails(j) ==
  /\ JobThrows(j)
  /\ IF j.step = "reject" \/ \E i \in j.todo \cap Wanted(j.bucket, j.snap) : ~Downloads(j, i)
     THEN UNCHANGED boundVars ELSE Fault

(* The process, or the activity, ends and is started again. *)
Restart ==
  /\ dirty' = TRUE
  /\ target' = None
  /\ sync' = [x \in Source |-> IdleSync]
  /\ mem' = Fresh
  /\ Fault
  /\ UNCHANGED <<agent, device, serverVars>>

-----------------------------------------------------------------------------
JobOf(b) ==
  \E j \in mem.jobs :
    /\ j.bucket = b
    /\ JobStep(j) \/ (JobFails(j) /\ UNCHANGED boundVars)

SyncGoesOn(x) == SyncStep(x) \/ (x = "initial" /\ InitialSyncEnds) \/ (SyncFails(x) /\ UNCHANGED boundVars)

Next ==
  \/ \E s \in Snapshot : Publish(s)
  \/ Enroll
  \/ Reprovision
  \/ Collect
  \/ InitialSyncEnds
  \/ \E x \in Source : SyncStep(x) \/ SyncRaces(x) \/ SyncFails(x)
  \/ \E j \in mem.jobs : JobStep(j) \/ JobFails(j)
  \/ Restart

Spec == Init /\ [][Next]_vars

(***************************************************************************)
(* Fairness: the collector sees an edit, syncs go on and the coroutines of *)
(* each bucket run.  No sync has to be asked for, but the periodic one     *)
(* begins again and again.                                                 *)
(***************************************************************************)
FairSpec ==
  /\ Spec
  /\ WF_vars(Collect)
  /\ WF_vars(SyncStep("periodic"))
  /\ \A x \in Source : WF_vars(sync[x].step # "idle" /\ SyncGoesOn(x))
  /\ \A b \in Bucket : WF_vars(JobOf(b))

-----------------------------------------------------------------------------
(***************************************************************************)
(* Properties                                                              *)
(***************************************************************************)
Managed(b, st) ==
  IF st.applied[b] = None THEN {} ELSE Wanted(b, st.applied[b].snap)

(* Of snapshot s, phone d has the wanted items and not the dropped ones.   *)
(* A file two wanted paths name has the content of one of them.  A file    *)
(* that a dropped path names is gone, for a wanted path as well.           *)
InPlace(d, b, s, wanted, dropped) ==
  /\ \A i \in dropped : d[b][Place(b, i)] = None
  /\ \A i \in wanted :
       \/ \E k \in dropped : Place(b, k) = Place(b, i)
       \/ \E k \in wanted : /\ Place(b, k) = Place(b, i)
                            /\ d[b][Place(b, i)] = Content[s][b][k]

(* When files or apps go on record as applied, what only the record before *)
(* wanted is gone, and what the snapshot wants is in the sandbox or        *)
(* installed, unless its file went with a dropped path that is written     *)
(* differently: no second job, no late save and no restart part way has    *)
(* put something else in its place (maybeApplyManagedFiles and             *)
(* maybeApplyManagedApps, MainActivity.kt; the removal in                  *)
(* ManagedFileInstallCoordinator.kt compares paths, not files).            *)
RecordedMeansApplied ==
  [][\A b \in {"files", "apps"} :
       (agent'.applied[b] # agent.applied[b] /\ agent'.applied[b] # None)
         => InPlace(device, b, agent'.applied[b].snap, Managed(b, agent'),
                    Managed(b, agent) \ Managed(b, agent'))]_vars

OnRecord(s) ==
  agent.cache # None /\ agent.cache.snap = s /\ \A b \in Bucket : Done(b, agent, s)

(* docs/launcher-lifecycle.md: "If config sync or content application      *)
(* fails, the launcher keeps the last known good state and retries on the  *)
(* next viable pass."  Once the administrator is done, an enrolled         *)
(* launcher has all of the content on record for good, although edits are  *)
(* skipped while a job is in flight, jobs fail part way, and files,        *)
(* certificates and apps wait for each other.                              *)
ContentConverges ==
  \A s \in Snapshot :
    <>[](served = s) => <>[](agent.identity # None => OnRecord(s))

=============================================================================
