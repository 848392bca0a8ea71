----------------------------- MODULE ConfigSync -----------------------------
(***************************************************************************)
(* Config sync in the launcher: AgentStateStore, the state collector and   *)
(* the coroutines that fetch a snapshot and store it.                      *)
(*                                                                         *)
(* Three of them share one cache: the first sync of an enrollment, the     *)
(* periodic one, and those a sync_config command or the kiosk menu asks    *)
(* for.  The periodic one is cancelled when what it was started for        *)
(* changes, the others are not.                                            *)
(***************************************************************************)
EXTENDS ConfigSnapshots, FiniteSets

CONSTANT MaxSyncs   \* how many syncs may be under way at once

ASSUME MaxSyncsAssumption == MaxSyncs \in Nat

VARIABLES
  (* at the server *)
  served,      \* the snapshot the device's policy amounts to
  serverKey,   \* the secret the server knows, 0 before the first
  (* on the phone's disk *)
  agent,       \* what AgentStateStore holds
  (* in the launcher's memory *)
  dirty,       \* an edit the collector has not yet seen
  target,      \* configSyncTargetKey
  sync         \* the sync under way, per source

serverVars == <<served, serverKey>>
syncVars == <<agent, dirty, target, sync>>

Source == {"initial", "periodic", "request"}

IdleSync == [step |-> "idle", snap |-> None, key |-> None, state |-> None]

Target == [key : Key, snap : Snapshot \cup {None}]
SyncWork ==
  [step : {"idle", "fetch", "save", "certificates"},
   snap : Snapshot \cup {None},
   key : Key \cup {None},
   state : AgentState \cup {None}]

SyncTypeOK ==
  /\ served \in Snapshot
  /\ serverKey \in 0..MaxEnrollments
  /\ agent \in AgentState
  /\ dirty \in BOOLEAN
  /\ target \in Target \cup {None}
  /\ sync \in [Source -> SyncWork]

SyncInit ==
  /\ served \in Snapshot
  /\ serverKey = 0
  /\ agent = EmptyState
  /\ dirty = TRUE
  /\ target = None
  /\ sync = [x \in Source |-> IdleSync]

-----------------------------------------------------------------------------
(* An edit of the DataStore. *)
Edit(state) == agent' = state /\ dirty' = TRUE

(* maybeStartConfigSync, after other changes to sync. *)
maybeStartConfigSync(state, syncs) ==
  LET key == state.identity
      wanted == IF key = None THEN None
                ELSE [key |-> key,
                      snap |-> IF state.cache = None THEN None ELSE state.cache.snap]
  IN  /\ target' = wanted
      /\ sync' = IF target = wanted THEN syncs
                 ELSE [syncs EXCEPT !["periodic"] = IdleSync]

Proceed(x, step) == sync' = [sync EXCEPT ![x].step = step]

Ends(x) == sync' = [sync EXCEPT ![x] = IdleSync]

(* The sources share MaxSyncs. *)
CanSync == Cardinality({x \in Source : sync[x].step # "idle"}) < MaxSyncs

(* The secret a sync is started with: that of the state it has read, for   *)
(* the periodic one that of its target.                                    *)
KeyOf(x) ==
  CASE x = "initial" -> sync[x].key
    [] x = "periodic" -> IF target = None THEN None ELSE target.key
    [] x = "request" -> agent.identity

(* What maybeApplyCertificates looks at in a state. *)
ForCertificates(st) == [st EXCEPT !.cache = None, !.applied["apps"] = None]

(* fetchSnapshot: the server authenticates the device and signs what is    *)
(* current.  performPolicySync has read its state before.                  *)
Fetch(x) ==
  /\ IF x = "initial" THEN sync[x].step = "fetch"
     ELSE sync[x].step = "idle" /\ CanSync
  /\ KeyOf(x) # None
  /\ KeyOf(x) = serverKey
  /\ sync' = [sync EXCEPT ![x] =
       [step |-> "save", snap |-> served, key |-> serverKey,
        state |-> IF x = "request" THEN ForCertificates(agent) ELSE None]]
  /\ UNCHANGED <<agent, dirty, target, serverVars>>

(* Mutant: a snapshot is stored only if it is the first. *)
savePolicyCacheOnce(x) ==
  Edit([agent EXCEPT !.cache =
    IF @ = None THEN [snap |-> sync[x].snap, key |-> sync[x].key] ELSE @])

savePolicyCache(x) ==
  Edit([agent EXCEPT !.cache = [snap |-> sync[x].snap, key |-> sync[x].key]])

Save(x) ==
  /\ sync[x].step = "save"
  /\ savePolicyCache(x)
  /\ Proceed(x, "certificates")
  /\ UNCHANGED <<target, serverVars>>

(* The state maybeApplyCertificates is given after a sync. *)
StateAfter(x) == IF x = "request" THEN sync[x].state ELSE agent

(* A sync throws.  One with a secret that is no longer valid always does. *)
SyncThrows(x) ==
  /\ sync[x].step \in {"fetch", "save"}
  /\ Ends(x)
  /\ UNCHANGED <<agent, dirty, target, serverVars>>

(* enroll and what follows it: the identity is stored, the periodic sync   *)
(* is started for it, and the first sync begins.  How the secret comes     *)
(* about is the subject of module Enrollment.                              *)
enroll ==
  /\ agent.identity = None
  /\ CanSync
  /\ serverKey < MaxEnrollments
  /\ serverKey' = serverKey + 1
  /\ Edit([agent EXCEPT !.identity = serverKey + 1])
  /\ maybeStartConfigSync([EmptyState EXCEPT !.identity = serverKey + 1],
       [sync EXCEPT !["initial"] = [IdleSync EXCEPT !.step = "fetch",
                                                   !.key = serverKey + 1]])
  /\ UNCHANGED served

=============================================================================
