-------------------------------- MODULE Kiosk -------------------------------
(***************************************************************************)
(* Kiosk mode in the launcher: when the phone is locked to the launcher or *)
(* to the kiosk app, and who may leave it.  The stored state changes by    *)
(* syncs, by content that is applied and by exits and entries; the         *)
(* activity acts on copies of it (latestState, and what a coroutine has    *)
(* read) that may be older.                                                *)
(*                                                                         *)
(* How content is applied is the subject of module ManagedContent: here a  *)
(* coroutine puts the files and then the apps of a snapshot on record.     *)
(***************************************************************************)
EXTENDS Integers

CONSTANTS
  Snapshot,
  Rev,          \* the version of a snapshot: a hash, so in no order
  Policy,       \* of a snapshot: whether it is a kiosk, its passcode, its app or None
  Passcode,
  Launcher,     \* the launcher's own package
  None,
  MaxPublishes, \* bound: new policies
  MaxEvents     \* bound: menus that are opened, commands, restarts

ASSUME SnapshotAssumption ==
  /\ Rev \in [Snapshot -> Int]
  /\ \A s, t \in Snapshot : Rev[s] = Rev[t] => s = t
  /\ \A s \in Snapshot : Policy[s].kiosk \in BOOLEAN /\ Policy[s].code \in Passcode \cup {None}
  /\ None \notin Snapshot \cup Passcode \cup Int
ASSUME BoundsAssumption == {MaxPublishes, MaxEvents} \subseteq Nat

VARIABLES
  disk,      \* what AgentStateStore holds
  latest,    \* latestState
  dirty,     \* an edit the collector has not yet seen
  starting,  \* "no", or why the activity was created: "boot", "open"
  lock,      \* appliedKioskMode, appliedKioskPackage; whose task the phone is locked
             \* to, or None; the packages setLockTaskPackages has allowed
  asked, open, reapply,   \* the menu is asked for, shown; kioskAdminMenuShouldReapply
  dialog,    \* the snapshot whose passcode the exit dialog asks for, or None
  task,      \* coroutines: the state each has read, and its next step
  publishes, events

memoryVars == <<latest, dirty, starting, lock, asked, open, reapply, dialog, task>>
boundVars == <<publishes, events>>
vars == <<disk, memoryVars, boundVars>>

EmptyState == [cache |-> None, files |-> None, apps |-> None, suppressed |-> None]

Worker == {"exit", "entry", "command", "sync", "content"}
Idle == [step |-> "idle", state |-> EmptyState]

-----------------------------------------------------------------------------
(* What a state asks for *)

isPolicyContentReady(st) == st.files \in {None, st.cache} /\ st.apps \in {None, st.cache}

isKioskExitSuppressed(st) == st.suppressed # None /\ Rev[st.cache] <= st.suppressed

(* kioskModeEnabled, kioskExitPasscodeConfigured and the content. *)
MayEnter(st) ==
  /\ st.cache # None
  /\ Policy[st.cache].kiosk
  /\ Policy[st.cache].code # None
  /\ isPolicyContentReady(st)

kioskPolicyActive(st) == MayEnter(st) /\ ~isKioskExitSuppressed(st)

-----------------------------------------------------------------------------
(* KioskModeController.  The launcher is the device owner.  What it does    *)
(* has several outcomes, as an app may fail to launch: each operator is    *)
(* the set of locks it can leave.  isInLockTaskMode is true while the      *)
(* phone is locked to the launcher, as in KioskModeControllerTest's host.  *)

Package(st) == IF Policy[st.cache].app = None THEN Launcher ELSE Policy[st.cache].app

LocksLauncher(p) == [lock EXCEPT !.holder = Launcher, !.allowed = {Launcher, p}]

(* An app that is launched takes the lock with it: the launcher ends its   *)
(* own and goes to the back.  If the launch fails the launcher is locked   *)
(* in the place of the app, and takes itself for what is applied.          *)
enforceKiosk(p) ==
  IF p = Launcher THEN {LocksLauncher(p)}
  ELSE {[mode |-> "on", app |-> p, holder |-> p, allowed |-> {Launcher, p}],
        [LocksLauncher(p) EXCEPT !.mode = "on", !.app = Launcher]}

Unlocked == [mode |-> "off", app |-> None, holder |-> None, allowed |-> {}]

(* Mutant: a lock the controller does not know to have applied is left.    *)
applyOwn(st, forceLaunch) ==
  IF kioskPolicyActive(st)
  THEN {[l EXCEPT !.mode = "on", !.app = Package(st)] : l \in enforceKiosk(Package(st))}
  ELSE IF lock.mode # "on" THEN {lock} ELSE {Unlocked}

(* After a failed launch too, what is wanted is noted as what is applied.  *)
apply(st, forceLaunch) ==
  LET p == Package(st)
      inLockTaskMode == lock.holder = Launcher
      holds == /\ lock.mode = "on" /\ lock.app = p /\ ~forceLaunch
               /\ p # Launcher \/ inLockTaskMode
  IN  IF kioskPolicyActive(st)
      THEN IF holds THEN {lock} ELSE {[l EXCEPT !.mode = "on", !.app = p] : l \in enforceKiosk(p)}
      ELSE IF lock.mode = "off" /\ ~inLockTaskMode THEN {lock} ELSE {Unlocked}

(* The hand-over: launchConfiguredKioskApp, if an app is configured that   *)
(* can be launched, and apply if it is not or the launch fails.            *)
Handoff(st) ==
  IF ~kioskPolicyActive(st) \/ Policy[st.cache].app = None THEN apply(st, FALSE)
  ELSE IF Package(st) = Launcher THEN enforceKiosk(Launcher)
  ELSE apply(st, FALSE) \cup apply(st, TRUE)

-----------------------------------------------------------------------------
(* The store and its collector *)

Edit(st) == disk' = st /\ dirty' = TRUE

(* A sync stores a snapshot with the time it was fetched, so that an edit  *)
(* is seen even if nothing else changed.                                   *)
savePolicyCache(s) == Edit([disk EXCEPT !.cache = s])

SyncsNew(s) ==
  /\ s # disk.cache
  /\ publishes < MaxPublishes
  /\ publishes' = publishes + 1
  /\ savePolicyCache(s)
  /\ UNCHANGED <<latest, starting, lock, asked, open, reapply, dialog, task, events>>

SyncsSame ==
  /\ disk.cache # None
  /\ ~dirty
  /\ savePolicyCache(disk.cache)
  /\ UNCHANGED <<latest, starting, lock, asked, open, reapply, dialog, task, boundVars>>

Collect ==
  /\ starting = "no" /\ dirty
  /\ dirty' = FALSE
  /\ latest' = disk
  /\ lock' \in IF reapply THEN {lock} ELSE apply(disk, FALSE)
  /\ UNCHANGED <<disk, starting, asked, open, reapply, dialog, task, boundVars>>

onResume ==
  /\ ~reapply
  /\ lock' \in apply(latest, FALSE)
  /\ UNCHANGED <<disk, latest, dirty, starting, asked, open, reapply, dialog, task, boundVars>>

(* clearBootKioskExitSuppression, if the activity was started from boot. *)
startLauncherRuntime ==
  /\ starting # "no"
  /\ starting' = "no"
  /\ dirty' = TRUE
  /\ LET cleared == [disk EXCEPT !.suppressed = None]
     IN  IF starting = "boot" /\ disk.suppressed # None THEN disk' = cleared /\ latest' = cleared
         ELSE UNCHANGED <<disk, latest>>
  /\ UNCHANGED <<lock, asked, open, reapply, dialog, task, boundVars>>

-----------------------------------------------------------------------------
(* The menu and the exit dialog *)

Happens == events < MaxEvents /\ events' = events + 1 /\ UNCHANGED publishes

(* By the gesture, or by the overlay above the kiosk app. *)
requestKioskAdminMenu ==
  /\ Happens
  /\ latest' = disk
  /\ asked' = TRUE /\ reapply' = TRUE
  /\ UNCHANGED <<disk, dirty, starting, lock, open, dialog, task>>

showKioskAdminMenu ==
  /\ asked
  /\ asked' = FALSE /\ open' = TRUE
  /\ UNCHANGED <<disk, latest, dirty, starting, lock, reapply, dialog, task, boundVars>>

Launches(w) == task[w].step = "idle" /\ task' = [task EXCEPT ![w].step = "read"]

(* Enter or exit. *)
ChoosesKiosk ==
  /\ open
  /\ open' = FALSE /\ reapply' = FALSE
  /\ IF kioskPolicyActive(latest)
     THEN dialog' = (IF dialog = None THEN latest.cache ELSE dialog) /\ UNCHANGED task
     ELSE Launches("entry") /\ UNCHANGED dialog
  /\ UNCHANGED <<disk, latest, dirty, starting, lock, asked, boundVars>>

ChoosesSync ==
  /\ open
  /\ open' = FALSE /\ reapply' = FALSE
  /\ Launches("sync") \/ (task["sync"].step # "idle" /\ UNCHANGED task)
  /\ UNCHANGED <<disk, latest, dirty, starting, lock, asked, dialog, boundVars>>

CancelsMenu ==
  /\ open
  /\ open' = FALSE /\ reapply' = FALSE
  /\ lock' \in IF reapply THEN apply(latest, FALSE) ELSE {lock}
  /\ UNCHANGED <<disk, latest, dirty, starting, asked, dialog, task, boundVars>>

submitKioskExitPasscode(code) ==
  /\ dialog # None
  /\ Policy[dialog].code = code
  /\ dialog' = None
  /\ Launches("exit")
  /\ UNCHANGED <<disk, latest, dirty, starting, lock, asked, open, reapply, boundVars>>

CancelsDialog ==
  /\ dialog # None
  /\ dialog' = None
  /\ lock' \in apply(latest, FALSE)
  /\ UNCHANGED <<disk, latest, dirty, starting, asked, open, reapply, task, boundVars>>

(* An exit_kiosk command that was acknowledged. *)
applyCommandSideEffectAfterAckIfNeeded ==
  /\ Happens
  /\ Launches("command")
  /\ UNCHANGED <<disk, latest, dirty, starting, lock, asked, open, reapply, dialog>>

-----------------------------------------------------------------------------
(* The coroutines *)

Continues(w, step, st) == task' = [task EXCEPT ![w] = [step |-> step, state |-> st]]
Ends(w) == task' = [task EXCEPT ![w] = Idle]

(* requestLocalKioskExitFromUser, requestLocalKioskEntryFromUser, the      *)
(* command, and the end of a sync from the menu, which may have failed.    *)
Reads(w) ==
  /\ w # "content"
  /\ task[w].step = "read"
  /\ LET exits == [disk EXCEPT !.suppressed = Rev[disk.cache]]
         enters == [disk EXCEPT !.suppressed = None]
         goes == CASE w = "exit" -> kioskPolicyActive(disk)
                   [] w = "entry" -> MayEnter(disk)
                   [] w \in {"command", "sync"} -> disk.cache # None
     IN  \/ /\ goes
            /\ CASE w \in {"exit", "command"} -> Continues(w, "save", exits)
                 [] w = "entry" -> Continues(w, "save", enters)
                 [] w = "sync" -> Continues(w, "apply", disk)
         \/ (~goes \/ w = "sync") /\ Ends(w)
  /\ UNCHANGED <<disk, latest, dirty, starting, lock, asked, open, reapply, dialog, boundVars>>

saveKioskControl(w) ==
  /\ task[w].step = "save"
  /\ Edit([disk EXCEPT !.suppressed = task[w].state.suppressed])
  /\ task' = [task EXCEPT ![w].step = "apply"]
  /\ UNCHANGED <<latest, starting, lock, asked, open, reapply, dialog, boundVars>>

(* On the main thread, with the state read before the edit. *)
Applies(w) ==
  /\ w # "content"
  /\ task[w].step = "apply"
  /\ latest' = task[w].state
  /\ lock' \in apply(task[w].state, w = "entry")
  /\ Ends(w)
  /\ UNCHANGED <<disk, dirty, starting, asked, open, reapply, dialog, boundVars>>

Wants(s) == [EmptyState EXCEPT !.cache = s]

(* The files of the cached snapshot, then its apps: they wait for the      *)
(* files if the snapshot has some, as it does here.                        *)
ContentStarts ==
  /\ task["content"].step = "idle" /\ starting = "no"
  /\ disk.cache # None
  /\ \/ disk.files # disk.cache /\ Continues("content", "files", Wants(disk.cache))
     \/ disk.files = disk.cache /\ disk.apps # disk.cache /\ Continues("content", "apps", Wants(disk.cache))
  /\ UNCHANGED <<disk, latest, dirty, starting, lock, asked, open, reapply, dialog, boundVars>>

ContentSaves ==
  LET s == task["content"].state.cache
  IN  /\ \/ /\ task["content"].step = "files"
            /\ Edit([disk EXCEPT !.files = s])
            /\ Ends("content")
         \/ /\ task["content"].step = "apps"
            /\ Edit([disk EXCEPT !.apps = s])
            /\ Continues("content", "read", [EmptyState EXCEPT !.apps = s])
      /\ UNCHANGED <<latest, starting, lock, asked, open, reapply, dialog, boundVars>>

(* The hand-over to the kiosk app, with what the activity last saw. *)
ContentHandsOver ==
  LET t == task["content"]
  IN  /\ \/ /\ t.step = "read"
            /\ Continues("content", "apply", [latest EXCEPT !.apps = t.state.apps])
            /\ UNCHANGED lock
         \/ /\ t.step = "apply"
            /\ lock' \in Handoff(t.state)
            /\ Ends("content")
      /\ UNCHANGED <<disk, latest, dirty, starting, asked, open, reapply, dialog, boundVars>>

-----------------------------------------------------------------------------
(* The activity is created anew: from boot, from the home screen, or by    *)
(* the system with the intent it had.  The lock ends with a boot, and may  *)
(* end otherwise.  An intent for the menu asks for it at once.             *)
onCreate(why) ==
  /\ Happens
  /\ latest' = EmptyState /\ starting' = why /\ dirty' = TRUE
  /\ \E h \in {lock.holder, None} :
       lock' = [lock EXCEPT !.mode = "unknown", !.app = None, !.holder = h]
  /\ asked' = FALSE /\ open' = FALSE /\ reapply' = FALSE /\ dialog' = None
  /\ task' = [w \in Worker |-> Idle]
  /\ UNCHANGED disk

-----------------------------------------------------------------------------
Init ==
  /\ disk = EmptyState /\ latest = EmptyState
  /\ dirty = TRUE /\ starting = "open"
  /\ lock = [mode |-> "unknown", app |-> None, holder |-> None, allowed |-> {}]
  /\ asked = FALSE /\ open = FALSE /\ reapply = FALSE
  /\ dialog = None
  /\ task = [w \in Worker |-> Idle]
  /\ publishes = 0 /\ events = 0

Runs(w) == Reads(w) \/ saveKioskControl(w) \/ Applies(w)
ContentRuns == ContentStarts \/ ContentSaves \/ ContentHandsOver

Next ==
  \/ \E s \in Snapshot : SyncsNew(s)
  \/ SyncsSame \/ Collect \/ onResume \/ startLauncherRuntime
  \/ requestKioskAdminMenu \/ showKioskAdminMenu
  \/ ChoosesKiosk \/ ChoosesSync \/ CancelsMenu
  \/ \E code \in Passcode : submitKioskExitPasscode(code)
  \/ CancelsDialog
  \/ applyCommandSideEffectAfterAckIfNeeded
  \/ \E w \in Worker : Runs(w)
  \/ ContentRuns
  \/ \E why \in {"boot", "open"} : onCreate(why)

(* The runtime starts, syncs and emissions go on, coroutines run.  Nobody  *)
(* has to close a menu, and the activity need not be resumed.              *)
Spec ==
  /\ Init /\ [][Next]_vars
  /\ WF_vars(startLauncherRuntime) /\ WF_vars(SyncsSame) /\ WF_vars(Collect)
  /\ WF_vars(showKioskAdminMenu) /\ WF_vars(ContentRuns)
  /\ \A w \in Worker : WF_vars(Runs(w))

-----------------------------------------------------------------------------
(* docs/launcher-lifecycle.md: "The launcher enters kiosk mode when policy *)
(* requires it."  In the end the phone is locked if and only if the stored *)
(* state asks for it, to its app or to the launcher in its place, and lets *)
(* run these two and no others, unless somebody leaves the menu open:      *)
(* although coroutines put an older copy in the place of latestState and   *)
(* act on it, the menu makes the collector skip what it sees, and the      *)
(* hand-over locks a launcher that takes itself to be off.                 *)
Locked(st) == lock.holder \in {Launcher, Package(st)} /\ lock.allowed = {Launcher, Package(st)}

KioskSettles ==
  <>[](\/ open
       \/ IF kioskPolicyActive(disk) THEN Locked(disk) ELSE lock.holder = None /\ lock.allowed = {})
=============================================================================
