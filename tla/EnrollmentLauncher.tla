------------------------- MODULE EnrollmentLauncher -------------------------
(***************************************************************************)
(* The launcher's side of enrollment, on each phone: the activity and its  *)
(* intent, the bootstrap intake, the stored agent state (DataStore), the   *)
(* enrollment state machine and the enrollment coroutines.                 *)
(*                                                                         *)
(* What the main thread does in one go is one step.  The intake blocks the *)
(* main thread over two DataStore edits, between which the process may     *)
(* die.  The coroutines' network calls and edits run beside it.            *)
(***************************************************************************)
EXTENDS Bootstraps

CONSTANTS
  Phone,
  Call,      \* slots for enrollment coroutines, more than ever run at once
  Malformed, \* an intent whose payload does not parse
  None

ASSUME IntentAssumption ==
  /\ None \notin Bootstrap \cup {Malformed} \cup (Device \X Nat) \cup Token \cup Device
  /\ Malformed \notin Bootstrap

VARIABLES
  (* the activity *)
  intent,    \* the activity's intent; None when it carries no bootstrap
  app,       \* off, created, in the middle of the intake, or running
  (* on disk *)
  boot,      \* the stored bootstrap
  identity,  \* the stored device id and secret
  (* in memory *)
  machine,   \* LauncherEnrollmentStateMachine
  attempted, \* lastEnrollmentAttemptBootstrapJson
  seen,      \* a state the DataStore emitted, not yet collected
  call,      \* the enrollment coroutines
  (* history *)
  fresh      \* the intent has not been taken in yet

diskVars == <<boot, identity>>
memoryVars == <<machine, attempted, seen, call>>
phoneVars == <<intent, app, diskVars, memoryVars, fresh>>

Identity == Device \X Nat
NoState == << >>
Coroutine == [step : {"idle", "sent", "ok", "saved", "error"},
              boot : Bootstrap \cup {None}, secret : Nat]
IdleCall == [step |-> "idle", boot |-> None, secret |-> 0]

LauncherTypeOK ==
  /\ intent \in [Phone -> Bootstrap \cup {Malformed, None}]
  /\ app \in [Phone -> {"off", "created", "cleared", "running"}]
  /\ boot \in [Phone -> Bootstrap \cup {None}]
  /\ identity \in [Phone -> Identity \cup {None}]
  /\ machine \in [Phone -> {"Idle", "BootstrapReady", "Enrolling",
                            "Enrolled", "Failed"}]
  /\ attempted \in [Phone -> Bootstrap \cup {None}]
  /\ seen \in [Phone -> {NoState} \cup
                        ((Bootstrap \cup {None}) \X (Identity \cup {None}))]
  /\ call \in [Phone -> [Call -> Coroutine]]
  /\ fresh \subseteq Phone

LauncherInit ==
  /\ intent = [p \in Phone |-> None]
  /\ app = [p \in Phone |-> "off"]
  /\ boot = [p \in Phone |-> None]
  /\ identity = [p \in Phone |-> None]
  /\ machine = [p \in Phone |-> "Idle"]
  /\ attempted = [p \in Phone |-> None]
  /\ seen = [p \in Phone |-> NoState]
  /\ call = [p \in Phone |-> [k \in Call |-> IdleCall]]
  /\ fresh = {}

-----------------------------------------------------------------------------
(***************************************************************************)
(* The activity                                                            *)
(***************************************************************************)

(* A new activity has a new state machine; its predecessor's coroutines    *)
(* were cancelled with it.                                                 *)
NewActivity(p) ==
  /\ app' = [app EXCEPT ![p] = "created"]
  /\ machine' = [machine EXCEPT ![p] = "Idle"]
  /\ attempted' = [attempted EXCEPT ![p] = None]
  /\ seen' = [seen EXCEPT ![p] = NoState]
  /\ call' = [call EXCEPT ![p] = [k \in Call |-> IdleCall]]

(* onCreate: launched with a provisioning intent or, after a boot or from  *)
(* the home screen, with none.                                             *)
onCreate(p, i) ==
  /\ app[p] = "off"
  /\ NewActivity(p)
  /\ intent' = [intent EXCEPT ![p] = i]
  /\ fresh' = IF i = None THEN fresh \ {p} ELSE fresh \cup {p}
  /\ UNCHANGED diskVars

(* onCreate of an activity the system restores with the intent it had: for *)
(* a change of its configuration, or when its process was ended.           *)
Recreate(p) ==
  /\ app[p] \in {"running", "off"}
  /\ NewActivity(p)
  /\ UNCHANGED <<intent, diskVars, fresh>>

ProcessDies(p) ==
  /\ app[p] # "off"
  /\ app' = [app EXCEPT ![p] = "off"]
  /\ call' = [call EXCEPT ![p] = [k \in Call |-> IdleCall]]
  /\ UNCHANGED <<intent, diskVars, machine, attempted, seen, fresh>>

clearAllState(p) ==
  /\ boot' = [boot EXCEPT ![p] = None]
  /\ identity' = [identity EXCEPT ![p] = None]
  /\ app' = [app EXCEPT ![p] = "cleared"]

(* startLauncherRuntime: take the intent's bootstrap in, if it has one,    *)
(* before the state is collected.                                          *)
startLauncherRuntime(p) ==
  /\ app[p] = "created"
  /\ IF intent[p] = None
     THEN app' = [app EXCEPT ![p] = "running"] /\ UNCHANGED diskVars
     ELSE clearAllState(p)
  /\ UNCHANGED <<intent, memoryVars, fresh>>

onNewIntent(p, i) ==
  /\ app[p] = "running"
  /\ intent' = [intent EXCEPT ![p] = i]
  /\ IF i = None
     THEN fresh' = fresh \ {p} /\ UNCHANGED <<app, diskVars>>
     ELSE fresh' = fresh \cup {p} /\ clearAllState(p)
  /\ UNCHANGED memoryVars

(* The second half of consumeBootstrapIntent: parse and store the payload, *)
(* then reset what the runtime remembers.                                  *)
PersistBootstrap(p) ==
  /\ app[p] = "cleared"
  /\ app' = [app EXCEPT ![p] = "running"]
  /\ fresh' = fresh \ {p}
  /\ IF intent[p] \in Bootstrap
     THEN /\ boot' = [boot EXCEPT ![p] = intent[p]]
          /\ machine' = [machine EXCEPT ![p] = "BootstrapReady"]
          /\ attempted' = [attempted EXCEPT ![p] = None]
     ELSE UNCHANGED <<boot, machine, attempted>>
  /\ UNCHANGED <<intent, identity, seen, call>>

-----------------------------------------------------------------------------
(***************************************************************************)
(* Enrollment                                                              *)
(***************************************************************************)

(* The DataStore emits its contents, after any edit. *)
Emit(p) ==
  /\ app[p] \in {"cleared", "running"}
  /\ seen' = [seen EXCEPT ![p] = <<boot[p], identity[p]>>]
  /\ UNCHANGED <<intent, app, diskVars, machine, attempted, call, fresh>>

(* Does nextEnrollmentBootstrap hand out the bootstrap b? *)
nextEnrollmentBootstrap(p, b) ==
  b # None /\ machine[p] \in {"Idle", "BootstrapReady"}

StartCall(p, b) ==
  \E k \in Call :
    /\ call[p][k].step = "idle"
    /\ call' = [call EXCEPT ![p][k] = [IdleCall EXCEPT !.step = "sent",
                                                       !.boot = b]]

(* maybeStartEnrollment, for the emitted state. *)
maybeStartEnrollment(p) ==
  LET b == seen[p][1]
      id == seen[p][2]
  IN  /\ app[p] = "running"
      /\ seen[p] # NoState
      /\ seen' = [seen EXCEPT ![p] = NoState]
      /\ \/ /\ id # None
            /\ machine' = [machine EXCEPT ![p] = "Enrolled"]
            /\ UNCHANGED <<attempted, call>>
         \/ /\ id = None
            /\ nextEnrollmentBootstrap(p, b)
            /\ machine' = [machine EXCEPT ![p] = "Enrolling"]
            /\ IF attempted[p] = b
               THEN UNCHANGED <<attempted, call>>
               ELSE /\ attempted' = [attempted EXCEPT ![p] = b]
                    /\ StartCall(p, b)
         \/ /\ id = None
            /\ ~nextEnrollmentBootstrap(p, b)
            /\ UNCHANGED <<machine, attempted, call>>
      /\ UNCHANGED <<intent, app, diskVars, fresh>>

CallStep(p, k, step, secret) ==
  /\ call' = [call EXCEPT ![p][k] = [@ EXCEPT !.step = step, !.secret = secret]]
  /\ UNCHANGED <<intent, app, diskVars, machine, attempted, seen, fresh>>

(* Mutant: the token is stored where the device id belongs. *)
saveDeviceIdentityOfToken(p, k) ==
  /\ app[p] \in {"cleared", "running"}
  /\ call[p][k].step = "ok"
  /\ identity' = [identity EXCEPT ![p] = <<call[p][k].boot[1], call[p][k].secret>>]
  /\ call' = [call EXCEPT ![p][k] = [@ EXCEPT !.step = "saved"]]
  /\ UNCHANGED <<intent, app, boot, machine, attempted, seen, fresh>>

(* saveDeviceIdentity, also while the main thread is in the intake. *)
saveDeviceIdentity(p, k) ==
  /\ app[p] \in {"cleared", "running"}
  /\ call[p][k].step = "ok"
  /\ identity' = [identity EXCEPT ![p] = <<call[p][k].boot[2], call[p][k].secret>>]
  /\ call' = [call EXCEPT ![p][k] = [@ EXCEPT !.step = "saved"]]
  /\ UNCHANGED <<intent, app, boot, machine, attempted, seen, fresh>>

(* onEnrollmentSucceeded, onEnrollmentFailed *)
CallEnds(p, k) ==
  /\ app[p] = "running"
  /\ call[p][k].step \in {"saved", "error"}
  /\ machine' = [machine EXCEPT ![p] = IF call[p][k].step = "saved"
                                       THEN "Enrolled" ELSE "Failed"]
  /\ call' = [call EXCEPT ![p][k] = IdleCall]
  /\ UNCHANGED <<intent, app, diskVars, attempted, seen, fresh>>

=============================================================================
