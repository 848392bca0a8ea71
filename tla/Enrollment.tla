----------------------------- MODULE Enrollment -----------------------------
(***************************************************************************)
(* Enrollment end to end: administrators issue tokens and create devices,  *)
(* phones are given bootstrap intents and call POST /enrollment, and the   *)
(* server binds.                                                           *)
(***************************************************************************)
EXTENDS EnrollmentStore, EnrollmentLauncher

CONSTANTS
  MaxIntents,   \* how many provisioning intents are sent
  MaxFaults     \* how many things may go wrong

ASSUME BoundsAssumption == MaxIntents \in Nat /\ MaxFaults \in Nat

VARIABLES
  orphans,      \* requests the server may still get, nobody awaits them
  intents,      \* provisioning intents so far
  faults        \* faults so far

netVars == <<orphans, intents, faults>>
vars == <<storeVars, phoneVars, netVars>>

TypeOK ==
  /\ StoreTypeOK
  /\ LauncherTypeOK
  /\ orphans \subseteq Bootstrap
  /\ intents \in 0..MaxIntents
  /\ faults \in 0..MaxFaults

Init ==
  /\ StoreInit
  /\ LauncherInit
  /\ orphans = {}
  /\ intents = 0
  /\ faults = 0

Fault ==
  /\ faults < MaxFaults
  /\ faults' = faults + 1

FaultIf(cond) == IF cond THEN Fault ELSE UNCHANGED faults

-----------------------------------------------------------------------------
(***************************************************************************)
(* Administrators and housekeeping                                         *)
(***************************************************************************)
AdminStep ==
  /\ \/ \E t \in Token : \/ IssueToken(t) \/ Lapse(t) \/ RevokeToken(t)
                         \/ \E consume \in BOOLEAN : inspectToken(t, consume)
     \/ ExpireTokens
     \/ \E d \in Device : CreateDevice(d) \/ RetireDevice(d)
  /\ UNCHANGED <<phoneVars, netVars>>

(* A DisableDevice call reaches the broker, or fails in part. *)
BrokerStep(d) ==
  /\ \E disables, deletes \in BOOLEAN :
       /\ DisableDevice(d, disables, deletes)
       /\ FaultIf(~(disables /\ deletes))
  /\ UNCHANGED <<phoneVars, orphans, intents>>

-----------------------------------------------------------------------------
(***************************************************************************)
(* Phones                                                                  *)
(***************************************************************************)

(* The payload of an intent names a token and a device the administrator   *)
(* has set up.                                                             *)
Printed(b) == token[b[1]] # "none" /\ device[b[2]] # "none"

Sends(i) ==
  /\ intents < MaxIntents
  /\ intents' = intents + 1
  /\ i \in Bootstrap => Printed(i)

(* The requests of the coroutines a phone loses. *)
Abandoned(p) ==
  {call[p][k].boot : k \in {x \in Call : call[p][x].step = "sent"}}

Provision(p, i) ==
  /\ Sends(i)
  /\ onCreate(p, i) \/ onNewIntent(p, i)
  /\ UNCHANGED <<storeVars, orphans, faults>>

(* From the home screen, or after a boot. *)
OpenPlainly(p) ==
  /\ onCreate(p, None) \/ onNewIntent(p, None)
  /\ UNCHANGED <<storeVars, netVars>>

(* The system restores the activity. *)
Restore(p) ==
  /\ Recreate(p)
  /\ orphans' = orphans \cup Abandoned(p)
  /\ Fault
  /\ UNCHANGED <<storeVars, intents>>

Dies(p) ==
  /\ ProcessDies(p)
  /\ orphans' = orphans \cup Abandoned(p)
  /\ Fault
  /\ UNCHANGED <<storeVars, intents>>

(* The steps of the main thread and of the DataStore. *)
PhoneStep(p) ==
  /\ \/ startLauncherRuntime(p)
     \/ PersistBootstrap(p)
     \/ Emit(p)
     \/ maybeStartEnrollment(p)
     \/ \E k \in Call : saveDeviceIdentity(p, k) \/ CallEnds(p, k)
  /\ UNCHANGED <<storeVars, netVars>>

-----------------------------------------------------------------------------
(***************************************************************************)
(* POST /enrollment                                                        *)
(***************************************************************************)

(* The binding of b, the call to the broker failing in part or not.        *)
Bind(b) ==
  \E creates, modifies \in BOOLEAN :
    BindDevice(b[1], b[2], creates, modifies) /\ FaultIf(~modifies)

BindFailing(b) ==
  /\ \E committed \in BOOLEAN : BindFails(b[1], b[2], committed)
  /\ Fault

Enrolls(p, k) ==
  LET b == call[p][k].boot
  IN  /\ call[p][k].step = "sent"
      /\ \/ Bind(b) /\ CallStep(p, k, "ok", NewSecret)
         \/ /\ BindRejected(b[1], b[2]) /\ UNCHANGED faults
            /\ CallStep(p, k, "error", 0)
         \/ BindFailing(b) /\ CallStep(p, k, "error", 0)
      /\ UNCHANGED <<orphans, intents>>

(* The call times out in the launcher; the server may still get it. *)
CallTimesOut(p, k) ==
  /\ call[p][k].step = "sent"
  /\ CallStep(p, k, "error", 0)
  /\ orphans' = orphans \cup {call[p][k].boot}
  /\ Fault
  /\ UNCHANGED <<storeVars, intents>>

(* The server gets a request nobody awaits the answer of, or never does. *)
OrphanHandled(b) ==
  /\ orphans' = orphans \ {b}
  /\ \/ Bind(b)
     \/ BindRejected(b[1], b[2]) /\ UNCHANGED faults
     \/ BindFailing(b)
     \/ UNCHANGED <<storeVars, faults>>
  /\ UNCHANGED <<phoneVars, intents>>

-----------------------------------------------------------------------------
Next ==
  \/ AdminStep
  \/ \E d \in Device : BrokerStep(d)
  \/ \E p \in Phone :
       \/ \E i \in Bootstrap \cup {Malformed} : Provision(p, i)
       \/ OpenPlainly(p)
       \/ Restore(p)
       \/ Dies(p)
       \/ PhoneStep(p)
       \/ \E k \in Call : Enrolls(p, k) \/ CallTimesOut(p, k)
  \/ \E b \in orphans : OrphanHandled(b)

Spec == Init /\ [][Next]_vars

-----------------------------------------------------------------------------
(***************************************************************************)
(* Properties                                                              *)
(***************************************************************************)

(* A token binds one device and a device is bound once, whichever phones   *)
(* race with the same QR code, retry, time out or are answered late.       *)
BoundOnce ==
  \A x, y \in bound : x[1] = y[1] \/ x[2] = y[2] => x = y

(* The secret a phone has stored is the one the server knows, and no other *)
(* phone has it: neither a late answer to an abandoned attempt nor a       *)
(* second binding leaves a phone with a secret that does not authenticate. *)
SecretIsCurrent ==
  \A p \in Phone : identity[p] # None =>
    /\ secretHash[identity[p][1]] = identity[p][2]
    /\ \A q \in Phone \ {p} : identity[q] # identity[p]

(* Neither a token nor a device goes back: a consumed, expired or revoked  *)
(* token stays so, and no late enrollment brings a retired device back.    *)
NothingIsRevived ==
  [][/\ \A t \in Token : token[t] \notin {"none", "issued"}
                           => token'[t] = token[t]
     /\ \A d \in Device :
          /\ device[d] = "retired" => device'[d] = "retired"
          /\ device[d] = "enrolled" => device'[d] \in {"enrolled", "retired"}
    ]_vars

(* Enrollment implements its lifecycle: the token a device was bound with, *)
(* and the device each phone authenticates as.  A stored secret the server *)
(* does not know is no device's.                                           *)
Binders(d) == {t \in Token : <<t, d>> \in bound}
Permit ==
  [d \in Device |-> IF Binders(d) = {} THEN None
                    ELSE CHOOSE t \in Binders(d) : TRUE]
Holds ==
  [p \in Phone |->
     IF identity[p] = None THEN None
     ELSE IF secretHash[identity[p][1]] = identity[p][2] THEN identity[p][1]
     ELSE "stale"]

Lifecycle ==
  INSTANCE EnrollmentLifecycle
    WITH token <- token, device <- device, permit <- Permit, holds <- Holds
LifecycleSpec == Lifecycle!Spec

(* A retired device cannot connect to the broker once RetireDevice's       *)
(* DisableDevice has run, unless that call failed: BindDevice provisions   *)
(* the account under the lock that RetireDevice waits for.                 *)
RetiredIsCutOff ==
  \A d \in Device :
    /\ device[d] = "retired" /\ disabling[d] = 0 /\ d \notin unprovisioned
    => ~CanConnect(d)

(* docs/launcher-lifecycle.md: "On restart, the launcher replays the       *)
(* stored bootstrap, identity, and config cache to resume the lifecycle    *)
(* without re-enrollment."  An identity is dropped only for a provisioning *)
(* intent that was not taken in before.                                    *)
RestartKeepsIdentity ==
  [][\A p \in Phone :
       identity[p] # None /\ identity'[p] = None => p \in fresh \cup fresh']_vars

=============================================================================
