--------------------------- MODULE EnrollmentStore --------------------------
(***************************************************************************)
(* The server's side of enrollment: the enrollment_tokens and devices      *)
(* tables, and the devices' accounts at the MQTT broker.                   *)
(*                                                                         *)
(* BindDevice holds row locks on its token and its device from its first   *)
(* read to its commit, so a transaction is one action.  Its call to the    *)
(* broker precedes the commit; the calls to DisableDevice come after a     *)
(* commit, when other handlers already run.                                *)
(***************************************************************************)
EXTENDS Bootstraps

CONSTANT MaxDisables   \* bound on DisableDevice calls under way for one device

ASSUME MaxDisablesAssumption == MaxDisables \in Nat \ {0}

VARIABLES
  token,         \* status of each token; "none" before it is issued
  overdue,       \* tokens whose expires_at has passed
  device,        \* status of each device; "none" before it is created
  secretHash,    \* the secret of each device, 0 before it is bound
  account,       \* the broker password of each device, 0 without account
  disabled,      \* devices whose broker account is disabled
  disabling,     \* DisableDevice calls under way
  (* history *)
  secrets,       \* number of secrets generated
  bound,         \* committed bindings
  unprovisioned  \* devices for which a call to the broker failed

tokenVars == <<token, overdue>>
deviceVars == <<device, secretHash>>
brokerVars == <<account, disabled, disabling>>
bindVars == <<secrets, bound, unprovisioned>>
storeVars == <<tokenVars, deviceVars, brokerVars, bindVars>>

TokenStatus == {"none", "issued", "consumed", "expired", "revoked"}
DeviceStatus == {"none", "pending", "enrolled", "retired"}

StoreTypeOK ==
  /\ token \in [Token -> TokenStatus]
  /\ overdue \subseteq Token
  /\ device \in [Device -> DeviceStatus]
  /\ secretHash \in [Device -> Nat]
  /\ account \in [Device -> Nat]
  /\ disabled \subseteq Device
  /\ disabling \in [Device -> 0..MaxDisables]
  /\ secrets \in Nat
  /\ bound \subseteq Bootstrap
  /\ unprovisioned \subseteq Device

StoreInit ==
  /\ token = [t \in Token |-> "none"]
  /\ overdue = {}
  /\ device = [d \in Device |-> "none"]
  /\ secretHash = [d \in Device |-> 0]
  /\ account = [d \in Device |-> 0]
  /\ disabled = {}
  /\ disabling = [d \in Device |-> 0]
  /\ secrets = 0
  /\ bound = {}
  /\ unprovisioned = {}

-----------------------------------------------------------------------------
(***************************************************************************)
(* Tokens                                                                  *)
(***************************************************************************)
IssueToken(t) ==
  /\ token[t] = "none"
  /\ token' = [token EXCEPT ![t] = "issued"]
  /\ UNCHANGED <<overdue, deviceVars, brokerVars, bindVars>>

(* The clock passes expires_at. *)
Lapse(t) ==
  /\ token[t] # "none"
  /\ t \notin overdue
  /\ overdue' = overdue \cup {t}
  /\ UNCHANGED <<token, deviceVars, brokerVars, bindVars>>

Lapsed(t) == token[t] = "issued" /\ t \in overdue

(* ValidateToken and ConsumeToken: a token found overdue is expired, and   *)
(* that is committed; otherwise an issued token is consumed or only shown. *)
inspectToken(t, consume) ==
  /\ token' = [token EXCEPT ![t] =
       IF Lapsed(t) THEN "expired"
       ELSE IF @ = "issued" /\ consume THEN "consumed" ELSE @]
  /\ UNCHANGED <<overdue, deviceVars, brokerVars, bindVars>>

RevokeToken(t) ==
  /\ token[t] = "issued"
  /\ token' = [token EXCEPT ![t] = "revoked"]
  /\ UNCHANGED <<overdue, deviceVars, brokerVars, bindVars>>

(* The cleanup pass. *)
ExpireTokens ==
  /\ token' = [t \in Token |-> IF Lapsed(t) THEN "expired" ELSE token[t]]
  /\ UNCHANGED <<overdue, deviceVars, brokerVars, bindVars>>

-----------------------------------------------------------------------------
(***************************************************************************)
(* Devices                                                                 *)
(***************************************************************************)
CreateDevice(d) ==
  /\ device[d] = "none"
  /\ device' = [device EXCEPT ![d] = "pending"]
  /\ UNCHANGED <<secretHash, tokenVars, brokerVars, bindVars>>

(* Mutant: the account at the broker is left alone. *)
RetireDeviceOnly(d) ==
  /\ device[d] # "none"
  /\ disabling[d] < MaxDisables
  /\ device' = [device EXCEPT ![d] = "retired"]
  /\ UNCHANGED <<secretHash, tokenVars, account, disabled, disabling, bindVars>>

(* The UPDATE takes any status; DisableDevice follows it. *)
RetireDevice(d) ==
  /\ device[d] # "none"
  /\ disabling[d] < MaxDisables
  /\ device' = [device EXCEPT ![d] = "retired"]
  /\ disabling' = [disabling EXCEPT ![d] = @ + 1]
  /\ UNCHANGED <<secretHash, tokenVars, account, disabled, bindVars>>

(* DisableDevice: disableClient, then deleteClient; each may fail.         *)
DisableDevice(d, disables, deletes) ==
  /\ disabling[d] > 0
  /\ disabling' = [disabling EXCEPT ![d] = @ - 1]
  /\ account' = IF deletes THEN [account EXCEPT ![d] = 0] ELSE account
  /\ disabled' = IF deletes THEN disabled \ {d}
                 ELSE IF disables /\ account[d] # 0 THEN disabled \cup {d}
                 ELSE disabled
  /\ unprovisioned' = IF disables /\ deletes THEN unprovisioned
                                             ELSE unprovisioned \cup {d}
  /\ UNCHANGED <<tokenVars, deviceVars, secrets, bound>>

CanConnect(d) == account[d] # 0 /\ d \notin disabled

-----------------------------------------------------------------------------
(***************************************************************************)
(* BindDevice                                                              *)
(***************************************************************************)

(* Mutant: without FOR UPDATE, the rows are judged as they were before     *)
(* other transactions committed.                                           *)
BindsUnlocked(t, d) ==
  /\ token[t] # "none"
  /\ device[d] # "none"
  /\ t \notin overdue

(* Mutant: the device's status is not looked at. *)
BindsAnyDevice(t, d) ==
  /\ token[t] = "issued"
  /\ device[d] # "none"
  /\ t \notin overdue

Binds(t, d) ==
  /\ token[t] = "issued"
  /\ device[d] = "pending"
  /\ t \notin overdue

(* Rejected: unknown token or device, a device that is not pending, a      *)
(* token no longer issued.  Only a pending device sees its overdue token   *)
(* expired.                                                                *)
BindRejected(t, d) ==
  /\ ~Binds(t, d)
  /\ token' = IF Lapsed(t) /\ device[d] = "pending"
              THEN [token EXCEPT ![t] = "expired"]
              ELSE token
  /\ UNCHANGED <<overdue, deviceVars, brokerVars, bindVars>>

NewSecret == secrets + 1

(* UpsertDevice: createClient tolerates an existing account, modifyClient  *)
(* then sets the password; neither enables a disabled account.             *)
UpsertDevice(d, creates, modifies) ==
  /\ modifies => creates
  /\ account' = IF modifies \/ (creates /\ account[d] = 0)
                THEN [account EXCEPT ![d] = NewSecret]
                ELSE account
  /\ unprovisioned' = IF modifies THEN unprovisioned
                                  ELSE unprovisioned \cup {d}
  /\ UNCHANGED disabled

CommitBinding(t, d) ==
  /\ token' = [token EXCEPT ![t] = "consumed"]
  /\ device' = [device EXCEPT ![d] = "enrolled"]
  /\ secretHash' = [secretHash EXCEPT ![d] = NewSecret]
  /\ bound' = bound \cup {<<t, d>>}

BindDevice(t, d, creates, modifies) ==
  /\ Binds(t, d)
  /\ CommitBinding(t, d)
  /\ UpsertDevice(d, creates, modifies)
  /\ secrets' = NewSecret
  /\ UNCHANGED <<overdue, disabling>>

(* Commit reports an error, with or without having taken effect, and the   *)
(* account is to be removed again.                                         *)
BindFails(t, d, committed) ==
  /\ Binds(t, d)
  /\ disabling[d] < MaxDisables
  /\ IF committed THEN CommitBinding(t, d)
                  ELSE UNCHANGED <<token, deviceVars, bound>>
  /\ UpsertDevice(d, TRUE, TRUE)
  /\ disabling' = [disabling EXCEPT ![d] = @ + 1]
  /\ secrets' = NewSecret
  /\ UNCHANGED overdue

=============================================================================
