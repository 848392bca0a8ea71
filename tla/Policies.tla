------------------------------ MODULE Policies ------------------------------
(***************************************************************************)
(* Administrators edit policies, assignments, groups and the device in the *)
(* dashboard while the device fetches its configuration.  Every handler    *)
(* runs in steps, one per statement, and so does the assembly of a         *)
(* snapshot.                                                               *)
(***************************************************************************)
EXTENDS PolicyStore

CONSTANTS
  Admin,      \* requests of administrators that may be under way at a time
  Editor,     \* those of them that may submit the policy form
  MaxEdits,   \* bound: submissions of administrators
  MaxFaults   \* bound: configuration requests that fail

ASSUME EditorAssumption == Editor \subseteq Admin
ASSUME BoundsAssumption == MaxEdits \in Nat /\ MaxFaults \in Nat

VARIABLES
  admin,      \* administrator |-> the handler under way
  fetch,      \* the configuration request under way
  config,     \* what the device last received, or None
  edits, faults

vars == <<storeVars, admin, fetch, config, edits, faults>>

Free == [at |-> "free"]
Submits == edits < MaxEdits /\ edits' = edits + 1
AdminOnly == UNCHANGED <<fetch, config, faults>>

-----------------------------------------------------------------------------
(* The policy form *)

(* policyUpsertFromForm: a kiosk needs a passcode, unless the policy it    *)
(* replaces is a kiosk and lends its own.                                  *)
PasscodeGiven(kiosk, code, existing) ==
  kiosk => code # None \/ (existing # None /\ existing.kiosk)

createPolicy(a, p, kiosk, code) ==
  /\ a \in Editor /\ admin[a] = Free /\ Submits
  /\ PasscodeGiven(kiosk, code, None)
  /\ CreatePolicy(p, kiosk, code)
  /\ AdminOnly /\ UNCHANGED <<bound, items, groups, device, admin>>

(* updatePolicy: read the policy and check the form; read it again for the *)
(* passcode; write.                                                        *)
updatePolicy(a, p, kiosk, code) ==
  /\ a \in Editor /\ admin[a] = Free /\ Submits
  /\ policies[p] # None /\ PasscodeGiven(kiosk, code, GetPolicy(p))
  /\ admin' = [admin EXCEPT ![a] = [at |-> "merge", policy |-> p, kiosk |-> kiosk, code |-> code]]
  /\ AdminOnly /\ UNCHANGED storeVars

ReadsPasscode(a) ==
  LET r == admin[a] IN
  /\ r.at = "merge"
  /\ admin' = [admin EXCEPT ![a] = [at |-> "write", policy |-> r.policy, kiosk |-> r.kiosk,
                                    code |-> MergedPasscode(r.policy, r.kiosk, r.code)]]
  /\ AdminOnly /\ UNCHANGED <<storeVars, edits>>

WritesPolicy(a) ==
  LET r == admin[a] IN
  /\ r.at = "write"
  /\ UpdatePolicy(r.policy, r.kiosk, r.code)
  /\ admin' = [admin EXCEPT ![a] = Free]
  /\ AdminOnly /\ UNCHANGED <<bound, items, groups, device, edits>>

retirePolicy(a, p) ==
  /\ admin[a] = Free /\ Submits
  /\ RetirePolicy(p)
  /\ AdminOnly /\ UNCHANGED <<bound, items, groups, device, admin>>

-----------------------------------------------------------------------------
(* Toggles: look at the assignment, then remove it, or check policy and    *)
(* item and add it.                                                        *)

Toggles(a, p, i, active) ==
  /\ admin[a] = Free /\ Submits /\ policies[p] # None
  /\ admin' = [admin EXCEPT ![a] = [at |-> IF active THEN "remove" ELSE "checkPolicy",
                                    policy |-> p, item |-> i]]
  /\ AdminOnly /\ UNCHANGED storeVars

togglePolicyApp(a, p, i)         == i \in App  /\ Toggles(a, p, i, GetPolicyApp(p, i))
togglePolicyCertificate(a, p, i) == i \in Cert /\ Toggles(a, p, i, GetPolicyCertificate(p, i))
togglePolicyManagedFile(a, p, i) == i \in File /\ Toggles(a, p, i, GetPolicyManagedFile(p, i))

Removes(a) ==
  LET r == admin[a] IN
  /\ r.at = "remove"
  /\ \/ RemovePolicyApp(r.policy, r.item)
     \/ RemovePolicyCertificate(r.policy, r.item)
     \/ RemovePolicyManagedFile(r.policy, r.item)
  /\ admin' = [admin EXCEPT ![a] = Free]
  /\ AdminOnly /\ UNCHANGED <<policies, items, groups, device, edits>>

ChecksPolicy(a) ==
  LET r == admin[a] IN
  /\ r.at = "checkPolicy"
  /\ admin' = [admin EXCEPT ![a] =
                 IF PolicyExists(r.policy) THEN [r EXCEPT !.at = "checkItem"] ELSE Free]
  /\ AdminOnly /\ UNCHANGED <<storeVars, edits>>

ChecksItem(a) ==
  LET r == admin[a] IN
  /\ r.at = "checkItem"
  /\ admin' = [admin EXCEPT ![a] =
                 IF ItemExists(r.item) THEN [r EXCEPT !.at = "add"] ELSE Free]
  /\ AdminOnly /\ UNCHANGED <<storeVars, edits>>

Adds(a) ==
  LET r == admin[a] IN
  /\ r.at = "add"
  /\ \/ AddPolicyApp(r.policy, r.item)
     \/ AddPolicyCertificate(r.policy, r.item)
     \/ AddPolicyManagedFile(r.policy, r.item)
  /\ admin' = [admin EXCEPT ![a] = Free]
  /\ AdminOnly /\ UNCHANGED <<policies, items, groups, device, edits>>

-----------------------------------------------------------------------------
(* Items, groups and the device *)

ItemChanges(a, i) ==
  /\ admin[a] = Free /\ Submits
  /\ RetireItem(i) \/ Rebind(i) \/ Publish(i)
  /\ AdminOnly /\ UNCHANGED <<policies, bound, groups, device, admin>>

createGroup(a, g) ==
  /\ admin[a] = Free /\ Submits /\ CreateGroup(g)
  /\ AdminOnly /\ UNCHANGED <<policies, bound, items, device, admin>>

retireGroup(a, g) ==
  /\ admin[a] = Free /\ Submits /\ RetireGroup(g)
  /\ AdminOnly /\ UNCHANGED <<policies, bound, items, device, admin>>

(* createDevice: check the groups, then insert the row. *)
createDevice(a, p, gs) ==
  /\ admin[a] = Free /\ Submits /\ policies[p] # None
  /\ device.status = "none" /\ ensureActiveGroups(gs)
  /\ admin' = [admin EXCEPT ![a] = [at |-> "insert", policy |-> p, groups |-> gs]]
  /\ AdminOnly /\ UNCHANGED storeVars

InsertsDevice(a) ==
  /\ admin[a].at = "insert"
  /\ \/ CreateDevice(admin[a].policy, admin[a].groups)
     \/ device.status # "none" /\ UNCHANGED device
  /\ admin' = [admin EXCEPT ![a] = Free]
  /\ AdminOnly /\ UNCHANGED <<policies, bound, items, groups, edits>>

(* updateDevice: read the device, then check the groups and write. *)
updateDevice(a, p, gs) ==
  /\ admin[a] = Free /\ Submits /\ policies[p] # None /\ device.status = "active"
  /\ admin' = [admin EXCEPT ![a] = [at |-> "update", policy |-> p, groups |-> gs]]
  /\ AdminOnly /\ UNCHANGED storeVars

WritesDevice(a) ==
  /\ admin[a].at = "update"
  /\ \/ /\ ensureActiveGroups(admin[a].groups)
        /\ UpdateDevice(admin[a].policy, admin[a].groups)
     \/ ~ensureActiveGroups(admin[a].groups) /\ UNCHANGED device
  /\ admin' = [admin EXCEPT ![a] = Free]
  /\ AdminOnly /\ UNCHANGED <<policies, bound, items, groups, edits>>

retireDevice(a) ==
  /\ admin[a] = Free /\ Submits /\ RetireDevice
  /\ AdminOnly /\ UNCHANGED <<policies, bound, items, groups, admin>>

-----------------------------------------------------------------------------
(* BuildConfigSnapshot: apps, managed files, certificates, then the        *)
(* policy, each list read first and its items one by one.                  *)

NoFetch == [at |-> "none", policy |-> None, todo |-> {}, got |-> {}, gone |-> {}]

(* gone: what was retired for good when the request came in. *)
FetchStarts ==
  /\ fetch.at = "none" /\ Authenticate
  /\ fetch' = [at |-> "apps", policy |-> device.policy, todo |-> {}, got |-> {},
               gone |-> {i \in Item \ File : items[i].status = "retired"}]
  /\ UNCHANGED <<storeVars, admin, config, edits, faults>>

FetchLists(from, to, listed) ==
  /\ fetch.at = from /\ fetch.todo = {}
  /\ fetch' = [fetch EXCEPT !.at = to, !.todo = listed]
  /\ UNCHANGED <<storeVars, admin, config, edits, faults>>

listPublishedPolicyApps == FetchLists("apps", "files", ListActivePolicyApps(fetch.policy))
listPolicyManagedFiles  == FetchLists("files", "certs", ListActivePolicyManagedFiles(fetch.policy))
listPolicyCertificates  == FetchLists("certs", "policy", ListActivePolicyCertificates(fetch.policy))

(* Mutant: assigned is enough. *)
OfferedUnchecked(i) == items[i].rev > 0

(* An item goes in if it is active, and an app if a version is published. *)
Offered(i) == items[i].status = "active" /\ items[i].rev > 0

FetchReads(i) ==
  /\ fetch.at # "none"
  /\ i \in fetch.todo
  /\ fetch' = [fetch EXCEPT !.todo = @ \ {i},
                            !.got = @ \cup (IF Offered(i) THEN {<<i, items[i].rev>>} ELSE {})]
  /\ UNCHANGED <<storeVars, admin, config, edits, faults>>

Snapshot(p, offered) ==
  [policy |-> p, version |-> GetPolicy(p).version, kiosk |-> GetPolicy(p).kiosk,
   code |-> GetPolicy(p).code, items |-> offered]

(* Mutant: only a newer policy version replaces the configuration. *)
devicePolicySnapshotNewer ==
  /\ fetch.at = "policy" /\ fetch.todo = {}
  /\ config' = IF config # None /\ config.policy = fetch.policy
                    /\ config.version = GetPolicy(fetch.policy).version
               THEN config ELSE Snapshot(fetch.policy, fetch.got)
  /\ fetch' = NoFetch
  /\ UNCHANGED <<storeVars, admin, edits, faults>>

devicePolicySnapshot ==
  /\ fetch.at = "policy" /\ fetch.todo = {}
  /\ config' = Snapshot(fetch.policy, fetch.got)
  /\ fetch' = NoFetch
  /\ UNCHANGED <<storeVars, admin, edits, faults>>

FetchFails ==
  /\ fetch.at # "none" /\ faults < MaxFaults
  /\ faults' = faults + 1 /\ fetch' = NoFetch
  /\ UNCHANGED <<storeVars, admin, config, edits>>

-----------------------------------------------------------------------------
Init ==
  /\ InitStore
  /\ admin = [a \in Admin |-> Free]
  /\ fetch = NoFetch /\ config = None
  /\ edits = 0 /\ faults = 0

AdminSubmits(a) ==
  \/ \E p \in Policy, kiosk \in BOOLEAN, code \in Passcode \cup {None} :
       createPolicy(a, p, kiosk, code) \/ updatePolicy(a, p, kiosk, code)
  \/ \E p \in Policy : \/ retirePolicy(a, p)
                       \/ \E gs \in SUBSET Group : createDevice(a, p, gs) \/ updateDevice(a, p, gs)
                       \/ \E i \in Item : \/ togglePolicyApp(a, p, i)
                                          \/ togglePolicyCertificate(a, p, i)
                                          \/ togglePolicyManagedFile(a, p, i)
  \/ \E i \in Item : ItemChanges(a, i)
  \/ \E g \in Group : createGroup(a, g) \/ retireGroup(a, g)
  \/ retireDevice(a)

AdminContinues(a) ==
  \/ ReadsPasscode(a) \/ WritesPolicy(a)
  \/ Removes(a) \/ ChecksPolicy(a) \/ ChecksItem(a) \/ Adds(a)
  \/ InsertsDevice(a) \/ WritesDevice(a)

Fetches ==
  \/ FetchStarts \/ listPublishedPolicyApps \/ listPolicyManagedFiles \/ listPolicyCertificates
  \/ (\E i \in Item : FetchReads(i)) \/ devicePolicySnapshot

Next ==
  \/ \E a \in Admin : AdminSubmits(a) \/ AdminContinues(a)
  \/ Fetches \/ FetchFails

(* Handlers finish, and the device keeps polling. *)
Fairness == (\A a \in Admin : WF_vars(AdminContinues(a))) /\ WF_vars(Fetches)

Spec == Init /\ [][Next]_vars /\ Fairness
-----------------------------------------------------------------------------
(***************************************************************************)
(* Properties                                                              *)
(***************************************************************************)

(* What an administrator's handler is about to do. *)
Form   == [at : {"merge", "write"}, policy : Policy, kiosk : BOOLEAN, code : Passcode \cup {None}]
Toggle == [at : {"remove", "checkPolicy", "checkItem", "add"}, policy : Policy, item : Item]
Edit   == [at : {"insert", "update"}, policy : Policy, groups : SUBSET Group]
Handler == {Free} \cup Form \cup Toggle \cup Edit

Fetch == [at : {"none", "apps", "files", "certs", "policy"}, policy : Policy \cup {None},
          todo : SUBSET Item, got : SUBSET (Item \X Nat), gone : SUBSET Item]
Config == [policy : Policy, version : Nat, kiosk : BOOLEAN, code : Passcode \cup {None},
           items : SUBSET (Item \X Nat)]

TypeOK ==
  /\ policies \in [Policy -> Row \cup {None}]
  /\ bound \in [Policy -> [Item -> {"none", "active", "disabled"}]]
  /\ items \in [Item -> ItemRow]
  /\ groups \in [Group -> {"none", "active", "retired"}]
  /\ device \in DeviceRow
  /\ admin \in [Admin -> Handler]
  /\ fetch \in Fetch
  /\ config \in Config \cup {None}
  /\ edits \in 0..MaxEdits /\ faults \in 0..MaxFaults

(* "kiosk policies require restrictions.kioskExitPasscode", says the       *)
(* policy form: neither a stored policy nor a snapshot on a device locks   *)
(* the screen without a passcode to leave it, whatever sequence of forms   *)
(* with and without a passcode led there.                                  *)
KioskCanBeLeft ==
  /\ \A p \in Policy : policies[p] # None /\ policies[p].kiosk => policies[p].code # None
  /\ config # None /\ config.kiosk => config.code # None

(* A snapshot that carries the policy's current version carries its        *)
(* current content, so a device that compares versions misses no edit.     *)
VersionNamesContent ==
  config # None => LET r == policies[config.policy] IN
    config.version = r.version => config.kiosk = r.kiosk /\ config.code = r.code

(* What was retired before a request came in is not in its answer, even    *)
(* when an administrator assigns it while another one retires it.          *)
RetiredIsNotOffered == \A o \in fetch.got : o[1] \notin fetch.gone

Effective == Snapshot(device.policy, {<<i, items[i].rev>> : i \in {i \in Item :
                                        bound[device.policy][i] = "active" /\ Offered(i)}})

(* Snapshots that mix two states of the server do not last: once the       *)
(* administrators are done the device has exactly what is assigned to it.  *)
SnapshotSettles == <>[](device.status = "active" => config = Effective)
=============================================================================
