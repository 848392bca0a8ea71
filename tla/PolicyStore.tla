---------------------------- MODULE PolicyStore -----------------------------
(***************************************************************************)
(* Policies, the apps, managed files and certificates assigned to them,    *)
(* device groups, and the row of one device, as their stores change them.  *)
(* Each operator is one SQL statement, or the check before one.            *)
(***************************************************************************)
EXTENDS Naturals, FiniteSets

CONSTANTS
  Policy, App, File, Cert, Group,
  Passcode,  \* kiosk exit passcodes
  None

ASSUME ItemsAreApart == App \cap File = {} /\ App \cap Cert = {} /\ File \cap Cert = {}

Item == App \cup File \cup Cert
Row == [kiosk : BOOLEAN, code : Passcode \cup {None}, status : {"active", "retired"}, version : Nat]
ItemRow == [status : {"active", "retired"}, rev : Nat]
DeviceRow == [policy : Policy \cup {None}, groups : SUBSET Group,
              status : {"none", "active", "retired"}]

ASSUME NoneIsNothing == None \notin Passcode \cup Policy \cup Row

VARIABLES
  policies,  \* policy |-> row, or None
  bound,     \* policy |-> item |-> status of the assignment
  items,     \* item |-> status, and revision of what it offers (0: nothing)
  groups,    \* group |-> status
  device     \* the device's row: its policy, groups and status

storeVars == <<policies, bound, items, groups, device>>

-----------------------------------------------------------------------------
(* Policies *)

CreatePolicy(p, kiosk, code) ==
  /\ policies[p] = None
  /\ policies' = [policies EXCEPT ![p] =
                    [kiosk |-> kiosk, code |-> code, status |-> "active", version |-> 1]]

GetPolicy(p) == policies[p]

(* Mutant: a blank field clears the passcode. *)
mergeKioskExitPasscodeBlank(p, code) == code

(* A blank field keeps the stored passcode. *)
mergeKioskExitPasscode(p, code) == IF code = None THEN policies[p].code ELSE code

(* What UpdatePolicy makes of the form, from a read of its own. *)
MergedPasscode(p, kiosk, code) ==
  IF kiosk /\ policies[p].kiosk THEN mergeKioskExitPasscode(p, code) ELSE code

(* Mutant: the version is kept. *)
UpdatePolicySameVersion(p, kiosk, code) ==
  policies' = [policies EXCEPT ![p].kiosk = kiosk, ![p].code = code]

UpdatePolicy(p, kiosk, code) ==
  policies' = [policies EXCEPT ![p] =
                 [@ EXCEPT !.kiosk = kiosk, !.code = code, !.version = policies[p].version + 1]]

RetirePolicy(p) ==
  policies[p] # None /\ policies' = [policies EXCEPT ![p].status = "retired"]

-----------------------------------------------------------------------------
(* Assignments: the same code for apps, managed files and certificates. *)

Binds(p, i)   == bound' = [bound EXCEPT ![p][i] = "active"]

(* Mutant: a removed assignment is marked like a retired row. *)
UnbindsRetired(p, i) == bound[p][i] # "none" /\ bound' = [bound EXCEPT ![p][i] = "retired"]

Unbinds(p, i) == bound[p][i] # "none" /\ bound' = [bound EXCEPT ![p][i] = "disabled"]

GetPolicyApp(p, i)         == i \in App  /\ bound[p][i] = "active"
GetPolicyCertificate(p, i) == i \in Cert /\ bound[p][i] = "active"
GetPolicyManagedFile(p, i) == i \in File /\ bound[p][i] = "active"

AddPolicyApp(p, i)         == i \in App  /\ Binds(p, i)
AddPolicyCertificate(p, i) == i \in Cert /\ Binds(p, i)
AddPolicyManagedFile(p, i) == i \in File /\ Binds(p, i)

RemovePolicyApp(p, i)         == i \in App  /\ Unbinds(p, i)
RemovePolicyCertificate(p, i) == i \in Cert /\ Unbinds(p, i)
RemovePolicyManagedFile(p, i) == i \in File /\ Unbinds(p, i)

(* The two lookups before an assignment is stored. *)
PolicyExists(p) == policies[p] # None /\ policies[p].status # "retired"
ItemExists(i)   == items[i].status # "retired"

ListActivePolicyApps(p)         == {i \in App  : bound[p][i] = "active"}
ListActivePolicyManagedFiles(p) == {i \in File : bound[p][i] = "active"}
ListActivePolicyCertificates(p) == {i \in Cert : bound[p][i] = "active"}

-----------------------------------------------------------------------------
(* What is assigned: retired for good, except that a managed file comes    *)
(* back when its path is bound again; apps get new versions.               *)

RetireItem(i) == items' = [items EXCEPT ![i].status = "retired"]
Rebind(i) ==
  i \in File /\ items' = [items EXCEPT ![i] = [status |-> "active", rev |-> @.rev + 1]]
Publish(i) ==
  /\ i \in App /\ items[i].status # "retired"
  /\ items' = [items EXCEPT ![i].rev = @ + 1]

-----------------------------------------------------------------------------
(* Groups and the device *)

CreateGroup(g) == groups[g] = "none" /\ groups' = [groups EXCEPT ![g] = "active"]
RetireGroup(g) == groups[g] # "none" /\ groups' = [groups EXCEPT ![g] = "retired"]

ensureActiveGroups(gs) == \A g \in gs : groups[g] = "active"

CreateDevice(p, gs) ==
  device.status = "none" /\ device' = [policy |-> p, groups |-> gs, status |-> "active"]
UpdateDevice(p, gs) == device' = [device EXCEPT !.policy = p, !.groups = gs]
RetireDevice == device.status # "none" /\ device' = [device EXCEPT !.status = "retired"]
Authenticate == device.status = "active"

(* A fresh installation, or one in use: policies, kiosks with everything   *)
(* assigned, and a device with one of them.                                *)
InitStore ==
  /\ policies \in [Policy -> {None} \cup
       [kiosk : {FALSE}, code : {None}, status : {"active"}, version : {1}] \cup
       [kiosk : {TRUE}, code : Passcode, status : {"active"}, version : {1}]]
  /\ bound = [p \in Policy |-> [i \in Item |->
                 IF policies[p] # None /\ policies[p].kiosk THEN "active" ELSE "none"]]
  /\ items = [i \in Item |-> [status |-> "active", rev |-> IF i \in App THEN 0 ELSE 1]]
  /\ groups = [g \in Group |-> "none"]
  /\ \/ device = [policy |-> None, groups |-> {}, status |-> "none"]
     \/ \E p \in Policy : /\ policies[p] # None
                          /\ device = [policy |-> p, groups |-> {}, status |-> "active"]
=============================================================================
