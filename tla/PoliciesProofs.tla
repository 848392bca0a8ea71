--------------------------- MODULE PoliciesProofs ---------------------------
(***************************************************************************)
(* Proofs about Policies, for any policies, items, groups and passcodes,   *)
(* any number of administrators, edits and failed requests.                *)
(***************************************************************************)
EXTENDS Policies, TLAPS

(***************************************************************************)
(* The inductive invariant.                                                *)
(***************************************************************************)

(* Policies are retired and never removed: whoever names one finds a row. *)
PoliciesExist ==
  /\ \A a \in Admin : admin[a] # Free => policies[admin[a].policy] # None
  /\ device.status # "none" => device.policy # None /\ policies[device.policy] # None
  /\ fetch.at # "none" => fetch.policy # None /\ policies[fetch.policy] # None
  /\ config # None => policies[config.policy] # None

(* Versions only grow. *)
VersionsGrow == config # None => config.version <= policies[config.policy].version

(* What was retired for good when a request came in stays retired. *)
GoneForGood == \A i \in fetch.gone : i \notin File /\ items[i].status = "retired"

IInv ==
  /\ TypeOK
  /\ PoliciesExist
  /\ VersionsGrow
  /\ VersionNamesContent
  /\ GoneForGood
  /\ RetiredIsNotOffered

(* What a form without a passcode counts on between its reads of a policy. *)
FormsHold ==
  \A a \in Admin :
    /\ admin[a].at = "merge" /\ admin[a].kiosk /\ admin[a].code = None
         => policies[admin[a].policy].kiosk
    /\ admin[a].at = "write" /\ admin[a].kiosk => admin[a].code # None

-----------------------------------------------------------------------------
(***************************************************************************)
(* Administrators                                                          *)
(***************************************************************************)

(* What every step of an administrator keeps: rows stay, versions grow     *)
(* with every change of what they name, retirement is for good, *)
Grows ==
  /\ \A p \in Policy : policies[p] # None =>
       /\ policies'[p] # None
       /\ policies[p].version <= policies'[p].version
       /\ policies[p].version = policies'[p].version
            => policies'[p].kiosk = policies[p].kiosk /\ policies'[p].code = policies[p].code
  /\ \A i \in Item \ File : items[i].status = "retired" => items'[i].status = "retired"

(* and what handlers and the device name has a row. *)
NamesRows ==
  /\ \A a \in Admin : \/ admin'[a] \in {admin[a], Free}
                      \/ policies[admin'[a].policy] # None
  /\ device'.status # "none" =>
       \/ device.status # "none" /\ device'.policy = device.policy
       \/ device'.policy # None /\ policies[device'.policy] # None

AdminKept == TypeOK' /\ Grows /\ NamesRows /\ AdminOnly

(* What a handler is, by its next step. *)
LEMMA HandlerParts ==
  ASSUME TypeOK, NEW a \in Admin
  PROVE  /\ admin[a].at \in {"merge", "write"} => admin[a] \in Form
         /\ admin[a].at \in {"remove", "checkPolicy", "checkItem", "add"} => admin[a] \in Toggle
         /\ admin[a].at \in {"insert", "update"} => admin[a] \in Edit
         /\ admin[a].at \in {"merge", "write", "remove", "checkPolicy", "checkItem", "add",
                             "insert", "update"} => admin[a] # Free
<1>1. admin[a] \in Handler
  BY DEF TypeOK
<1> QED
  BY <1>1 DEF Handler, Free, Form, Toggle, Edit

LEMMA FreeIsHandler == Free \in Handler
BY DEF Handler

(* A step that leaves policies and items alone. *)
LEMMA NothingGrows ==
  ASSUME TypeOK, UNCHANGED <<policies, items>>
  PROVE  Grows
BY DEF TypeOK, Grows, Row

(* One that leaves the handlers and the device alone, or frees a handler. *)
LEMMA NothingNamed ==
  ASSUME TypeOK, UNCHANGED device,
         \/ UNCHANGED admin
         \/ \E a \in Admin : admin' = [admin EXCEPT ![a] = Free]
  PROVE  NamesRows
BY DEF TypeOK, NamesRows

(* One that gives a handler a policy that has a row. *)
LEMMA HandlerNamed ==
  ASSUME TypeOK, UNCHANGED device, NEW a \in Admin, NEW h \in Handler,
         admin' = [admin EXCEPT ![a] = h], policies[h.policy] # None
  PROVE  admin' \in [Admin -> Handler] /\ NamesRows
BY DEF TypeOK, NamesRows

(* A step that writes one policy: its version is new, or its content old.  *)
LEMMA PolicyWritten ==
  ASSUME TypeOK, NEW p \in Policy, NEW r \in Row,
         policies' = [policies EXCEPT ![p] = r], UNCHANGED items,
         policies[p] # None =>
           /\ policies[p].version <= r.version
           /\ policies[p].version = r.version
                => r.kiosk = policies[p].kiosk /\ r.code = policies[p].code
  PROVE  policies' \in [Policy -> Row \cup {None}] /\ Grows
<1>1. policies' \in [Policy -> Row \cup {None}]
  BY DEF TypeOK
<1>2. r # None
  BY NoneIsNothing
<1>3. \A q \in Policy : policies[q] # None => policies[q].version <= policies[q].version
  BY DEF TypeOK, Row
<1> QED
  BY <1>1, <1>2, <1>3 DEF Grows, TypeOK

(* The row of a new policy. *)
LEMMA RowCreated ==
  ASSUME NEW kiosk \in BOOLEAN, NEW code \in Passcode \cup {None}
  PROVE  [kiosk |-> kiosk, code |-> code, status |-> "active", version |-> 1] \in Row
BY DEF Row

(* The row an update makes. *)
LEMMA RowUpdated ==
  ASSUME NEW old \in Row, NEW kiosk \in BOOLEAN, NEW code \in Passcode \cup {None}
  PROVE  LET r == [old EXCEPT !.kiosk = kiosk, !.code = code, !.version = old.version + 1]
         IN  r \in Row /\ old.version < r.version
<1>1. old.version \in Nat
  BY DEF Row
<1>2. old.version + 1 \in Nat /\ old.version < old.version + 1
  BY <1>1
<1> QED
  BY <1>2 DEF Row

(* The row retiring a policy leaves. *)
LEMMA RowRetired ==
  ASSUME NEW old \in Row
  PROVE  LET r == [old EXCEPT !.status = "retired"]
         IN  /\ r \in Row /\ r.version = old.version /\ old.version <= old.version
             /\ r.kiosk = old.kiosk /\ r.code = old.code
BY DEF Row

(* The rest of the types, for a step of an administrator. *)
LEMMA AdminTypes ==
  ASSUME TypeOK, AdminOnly, Submits \/ UNCHANGED edits,
         policies' \in [Policy -> Row \cup {None}],
         bound' \in [Policy -> [Item -> {"none", "active", "disabled"}]],
         items' \in [Item -> ItemRow],
         groups' \in [Group -> {"none", "active", "retired"}],
         device' \in DeviceRow,
         admin' \in [Admin -> Handler]
  PROVE  TypeOK'
BY BoundsAssumption DEF TypeOK, AdminOnly, Submits

(* The policy form. *)
LEMMA FormSteps ==
  ASSUME TypeOK, PoliciesExist, NEW a \in Admin, NEW p,
         NEW kiosk \in BOOLEAN, NEW code \in Passcode \cup {None},
         \/ p \in Policy /\ createPolicy(a, p, kiosk, code)
         \/ p \in Policy /\ updatePolicy(a, p, kiosk, code)
         \/ p \in Policy /\ retirePolicy(a, p)
         \/ ReadsPasscode(a) \/ WritesPolicy(a)
  PROVE  AdminKept
<1> USE DEF AdminKept, storeVars
<1>a. /\ policies \in [Policy -> Row \cup {None}]
      /\ bound \in [Policy -> [Item -> {"none", "active", "disabled"}]]
      /\ items \in [Item -> ItemRow]
      /\ groups \in [Group -> {"none", "active", "retired"}]
      /\ device \in DeviceRow
      /\ admin \in [Admin -> Handler]
  BY DEF TypeOK
<1>1. CASE p \in Policy /\ createPolicy(a, p, kiosk, code)
  <2> DEFINE r == [kiosk |-> kiosk, code |-> code, status |-> "active", version |-> 1]
  <2>1. r \in Row
    BY RowCreated
  <2>2. /\ policies[p] = None /\ policies' = [policies EXCEPT ![p] = r]
        /\ UNCHANGED <<bound, items, groups, device, admin>> /\ AdminOnly /\ Submits
    BY <1>1 DEF createPolicy, CreatePolicy
  <2> HIDE DEF r
  <2>3. policies' \in [Policy -> Row \cup {None}] /\ Grows
    BY <1>1, <2>1, <2>2, PolicyWritten
  <2> QED
    BY <1>a, <2>2, <2>3, NothingNamed, AdminTypes
<1>2. CASE p \in Policy /\ updatePolicy(a, p, kiosk, code)
  <2> DEFINE h == [at |-> "merge", policy |-> p, kiosk |-> kiosk, code |-> code]
  <2>1. h \in Handler /\ h.policy = p
    BY <1>2 DEF Handler, Form
  <2>2. /\ policies[p] # None /\ admin' = [admin EXCEPT ![a] = h]
        /\ UNCHANGED storeVars /\ AdminOnly /\ Submits
    BY <1>2 DEF updatePolicy
  <2> HIDE DEF h
  <2>3. admin' \in [Admin -> Handler] /\ NamesRows
    BY <2>1, <2>2, HandlerNamed
  <2> QED
    BY <1>a, <2>2, <2>3, NothingGrows, AdminTypes
<1>3. CASE ReadsPasscode(a)
  <2> DEFINE r == admin[a]
             h == [at |-> "write", policy |-> r.policy, kiosk |-> r.kiosk,
                   code |-> MergedPasscode(r.policy, r.kiosk, r.code)]
  <2>1. /\ r.at = "merge" /\ admin' = [admin EXCEPT ![a] = h]
        /\ UNCHANGED <<storeVars, edits>> /\ AdminOnly
    BY <1>3 DEF ReadsPasscode
  <2>2. r \in Form /\ policies[r.policy] # None
    BY <2>1, HandlerParts DEF PoliciesExist
  <2>3. r.policy \in Policy /\ r.kiosk \in BOOLEAN /\ r.code \in Passcode \cup {None}
    BY <2>2 DEF Form
  <2>4. policies[r.policy].code \in Passcode \cup {None}
    BY <1>a, <2>2, <2>3 DEF Row
  <2>5. MergedPasscode(r.policy, r.kiosk, r.code) \in Passcode \cup {None}
    BY <2>3, <2>4 DEF MergedPasscode, mergeKioskExitPasscode
  <2>6. h \in Handler /\ h.policy = r.policy
    BY <2>3, <2>5 DEF Handler, Form
  <2> HIDE DEF h, r
  <2>7. admin' \in [Admin -> Handler] /\ NamesRows
    BY <2>1, <2>2, <2>6, HandlerNamed
  <2> QED
    BY <1>a, <2>1, <2>7, NothingGrows, AdminTypes
<1>4. CASE WritesPolicy(a)
  <2> DEFINE h == admin[a]
             old == policies[h.policy]
             r == [old EXCEPT !.kiosk = h.kiosk, !.code = h.code, !.version = old.version + 1]
  <2>1. /\ h.at = "write" /\ admin' = [admin EXCEPT ![a] = Free]
        /\ policies' = [policies EXCEPT ![h.policy] = r]
        /\ UNCHANGED <<bound, items, groups, device, edits>> /\ AdminOnly
    BY <1>4 DEF WritesPolicy, UpdatePolicy
  <2>2. h \in Form /\ old # None
    BY <2>1, HandlerParts DEF PoliciesExist
  <2>3. h.policy \in Policy /\ h.kiosk \in BOOLEAN /\ h.code \in Passcode \cup {None}
    BY <2>2 DEF Form
  <2>4. old \in Row
    BY <1>a, <2>2, <2>3
  <2>5. r \in Row /\ old.version < r.version
    BY <2>3, <2>4, RowUpdated
  <2>a. old.version \in Nat /\ r.version \in Nat
    BY <2>4, <2>5 DEF Row
  <2>b. old.version <= r.version /\ old.version # r.version
    BY <2>5, <2>a
  <2> HIDE DEF h, r
  <2>6. policies' \in [Policy -> Row \cup {None}] /\ Grows
    BY <2>1, <2>3, <2>5, <2>b, PolicyWritten
  <2>7. admin' \in [Admin -> Handler] /\ NamesRows
    BY <1>a, <2>1, FreeIsHandler, NothingNamed
  <2> QED
    BY <1>a, <2>1, <2>6, <2>7, AdminTypes
<1>5. CASE p \in Policy /\ retirePolicy(a, p)
  <2> DEFINE r == [policies[p] EXCEPT !.status = "retired"]
  <2>1. /\ policies[p] # None /\ policies' = [policies EXCEPT ![p] = r]
        /\ UNCHANGED <<bound, items, groups, device, admin>> /\ AdminOnly /\ Submits
    BY <1>5, <1>a DEF retirePolicy, RetirePolicy
  <2>2. policies[p] \in Row
    BY <1>5, <1>a, <2>1
  <2>3. /\ r \in Row /\ r.version = policies[p].version
        /\ policies[p].version <= policies[p].version
        /\ r.kiosk = policies[p].kiosk /\ r.code = policies[p].code
    BY <2>2, RowRetired
  <2> HIDE DEF r
  <2>4. policies' \in [Policy -> Row \cup {None}] /\ Grows
    BY <1>5, <2>1, <2>3, PolicyWritten
  <2> QED
    BY <1>a, <2>1, <2>4, NothingNamed, AdminTypes
<1> QED
  BY <1>1, <1>2, <1>3, <1>4, <1>5

(* Assignments. *)
LEMMA ToggleSteps ==
  ASSUME TypeOK, PoliciesExist, NEW a \in Admin, NEW p, NEW i,
         \/ /\ p \in Policy /\ i \in Item
            /\ \/ togglePolicyApp(a, p, i) \/ togglePolicyCertificate(a, p, i)
               \/ togglePolicyManagedFile(a, p, i)
         \/ Removes(a) \/ ChecksPolicy(a) \/ ChecksItem(a) \/ Adds(a)
  PROVE  AdminKept
<1> USE DEF AdminKept, storeVars
<1>a. /\ policies \in [Policy -> Row \cup {None}]
      /\ bound \in [Policy -> [Item -> {"none", "active", "disabled"}]]
      /\ items \in [Item -> ItemRow]
      /\ groups \in [Group -> {"none", "active", "retired"}]
      /\ device \in DeviceRow
      /\ admin \in [Admin -> Handler]
  BY DEF TypeOK
<1>1. ASSUME p \in Policy, i \in Item, NEW active \in BOOLEAN, Toggles(a, p, i, active)
      PROVE  AdminKept
  <2> DEFINE h == [at |-> IF active THEN "remove" ELSE "checkPolicy",
                   policy |-> p, item |-> i]
  <2>1. h \in Handler /\ h.policy = p
    BY <1>1 DEF Handler, Toggle
  <2>2. /\ policies[p] # None /\ admin' = [admin EXCEPT ![a] = h]
        /\ UNCHANGED storeVars /\ AdminOnly /\ Submits
    BY <1>1 DEF Toggles
  <2> HIDE DEF h
  <2>3. admin' \in [Admin -> Handler] /\ NamesRows
    BY <2>1, <2>2, HandlerNamed
  <2> QED
    BY <1>a, <2>2, <2>3, NothingGrows, AdminTypes
<1>2. CASE Removes(a) \/ Adds(a)
  <2> DEFINE r == admin[a]
  <2>1. /\ r.at \in {"remove", "add"} /\ admin' = [admin EXCEPT ![a] = Free]
        /\ \/ bound' = [bound EXCEPT ![r.policy][r.item] = "disabled"]
           \/ bound' = [bound EXCEPT ![r.policy][r.item] = "active"]
        /\ UNCHANGED <<policies, items, groups, device, edits>> /\ AdminOnly
    BY <1>2 DEF Removes, RemovePolicyApp, RemovePolicyCertificate, RemovePolicyManagedFile,
                Adds, AddPolicyApp, AddPolicyCertificate, AddPolicyManagedFile, Unbinds, Binds
  <2>2. r \in Toggle
    BY <2>1, HandlerParts
  <2>3. r.policy \in Policy /\ r.item \in Item
    BY <2>2 DEF Toggle
  <2> HIDE DEF r
  <2>4. bound' \in [Policy -> [Item -> {"none", "active", "disabled"}]]
    <3>1. ASSUME NEW x \in {"active", "disabled"},
                 bound' = [bound EXCEPT ![r.policy][r.item] = x]
          PROVE  bound' \in [Policy -> [Item -> {"none", "active", "disabled"}]]
      BY <1>a, <2>3, <3>1
    <3> QED
      BY <2>1, <3>1
  <2>5. admin' \in [Admin -> Handler] /\ NamesRows
    BY <1>a, <2>1, FreeIsHandler, NothingNamed
  <2> QED
    BY <1>a, <2>1, <2>4, <2>5, NothingGrows, AdminTypes
<1>3. CASE ChecksPolicy(a) \/ ChecksItem(a)
  <2> DEFINE r == admin[a]
             h(at) == [r EXCEPT !.at = at]
  <2>1. /\ r.at \in {"checkPolicy", "checkItem"}
        /\ \/ admin' = [admin EXCEPT ![a] = Free]
           \/ admin' = [admin EXCEPT ![a] = h("checkItem")]
           \/ admin' = [admin EXCEPT ![a] = h("add")]
        /\ UNCHANGED <<storeVars, edits>> /\ AdminOnly
    BY <1>3 DEF ChecksPolicy, ChecksItem
  <2>2. r \in Toggle /\ policies[r.policy] # None
    BY <2>1, HandlerParts DEF PoliciesExist
  <2>3. ASSUME NEW at \in {"checkItem", "add"}
        PROVE  h(at) \in Handler /\ h(at).policy = r.policy
    BY <2>2 DEF Handler, Toggle
  <2> HIDE DEF h, r
  <2>4. admin' \in [Admin -> Handler] /\ NamesRows
    <3>1. CASE admin' = [admin EXCEPT ![a] = Free]
      BY <1>a, <2>1, <3>1, FreeIsHandler, NothingNamed
    <3>2. ASSUME NEW at \in {"checkItem", "add"}, admin' = [admin EXCEPT ![a] = h(at)]
          PROVE  admin' \in [Admin -> Handler] /\ NamesRows
      BY <2>1, <2>2, <2>3, <3>2, HandlerNamed
    <3> QED
      BY <2>1, <3>1, <3>2
  <2> QED
    BY <1>a, <2>1, <2>4, NothingGrows, AdminTypes
<1>4. ASSUME \/ togglePolicyApp(a, p, i) \/ togglePolicyCertificate(a, p, i)
             \/ togglePolicyManagedFile(a, p, i)
      PROVE  \E active \in BOOLEAN : Toggles(a, p, i, active)
  BY <1>4 DEF togglePolicyApp, togglePolicyCertificate, togglePolicyManagedFile,
              GetPolicyApp, GetPolicyCertificate, GetPolicyManagedFile
<1> QED
  BY <1>1, <1>2, <1>3, <1>4

(* Items and groups. *)
LEMMA ItemSteps ==
  ASSUME TypeOK, PoliciesExist, NEW a \in Admin, NEW i, NEW g,
         \/ i \in Item /\ ItemChanges(a, i)
         \/ g \in Group /\ (createGroup(a, g) \/ retireGroup(a, g))
  PROVE  AdminKept
<1> USE DEF AdminKept, storeVars
<1>a. /\ policies \in [Policy -> Row \cup {None}]
      /\ bound \in [Policy -> [Item -> {"none", "active", "disabled"}]]
      /\ items \in [Item -> ItemRow]
      /\ groups \in [Group -> {"none", "active", "retired"}]
      /\ device \in DeviceRow
      /\ admin \in [Admin -> Handler]
  BY DEF TypeOK
<1>1. CASE i \in Item /\ ItemChanges(a, i)
  <2>1. /\ UNCHANGED <<policies, bound, groups, device, admin>> /\ AdminOnly /\ Submits
        /\ RetireItem(i) \/ Rebind(i) \/ Publish(i)
    BY <1>1 DEF ItemChanges
  <2>2. \E r \in ItemRow : /\ items' = [items EXCEPT ![i] = r]
                           /\ items[i].status = "retired" /\ i \notin File => r.status = "retired"
    <3>1. items[i] \in ItemRow
      BY <1>1, <1>a
    <3>2. /\ [items[i] EXCEPT !.status = "retired"] \in ItemRow
          /\ [status |-> "active", rev |-> items[i].rev + 1] \in ItemRow
          /\ [items[i] EXCEPT !.rev = items[i].rev + 1] \in ItemRow
      BY <3>1 DEF ItemRow
    <3>3. CASE RetireItem(i)
      BY <1>a, <3>2, <3>3 DEF RetireItem, ItemRow
    <3>4. CASE Rebind(i)
      BY <1>a, <3>2, <3>4 DEF Rebind
    <3>5. CASE Publish(i)
      BY <1>a, <3>2, <3>5 DEF Publish
    <3> QED
      BY <2>1, <3>3, <3>4, <3>5
  <2>3. items' \in [Item -> ItemRow]
    BY <1>1, <1>a, <2>2
  <2>4. \A j \in Item \ File : items[j].status = "retired" => items'[j].status = "retired"
    BY <1>1, <1>a, <2>2
  <2>5. \A q \in Policy : policies[q] # None => policies[q].version <= policies[q].version
    BY <1>a DEF Row
  <2>6. Grows
    BY <2>1, <2>4, <2>5 DEF Grows
  <2> QED
    BY <1>a, <2>1, <2>3, <2>6, NothingNamed, AdminTypes
<1>2. CASE g \in Group /\ (createGroup(a, g) \/ retireGroup(a, g))
  <2>1. /\ UNCHANGED <<policies, bound, items, device, admin>> /\ AdminOnly /\ Submits
        /\ \/ groups' = [groups EXCEPT ![g] = "active"]
           \/ groups' = [groups EXCEPT ![g] = "retired"]
    BY <1>2 DEF createGroup, retireGroup, CreateGroup, RetireGroup
  <2>2. groups' \in [Group -> {"none", "active", "retired"}]
    BY <1>2, <1>a, <2>1
  <2> QED
    BY <1>a, <2>1, <2>2, NothingGrows, NothingNamed, AdminTypes
<1> QED
  BY <1>1, <1>2

(* The device. *)
LEMMA DeviceSteps ==
  ASSUME TypeOK, PoliciesExist, NEW a \in Admin, NEW p, NEW gs \in SUBSET Group,
         \/ p \in Policy /\ (createDevice(a, p, gs) \/ updateDevice(a, p, gs))
         \/ retireDevice(a) \/ InsertsDevice(a) \/ WritesDevice(a)
  PROVE  AdminKept
<1> USE DEF AdminKept, storeVars
<1>a. /\ policies \in [Policy -> Row \cup {None}]
      /\ bound \in [Policy -> [Item -> {"none", "active", "disabled"}]]
      /\ items \in [Item -> ItemRow]
      /\ groups \in [Group -> {"none", "active", "retired"}]
      /\ device \in DeviceRow
      /\ admin \in [Admin -> Handler]
  BY DEF TypeOK
<1>1. CASE p \in Policy /\ (createDevice(a, p, gs) \/ updateDevice(a, p, gs))
  <2> DEFINE h(at) == [at |-> at, policy |-> p, groups |-> gs]
  <2>1. /\ policies[p] # None /\ UNCHANGED storeVars /\ AdminOnly /\ Submits
        /\ \E at \in {"insert", "update"} : admin' = [admin EXCEPT ![a] = h(at)]
    BY <1>1 DEF createDevice, updateDevice
  <2>2. ASSUME NEW at \in {"insert", "update"}
        PROVE  h(at) \in Handler /\ h(at).policy = p
    BY <1>1 DEF Handler, Edit
  <2> HIDE DEF h
  <2>3. admin' \in [Admin -> Handler] /\ NamesRows
    BY <2>1, <2>2, HandlerNamed
  <2> QED
    BY <1>a, <2>1, <2>3, NothingGrows, AdminTypes
<1>2. CASE retireDevice(a)
  <2>1. /\ device.status # "none" /\ device' = [device EXCEPT !.status = "retired"]
        /\ UNCHANGED <<policies, bound, items, groups, admin>> /\ AdminOnly /\ Submits
    BY <1>2 DEF retireDevice, RetireDevice
  <2>2. device' \in DeviceRow /\ device'.policy = device.policy
    BY <1>a, <2>1 DEF DeviceRow
  <2>3. NamesRows
    BY <2>1, <2>2 DEF NamesRows
  <2> QED
    BY <1>a, <2>1, <2>2, <2>3, NothingGrows, AdminTypes
<1>3. CASE InsertsDevice(a) \/ WritesDevice(a)
  <2> DEFINE h == admin[a]
  <2>1. /\ h.at \in {"insert", "update"}
        /\ admin' = [admin EXCEPT ![a] = Free]
        /\ \/ device' = [policy |-> h.policy, groups |-> h.groups, status |-> "active"]
           \/ device' = [device EXCEPT !.policy = h.policy, !.groups = h.groups]
           \/ device' = device
        /\ UNCHANGED <<policies, bound, items, groups, edits>> /\ AdminOnly
    BY <1>3 DEF InsertsDevice, WritesDevice, CreateDevice, UpdateDevice
  <2>2. h \in Edit /\ policies[h.policy] # None
    BY <2>1, HandlerParts DEF PoliciesExist
  <2>3. h.policy \in Policy /\ h.groups \in SUBSET Group /\ h.policy # None
    BY <2>2, NoneIsNothing DEF Edit
  <2> HIDE DEF h
  <2>4. device' \in DeviceRow /\ (device'.policy = h.policy \/ device' = device)
    <3>1. CASE device' = [policy |-> h.policy, groups |-> h.groups, status |-> "active"]
      BY <2>3, <3>1 DEF DeviceRow
    <3>2. CASE device' = [device EXCEPT !.policy = h.policy, !.groups = h.groups]
      BY <1>a, <2>3, <3>2 DEF DeviceRow
    <3> QED
      BY <1>a, <2>1, <3>1, <3>2
  <2>5. admin' \in [Admin -> Handler]
    BY <1>a, <2>1, FreeIsHandler
  <2>6. NamesRows
    <3>1. \A b \in Admin : admin'[b] \in {admin[b], Free}
      BY <1>a, <2>1
    <3> QED
      BY <2>2, <2>3, <2>4, <3>1 DEF NamesRows
  <2> QED
    BY <1>a, <2>1, <2>4, <2>5, <2>6, NothingGrows, AdminTypes
<1> QED
  BY <1>1, <1>2, <1>3

-----------------------------------------------------------------------------
(***************************************************************************)
(* The steps of the whole                                                  *)
(***************************************************************************)

(* The steps of administrators. *)
LEMMA AdminSteps ==
  ASSUME TypeOK, PoliciesExist, NEW a \in Admin, AdminSubmits(a) \/ AdminContinues(a)
  PROVE  AdminKept
<1>1. ASSUME NEW p \in Policy, NEW kiosk \in BOOLEAN, NEW code \in Passcode \cup {None},
             createPolicy(a, p, kiosk, code) \/ updatePolicy(a, p, kiosk, code)
      PROVE  AdminKept
  BY <1>1, FormSteps
<1>2. ASSUME NEW p \in Policy, retirePolicy(a, p) PROVE AdminKept
  BY <1>2, FormSteps
<1>3. ASSUME NEW p \in Policy, NEW gs \in SUBSET Group,
             createDevice(a, p, gs) \/ updateDevice(a, p, gs)
      PROVE  AdminKept
  BY <1>3, DeviceSteps
<1>4. ASSUME NEW p \in Policy, NEW i \in Item,
             \/ togglePolicyApp(a, p, i) \/ togglePolicyCertificate(a, p, i)
             \/ togglePolicyManagedFile(a, p, i)
      PROVE  AdminKept
  BY <1>4, ToggleSteps
<1>5. ASSUME NEW i \in Item, ItemChanges(a, i) PROVE AdminKept
  BY <1>5, ItemSteps
<1>6. ASSUME NEW g \in Group, createGroup(a, g) \/ retireGroup(a, g) PROVE AdminKept
  BY <1>6, ItemSteps
<1>7. CASE retireDevice(a)
  BY <1>7, DeviceSteps
<1>8. CASE AdminContinues(a)
  BY <1>8, FormSteps, ToggleSteps, DeviceSteps DEF AdminContinues
<1> QED
  BY <1>1, <1>2, <1>3, <1>4, <1>5, <1>6, <1>7, <1>8 DEF AdminSubmits

(* They keep the invariant: what the device has and what its request found *)
(* can only fall behind.                                                   *)
LEMMA AdminStep ==
  ASSUME IInv, NEW a \in Admin, AdminSubmits(a) \/ AdminContinues(a)
  PROVE  IInv'
<1> USE DEF IInv
<1>1. TypeOK' /\ Grows /\ NamesRows /\ UNCHANGED <<fetch, config>>
  BY AdminSteps DEF AdminKept, AdminOnly
<1>2. /\ \A b \in Admin : admin[b] # Free => admin[b].policy \in Policy
      /\ \A b \in Admin : admin'[b] # Free => admin'[b].policy \in Policy
      /\ device.policy \in Policy \cup {None} /\ device'.policy \in Policy \cup {None}
      /\ fetch.policy \in Policy \cup {None}
      /\ config # None => config.policy \in Policy /\ config.version \in Nat
  BY <1>1 DEF TypeOK, Handler, Form, Toggle, Edit, DeviceRow, Fetch, Config
<1>3. PoliciesExist'
  BY <1>1, <1>2 DEF PoliciesExist, NamesRows, Grows
<1>4. VersionsGrow' /\ VersionNamesContent'
  <2> SUFFICES ASSUME config # None
               PROVE  LET r == policies'[config.policy] IN
                        /\ config.version <= r.version
                        /\ config.version = r.version
                             => config.kiosk = r.kiosk /\ config.code = r.code
    BY <1>1 DEF VersionsGrow, VersionNamesContent
  <2> DEFINE old == policies[config.policy]
             new == policies'[config.policy]
  <2>1. /\ old # None /\ new # None
        /\ old.version <= new.version
        /\ old.version = new.version => new.kiosk = old.kiosk /\ new.code = old.code
    BY <1>1, <1>2 DEF PoliciesExist, Grows
  <2>2. old.version \in Nat /\ new.version \in Nat
    BY <1>1, <1>2, <2>1 DEF TypeOK, Row
  <2>3. /\ config.version <= old.version
        /\ config.version = old.version => config.kiosk = old.kiosk /\ config.code = old.code
    BY DEF VersionsGrow, VersionNamesContent
  <2> HIDE DEF old, new
  <2>4. config.version <= new.version
    BY <1>2, <2>1, <2>2, <2>3
  <2>5. config.version = new.version => config.version = old.version /\ old.version = new.version
    BY <1>2, <2>1, <2>2, <2>3
  <2>6. config.version = new.version => config.kiosk = new.kiosk /\ config.code = new.code
    BY <2>1, <2>3, <2>5
  <2> QED
    BY <2>4, <2>6 DEF new
<1>5. GoneForGood'
  <2>1. fetch.gone \subseteq Item
    BY DEF TypeOK, Fetch
  <2> QED
    BY <1>1, <2>1 DEF GoneForGood, Grows
<1>6. RetiredIsNotOffered'
  BY <1>1 DEF RetiredIsNotOffered
<1> QED
  BY <1>1, <1>3, <1>4, <1>5, <1>6

(* The steps of a request of the device. *)
LEMMA FetchStep ==
  ASSUME IInv, Fetches \/ FetchFails
  PROVE  IInv'
<1> USE DEF IInv
<1>a. /\ fetch \in Fetch /\ device \in DeviceRow /\ items \in [Item -> ItemRow]
      /\ policies \in [Policy -> Row \cup {None}] /\ config \in Config \cup {None}
      /\ faults \in 0..MaxFaults
  BY DEF TypeOK
<1>b. /\ fetch.policy \in Policy \cup {None} /\ fetch.todo \subseteq Item
      /\ fetch.got \subseteq Item \X Nat /\ fetch.gone \subseteq Item
  BY <1>a DEF Fetch
<1> DEFINE Rest == UNCHANGED <<storeVars, admin, edits>>
<1>c. ASSUME Rest, fetch' \in Fetch, config' \in Config \cup {None}, faults' \in 0..MaxFaults
      PROVE  TypeOK'
  BY <1>c DEF TypeOK, storeVars
<1>d. NoFetch \in Fetch
  BY DEF NoFetch, Fetch
(* A step of the request for the same policy that reads nothing. *)
<1>e. ASSUME Rest, UNCHANGED <<config, faults>>, fetch' \in Fetch,
             fetch'.at # "none" => fetch'.policy # None /\ policies[fetch'.policy] # None,
             fetch'.got = {} \/ (fetch'.got = fetch.got /\ fetch'.gone = fetch.gone),
             fetch'.gone = fetch.gone
               \/ \A i \in fetch'.gone : i \notin File /\ items[i].status = "retired"
      PROVE  IInv'
  <2>1. TypeOK'
    BY <1>a, <1>c, <1>e
  <2>2. PoliciesExist' /\ VersionsGrow' /\ VersionNamesContent'
    BY <1>e DEF PoliciesExist, VersionsGrow, VersionNamesContent, storeVars
  <2>3. GoneForGood' /\ RetiredIsNotOffered'
    BY <1>e DEF GoneForGood, RetiredIsNotOffered, storeVars
  <2> QED
    BY <2>1, <2>2, <2>3
<1>1. CASE FetchStarts
  <2>1. device.policy \in Policy /\ policies[device.policy] # None
    BY <1>1, <1>a DEF FetchStarts, Authenticate, PoliciesExist, DeviceRow
  <2>2. fetch' \in Fetch
    BY <1>1, <2>1 DEF FetchStarts, Fetch
  <2> QED
    BY <1>1, <1>e, <2>1, <2>2, NoneIsNothing DEF FetchStarts
<1>2. ASSUME NEW from \in {"apps", "files", "certs"}, NEW to \in {"files", "certs", "policy"},
             NEW listed \in SUBSET Item, FetchLists(from, to, listed)
      PROVE  IInv'
  <2>1. /\ fetch' = [fetch EXCEPT !.at = to, !.todo = listed] /\ fetch.at # "none"
        /\ Rest /\ UNCHANGED <<config, faults>>
    BY <1>2 DEF FetchLists
  <2>2. /\ fetch' \in Fetch /\ fetch'.policy = fetch.policy
        /\ fetch'.got = fetch.got /\ fetch'.gone = fetch.gone
    BY <1>a, <2>1 DEF Fetch
  <2> QED
    BY <1>e, <2>1, <2>2 DEF PoliciesExist
<1>3. CASE listPublishedPolicyApps \/ listPolicyManagedFiles \/ listPolicyCertificates
  BY <1>2, <1>3 DEF listPublishedPolicyApps, listPolicyManagedFiles, listPolicyCertificates, Item,
       ListActivePolicyApps, ListActivePolicyManagedFiles, ListActivePolicyCertificates
<1>4. ASSUME NEW i \in Item, FetchReads(i) PROVE IInv'
  <2> DEFINE new == IF Offered(i) THEN {<<i, items[i].rev>>} ELSE {}
  <2>1. /\ fetch' = [fetch EXCEPT !.todo = @ \ {i}, !.got = @ \cup new] /\ fetch.at # "none"
        /\ Rest /\ UNCHANGED <<config, faults>>
    BY <1>4 DEF FetchReads
  <2>2. new \subseteq Item \X Nat
    BY <1>a DEF ItemRow
  <2>3. \A o \in new : o[1] = i /\ items[i].status = "active"
    BY DEF Offered
  <2> HIDE DEF new
  <2>4. /\ fetch' \in Fetch /\ fetch'.policy = fetch.policy /\ fetch'.at = fetch.at
        /\ fetch'.got = fetch.got \cup new /\ fetch'.gone = fetch.gone
    BY <1>a, <2>1, <2>2 DEF Fetch
  <2>5. TypeOK'
    BY <1>a, <1>c, <2>1, <2>4
  <2>6. PoliciesExist' /\ VersionsGrow' /\ VersionNamesContent'
    BY <2>1, <2>4 DEF PoliciesExist, VersionsGrow, VersionNamesContent, storeVars
  <2>7. GoneForGood'
    BY <2>1, <2>4 DEF GoneForGood, storeVars
  <2>8. RetiredIsNotOffered'
    BY <2>1, <2>3, <2>4 DEF RetiredIsNotOffered, GoneForGood, storeVars
  <2> QED
    BY <2>5, <2>6, <2>7, <2>8
<1>5. CASE devicePolicySnapshot
  <2> DEFINE p == fetch.policy
  <2>1. /\ fetch.at = "policy" /\ config' = Snapshot(p, fetch.got) /\ fetch' = NoFetch
        /\ Rest /\ UNCHANGED faults
    BY <1>5 DEF devicePolicySnapshot
  <2>2. p \in Policy /\ policies[p] # None
    BY <1>b, <2>1 DEF PoliciesExist
  <2>3. policies[p] \in Row
    BY <1>a, <2>2
  <2>4. /\ config' \in Config /\ config'.policy = p
        /\ config'.version = policies[p].version /\ config'.version <= policies[p].version
        /\ config'.kiosk = policies[p].kiosk /\ config'.code = policies[p].code
    BY <1>b, <2>1, <2>2, <2>3 DEF Snapshot, GetPolicy, Config, Row
  <2> HIDE DEF p
  <2>5. TypeOK'
    BY <1>a, <1>c, <1>d, <2>1, <2>4
  <2>6. PoliciesExist' /\ VersionsGrow' /\ VersionNamesContent'
    BY <2>1, <2>2, <2>4
       DEF PoliciesExist, VersionsGrow, VersionNamesContent, storeVars, NoFetch
  <2>7. GoneForGood' /\ RetiredIsNotOffered'
    BY <2>1 DEF GoneForGood, RetiredIsNotOffered, NoFetch
  <2> QED
    BY <2>5, <2>6, <2>7
<1>6. CASE FetchFails
  <2>1. /\ fetch' = NoFetch /\ Rest /\ UNCHANGED config /\ faults' \in 0..MaxFaults
    BY <1>6, <1>a, BoundsAssumption DEF FetchFails
  <2>2. TypeOK'
    BY <1>a, <1>c, <1>d, <2>1
  <2>3. PoliciesExist' /\ VersionsGrow' /\ VersionNamesContent'
    BY <2>1 DEF PoliciesExist, VersionsGrow, VersionNamesContent, storeVars, NoFetch
  <2>4. GoneForGood' /\ RetiredIsNotOffered'
    BY <2>1 DEF GoneForGood, RetiredIsNotOffered, NoFetch
  <2> QED
    BY <2>2, <2>3, <2>4
<1> QED
  BY <1>1, <1>3, <1>4, <1>5, <1>6 DEF Fetches

LEMMA InitIInv == Init => IInv
<1> SUFFICES ASSUME Init PROVE IInv
  OBVIOUS
<1>1. policies \in [Policy -> Row \cup {None}]
  <2>1. ASSUME NEW r \in [kiosk : {FALSE}, code : {None}, status : {"active"}, version : {1}]
        PROVE  r \in Row
    <3>1. /\ r = [kiosk |-> FALSE, code |-> r.code, status |-> "active", version |-> 1]
          /\ r.code \in Passcode \cup {None}
      OBVIOUS
    <3> QED
      BY <3>1, RowCreated
  <2>2. ASSUME NEW r \in [kiosk : {TRUE}, code : Passcode, status : {"active"}, version : {1}]
        PROVE  r \in Row
    <3>1. /\ r = [kiosk |-> TRUE, code |-> r.code, status |-> "active", version |-> 1]
          /\ r.code \in Passcode \cup {None}
      OBVIOUS
    <3> QED
      BY <3>1, RowCreated
  <2> QED
    BY <2>1, <2>2 DEF Init, InitStore
<1>2. items \in [Item -> ItemRow]
  BY DEF Init, InitStore, ItemRow
<1>3. device \in DeviceRow
        /\ (device.status # "none" => device.policy \in Policy /\ policies[device.policy] # None)
  BY DEF Init, InitStore, DeviceRow
<1>4. TypeOK
  BY <1>1, <1>2, <1>3, BoundsAssumption, FreeIsHandler
     DEF Init, InitStore, TypeOK, NoFetch, Fetch
<1>5. PoliciesExist
  BY <1>3, NoneIsNothing DEF Init, PoliciesExist, NoFetch
<1> QED
  BY <1>4, <1>5 DEF Init, IInv, VersionsGrow, VersionNamesContent, GoneForGood,
                    RetiredIsNotOffered, NoFetch

THEOREM Invariance == Spec => []IInv
<1>1. IInv /\ UNCHANGED vars => IInv'
  BY DEF IInv, vars, storeVars, TypeOK, PoliciesExist, VersionsGrow, VersionNamesContent,
         GoneForGood, RetiredIsNotOffered
<1>2. IInv /\ [Next]_vars => IInv'
  BY <1>1, AdminStep, FetchStep DEF Next
<1> QED
  BY <1>2, InitIInv, PTL DEF Spec

(* Type correctness of the stores, the handlers and the request. *)
THEOREM TypeCorrect == Spec => []TypeOK
<1>1. IInv => TypeOK
  BY DEF IInv
<1> QED
  BY <1>1, Invariance, PTL

(* A snapshot with the policy's current version has its current content,   *)
(* however many administrators edit at once.                               *)
THEOREM VersionNamesContentAlways == Spec => []VersionNamesContent
<1>1. IInv => VersionNamesContent
  BY DEF IInv
<1> QED
  BY <1>1, Invariance, PTL

(* What was retired for good before a request came in is not in its answer. *)
THEOREM RetiredIsNotOfferedEver == Spec => []RetiredIsNotOffered
<1>1. IInv => RetiredIsNotOffered
  BY DEF IInv
<1> QED
  BY <1>1, Invariance, PTL

-----------------------------------------------------------------------------
(***************************************************************************)
(* Any number of editors                                                   *)
(***************************************************************************)

(* The step ends no kiosk while a form that replaces it is between the two *)
(* reads of updatePolicy.                                                  *)
EndsNoKioskRead ==
  \A a \in Admin :
    admin[a].at = "merge" /\ admin'[a] = admin[a] /\ policies[admin[a].policy].kiosk
      => policies'[admin[a].policy].kiosk

KioskInv == IInv /\ FormsHold /\ KioskCanBeLeft

(* A step that writes no policy and starts or continues no form.           *)
LEMMA KioskIdle ==
  ASSUME KioskInv, UNCHANGED policies,
         \A a \in Admin : admin'[a].at \in {"merge", "write"} => admin'[a] = admin[a],
         UNCHANGED config
  PROVE  FormsHold' /\ KioskCanBeLeft'
BY DEF KioskInv, FormsHold, KioskCanBeLeft

(* A step of an administrator: a form merges what it did not say with a    *)
(* kiosk that is still one, although others submit theirs.                 *)
LEMMA KioskAdminStep ==
  ASSUME EndsNoKioskRead, KioskInv, NEW a \in Admin, AdminSubmits(a) \/ AdminContinues(a)
  PROVE  FormsHold' /\ KioskCanBeLeft'
<1> USE NoneIsNothing DEF storeVars
<1>a. /\ admin \in [Admin -> Handler] /\ policies \in [Policy -> Row \cup {None}]
      /\ TypeOK /\ FormsHold /\ KioskCanBeLeft /\ PoliciesExist /\ config \in Config \cup {None}
  BY DEF KioskInv, IInv, TypeOK
<1>b. Free.at = "free"
  BY DEF Free
<1>1. ASSUME NEW p \in Policy, NEW kiosk \in BOOLEAN, NEW code \in Passcode \cup {None},
             createPolicy(a, p, kiosk, code)
      PROVE  FormsHold' /\ KioskCanBeLeft'
  <2> DEFINE r == [kiosk |-> kiosk, code |-> code, status |-> "active", version |-> 1]
  <2>1. /\ policies[p] = None /\ policies' = [policies EXCEPT ![p] = r]
        /\ UNCHANGED <<admin, config>> /\ (kiosk => code # None)
    BY <1>1 DEF createPolicy, CreatePolicy, AdminOnly, PasscodeGiven
  <2>2. \A b \in Admin : admin[b].at = "merge" => admin[b].policy # p
    BY <1>a, <2>1, HandlerParts DEF PoliciesExist
  <2>3. FormsHold'
    <3> SUFFICES ASSUME NEW b \in Admin, admin[b].at = "merge", admin[b].kiosk, admin[b].code = None
                 PROVE  policies'[admin[b].policy].kiosk
      BY <1>a, <2>1 DEF FormsHold
    <3>1. admin[b].policy \in Policy \ {p}
      BY <1>a, <2>2, HandlerParts DEF Form
    <3> QED
      BY <1>a, <2>1, <3>1 DEF FormsHold
  <2>4. KioskCanBeLeft'
    BY <1>a, <2>1 DEF KioskCanBeLeft
  <2> QED
    BY <2>3, <2>4
<1>2. ASSUME NEW p \in Policy, NEW kiosk \in BOOLEAN, NEW code \in Passcode \cup {None},
             updatePolicy(a, p, kiosk, code)
      PROVE  FormsHold' /\ KioskCanBeLeft'
  <2> DEFINE h == [at |-> "merge", policy |-> p, kiosk |-> kiosk, code |-> code]
  <2>1. /\ admin' = [admin EXCEPT ![a] = h] /\ UNCHANGED <<policies, config>>
        /\ kiosk /\ code = None => policies[p].kiosk
    BY <1>2 DEF updatePolicy, AdminOnly, PasscodeGiven, GetPolicy
  <2>2. FormsHold'
    BY <1>a, <2>1 DEF FormsHold
  <2>3. KioskCanBeLeft'
    BY <1>a, <2>1 DEF KioskCanBeLeft
  <2> QED
    BY <2>2, <2>3
<1>3. CASE ReadsPasscode(a)
  <2> DEFINE r == admin[a]
             code == MergedPasscode(r.policy, r.kiosk, r.code)
             h == [at |-> "write", policy |-> r.policy, kiosk |-> r.kiosk, code |-> code]
  <2>1. r.at = "merge" /\ admin' = [admin EXCEPT ![a] = h] /\ UNCHANGED <<policies, config>>
    BY <1>3 DEF ReadsPasscode, AdminOnly
  <2>2. r \in Form /\ policies[r.policy] # None
    BY <1>a, <2>1, HandlerParts DEF PoliciesExist
  <2>3. r.policy \in Policy /\ r.kiosk \in BOOLEAN /\ r.code \in Passcode \cup {None}
    BY <2>2 DEF Form
  <2>4. r.kiosk /\ r.code = None => policies[r.policy].kiosk
    BY <1>a, <2>1 DEF FormsHold
  <2>5. r.kiosk => code # None
    BY <1>a, <2>2, <2>3, <2>4 DEF MergedPasscode, mergeKioskExitPasscode, KioskCanBeLeft
  <2> HIDE DEF r, code
  <2>6. FormsHold'
    BY <1>a, <2>1, <2>4, <2>5 DEF FormsHold
  <2>7. KioskCanBeLeft'
    BY <1>a, <2>1 DEF KioskCanBeLeft
  <2> QED
    BY <2>6, <2>7
<1>4. CASE WritesPolicy(a)
  <2> DEFINE h == admin[a]
             old == policies[h.policy]
             r == [old EXCEPT !.kiosk = h.kiosk, !.code = h.code, !.version = old.version + 1]
  <2>1. /\ h.at = "write" /\ admin' = [admin EXCEPT ![a] = Free]
        /\ policies' = [policies EXCEPT ![h.policy] = r] /\ UNCHANGED config
    BY <1>4 DEF WritesPolicy, UpdatePolicy, AdminOnly
  <2>2. h \in Form /\ old # None
    BY <1>a, <2>1, HandlerParts DEF PoliciesExist
  <2>3. h.policy \in Policy
    BY <2>2 DEF Form
  <2>4. old \in Row
    BY <1>a, <2>2, <2>3
  <2>5. r.kiosk = h.kiosk /\ r.code = h.code
    BY <2>4 DEF Row
  <2>6. h.kiosk => h.code # None
    BY <1>a, <2>1 DEF FormsHold
  <2> HIDE DEF h, r
  <2>7. ASSUME NEW b \in Admin, admin'[b].at \in {"merge", "write"}
        PROVE  admin'[b] = admin[b]
    BY <1>a, <1>b, <2>1, <2>7
  <2>8. FormsHold'
    BY <1>a, <2>7 DEF FormsHold, EndsNoKioskRead
  <2>9. KioskCanBeLeft'
    BY <1>a, <2>1, <2>3, <2>5, <2>6 DEF KioskCanBeLeft
  <2> QED
    BY <2>8, <2>9
<1>5. ASSUME NEW p \in Policy, retirePolicy(a, p) PROVE FormsHold' /\ KioskCanBeLeft'
  <2> DEFINE r == [policies[p] EXCEPT !.status = "retired"]
  <2>1. /\ policies[p] # None /\ policies' = [policies EXCEPT ![p] = r]
        /\ UNCHANGED <<admin, config>>
    BY <1>5, <1>a DEF retirePolicy, RetirePolicy, AdminOnly
  <2>2. policies[p] \in Row
    BY <1>a, <2>1
  <2>3. r.kiosk = policies[p].kiosk /\ r.code = policies[p].code
    BY <2>2 DEF Row
  <2> HIDE DEF r
  <2>4. FormsHold'
    <3> SUFFICES ASSUME NEW b \in Admin, admin[b].at = "merge", admin[b].kiosk, admin[b].code = None
                 PROVE  policies'[admin[b].policy].kiosk
      BY <1>a, <2>1 DEF FormsHold
    <3>1. admin[b].policy \in Policy
      BY <1>a, HandlerParts DEF Form
    <3> QED
      BY <1>a, <2>1, <2>3, <3>1 DEF FormsHold
  <2>5. KioskCanBeLeft'
    BY <1>a, <2>1, <2>3 DEF KioskCanBeLeft
  <2> QED
    BY <2>4, <2>5
(* The other handlers. *)
<1>c. ASSUME UNCHANGED <<policies, config>>, NEW h,
             \/ UNCHANGED admin
             \/ admin' = [admin EXCEPT ![a] = h] /\ h.at \notin {"merge", "write"}
      PROVE  FormsHold' /\ KioskCanBeLeft'
  BY <1>a, <1>c, KioskIdle
<1>6. ASSUME NEW p \in Policy, NEW i \in Item,
             \/ togglePolicyApp(a, p, i) \/ togglePolicyCertificate(a, p, i)
             \/ togglePolicyManagedFile(a, p, i)
      PROVE  FormsHold' /\ KioskCanBeLeft'
  <2>1. PICK active \in BOOLEAN : Toggles(a, p, i, active)
    BY <1>6 DEF togglePolicyApp, togglePolicyCertificate, togglePolicyManagedFile,
                GetPolicyApp, GetPolicyCertificate, GetPolicyManagedFile
  <2> DEFINE h == [at |-> IF active THEN "remove" ELSE "checkPolicy", policy |-> p, item |-> i]
  <2>2. UNCHANGED <<policies, config>> /\ admin' = [admin EXCEPT ![a] = h]
    BY <2>1 DEF Toggles, AdminOnly
  <2>3. h.at \notin {"merge", "write"}
    OBVIOUS
  <2> HIDE DEF h
  <2> QED
    BY <1>c, <2>2, <2>3
<1>7. ASSUME NEW p \in Policy, NEW gs \in SUBSET Group,
             createDevice(a, p, gs) \/ updateDevice(a, p, gs)
      PROVE  FormsHold' /\ KioskCanBeLeft'
  <2> DEFINE h(at) == [at |-> at, policy |-> p, groups |-> gs]
  <2>1. /\ UNCHANGED <<policies, config>>
        /\ \E at \in {"insert", "update"} : admin' = [admin EXCEPT ![a] = h(at)]
    BY <1>7 DEF createDevice, updateDevice, AdminOnly
  <2>2. \A at \in {"insert", "update"} : h(at).at \notin {"merge", "write"}
    OBVIOUS
  <2> HIDE DEF h
  <2> QED
    BY <1>c, <2>1, <2>2
<1>8. ASSUME NEW i \in Item, ItemChanges(a, i) PROVE FormsHold' /\ KioskCanBeLeft'
  BY <1>8, <1>c DEF ItemChanges, AdminOnly
<1>9. ASSUME NEW g \in Group, createGroup(a, g) \/ retireGroup(a, g)
      PROVE  FormsHold' /\ KioskCanBeLeft'
  BY <1>9, <1>c DEF createGroup, retireGroup, AdminOnly
<1>10. CASE retireDevice(a)
  BY <1>10, <1>c DEF retireDevice, AdminOnly
<1>11. CASE Removes(a) \/ Adds(a) \/ InsertsDevice(a) \/ WritesDevice(a)
  <2>1. UNCHANGED <<policies, config>> /\ admin' = [admin EXCEPT ![a] = Free]
    BY <1>11 DEF Removes, Adds, InsertsDevice, WritesDevice, AdminOnly
  <2> QED
    BY <1>b, <1>c, <2>1
<1>12. CASE ChecksPolicy(a) \/ ChecksItem(a)
  <2>1. /\ admin[a].at \in {"checkPolicy", "checkItem"} /\ UNCHANGED <<policies, config>>
        /\ \/ admin' = [admin EXCEPT ![a] = Free]
           \/ admin' = [admin EXCEPT ![a] = [admin[a] EXCEPT !.at = "checkItem"]]
           \/ admin' = [admin EXCEPT ![a] = [admin[a] EXCEPT !.at = "add"]]
    BY <1>12 DEF ChecksPolicy, ChecksItem, AdminOnly
  <2>2. admin[a] \in Toggle
    BY <1>a, <2>1, HandlerParts
  <2>3. /\ [admin[a] EXCEPT !.at = "checkItem"].at = "checkItem"
        /\ [admin[a] EXCEPT !.at = "add"].at = "add"
    BY <2>2 DEF Toggle
  <2> QED
    BY <1>b, <1>c, <2>1, <2>3
<1> QED
  BY <1>1, <1>2, <1>3, <1>4, <1>5, <1>6, <1>7, <1>8, <1>9, <1>10, <1>11, <1>12
     DEF AdminSubmits, AdminContinues

(* A step of a request: a snapshot copies a policy that can be left. *)
LEMMA KioskFetchStep ==
  ASSUME KioskInv, Fetches \/ FetchFails
  PROVE  FormsHold' /\ KioskCanBeLeft'
<1>1. UNCHANGED <<policies, admin>>
  BY DEF Fetches, FetchFails, FetchStarts, listPublishedPolicyApps, listPolicyManagedFiles,
         listPolicyCertificates, FetchLists, FetchReads, devicePolicySnapshot, storeVars
<1>2. FormsHold'
  BY <1>1 DEF KioskInv, FormsHold
<1>3. config' = config \/ (fetch.at # "none" /\ config' = Snapshot(fetch.policy, fetch.got))
  BY DEF Fetches, FetchFails, FetchStarts, listPublishedPolicyApps, listPolicyManagedFiles,
         listPolicyCertificates, FetchLists, FetchReads, devicePolicySnapshot
<1>4. fetch.at # "none" => fetch.policy \in Policy /\ policies[fetch.policy] # None
  BY DEF KioskInv, IInv, TypeOK, Fetch, PoliciesExist
<1>5. KioskCanBeLeft'
  BY <1>1, <1>3, <1>4 DEF KioskInv, KioskCanBeLeft, Snapshot, GetPolicy
<1> QED
  BY <1>2, <1>5

(* However many administrators submit forms at once, no policy and no      *)
(* device gets a kiosk without a passcode, unless a form ends a kiosk just *)
(* between the two reads that another one makes of it: this is the only    *)
(* race of updatePolicy.                                                   *)
THEOREM KioskCanBeLeftUnraced ==
  Spec /\ [][EndsNoKioskRead]_vars => []KioskCanBeLeft
<1>1. Init => KioskInv
  <2> SUFFICES ASSUME Init PROVE FormsHold /\ KioskCanBeLeft
    BY InitIInv DEF KioskInv
  <2>1. \A p \in Policy : policies[p] # None =>
          \/ policies[p] \in [kiosk : {FALSE}, code : {None}, status : {"active"}, version : {1}]
          \/ policies[p] \in [kiosk : {TRUE}, code : Passcode, status : {"active"}, version : {1}]
    BY DEF Init, InitStore
  <2>2. \A p \in Policy : policies[p] # None /\ policies[p].kiosk => policies[p].code # None
    BY <2>1, NoneIsNothing
  <2> QED
    BY <2>2 DEF Init, FormsHold, KioskCanBeLeft, Free
<1>2. KioskInv /\ [Next]_vars /\ [EndsNoKioskRead]_vars => KioskInv'
  <2> SUFFICES ASSUME KioskInv, [Next]_vars, [EndsNoKioskRead]_vars PROVE KioskInv'
    OBVIOUS
  <2>1. CASE UNCHANGED vars
    BY <2>1 DEF KioskInv, IInv, vars, storeVars, TypeOK, PoliciesExist, VersionsGrow,
         VersionNamesContent, GoneForGood, RetiredIsNotOffered, FormsHold, KioskCanBeLeft
  <2>2. CASE Next /\ EndsNoKioskRead
    BY <2>2, KioskAdminStep, KioskFetchStep, AdminStep, FetchStep DEF Next, KioskInv
  <2> QED
    BY <2>1, <2>2
<1>3. KioskInv => KioskCanBeLeft
  BY DEF KioskInv
<1> QED
  BY <1>1, <1>2, <1>3, PTL DEF Spec

=============================================================================
