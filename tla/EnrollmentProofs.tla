-------------------------- MODULE EnrollmentProofs --------------------------
(***************************************************************************)
(* Proofs about Enrollment, for any sets of tokens, devices, phones and    *)
(* coroutines, and any number of intents, faults and DisableDevice calls.  *)
(***************************************************************************)
EXTENDS Enrollment, TLAPS

(***************************************************************************)
(* The inductive invariant.                                                *)
(***************************************************************************)

(* A coroutine under way carries the bootstrap it was started for. *)
Requested ==
  \A p \in Phone, k \in Call :
    call[p][k].step # "idle" => call[p][k].boot \in Bootstrap

(* A binding uses up its token and its device for good. *)
UsedUp ==
  \A x \in bound : /\ token[x[1]] = "consumed"
                   /\ device[x[2]] \in {"enrolled", "retired"}

(* What a phone has been given: the identity it has stored, and those its  *)
(* coroutines have been answered with and not stored yet.                  *)
Answers(p) ==
  {<<call[p][k].boot[2], call[p][k].secret>> :
     k \in {x \in Call : call[p][x].step = "ok"}}
Held(p) == Answers(p) \cup ({identity[p]} \ {None})

(* What a phone has been given is good: the secret of a bound device, *)
Good ==
  \A p \in Phone : \A h \in Held(p) :
    /\ \E x \in bound : x[2] = h[1]
    /\ secretHash[h[1]] = h[2]

(* and no two phones have been given the same device. *)
Exclusive ==
  \A p, q \in Phone : \A g \in Held(p), h \in Held(q) : g[1] = h[1] => p = q

IInv ==
  /\ TypeOK
  /\ Requested
  /\ UsedUp
  /\ BoundOnce
  /\ Good
  /\ Exclusive
  /\ RetiredIsCutOff

-----------------------------------------------------------------------------
(***************************************************************************)
(* The server                                                              *)
(***************************************************************************)

(* What NothingIsRevived says of a step. *)
Forward ==
  /\ \A t \in Token : token[t] \notin {"none", "issued"}
                        => token'[t] = token[t]
  /\ \A d \in Device :
       /\ device[d] = "retired" => device'[d] = "retired"
       /\ device[d] = "enrolled" => device'[d] \in {"enrolled", "retired"}

(* A step that binds nothing, *)
Unbinding == UNCHANGED <<bound, secretHash>>

(* and one that binds the token t to the device d. *)
Binding(t, d) ==
  /\ token[t] = "issued" /\ token'[t] = "consumed"
  /\ device[d] = "pending" /\ device'[d] = "enrolled"
  /\ secretHash' = [secretHash EXCEPT ![d] = NewSecret]
  /\ bound' = bound \cup {<<t, d>>}

(* What every step of the server keeps. *)
Kept == StoreTypeOK' /\ RetiredIsCutOff' /\ Forward

(* The steps of administrators and of the housekeeping. *)
LEMMA AdminSteps ==
  ASSUME StoreTypeOK, RetiredIsCutOff, AdminStep
  PROVE  Kept /\ Unbinding
<1> USE MaxDisablesAssumption
    DEF Kept, StoreTypeOK, RetiredIsCutOff, Forward, Unbinding, CanConnect,
        tokenVars, deviceVars, brokerVars, bindVars, TokenStatus, DeviceStatus
<1>1. ASSUME NEW t \in Token, IssueToken(t) PROVE Kept /\ Unbinding
  BY <1>1 DEF IssueToken
<1>2. ASSUME NEW t \in Token, Lapse(t) PROVE Kept /\ Unbinding
  BY <1>2 DEF Lapse
<1>3. ASSUME NEW t \in Token, RevokeToken(t) PROVE Kept /\ Unbinding
  BY <1>3 DEF RevokeToken
<1>4. ASSUME NEW t \in Token, NEW consume \in BOOLEAN, inspectToken(t, consume)
      PROVE  Kept /\ Unbinding
  BY <1>4 DEF inspectToken, Lapsed
<1>5. CASE ExpireTokens
  BY <1>5 DEF ExpireTokens, Lapsed
<1>6. ASSUME NEW d \in Device, CreateDevice(d) PROVE Kept /\ Unbinding
  BY <1>6 DEF CreateDevice
<1>7. ASSUME NEW d \in Device, RetireDevice(d) PROVE Kept /\ Unbinding
  BY <1>7 DEF RetireDevice
<1> QED
  BY <1>1, <1>2, <1>3, <1>4, <1>5, <1>6, <1>7 DEF AdminStep

(* The steps of the broker. *)
LEMMA BrokerSteps ==
  ASSUME StoreTypeOK, RetiredIsCutOff, NEW d \in Device,
         NEW disables \in BOOLEAN, NEW deletes \in BOOLEAN,
         DisableDevice(d, disables, deletes)
  PROVE  Kept /\ Unbinding
<1> USE MaxDisablesAssumption
    DEF Kept, StoreTypeOK, RetiredIsCutOff, Forward, Unbinding, CanConnect,
        tokenVars, deviceVars, DisableDevice, TokenStatus, DeviceStatus
<1>1. StoreTypeOK' /\ Forward /\ Unbinding
  OBVIOUS
<1>2. RetiredIsCutOff'
  OBVIOUS
<1> QED
  BY <1>1, <1>2

(* The account BindDevice leaves at the broker. *)
LEMMA UpsertTypes ==
  ASSUME StoreTypeOK, NEW d \in Device, NEW creates \in BOOLEAN, NEW modifies \in BOOLEAN,
         UpsertDevice(d, creates, modifies)
  PROVE  /\ account' \in [Device -> Nat]
         /\ unprovisioned' \subseteq Device
         /\ NewSecret \in Nat
         /\ \A e \in Device \ {d} : account'[e] = account[e]
         /\ unprovisioned \subseteq unprovisioned'
<1> USE DEF StoreTypeOK, UpsertDevice, NewSecret
<1>1. NewSecret \in Nat
  OBVIOUS
<1>2. account' \in [Device -> Nat]
  BY <1>1
<1>3. \A e \in Device \ {d} : account'[e] = account[e]
  OBVIOUS
<1>4. unprovisioned' \subseteq Device /\ unprovisioned \subseteq unprovisioned'
  OBVIOUS
<1> QED
  BY <1>1, <1>2, <1>3, <1>4

(* A binding, whether its request is answered or its commit reports an     *)
(* error.                                                                  *)
LEMMA BindingSteps ==
  ASSUME StoreTypeOK, RetiredIsCutOff, NEW t \in Token, NEW d \in Device,
         NEW creates \in BOOLEAN, NEW modifies \in BOOLEAN,
         BindDevice(t, d, creates, modifies) \/ BindFails(t, d, TRUE)
  PROVE  Kept /\ Binding(t, d)
<1> USE MaxDisablesAssumption
<1>1. \E c, m \in BOOLEAN : UpsertDevice(d, c, m)
  BY DEF BindDevice, BindFails
<1>2. /\ account' \in [Device -> Nat]
      /\ unprovisioned' \subseteq Device
      /\ NewSecret \in Nat
      /\ \A e \in Device \ {d} : account'[e] = account[e]
      /\ unprovisioned \subseteq unprovisioned'
      /\ disabled' = disabled
  BY <1>1, UpsertTypes DEF UpsertDevice
<1>3. Binds(t, d) /\ CommitBinding(t, d) /\ secrets' = NewSecret /\ overdue' = overdue
  BY DEF BindDevice, BindFails
<1>4. disabling' \in [Device -> 0..MaxDisables]
  <2>1. \/ disabling' = disabling
        \/ /\ disabling[d] < MaxDisables
           /\ disabling' = [disabling EXCEPT ![d] = @ + 1]
    BY DEF BindDevice, BindFails
  <2> QED
    BY <2>1 DEF StoreTypeOK
<1>5. \A e \in Device \ {d} : disabling'[e] = disabling[e]
  BY DEF BindDevice, BindFails, StoreTypeOK
<1>6. StoreTypeOK'
  <2>1. token' \in [Token -> TokenStatus] /\ device' \in [Device -> DeviceStatus]
    BY <1>3 DEF StoreTypeOK, CommitBinding, TokenStatus, DeviceStatus
  <2>2. secretHash' \in [Device -> Nat] /\ bound' \subseteq Bootstrap
    BY <1>2, <1>3 DEF StoreTypeOK, CommitBinding, Bootstrap
  <2> QED
    BY <1>2, <1>3, <1>4, <2>1, <2>2 DEF StoreTypeOK
<1>7. Forward /\ Binding(t, d)
  BY <1>3 DEF StoreTypeOK, Binds, CommitBinding, Forward, Binding,
              TokenStatus, DeviceStatus
<1>8. RetiredIsCutOff'
  <2> SUFFICES ASSUME NEW e \in Device, device'[e] = "retired",
                      disabling'[e] = 0, e \notin unprovisioned'
               PROVE  ~CanConnect(e)'
    BY DEF RetiredIsCutOff
  <2>1. e # d /\ device[e] = "retired"
    BY <1>3 DEF CommitBinding, StoreTypeOK
  <2> QED
    BY <2>1, <1>2, <1>5 DEF RetiredIsCutOff, CanConnect
<1> QED
  BY <1>6, <1>7, <1>8 DEF Kept

(* A rejected binding, and one whose commit failed. *)
LEMMA NotBindingSteps ==
  ASSUME StoreTypeOK, RetiredIsCutOff, NEW t \in Token, NEW d \in Device,
         BindRejected(t, d) \/ BindFails(t, d, FALSE)
  PROVE  Kept /\ Unbinding
<1> USE MaxDisablesAssumption
<1>1. CASE BindRejected(t, d)
  BY <1>1 DEF BindRejected, Kept, StoreTypeOK, RetiredIsCutOff, Forward, Unbinding,
              Lapsed, CanConnect, deviceVars, brokerVars, bindVars,
              TokenStatus, DeviceStatus
<1>2. CASE BindFails(t, d, FALSE)
  <2>1. /\ account' \in [Device -> Nat]
        /\ unprovisioned' \subseteq Device
        /\ NewSecret \in Nat
        /\ \A e \in Device \ {d} : account'[e] = account[e]
        /\ unprovisioned \subseteq unprovisioned'
        /\ disabled' = disabled
    BY <1>2, UpsertTypes DEF BindFails, UpsertDevice
  <2>2. /\ Binds(t, d) /\ UNCHANGED <<token, deviceVars, bound, overdue>>
        /\ secrets' = NewSecret
        /\ disabling' = [disabling EXCEPT ![d] = @ + 1]
        /\ disabling[d] < MaxDisables
    BY <1>2 DEF BindFails
  <2>3. StoreTypeOK' /\ Forward /\ Unbinding
    BY <2>1, <2>2 DEF StoreTypeOK, deviceVars, Forward, Unbinding
  <2>4. RetiredIsCutOff'
    <3> SUFFICES ASSUME NEW e \in Device, device'[e] = "retired",
                        disabling'[e] = 0, e \notin unprovisioned'
                 PROVE  ~CanConnect(e)'
      BY DEF RetiredIsCutOff
    <3>1. e # d /\ device[e] = "retired"
      BY <2>2 DEF Binds, StoreTypeOK, deviceVars
    <3> QED
      BY <3>1, <2>1, <2>2 DEF RetiredIsCutOff, CanConnect, StoreTypeOK
  <2> QED
    BY <2>3, <2>4 DEF Kept
<1> QED
  BY <1>1, <1>2

-----------------------------------------------------------------------------
(***************************************************************************)
(* The phones                                                              *)
(***************************************************************************)

(* A step that stores no identity and whose answers are old ones gives a   *)
(* phone nothing.                                                          *)
LEMMA HeldShrinks ==
  ASSUME NEW q \in Phone,
         identity'[q] \in {identity[q], None},
         \A k \in Call : call'[q][k].step = "ok" => call'[q][k] = call[q][k]
  PROVE  Held(q)' \subseteq Held(q)
BY DEF Held, Answers

(* What the steps of a phone keep, *)
PhoneKept ==
  /\ LauncherTypeOK'
  /\ Requested'

(* and what those that get no answer from the server keep. *)
NothingNew == \A q \in Phone : Held(q)' \subseteq Held(q)

LEMMA IdleType == IdleCall \in Coroutine
BY DEF IdleCall, Coroutine

(* A step that sets at most one coroutine, and that to one of the type.    *)
LEMMA OneCall ==
  ASSUME LauncherTypeOK, Requested, NEW p \in Phone, NEW k \in Call,
         NEW c \in Coroutine, c.step # "idle" => c.boot \in Bootstrap,
         call' = [call EXCEPT ![p][k] = c]
  PROVE  /\ call' \in [Phone -> [Call -> Coroutine]]
         /\ Requested'
         /\ call'[p][k] = c
         /\ \A q \in Phone, j \in Call :
              q # p \/ j # k => call'[q][j] = call[q][j]
<1>1. call' \in [Phone -> [Call -> Coroutine]]
  BY DEF LauncherTypeOK
<1>2. call'[p][k] = c
  BY DEF LauncherTypeOK
<1>3. \A q \in Phone, j \in Call : q # p \/ j # k => call'[q][j] = call[q][j]
  BY DEF LauncherTypeOK
<1> QED
  BY <1>1, <1>2, <1>3 DEF Requested

(* A new activity: its coroutines are gone. *)
LEMMA CreatedSteps ==
  ASSUME LauncherTypeOK, Requested, NEW p \in Phone,
         NEW i \in Bootstrap \cup {Malformed, None},
         onCreate(p, i) \/ Recreate(p) \/ ProcessDies(p)
  PROVE  PhoneKept /\ NothingNew
<1> USE DEF LauncherTypeOK, diskVars
<1>1. identity' = identity /\ call' = [call EXCEPT ![p] = [k \in Call |-> IdleCall]]
  BY DEF onCreate, Recreate, ProcessDies, NewActivity
<1>2. call' \in [Phone -> [Call -> Coroutine]]
  BY <1>1, IdleType
<1>3. ASSUME onCreate(p, i) PROVE LauncherTypeOK'
  BY <1>2, <1>3 DEF onCreate, NewActivity
<1>4. ASSUME Recreate(p) PROVE LauncherTypeOK'
  BY <1>2, <1>4 DEF Recreate, NewActivity
<1>5. ASSUME ProcessDies(p) PROVE LauncherTypeOK'
  BY <1>2, <1>5 DEF ProcessDies
<1>6. Requested'
  BY <1>1 DEF Requested, IdleCall
<1>7. NothingNew
  BY <1>1, HeldShrinks DEF NothingNew, IdleCall
<1> QED
  BY <1>3, <1>4, <1>5, <1>6, <1>7 DEF PhoneKept

(* The steps of the activity and the DataStore that leave the coroutines   *)
(* alone.                                                                  *)
LEMMA IntakeSteps ==
  ASSUME LauncherTypeOK, Requested, NEW p \in Phone,
         NEW i \in Bootstrap \cup {Malformed, None},
         \/ startLauncherRuntime(p) \/ onNewIntent(p, i)
         \/ PersistBootstrap(p) \/ Emit(p)
  PROVE  PhoneKept /\ NothingNew
<1> USE DEF LauncherTypeOK, diskVars, memoryVars, clearAllState
<1>1. ASSUME startLauncherRuntime(p) PROVE LauncherTypeOK'
  BY <1>1 DEF startLauncherRuntime
<1>2. ASSUME onNewIntent(p, i) PROVE LauncherTypeOK'
  <2>1. CASE i = None
    <3>1. /\ intent' = [intent EXCEPT ![p] = i]
          /\ UNCHANGED <<app, diskVars, memoryVars>>
          /\ fresh' \subseteq fresh
      BY <1>2, <2>1 DEF onNewIntent
    <3> QED
      BY <3>1
  <2>2. CASE i # None
    <3>1. /\ intent' = [intent EXCEPT ![p] = i]
          /\ clearAllState(p)
          /\ UNCHANGED memoryVars
          /\ fresh' = fresh \cup {p}
      BY <1>2, <2>2 DEF onNewIntent
    <3> QED
      BY <3>1
  <2> QED
    BY <2>1, <2>2
<1>3. ASSUME PersistBootstrap(p) PROVE LauncherTypeOK'
  BY <1>3 DEF PersistBootstrap
<1>4. ASSUME Emit(p) PROVE LauncherTypeOK'
  BY <1>4 DEF Emit
<1>5. call' = call /\ \A q \in Phone : identity'[q] \in {identity[q], None}
  BY DEF startLauncherRuntime, onNewIntent, PersistBootstrap, Emit
<1>6. Requested'
  BY <1>5 DEF Requested
<1>7. NothingNew
  BY <1>5, HeldShrinks DEF NothingNew
<1> QED
  BY <1>1, <1>2, <1>3, <1>4, <1>6, <1>7 DEF PhoneKept

(* A coroutine is started. *)
LEMMA StartSteps ==
  ASSUME LauncherTypeOK, Requested, NEW p \in Phone, maybeStartEnrollment(p)
  PROVE  PhoneKept /\ NothingNew
<1> USE DEF LauncherTypeOK, diskVars
<1>1. seen[p][1] \in Bootstrap \cup {None} /\ seen[p] # NoState
  BY DEF maybeStartEnrollment
<1>2. /\ identity' = identity
      /\ UNCHANGED <<intent, app, boot, fresh>>
      /\ seen' = [seen EXCEPT ![p] = NoState]
      /\ \/ machine' = machine
         \/ machine' = [machine EXCEPT ![p] = "Enrolled"]
         \/ machine' = [machine EXCEPT ![p] = "Enrolling"]
      /\ attempted' = attempted \/ attempted' = [attempted EXCEPT ![p] = seen[p][1]]
  BY DEF maybeStartEnrollment
<1> DEFINE Sent == [IdleCall EXCEPT !.step = "sent", !.boot = seen[p][1]]
<1>3. call' = call \/ (seen[p][1] # None /\ StartCall(p, seen[p][1]))
  BY DEF maybeStartEnrollment, nextEnrollmentBootstrap
<1>4. call' = call \/ \E k \in Call :
        seen[p][1] \in Bootstrap /\ call' = [call EXCEPT ![p][k] = Sent]
  BY <1>1, <1>3 DEF StartCall
<1>5. seen[p][1] \in Bootstrap
        => Sent \in Coroutine /\ Sent.step = "sent" /\ Sent.boot \in Bootstrap
  BY DEF IdleCall, Coroutine
<1> HIDE DEF Sent, LauncherTypeOK
<1> DEFINE Calls == /\ call' \in [Phone -> [Call -> Coroutine]]
                    /\ Requested'
                    /\ \A q \in Phone, k \in Call :
                         call'[q][k].step = "ok" => call'[q][k] = call[q][k]
<1>6. Calls
  <2>1. CASE call' = call
    BY <2>1 DEF LauncherTypeOK, Requested
  <2>2. ASSUME NEW k \in Call, seen[p][1] \in Bootstrap,
               call' = [call EXCEPT ![p][k] = Sent]
        PROVE  Calls
    BY <2>2, <1>5, OneCall
  <2> QED
    BY <1>4, <2>1, <2>2
<1>7. LauncherTypeOK'
  BY <1>1, <1>2, <1>6 DEF LauncherTypeOK
<1>8. NothingNew
  BY <1>2, <1>6, HeldShrinks DEF NothingNew
<1> QED
  BY <1>6, <1>7, <1>8 DEF PhoneKept

(* A coroutine's call returns or fails. *)
LEMMA CallSteps ==
  ASSUME LauncherTypeOK, Requested, NEW p \in Phone, NEW k \in Call,
         NEW step \in {"ok", "error"}, NEW secret \in Nat,
         call[p][k].step = "sent", CallStep(p, k, step, secret)
  PROVE  /\ PhoneKept
         /\ identity' = identity
         /\ \A q \in Phone, j \in Call :
              q # p \/ j # k => call'[q][j] = call[q][j]
         /\ call'[p][k].step = step
         /\ call'[p][k].boot = call[p][k].boot
         /\ call'[p][k].secret = secret
<1> DEFINE c == [call[p][k] EXCEPT !.step = step, !.secret = secret]
<1>1. call[p][k] \in Coroutine /\ call[p][k].boot \in Bootstrap
  BY DEF LauncherTypeOK, Requested
<1>2. /\ c \in Coroutine /\ c.boot \in Bootstrap
      /\ c.step = step /\ c.boot = call[p][k].boot /\ c.secret = secret
  BY <1>1 DEF Coroutine
<1>4. call' = [call EXCEPT ![p][k] = c]
  BY DEF CallStep, LauncherTypeOK
<1> HIDE DEF c
<1>5. /\ call' \in [Phone -> [Call -> Coroutine]]
      /\ Requested'
      /\ call'[p][k] = c
      /\ \A q \in Phone, j \in Call : q # p \/ j # k => call'[q][j] = call[q][j]
  BY <1>2, <1>4, OneCall
<1>6. LauncherTypeOK'
  <2>1. UNCHANGED <<intent, app, boot, identity, machine, attempted, seen, fresh>>
    BY DEF CallStep, diskVars
  <2> QED
    BY <1>5, <2>1 DEF LauncherTypeOK
<1>7. identity' = identity
  BY DEF CallStep, diskVars
<1> QED
  BY <1>2, <1>5, <1>6, <1>7 DEF PhoneKept

(* saveDeviceIdentity stores what the coroutine was answered. *)
LEMMA SaveSteps ==
  ASSUME LauncherTypeOK, Requested, NEW p \in Phone, NEW k \in Call,
         saveDeviceIdentity(p, k)
  PROVE  PhoneKept /\ NothingNew
<1> DEFINE c == [call[p][k] EXCEPT !.step = "saved"]
           answer == <<call[p][k].boot[2], call[p][k].secret>>
<1>1. call[p][k] \in Coroutine /\ call[p][k].boot \in Bootstrap
  BY DEF LauncherTypeOK, Requested, saveDeviceIdentity
<1>2. c \in Coroutine /\ c.boot \in Bootstrap /\ c.step = "saved"
  BY <1>1 DEF Coroutine
<1>3. answer \in Identity
  BY <1>1 DEF Coroutine, Identity, Bootstrap
<1>4. /\ call' = [call EXCEPT ![p][k] = c]
      /\ identity' = [identity EXCEPT ![p] = answer]
      /\ answer \in Answers(p)
  BY DEF saveDeviceIdentity, LauncherTypeOK, Answers
<1> HIDE DEF c, answer
<1>5. /\ call' \in [Phone -> [Call -> Coroutine]]
      /\ Requested'
      /\ call'[p][k] = c
      /\ \A q \in Phone, j \in Call : q # p \/ j # k => call'[q][j] = call[q][j]
  BY <1>2, <1>4, OneCall
<1>6. LauncherTypeOK'
  <2>1. UNCHANGED <<intent, app, boot, machine, attempted, seen, fresh>>
    BY DEF saveDeviceIdentity
  <2> QED
    BY <1>3, <1>4, <1>5, <2>1 DEF LauncherTypeOK
<1>7. \A q \in Phone : Answers(q)' \subseteq Answers(q)
  BY <1>2, <1>5 DEF Answers
<1>8. NothingNew
  BY <1>4, <1>7 DEF NothingNew, Held, LauncherTypeOK
<1> QED
  BY <1>5, <1>6, <1>8 DEF PhoneKept

(* A coroutine ends. *)
LEMMA EndSteps ==
  ASSUME LauncherTypeOK, Requested, NEW p \in Phone, NEW k \in Call,
         CallEnds(p, k)
  PROVE  PhoneKept /\ NothingNew
<1>1. /\ call' = [call EXCEPT ![p][k] = IdleCall]
      /\ identity' = identity
  BY DEF CallEnds, diskVars
<1>2. IdleCall \in Coroutine /\ IdleCall.step = "idle"
  BY IdleType DEF IdleCall
<1> HIDE DEF IdleCall
<1>3. /\ call' \in [Phone -> [Call -> Coroutine]]
      /\ Requested'
      /\ call'[p][k] = IdleCall
      /\ \A q \in Phone, j \in Call : q # p \/ j # k => call'[q][j] = call[q][j]
  BY <1>1, <1>2, OneCall
<1>4. LauncherTypeOK'
  BY <1>3 DEF LauncherTypeOK, CallEnds, diskVars
<1>5. NothingNew
  BY <1>1, <1>2, <1>3, HeldShrinks DEF NothingNew
<1> QED
  BY <1>3, <1>4, <1>5 DEF PhoneKept

-----------------------------------------------------------------------------
(***************************************************************************)
(* What the phones hold against what the server has bound                  *)
(***************************************************************************)

LEMMA HeldType ==
  ASSUME LauncherTypeOK, Requested, NEW p \in Phone, NEW h \in Held(p)
  PROVE  h \in Device \X Nat
<1>1. CASE h = identity[p] /\ h # None
  BY <1>1 DEF LauncherTypeOK, Identity
<1>2. ASSUME NEW k \in Call, call[p][k].step = "ok",
             h = <<call[p][k].boot[2], call[p][k].secret>>
      PROVE  h \in Device \X Nat
  BY <1>2 DEF LauncherTypeOK, Requested, Coroutine, Bootstrap
<1> QED
  BY <1>1, <1>2 DEF Held, Answers

(* The invariants that relate the two sides. *)
Related == UsedUp /\ BoundOnce /\ Good /\ Exclusive

(* A step that binds nothing and gives the phones nothing keeps them. *)
LEMMA RelatedKept ==
  ASSUME StoreTypeOK, LauncherTypeOK, Requested, Related,
         Forward, Unbinding, NothingNew
  PROVE  Related'
<1> USE DEF Related
<1>1. UsedUp'
  <2> SUFFICES ASSUME NEW x \in bound
               PROVE  token'[x[1]] = "consumed" /\ device'[x[2]] \in {"enrolled", "retired"}
    BY DEF UsedUp, Unbinding
  <2>1. x[1] \in Token /\ x[2] \in Device
    BY DEF StoreTypeOK, Bootstrap
  <2> QED
    BY <2>1 DEF UsedUp, Forward
<1>2. BoundOnce'
  BY DEF BoundOnce, Unbinding
<1>3. Good'
  <2> SUFFICES ASSUME NEW p \in Phone, NEW h \in Held(p)'
               PROVE  /\ \E x \in bound' : x[2] = h[1]
                      /\ secretHash'[h[1]] = h[2]
    BY DEF Good
  <2>1. h \in Held(p)
    BY DEF NothingNew
  <2> QED
    BY <2>1 DEF Good, Unbinding
<1>4. Exclusive'
  BY DEF Exclusive, NothingNew
<1> QED
  BY <1>1, <1>2, <1>3, <1>4

(* A binding of t to d gives d's new secret to the phone P at most: the    *)
(* device was still pending, so no phone held it, and the token was still  *)
(* issued, so it had bound nothing.                                        *)
LEMMA RelatedBound ==
  ASSUME StoreTypeOK, LauncherTypeOK, Requested, Related,
         NEW t \in Token, NEW d \in Device, Forward, Binding(t, d), NEW P,
         \A q \in Phone :
           Held(q)' \subseteq Held(q) \cup (IF q = P THEN {<<d, NewSecret>>} ELSE {})
  PROVE  Related'
<1> USE DEF Related
<1>1. \A x \in bound : /\ x \in Token \X Device
                       /\ x[1] # t /\ x[2] # d
  BY DEF StoreTypeOK, Bootstrap, UsedUp, Binding
<1>2. \A x \in bound' : x \in bound \/ x = <<t, d>>
  BY DEF Binding
<1>3. UsedUp'
  <2> SUFFICES ASSUME NEW x \in bound'
               PROVE  token'[x[1]] = "consumed" /\ device'[x[2]] \in {"enrolled", "retired"}
    BY DEF UsedUp
  <2>1. CASE x \in bound
    BY <1>1, <2>1 DEF UsedUp, Forward
  <2>2. CASE x = <<t, d>>
    BY <2>2 DEF Binding
  <2> QED
    BY <1>2, <2>1, <2>2
<1>4. BoundOnce'
  BY <1>1, <1>2 DEF BoundOnce
<1>5. \A q \in Phone : \A h \in Held(q) : h[1] \in Device /\ h[1] # d
  BY <1>1, HeldType DEF Good
<1>6. \A q \in Phone : \A h \in Held(q)' :
        h \in Held(q) \/ (q = P /\ h = <<d, NewSecret>>)
  OBVIOUS
<1>7. Good'
  <2> SUFFICES ASSUME NEW q \in Phone, NEW h \in Held(q)'
               PROVE  /\ \E x \in bound' : x[2] = h[1]
                      /\ secretHash'[h[1]] = h[2]
    BY DEF Good
  <2>1. CASE h \in Held(q)
    BY <1>5, <2>1 DEF Good, Binding, StoreTypeOK
  <2>2. CASE h = <<d, NewSecret>>
    <3>1. <<t, d>> \in bound' /\ <<t, d>>[2] = d
      BY DEF Binding
    <3>2. h[1] = d /\ secretHash'[d] = NewSecret /\ h[2] = NewSecret
      BY <2>2 DEF Binding, StoreTypeOK
    <3> QED
      BY <3>1, <3>2
  <2> QED
    BY <1>6, <2>1, <2>2
<1>8. Exclusive'
  BY <1>5, <1>6 DEF Exclusive
<1> QED
  BY <1>3, <1>4, <1>7, <1>8

-----------------------------------------------------------------------------
(***************************************************************************)
(* The steps of the whole                                                  *)
(***************************************************************************)

(* The rest of the type invariant. *)
NetTypeOK ==
  /\ orphans \subseteq Bootstrap
  /\ intents \in 0..MaxIntents
  /\ faults \in 0..MaxFaults

LEMMA FaultType ==
  ASSUME faults \in 0..MaxFaults, Fault \/ faults' = faults
  PROVE  faults' \in 0..MaxFaults
BY BoundsAssumption DEF Fault

LEMMA PhonesIdle ==
  ASSUME LauncherTypeOK, Requested, UNCHANGED phoneVars
  PROVE  PhoneKept /\ NothingNew
<1> USE DEF phoneVars, diskVars, memoryVars
<1>1. LauncherTypeOK' /\ Requested'
  BY DEF LauncherTypeOK, Requested
<1>2. NothingNew
  BY DEF NothingNew, Held, Answers
<1> QED
  BY <1>1, <1>2 DEF PhoneKept

LEMMA StoreIdle ==
  ASSUME StoreTypeOK, RetiredIsCutOff, UNCHANGED storeVars
  PROVE  Kept /\ Unbinding
BY DEF Kept, Unbinding, Forward, StoreTypeOK, RetiredIsCutOff, CanConnect,
       storeVars, tokenVars, deviceVars, brokerVars, bindVars

(* A request bound, whoever awaits the answer. *)
LEMMA BindSteps ==
  ASSUME StoreTypeOK, RetiredIsCutOff, faults \in 0..MaxFaults,
         NEW b \in Bootstrap, Bind(b)
  PROVE  Kept /\ Binding(b[1], b[2]) /\ faults' \in 0..MaxFaults
<1>1. b[1] \in Token /\ b[2] \in Device
  BY DEF Bootstrap
<1>2. PICK creates \in BOOLEAN, modifies \in BOOLEAN :
        BindDevice(b[1], b[2], creates, modifies) /\ FaultIf(~modifies)
  BY DEF Bind
<1>3. Kept /\ Binding(b[1], b[2])
  BY <1>1, <1>2, BindingSteps
<1> QED
  BY <1>2, <1>3, FaultType DEF FaultIf

(* A request that is rejected or fails. *)
LEMMA OtherRequestSteps ==
  ASSUME StoreTypeOK, RetiredIsCutOff, faults \in 0..MaxFaults,
         NEW b \in Bootstrap,
         (BindRejected(b[1], b[2]) /\ UNCHANGED faults) \/ BindFailing(b)
  PROVE  /\ Kept
         /\ Unbinding \/ Binding(b[1], b[2])
         /\ faults' \in 0..MaxFaults
<1>1. b[1] \in Token /\ b[2] \in Device
  BY DEF Bootstrap
<1>2. faults' \in 0..MaxFaults
  BY FaultType DEF BindFailing
<1>3. CASE BindRejected(b[1], b[2])
  BY <1>1, <1>2, <1>3, NotBindingSteps
<1>4. CASE BindFailing(b)
  <2>1. PICK committed \in BOOLEAN : BindFails(b[1], b[2], committed)
    BY <1>4 DEF BindFailing
  <2>2. CASE committed = TRUE
    BY <1>1, <1>2, <2>1, <2>2, BindingSteps
  <2>3. CASE committed = FALSE
    BY <1>1, <1>2, <2>1, <2>3, NotBindingSteps
  <2> QED
    BY <2>2, <2>3
<1> QED
  BY <1>3, <1>4

(* Related holds after such a request, if the phones are given nothing. *)
LEMMA RelatedAnyway ==
  ASSUME StoreTypeOK, LauncherTypeOK, Requested, Related, NEW b \in Bootstrap,
         Forward, Unbinding \/ Binding(b[1], b[2]), NothingNew
  PROVE  Related'
<1>1. CASE Unbinding
  BY <1>1, RelatedKept
<1>2. CASE Binding(b[1], b[2])
  <2>1. b[1] \in Token /\ b[2] \in Device
    BY DEF Bootstrap
  <2>2. \A q \in Phone : Held(q)' \subseteq Held(q) \cup
          (IF q = None THEN {<<b[2], NewSecret>>} ELSE {})
    BY DEF NothingNew
  <2> QED
    BY <1>2, <2>1, <2>2, RelatedBound
<1> QED
  BY <1>1, <1>2

(* What an error answer leaves on the phone. *)
LEMMA ErrorSteps ==
  ASSUME LauncherTypeOK, Requested, NEW p \in Phone, NEW k \in Call,
         call[p][k].step = "sent", CallStep(p, k, "error", 0)
  PROVE  PhoneKept /\ NothingNew
<1>1. /\ PhoneKept
      /\ identity' = identity
      /\ \A q \in Phone, j \in Call : q # p \/ j # k => call'[q][j] = call[q][j]
      /\ call'[p][k].step = "error"
  BY CallSteps
<1>2. \A q \in Phone, j \in Call :
        call'[q][j].step = "ok" => call'[q][j] = call[q][j]
  BY <1>1
<1>3. NothingNew
  BY <1>1, <1>2, HeldShrinks DEF NothingNew
<1> QED
  BY <1>1, <1>3

(* What the answer to a binding leaves on the phone. *)
LEMMA AnswerSteps ==
  ASSUME LauncherTypeOK, Requested, NEW p \in Phone, NEW k \in Call,
         NewSecret \in Nat,
         call[p][k].step = "sent", CallStep(p, k, "ok", NewSecret)
  PROVE  /\ PhoneKept
         /\ \A q \in Phone : Held(q)' \subseteq Held(q) \cup
              (IF q = p THEN {<<call[p][k].boot[2], NewSecret>>} ELSE {})
<1>1. /\ PhoneKept
      /\ identity' = identity
      /\ \A q \in Phone, j \in Call : q # p \/ j # k => call'[q][j] = call[q][j]
      /\ call'[p][k].boot = call[p][k].boot
      /\ call'[p][k].secret = NewSecret
  BY CallSteps
<1>2. ASSUME NEW q \in Phone, NEW h \in Answers(q)'
      PROVE  h \in Answers(q) \/ (q = p /\ h = <<call[p][k].boot[2], NewSecret>>)
  <2>1. PICK j \in Call : call'[q][j].step = "ok"
                          /\ h = <<call'[q][j].boot[2], call'[q][j].secret>>
    BY <1>2 DEF Answers
  <2>2. CASE q = p /\ j = k
    BY <1>1, <2>1, <2>2
  <2>3. CASE q # p \/ j # k
    BY <1>1, <2>1, <2>3 DEF Answers
  <2> QED
    BY <2>2, <2>3
<1>3. \A q \in Phone : Held(q)' \subseteq Held(q) \cup
        (IF q = p THEN {<<call[p][k].boot[2], NewSecret>>} ELSE {})
  BY <1>1, <1>2 DEF Held
<1> QED
  BY <1>1, <1>3

-----------------------------------------------------------------------------
(***************************************************************************)
(* The theorems                                                            *)
(***************************************************************************)

(* Every step keeps the inductive invariant and revives nothing. *)
LEMMA Step == IInv /\ [Next]_vars => IInv' /\ Forward
<1> SUFFICES ASSUME IInv, [Next]_vars
             PROVE  Kept /\ PhoneKept /\ Related' /\ NetTypeOK'
  BY DEF IInv, TypeOK, Kept, PhoneKept, Related, NetTypeOK
<1> DEFINE Goal == Kept /\ PhoneKept /\ Related' /\ NetTypeOK'
<1> USE BoundsAssumption
<1>a. /\ StoreTypeOK /\ LauncherTypeOK /\ Requested /\ Related
      /\ RetiredIsCutOff /\ NetTypeOK
  BY DEF IInv, TypeOK, Related, NetTypeOK
<1>b. Kept => Forward
  BY DEF Kept
<1>c. \A p \in Phone : Abandoned(p) \subseteq Bootstrap
  BY <1>a DEF Abandoned, Requested
<1>1. CASE UNCHANGED vars
  BY <1>1, <1>a, <1>b, PhonesIdle, StoreIdle, RelatedKept
     DEF vars, netVars, NetTypeOK
<1>2. CASE AdminStep
  <2>1. UNCHANGED <<phoneVars, netVars>>
    BY <1>2 DEF AdminStep
  <2> QED
    BY <1>2, <2>1, <1>a, <1>b, PhonesIdle, AdminSteps, RelatedKept
       DEF netVars, NetTypeOK
<1>3. ASSUME NEW d \in Device, BrokerStep(d) PROVE Goal
  <2>1. PICK disables \in BOOLEAN, deletes \in BOOLEAN :
          DisableDevice(d, disables, deletes) /\ FaultIf(~(disables /\ deletes))
    BY <1>3 DEF BrokerStep
  <2>2. UNCHANGED <<phoneVars, orphans, intents>>
    BY <1>3 DEF BrokerStep
  <2>3. Kept /\ Unbinding
    BY <1>a, <2>1, BrokerSteps
  <2>4. NetTypeOK'
    BY <1>a, <2>1, <2>2, FaultType DEF NetTypeOK, FaultIf
  <2> QED
    BY <1>a, <1>b, <2>2, <2>3, <2>4, PhonesIdle, RelatedKept
<1>4. ASSUME NEW p \in Phone, NEW i \in Bootstrap \cup {Malformed}, Provision(p, i)
      PROVE  Goal
  <2>1. NetTypeOK'
    BY <1>4, <1>a DEF Provision, Sends, NetTypeOK
  <2>2. PhoneKept /\ NothingNew
    BY <1>4, <1>a, CreatedSteps, IntakeSteps DEF Provision
  <2>3. UNCHANGED storeVars
    BY <1>4 DEF Provision
  <2> QED
    BY <1>a, <1>b, <2>1, <2>2, <2>3, StoreIdle, RelatedKept
<1>5. ASSUME NEW p \in Phone, OpenPlainly(p) PROVE Goal
  <2>1. UNCHANGED <<storeVars, netVars>>
    BY <1>5 DEF OpenPlainly
  <2>2. PhoneKept /\ NothingNew
    BY <1>5, <1>a, CreatedSteps, IntakeSteps DEF OpenPlainly
  <2> QED
    BY <1>a, <1>b, <2>1, <2>2, StoreIdle, RelatedKept DEF netVars, NetTypeOK
<1>6. ASSUME NEW p \in Phone, Restore(p) \/ Dies(p) PROVE Goal
  <2>1. /\ UNCHANGED <<storeVars, intents>>
        /\ orphans' = orphans \cup Abandoned(p)
        /\ Fault
    BY <1>6 DEF Restore, Dies
  <2>2. NetTypeOK'
    BY <1>a, <1>c, <2>1, FaultType DEF NetTypeOK
  <2>3. PhoneKept /\ NothingNew
    BY <1>6, <1>a, CreatedSteps DEF Restore, Dies
  <2> QED
    BY <1>a, <1>b, <2>1, <2>2, <2>3, StoreIdle, RelatedKept
<1>7. ASSUME NEW p \in Phone, PhoneStep(p) PROVE Goal
  <2>1. UNCHANGED <<storeVars, netVars>>
    BY <1>7 DEF PhoneStep
  <2>2. PhoneKept /\ NothingNew
    BY <1>7, <1>a, IntakeSteps, StartSteps, SaveSteps, EndSteps DEF PhoneStep
  <2> QED
    BY <1>a, <1>b, <2>1, <2>2, StoreIdle, RelatedKept DEF netVars, NetTypeOK
<1>8. ASSUME NEW p \in Phone, NEW k \in Call, Enrolls(p, k) PROVE Goal
  <2> DEFINE b == call[p][k].boot
  <2>1. /\ call[p][k].step = "sent" /\ UNCHANGED <<orphans, intents>>
        /\ \/ Bind(b) /\ CallStep(p, k, "ok", NewSecret)
           \/ /\ (BindRejected(b[1], b[2]) /\ UNCHANGED faults) \/ BindFailing(b)
              /\ CallStep(p, k, "error", 0)
    BY <1>8 DEF Enrolls
  <2>2. b \in Bootstrap
    BY <2>1, <1>a DEF Requested
  <2> HIDE DEF b
  <2>3. b[1] \in Token /\ b[2] \in Device
    BY <2>2 DEF Bootstrap
  <2>4. faults \in 0..MaxFaults
    BY <1>a DEF NetTypeOK
  <2>5. CASE Bind(b) /\ CallStep(p, k, "ok", NewSecret)
    <3>1. Kept /\ Binding(b[1], b[2]) /\ faults' \in 0..MaxFaults
      BY <1>a, <2>2, <2>4, <2>5, BindSteps
    <3>2. NewSecret \in Nat
      BY <1>a DEF StoreTypeOK, NewSecret
    <3>3. /\ PhoneKept
          /\ \A q \in Phone : Held(q)' \subseteq Held(q) \cup
               (IF q = p THEN {<<b[2], NewSecret>>} ELSE {})
      BY <1>a, <2>1, <2>5, <3>2, AnswerSteps DEF b
    <3>4. Related'
      BY <1>a, <1>b, <2>3, <3>1, <3>3, RelatedBound
    <3> QED
      BY <1>a, <2>1, <3>1, <3>3, <3>4 DEF NetTypeOK
  <2>6. CASE /\ (BindRejected(b[1], b[2]) /\ UNCHANGED faults) \/ BindFailing(b)
             /\ CallStep(p, k, "error", 0)
    <3>1. /\ Kept /\ (Unbinding \/ Binding(b[1], b[2]))
          /\ faults' \in 0..MaxFaults
      BY <1>a, <2>2, <2>4, <2>6, OtherRequestSteps
    <3>2. PhoneKept /\ NothingNew
      BY <1>a, <2>1, <2>6, ErrorSteps
    <3>3. Related'
      BY <1>a, <1>b, <2>2, <3>1, <3>2, RelatedAnyway
    <3> QED
      BY <1>a, <2>1, <3>1, <3>2, <3>3 DEF NetTypeOK
  <2> QED
    BY <2>1, <2>5, <2>6
<1>9. ASSUME NEW p \in Phone, NEW k \in Call, CallTimesOut(p, k) PROVE Goal
  <2>1. /\ call[p][k].step = "sent" /\ CallStep(p, k, "error", 0)
        /\ orphans' = orphans \cup {call[p][k].boot}
        /\ Fault /\ UNCHANGED <<storeVars, intents>>
    BY <1>9 DEF CallTimesOut
  <2>2. NetTypeOK'
    BY <1>a, <2>1, FaultType DEF NetTypeOK, Requested
  <2>3. PhoneKept /\ NothingNew
    BY <1>a, <2>1, ErrorSteps
  <2> QED
    BY <1>a, <1>b, <2>1, <2>2, <2>3, StoreIdle, RelatedKept
<1>10. ASSUME NEW b \in orphans, OrphanHandled(b) PROVE Goal
  <2>1. b \in Bootstrap /\ faults \in 0..MaxFaults
    BY <1>a DEF NetTypeOK
  <2>2. /\ orphans' = orphans \ {b} /\ UNCHANGED <<phoneVars, intents>>
        /\ \/ Bind(b)
           \/ (BindRejected(b[1], b[2]) /\ UNCHANGED faults) \/ BindFailing(b)
           \/ UNCHANGED <<storeVars, faults>>
    BY <1>10 DEF OrphanHandled
  <2>3. /\ Kept /\ (Unbinding \/ Binding(b[1], b[2]))
        /\ faults' \in 0..MaxFaults
    BY <1>a, <2>1, <2>2, BindSteps, OtherRequestSteps, StoreIdle
  <2>4. PhoneKept /\ NothingNew
    BY <1>a, <2>2, PhonesIdle
  <2>5. Related'
    BY <1>a, <1>b, <2>1, <2>3, <2>4, RelatedAnyway
  <2> QED
    BY <1>a, <2>2, <2>3, <2>4, <2>5 DEF NetTypeOK
<1> QED
  BY <1>1, <1>2, <1>3, <1>4, <1>5, <1>6, <1>7, <1>8, <1>9, <1>10 DEF Next

(* The inductive invariant holds initially, when nothing is bound. *)
LEMMA InitIInv == Init => IInv
<1> SUFFICES ASSUME Init PROVE IInv
  OBVIOUS
<1> USE MaxDisablesAssumption, BoundsAssumption DEF Init, StoreInit, LauncherInit
<1>1. StoreTypeOK /\ RetiredIsCutOff
  BY DEF StoreTypeOK, TokenStatus, DeviceStatus, RetiredIsCutOff
<1>2. call \in [Phone -> [Call -> Coroutine]]
  BY IdleType
<1>3. LauncherTypeOK
  BY <1>2 DEF LauncherTypeOK
<1>4. TypeOK
  BY <1>1, <1>3 DEF TypeOK
<1>5. Requested /\ UsedUp /\ BoundOnce
  BY DEF Requested, IdleCall, UsedUp, BoundOnce
<1>6. \A p \in Phone : Held(p) = {}
  BY DEF Held, Answers, IdleCall
<1> QED
  BY <1>1, <1>4, <1>5, <1>6 DEF IInv, Good, Exclusive

THEOREM Invariance == Spec => []IInv
BY InitIInv, Step, PTL DEF Spec

(* Type correctness of the server, the phones and the requests between     *)
(* them.                                                                   *)
THEOREM TypeCorrect == Spec => []TypeOK
<1>1. IInv => TypeOK
  BY DEF IInv
<1> QED
  BY <1>1, Invariance, PTL

(* No token binds two devices and no device is bound twice, however the    *)
(* phones race, retry and time out.                                        *)
THEOREM BoundOnceAlways == Spec => []BoundOnce
<1>1. IInv => BoundOnce
  BY DEF IInv
<1> QED
  BY <1>1, Invariance, PTL

(* A stored secret authenticates, and is stored on one phone only. *)
THEOREM SecretIsCurrentAlways == Spec => []SecretIsCurrent
<1>1. IInv => SecretIsCurrent
  <2> SUFFICES ASSUME IInv, NEW p \in Phone, identity[p] # None
               PROVE  /\ secretHash[identity[p][1]] = identity[p][2]
                      /\ \A q \in Phone \ {p} : identity[q] # identity[p]
    BY DEF SecretIsCurrent
  <2>1. \A q \in Phone : identity[q] # None => identity[q] \in Held(q)
    BY DEF Held
  <2> QED
    BY <2>1 DEF IInv, Good, Exclusive
<1> QED
  BY <1>1, Invariance, PTL

(* A retired device is cut off from the broker once DisableDevice has run  *)
(* without an error.                                                       *)
THEOREM RetiredIsCutOffAlways == Spec => []RetiredIsCutOff
<1>1. IInv => RetiredIsCutOff
  BY DEF IInv
<1> QED
  BY <1>1, Invariance, PTL

(* No step brings a token or a device back. *)
THEOREM NothingIsRevivedEver == Spec => NothingIsRevived
<1>1. IInv /\ [Next]_vars => Forward
  BY Step
<1>2. Forward <=>
        /\ \A t \in Token : token[t] \notin {"none", "issued"}
                              => token'[t] = token[t]
        /\ \A d \in Device :
             /\ device[d] = "retired" => device'[d] = "retired"
             /\ device[d] = "enrolled" => device'[d] \in {"enrolled", "retired"}
  BY DEF Forward
<1> QED
  BY <1>1, <1>2, Invariance, PTL DEF Spec, NothingIsRevived


-----------------------------------------------------------------------------
(***************************************************************************)
(* Enrollment implements EnrollmentLifecycle                               *)
(***************************************************************************)

(* A step that binds nothing leaves every permit as it is, *)
LEMMA PermitKept ==
  ASSUME Unbinding PROVE Permit' = Permit
BY DEF Unbinding, Permit, Binders

(* and one that stores nothing either, what the phones hold. *)
LEMMA HoldsKept ==
  ASSUME Unbinding, identity' = identity PROVE Holds' = Holds
BY DEF Unbinding, Holds

(* What a phone holds is the device whose secret it has. *)
LEMMA HoldsIs ==
  ASSUME IInv, NEW p \in Phone
  PROVE  IF identity[p] = None THEN Holds[p] = None
                               ELSE Holds[p] = identity[p][1]
<1>1. identity[p] # None => secretHash[identity[p][1]] = identity[p][2]
  BY DEF IInv, Good, Held
<1> QED
  BY <1>1 DEF Holds

(* A device is bound if and only if it has a permit. *)
LEMMA PermitIs ==
  ASSUME NEW d \in Device
  PROVE  /\ Binders(d) = {} => Permit[d] = None
         /\ \A t \in Token : Binders(d) = {t} => Permit[d] = t
         /\ Binders(d) # {} => Permit[d] \in Token /\ Permit[d] # None
<1>1. Permit[d] = IF Binders(d) = {} THEN None
                  ELSE CHOOSE t \in Binders(d) : TRUE
  BY DEF Permit
<1>2. Binders(d) \subseteq Token /\ None \notin Token
  BY IntentAssumption DEF Binders
<1>3. Binders(d) # {} => (CHOOSE t \in Binders(d) : TRUE) \in Binders(d)
  OBVIOUS
<1> QED
  BY <1>1, <1>2, <1>3

(* The steps of administrators and of the housekeeping. *)
LEMMA AdminRefines ==
  ASSUME IInv, AdminStep
  PROVE  Lifecycle!Next \/ UNCHANGED Lifecycle!vars
<1>1. StoreTypeOK /\ RetiredIsCutOff
  BY DEF IInv, TypeOK
<1>2. Unbinding /\ identity' = identity
  BY <1>1, AdminSteps DEF AdminStep, phoneVars, diskVars
<1>3. Permit' = Permit /\ Holds' = Holds
  BY <1>2, PermitKept, HoldsKept
<1>4. token \in [Token -> TokenStatus]
  BY <1>1 DEF StoreTypeOK
<1> USE DEF deviceVars
<1> HIDE DEF Permit, Holds
<1>5. ASSUME NEW t \in Token, IssueToken(t) PROVE Lifecycle!Next
  BY <1>3, <1>5 DEF IssueToken, Lifecycle!Issue, Lifecycle!Next
<1>6. ASSUME NEW t \in Token, Lapse(t) PROVE UNCHANGED Lifecycle!vars
  BY <1>3, <1>6 DEF Lapse, Lifecycle!vars
<1>7. ASSUME NEW S \in SUBSET {t \in Token : token[t] = "issued"},
             NEW s \in {"consumed", "expired", "revoked"},
             token' = [t \in Token |-> IF t \in S THEN s ELSE token[t]],
             device' = device
      PROVE  Lifecycle!Next
  BY <1>3, <1>7 DEF Lifecycle!Close, Lifecycle!Next
<1>8. ASSUME NEW t \in Token, NEW s \in {"consumed", "expired", "revoked"},
             token[t] = "issued", token' = [token EXCEPT ![t] = s],
             device' = device
      PROVE  Lifecycle!Next
  <2>1. {t} \in SUBSET {u \in Token : token[u] = "issued"}
    BY <1>8
  <2>2. token' = [u \in Token |-> IF u \in {t} THEN s ELSE token[u]]
    BY <1>4, <1>8
  <2> QED
    BY <1>7, <1>8, <2>1, <2>2
<1>9. ASSUME NEW t \in Token, RevokeToken(t) PROVE Lifecycle!Next
  BY <1>8, <1>9 DEF RevokeToken
<1>10. ASSUME NEW t \in Token, NEW consume \in BOOLEAN, inspectToken(t, consume)
       PROVE  Lifecycle!Next \/ UNCHANGED Lifecycle!vars
  <2>1. CASE Lapsed(t)
    BY <1>8, <1>10, <2>1 DEF inspectToken, Lapsed
  <2>2. CASE ~Lapsed(t) /\ token[t] = "issued" /\ consume
    BY <1>8, <1>10, <2>2 DEF inspectToken
  <2>3. CASE ~Lapsed(t) /\ ~(token[t] = "issued" /\ consume)
    <3>1. token' = token /\ device' = device
      BY <1>4, <1>10, <2>3 DEF inspectToken
    <3> QED
      BY <1>3, <3>1 DEF Lifecycle!vars
  <2> QED
    BY <2>1, <2>2, <2>3
<1>11. CASE ExpireTokens
  <2> DEFINE S == {t \in Token : Lapsed(t)}
  <2>1. S \in SUBSET {t \in Token : token[t] = "issued"}
    BY DEF Lapsed
  <2>2. token' = [t \in Token |-> IF t \in S THEN "expired" ELSE token[t]]
    BY <1>11 DEF ExpireTokens
  <2> QED
    BY <1>7, <1>11, <2>1, <2>2 DEF ExpireTokens
<1>12. ASSUME NEW d \in Device, CreateDevice(d) \/ RetireDevice(d)
       PROVE  Lifecycle!Next
  BY <1>3, <1>12 DEF CreateDevice, RetireDevice, tokenVars,
                     Lifecycle!Create, Lifecycle!Retire, Lifecycle!Next
<1> QED
  BY <1>5, <1>6, <1>9, <1>10, <1>11, <1>12 DEF AdminStep

(* A binding enrolls, whoever gets its answer: the device was not bound    *)
(* before and no phone held it.                                            *)
LEMMA EnrollRefines ==
  ASSUME IInv, NEW t \in Token, NEW d \in Device,
         Binds(t, d), CommitBinding(t, d), identity' = identity
  PROVE  Lifecycle!Next
<1>1. /\ token[t] = "issued" /\ device[d] = "pending"
      /\ token' = [token EXCEPT ![t] = "consumed"]
      /\ device' = [device EXCEPT ![d] = "enrolled"]
      /\ bound' = bound \cup {<<t, d>>}
      /\ \A e \in Device \ {d} : secretHash'[e] = secretHash[e]
  BY DEF Binds, CommitBinding, IInv, TypeOK, StoreTypeOK
<1>2. \A x \in bound : x \in Token \X Device /\ x[2] # d
  BY <1>1 DEF IInv, TypeOK, StoreTypeOK, Bootstrap, UsedUp
<1>3. /\ Binders(d)' = {t}
      /\ \A e \in Device \ {d} : Binders(e)' = Binders(e)
  BY <1>1, <1>2 DEF Binders
<1>4. Permit' = [Permit EXCEPT ![d] = t]
  <2>1. Permit'[d] = t
    <3>1. Permit'[d] = CHOOSE u \in {t} : TRUE
      BY <1>3 DEF Permit
    <3> QED
      BY <3>1
  <2>2. ASSUME NEW e \in Device \ {d} PROVE Permit'[e] = Permit[e]
    <3> DEFINE Chosen(S) == IF S = {} THEN None ELSE CHOOSE u \in S : TRUE
    <3>1. Permit[e] = Chosen(Binders(e)) /\ Permit'[e] = Chosen(Binders(e)')
      BY DEF Permit
    <3>2. Binders(e)' = Binders(e)
      BY <1>3
    <3> HIDE DEF Chosen
    <3> QED
      BY <3>1, <3>2
  <2>3. DOMAIN Permit = Device /\ DOMAIN Permit' = Device
        /\ Permit = [e \in Device |-> Permit[e]]
        /\ Permit' = [e \in Device |-> Permit'[e]]
    BY DEF Permit
  <2> HIDE DEF Permit
  <2> QED
    BY <2>1, <2>2, <2>3
<1>5. Holds' = Holds
  <2>1. ASSUME NEW p \in Phone, identity[p] # None
        PROVE  identity[p][1] \in Device \ {d}
    <3>1. identity[p] \in Held(p)
      BY <2>1 DEF Held
    <3> QED
      BY <1>2, <3>1 DEF IInv, Good
  <2> QED
    BY <1>1, <2>1 DEF Holds
<1>6. Lifecycle!Enroll(t, d)
  BY <1>1, <1>4, <1>5 DEF Lifecycle!Enroll
<1> QED
  BY <1>6 DEF Lifecycle!Next

(* A phone stores an identity that no other phone has. *)
LEMMA TakeRefines ==
  ASSUME IInv, NEW p \in Phone, NEW k \in Call, saveDeviceIdentity(p, k),
         UNCHANGED storeVars
  PROVE  Lifecycle!Next
<1> DEFINE answer == <<call[p][k].boot[2], call[p][k].secret>>
           d == call[p][k].boot[2]
<1>1. answer \in Answers(p) /\ identity' = [identity EXCEPT ![p] = answer]
  BY DEF saveDeviceIdentity, Answers
<1>2. Unbinding /\ token' = token /\ device' = device
  BY DEF storeVars, tokenVars, deviceVars, bindVars, Unbinding
<1>3. d \in Device /\ d # None /\ answer # None
  BY <1>1, IntentAssumption, HeldType DEF IInv, TypeOK, Held
<1>4. answer[1] = d /\ answer[2] = secretHash[d] /\ Binders(d) # {}
  <2>1. /\ \E x \in bound : x[2] = answer[1]
        /\ secretHash[answer[1]] = answer[2]
    BY <1>1 DEF IInv, Good, Held
  <2>2. PICK x \in bound : x[2] = d
    BY <2>1
  <2>3. x[1] \in Token /\ x = <<x[1], d>>
    BY <2>2 DEF IInv, TypeOK, StoreTypeOK, Bootstrap
  <2> QED
    BY <2>1, <2>3 DEF Binders
<1>5. Permit[d] # None
  BY <1>3, <1>4, PermitIs
<1>6. \A q \in Phone \ {p} : Holds[q] # d
  <2> SUFFICES ASSUME NEW q \in Phone \ {p}, Holds[q] = d PROVE FALSE
    OBVIOUS
  <2>1. identity[q] # None /\ identity[q][1] = d
    BY <1>3, HoldsIs
  <2>2. identity[q] \in Held(q) /\ answer \in Held(p)
    BY <1>1, <2>1 DEF Held
  <2> QED
    BY <1>4, <2>1, <2>2 DEF IInv, Exclusive
<1>7. Holds' = [Holds EXCEPT ![p] = d]
  BY <1>1, <1>2, <1>3, <1>4 DEF IInv, TypeOK, LauncherTypeOK, Unbinding, Holds
<1>8. Lifecycle!Take(p, d)
  BY <1>2, <1>5, <1>6, <1>7, PermitKept DEF Lifecycle!Take
<1> QED
  BY <1>3, <1>8 DEF Lifecycle!Next

(* A phone that clears its state holds nothing any more. *)
LEMMA DropRefines ==
  ASSUME IInv, NEW p \in Phone, UNCHANGED storeVars,
         identity' = [identity EXCEPT ![p] = None]
  PROVE  Lifecycle!Next
<1>1. Unbinding /\ token' = token /\ device' = device
  BY DEF storeVars, tokenVars, deviceVars, bindVars, Unbinding
<1>2. Holds' = [Holds EXCEPT ![p] = None]
  BY <1>1 DEF IInv, TypeOK, LauncherTypeOK, Unbinding, Holds
<1>3. Lifecycle!Drop(p)
  BY <1>1, <1>2, PermitKept DEF Lifecycle!Drop
<1> QED
  BY <1>3 DEF Lifecycle!Next

(* A step that neither binds nor stores nor clears is invisible, but for   *)
(* the tokens it closes.                                                   *)
LEMMA QuietRefines ==
  ASSUME IInv, Unbinding, identity' = identity, device' = device,
         \/ token' = token
         \/ \E t \in Token : /\ token[t] = "issued"
                             /\ token' = [token EXCEPT ![t] = "expired"]
  PROVE  Lifecycle!Next \/ UNCHANGED Lifecycle!vars
<1>1. Permit' = Permit /\ Holds' = Holds
  BY PermitKept, HoldsKept
<1>2. CASE token' = token
  BY <1>1, <1>2 DEF Lifecycle!vars
<1>3. ASSUME NEW t \in Token, token[t] = "issued",
             token' = [token EXCEPT ![t] = "expired"]
      PROVE  Lifecycle!Next
  <2>1. {t} \in SUBSET {u \in Token : token[u] = "issued"}
    BY <1>3
  <2>2. token' = [u \in Token |-> IF u \in {t} THEN "expired" ELSE token[u]]
    BY <1>3 DEF IInv, TypeOK, StoreTypeOK
  <2>3. Lifecycle!Close
    BY <1>1, <2>1, <2>2 DEF Lifecycle!Close
  <2> QED
    BY <2>3 DEF Lifecycle!Next
<1> QED
  BY <1>2, <1>3

(* A request the server handles, whoever awaits the answer. *)
LEMMA RequestRefines ==
  ASSUME IInv, NEW b \in Bootstrap, identity' = identity,
         \/ Bind(b) \/ BindRejected(b[1], b[2]) \/ BindFailing(b)
         \/ UNCHANGED storeVars
  PROVE  Lifecycle!Next \/ UNCHANGED Lifecycle!vars
<1>1. b[1] \in Token /\ b[2] \in Device
  BY DEF Bootstrap
<1>2. ASSUME Bind(b) \/ \E c \in BOOLEAN : c /\ BindFails(b[1], b[2], c)
      PROVE  Lifecycle!Next
  <2>1. Binds(b[1], b[2]) /\ CommitBinding(b[1], b[2])
    BY <1>2 DEF Bind, BindDevice, BindFails
  <2> QED
    BY <1>1, <2>1, EnrollRefines
<1>3. ASSUME BindFails(b[1], b[2], FALSE)
      PROVE  Lifecycle!Next \/ UNCHANGED Lifecycle!vars
  <2>1. Unbinding /\ token' = token /\ device' = device
    BY <1>3 DEF BindFails, Unbinding, deviceVars
  <2> QED
    BY <2>1, QuietRefines
<1>4. CASE BindRejected(b[1], b[2])
  <2>1. /\ Unbinding /\ device' = device
        /\ \/ token' = token
           \/ /\ token[b[1]] = "issued"
              /\ token' = [token EXCEPT ![b[1]] = "expired"]
    BY <1>4 DEF BindRejected, Lapsed, Unbinding, deviceVars, bindVars
  <2> QED
    BY <1>1, <2>1, QuietRefines
<1>5. CASE UNCHANGED storeVars
  <2>1. Unbinding /\ token' = token /\ device' = device
    BY <1>5 DEF storeVars, tokenVars, deviceVars, bindVars, Unbinding
  <2> QED
    BY <2>1, QuietRefines
<1> QED
  BY <1>2, <1>3, <1>4, <1>5 DEF BindFailing

(* The steps of a phone that the server takes no part in. *)
LEMMA PhoneRefines ==
  ASSUME IInv, NEW p \in Phone, UNCHANGED storeVars,
         \/ \E i \in Bootstrap \cup {Malformed, None} :
              onCreate(p, i) \/ onNewIntent(p, i)
         \/ Recreate(p) \/ ProcessDies(p) \/ PhoneStep(p)
  PROVE  Lifecycle!Next \/ UNCHANGED Lifecycle!vars
<1>1. CASE identity' = identity
  <2>1. Unbinding /\ token' = token /\ device' = device
    BY DEF storeVars, tokenVars, deviceVars, bindVars, Unbinding
  <2> QED
    BY <1>1, <2>1, QuietRefines
<1>2. CASE identity' = [identity EXCEPT ![p] = None]
  BY <1>2, DropRefines
<1>3. CASE \E k \in Call : saveDeviceIdentity(p, k)
  BY <1>3, TakeRefines
<1>4. \/ identity' = identity
      \/ identity' = [identity EXCEPT ![p] = None]
      \/ \E k \in Call : saveDeviceIdentity(p, k)
  BY DEF onCreate, onNewIntent, Recreate, ProcessDies, PhoneStep,
         startLauncherRuntime, clearAllState, PersistBootstrap, Emit,
         maybeStartEnrollment, CallEnds, diskVars
<1> QED
  BY <1>1, <1>2, <1>3, <1>4

(* One step of enrollment is a step of the lifecycle or a stutter.         *)
LEMMA StepRefines ==
  IInv /\ [Next]_vars => [Lifecycle!Next]_(Lifecycle!vars)
<1> SUFFICES ASSUME IInv, [Next]_vars
             PROVE  Lifecycle!Next \/ UNCHANGED Lifecycle!vars
  OBVIOUS
<1> DEFINE Goal == Lifecycle!Next \/ UNCHANGED Lifecycle!vars
<1>1. CASE UNCHANGED vars
  <2>1. Unbinding /\ token' = token /\ device' = device /\ identity' = identity
    BY <1>1 DEF vars, storeVars, tokenVars, deviceVars, bindVars, phoneVars,
                diskVars, Unbinding
  <2> QED
    BY <2>1, QuietRefines
<1>2. CASE AdminStep
  BY <1>2, AdminRefines
<1>3. ASSUME NEW d \in Device, BrokerStep(d) PROVE Goal
  <2>1. Unbinding /\ token' = token /\ device' = device /\ identity' = identity
    BY <1>3 DEF BrokerStep, DisableDevice, tokenVars, deviceVars, phoneVars,
                diskVars, Unbinding
  <2> QED
    BY <2>1, QuietRefines
<1>4. ASSUME NEW p \in Phone,
             \/ \E i \in Bootstrap \cup {Malformed} : Provision(p, i)
             \/ OpenPlainly(p) \/ Restore(p) \/ Dies(p) \/ PhoneStep(p)
      PROVE  Goal
  <2>1. /\ UNCHANGED storeVars
        /\ \/ \E i \in Bootstrap \cup {Malformed, None} :
                onCreate(p, i) \/ onNewIntent(p, i)
           \/ Recreate(p) \/ ProcessDies(p) \/ PhoneStep(p)
    BY <1>4 DEF Provision, OpenPlainly, Restore, Dies, PhoneStep
  <2> QED
    BY <2>1, PhoneRefines
<1>5. ASSUME NEW p \in Phone, NEW k \in Call,
             Enrolls(p, k) \/ CallTimesOut(p, k)
      PROVE  Goal
  <2>1. call[p][k].boot \in Bootstrap
    BY <1>5 DEF IInv, Requested, Enrolls, CallTimesOut
  <2>2. identity' = identity
    BY <1>5 DEF Enrolls, CallTimesOut, CallStep, diskVars
  <2>3. \/ Bind(call[p][k].boot) \/ BindFailing(call[p][k].boot)
        \/ BindRejected(call[p][k].boot[1], call[p][k].boot[2])
        \/ UNCHANGED storeVars
    BY <1>5 DEF Enrolls, CallTimesOut
  <2> QED
    BY <2>1, <2>2, <2>3, RequestRefines
<1>6. ASSUME NEW b \in orphans, OrphanHandled(b) PROVE Goal
  <2>1. b \in Bootstrap /\ identity' = identity
    BY <1>6 DEF IInv, TypeOK, OrphanHandled, phoneVars, diskVars
  <2>2. \/ Bind(b) \/ BindFailing(b) \/ BindRejected(b[1], b[2])
        \/ UNCHANGED storeVars
    BY <1>6 DEF OrphanHandled
  <2> QED
    BY <2>1, <2>2, RequestRefines
<1> QED
  BY <1>1, <1>2, <1>3, <1>4, <1>5, <1>6 DEF Next

(* Server and phones together keep what an administrator relies on: a      *)
(* token enrolls one device, no token and no device comes back, and one    *)
(* phone at a time has a secret of a device that the server accepts.       *)
THEOREM Refinement == Spec => LifecycleSpec
<1>1. Init => Lifecycle!Init
  BY DEF Init, StoreInit, LauncherInit, Lifecycle!Init, Permit, Binders, Holds
<1> QED
  BY <1>1, StepRefines, Invariance, PTL DEF Spec, LifecycleSpec, Lifecycle!Spec
=============================================================================
