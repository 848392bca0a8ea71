------------------------- MODULE EnrollmentLifecycle ------------------------
(***************************************************************************)
(* What enrollment promises an administrator, with neither requests nor    *)
(* coroutines in sight: a token enrolls one device and is then used up, a  *)
(* device is enrolled once, and at most one phone at a time holds an       *)
(* identity of it that the server accepts.                                 *)
(***************************************************************************)
CONSTANTS Token, Device, Phone, None

VARIABLES
  token,    \* where each token stands
  device,   \* where each device stands
  permit,   \* the token each device was enrolled with
  holds     \* the device each phone has the current secret of

Init ==
  /\ token = [t \in Token |-> "none"]
  /\ device = [d \in Device |-> "none"]
  /\ permit = [d \in Device |-> None]
  /\ holds = [p \in Phone |-> None]

Issue(t) ==
  /\ token[t] = "none"
  /\ token' = [token EXCEPT ![t] = "issued"]
  /\ UNCHANGED <<device, permit, holds>>

(* Some tokens are consumed for nothing, expire or are revoked together.   *)
Close ==
  /\ \E S \in SUBSET {t \in Token : token[t] = "issued"},
        s \in {"consumed", "expired", "revoked"} :
       token' = [t \in Token |-> IF t \in S THEN s ELSE token[t]]
  /\ UNCHANGED <<device, permit, holds>>

Create(d) ==
  /\ device[d] = "none"
  /\ device' = [device EXCEPT ![d] = "pending"]
  /\ UNCHANGED <<token, permit, holds>>

Retire(d) ==
  /\ device[d] # "none"
  /\ device' = [device EXCEPT ![d] = "retired"]
  /\ UNCHANGED <<token, permit, holds>>

(* The server binds, whether or not the phone that asked gets the answer.  *)
Enroll(t, d) ==
  /\ token[t] = "issued"
  /\ device[d] = "pending"
  /\ token' = [token EXCEPT ![t] = "consumed"]
  /\ device' = [device EXCEPT ![d] = "enrolled"]
  /\ permit' = [permit EXCEPT ![d] = t]
  /\ UNCHANGED holds

(* A phone may store the answer when the device is retired already.        *)
Take(p, d) ==
  /\ permit[d] # None
  /\ \A q \in Phone \ {p} : holds[q] # d
  /\ holds' = [holds EXCEPT ![p] = d]
  /\ UNCHANGED <<token, device, permit>>

Drop(p) ==
  /\ holds' = [holds EXCEPT ![p] = None]
  /\ UNCHANGED <<token, device, permit>>

Next ==
  \/ Close
  \/ \E t \in Token : Issue(t)
  \/ \E d \in Device : Create(d) \/ Retire(d)
  \/ \E t \in Token, d \in Device : Enroll(t, d)
  \/ \E p \in Phone : Drop(p) \/ \E d \in Device : Take(p, d)

vars == <<token, device, permit, holds>>
Spec == Init /\ [][Next]_vars

=============================================================================
