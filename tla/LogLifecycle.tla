----------------------------- MODULE LogLifecycle ---------------------------
(***************************************************************************)
(* What the log queue promises whoever reads the logs, with neither        *)
(* batches nor coordinators in sight: an entry is kept until the server    *)
(* has it, unless the queue is full.  Then two entries make room for the   *)
(* new one and for a report, the unimportant ones first.                   *)
(***************************************************************************)
EXTENDS Naturals, FiniteSets

CONSTANT Limit

VARIABLES
  made,       \* number of entries made
  pending,    \* the entries the device keeps
  delivered,  \* the entries the server has
  lost        \* the entries that made room

New(kind) == [id |-> made + 1, kind |-> kind]
Report == [id |-> made + 2, kind |-> "summary"]

Init ==
  /\ made = 0
  /\ pending = {}
  /\ delivered = {}
  /\ lost = {}

Keep(kind) ==
  /\ Cardinality(pending) < Limit
  /\ made' = made + 1
  /\ pending' = pending \cup {New(kind)}
  /\ UNCHANGED <<delivered, lost>>

(* Nothing important goes while something unimportant stays. *)
Overflow(kind) ==
  /\ Cardinality(pending) = Limit
  /\ made' = made + 2
  /\ \E x, y \in pending \cup {New(kind)} :
       /\ x # y
       /\ pending' = (pending \cup {New(kind), Report}) \ {x, y}
       /\ lost' = lost \cup {x, y}
       /\ x.kind # "info" \/ y.kind # "info"
            => \A e \in pending' : e.kind # "info"
  /\ UNCHANGED delivered

(* A late post delivers also what was dropped meanwhile. *)
Deliver ==
  /\ \E S \in SUBSET (pending \cup lost) : delivered' = delivered \cup S
  /\ UNCHANGED <<made, pending, lost>>

Forget ==
  /\ \E S \in SUBSET (pending \cap delivered) : pending' = pending \ S
  /\ UNCHANGED <<made, delivered, lost>>

Next ==
  \/ \E kind \in {"info", "critical"} : Keep(kind) \/ Overflow(kind)
  \/ Deliver
  \/ Forget

vars == <<made, pending, delivered, lost>>
Spec == Init /\ [][Next]_vars

=============================================================================
