-------------------------- MODULE CommandLifecycle --------------------------
(***************************************************************************)
(* What the command queue promises an operator, with neither transport nor *)
(* launcher in sight: a command is queued, perhaps sent, and ends once, as *)
(* expired or with a result one of its runs really had.                    *)
(***************************************************************************)
CONSTANT Row

VARIABLES
  status,    \* where each command stands
  outcomes   \* the results the device's runs of the command had

Open == {"queued", "sent"}
Res == {"acked", "failed"}

Init ==
  /\ status = [c \in Row |-> "none"]
  /\ outcomes = [c \in Row |-> {}]

(* Some commands are created together. *)
Queue ==
  /\ \E S \in SUBSET {c \in Row : status[c] = "none"} :
       status' = [c \in Row |-> IF c \in S THEN "queued" ELSE status[c]]
  /\ UNCHANGED outcomes

Send(c) ==
  /\ status[c] = "queued"
  /\ status' = [status EXCEPT ![c] = "sent"]
  /\ UNCHANGED outcomes

(* A device runs only what was queued, whatever has become of it since.    *)
Run(c, res) ==
  /\ status[c] # "none"
  /\ outcomes' = [outcomes EXCEPT ![c] = @ \cup {res}]
  /\ UNCHANGED status

Finish(c, res) ==
  /\ status[c] \in Open
  /\ res \in outcomes[c]
  /\ status' = [status EXCEPT ![c] = res]
  /\ UNCHANGED outcomes

(* Some open commands expire together. *)
Expire ==
  /\ \E S \in SUBSET {c \in Row : status[c] \in Open} :
       status' = [c \in Row |-> IF c \in S THEN "expired" ELSE status[c]]
  /\ UNCHANGED outcomes

Next ==
  \/ Queue
  \/ Expire
  \/ \E c \in Row : Send(c)
  \/ \E c \in Row, res \in Res : Run(c, res) \/ Finish(c, res)

vars == <<status, outcomes>>
Spec == Init /\ [][Next]_vars

=============================================================================
