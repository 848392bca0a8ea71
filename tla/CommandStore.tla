---------------------------- MODULE CommandStore ----------------------------
(***************************************************************************)
(* The server's command queue: the "commands" table of PostgreSQL and the  *)
(* Enqueue handlers that are still publishing the rows they inserted.      *)
(*                                                                         *)
(* Every database transaction is one action.  What lies between two        *)
(* transactions of one handler (target resolution, insert, one publish per *)
(* row, markSent per row) is a point where other handlers run and where    *)
(* the server may stop.                                                    *)
(***************************************************************************)
EXTENDS CommandRows

CONSTANTS
  Group,       \* the memberships of the active groups, sets of devices
  UseMqtt      \* is an MQTT broker configured?

ASSUME GroupAssumption == Group \subseteq SUBSET Device
ASSUME UseMqttAssumption == UseMqtt \in BOOLEAN

VARIABLES
  status,      \* the status column; "none" while the row does not exist
  expiry,      \* expires_at of a request's rows, relative to the clock
  retired,     \* devices whose status is retired or wiped
  enqueue,     \* progress of each Enqueue handler
  targets,     \* the device ids each handler resolved
  toPublish,   \* committed rows their handler has yet to publish
  toMark       \* published rows their handler has yet to mark as sent

storeVars == <<status, expiry, retired, enqueue, targets, toPublish, toMark>>

StoreTypeOK ==
  /\ status \in [Row -> Status]
  /\ expiry \in [Request -> {"never", "ahead", "due"}]
  /\ retired \subseteq Device
  /\ enqueue \in [Request -> {"new", "resolved", "done"}]
  /\ targets \in [Request -> SUBSET Device]
  /\ toPublish \subseteq Row
  /\ toMark \subseteq Row

StoreInit ==
  /\ status = [c \in Row |-> "none"]
  /\ expiry = [r \in Request |-> "never"]
  /\ retired = {}
  /\ enqueue = [r \in Request |-> "new"]
  /\ targets = [r \in Request |-> {}]
  /\ toPublish = {}
  /\ toMark = {}

(* expires_at IS NOT NULL AND expires_at <= now *)
Due(c) == expiry[c[1]] = "due"

-----------------------------------------------------------------------------
(***************************************************************************)
(* Enqueue                                                                 *)
(***************************************************************************)

(* A device, an active group, or every device. *)
Target == {{d} : d \in Device} \cup Group \cup {Device}

resolveTargets(target) == target \ retired

ResolveTargets(r, target) ==
  /\ enqueue[r] = "new"
  /\ targets' = [targets EXCEPT ![r] = resolveTargets(target)]
  /\ enqueue' = [enqueue EXCEPT ![r] = IF resolveTargets(target) = {}
                                       THEN "done"  \* ErrNotFound
                                       ELSE "resolved"]
  /\ UNCHANGED <<status, expiry, retired, toPublish, toMark>>

(* The insert transaction: all rows of the request or none. *)
Enqueue(r, expires) ==
  LET rows == {r} \X targets[r]
  IN  /\ enqueue[r] = "resolved"
      /\ enqueue' = [enqueue EXCEPT ![r] = "done"]
      /\ status' = [c \in Row |-> IF c \in rows THEN "queued" ELSE status[c]]
      /\ expiry' = [expiry EXCEPT ![r] = expires]
      /\ toPublish' = IF UseMqtt THEN toPublish \cup rows ELSE toPublish
      /\ UNCHANGED <<retired, targets, toMark>>

EnqueueFails(r) ==
  /\ enqueue[r] = "resolved"
  /\ enqueue' = [enqueue EXCEPT ![r] = "done"]
  /\ UNCHANGED <<status, expiry, retired, targets, toPublish, toMark>>

(* publishEnqueued takes one row at a time: publish, then markSent.  The   *)
(* publish is confirmed when PublishCommand returns no error.              *)
publishEnqueued(c, confirmed) ==
  /\ c \in toPublish
  /\ \A x \in toMark : x[1] # c[1]
  /\ toPublish' = toPublish \ {c}
  /\ toMark' = IF confirmed THEN toMark \cup {c} ELSE toMark
  /\ UNCHANGED <<status, expiry, retired, enqueue, targets>>

(* Mutant: the UPDATE without AND status = 'queued'. *)
markSentAnyStatus(c) ==
  /\ c \in toMark
  /\ toMark' = toMark \ {c}
  /\ status' = [status EXCEPT ![c] = "sent"]
  /\ UNCHANGED <<expiry, retired, enqueue, targets, toPublish>>

markSent(c) ==
  /\ c \in toMark
  /\ toMark' = toMark \ {c}
  /\ status' = IF status[c] = "queued"
               THEN [status EXCEPT ![c] = "sent"]
               ELSE status
  /\ UNCHANGED <<expiry, retired, enqueue, targets, toPublish>>

(* The UPDATE fails; publishEnqueued logs it and goes on. *)
MarkSentFails(c) ==
  /\ c \in toMark
  /\ toMark' = toMark \ {c}
  /\ UNCHANGED <<status, expiry, retired, enqueue, targets, toPublish>>

(* The server stops: handlers are lost, rows stay. *)
ServerStops ==
  /\ toPublish' = {}
  /\ toMark' = {}
  /\ enqueue' = [r \in Request |-> IF enqueue[r] = "resolved" THEN "done"
                                                              ELSE enqueue[r]]
  /\ UNCHANGED <<status, expiry, retired, targets>>

-----------------------------------------------------------------------------
(***************************************************************************)
(* Expiry                                                                  *)
(***************************************************************************)

(* The clock passes expires_at. *)
Deadline(r) ==
  /\ expiry[r] = "ahead"
  /\ expiry' = [expiry EXCEPT ![r] = "due"]
  /\ UNCHANGED <<status, retired, enqueue, targets, toPublish, toMark>>

Expired(rows) ==
  [c \in Row |-> IF c \in rows /\ status[c] \in Pending /\ Due(c)
                 THEN "expired" ELSE status[c]]

(* The cleanup pass, over the whole tenant. *)
ExpireDueCommands ==
  /\ status' = Expired(Row)
  /\ UNCHANGED <<expiry, retired, enqueue, targets, toPublish, toMark>>

(* The dashboard's device page expires the device's rows before it lists   *)
(* them.                                                                   *)
ListPending(d) ==
  /\ status' = Expired({c \in Row : Dev(c) = d})
  /\ UNCHANGED <<expiry, retired, enqueue, targets, toPublish, toMark>>

-----------------------------------------------------------------------------
(***************************************************************************)
(* The device's requests                                                   *)
(***************************************************************************)

(* Answer to a poll: only a SELECT. *)
ListPendingForDevice(d) ==
  {c \in Row : Dev(c) = d /\ status[c] \in Pending /\ ~Due(c)}

expireDueCommand(d, c) ==
  IF Dev(c) = d /\ status[c] \in Pending /\ Due(c)
  THEN [status EXCEPT ![c] = "expired"]
  ELSE status

(* Mutant: the UPDATE without its status and expiry conditions. *)
AcknowledgesAnyStatus(d, c) == Dev(c) = d /\ status[c] # "none"

(* The rows the acknowledging UPDATE matches inside its transaction.       *)
Acknowledges(d, c) ==
  /\ Dev(c) = d
  /\ expireDueCommand(d, c)[c] \in Pending
  /\ ~Due(c)

(* One transaction: expire the row when due, then acknowledge it when it   *)
(* is still pending.  The transaction commits only when the UPDATE found a *)
(* row; otherwise it is rolled back, its expiry included.                  *)
Acknowledge(d, c, res) ==
  /\ status' = IF Acknowledges(d, c)
               THEN [expireDueCommand(d, c) EXCEPT ![c] = res]
               ELSE status
  /\ UNCHANGED <<expiry, retired, enqueue, targets, toPublish, toMark>>

(* Does the HTTP handler answer 200?  401 for a retired device, 404 when   *)
(* the row is neither acknowledged now nor earlier.                        *)
AckSucceeds(d, c) ==
  /\ d \notin retired
  /\ Acknowledges(d, c) \/ (Dev(c) = d /\ status[c] \in Result)

RetireDevice(d) ==
  /\ d \notin retired
  /\ retired' = retired \cup {d}
  /\ UNCHANGED <<status, expiry, enqueue, targets, toPublish, toMark>>

=============================================================================
