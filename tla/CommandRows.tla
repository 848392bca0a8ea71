---------------------------- MODULE CommandRows -----------------------------
(* The rows of the commands table, known to server and launcher alike.     *)
EXTENDS Naturals

CONSTANTS
  Request,     \* calls of Enqueue, each made at most once
  Device       \* the tenant's devices

(* One row per request and target device; the pair stands for the UUID.    *)
Row == Request \X Device
Dev(c) == c[2]

Pending == {"queued", "sent"}
Result == {"acked", "failed"}
Terminal == Result \cup {"expired"}
Status == {"none"} \cup Pending \cup Terminal

=============================================================================
