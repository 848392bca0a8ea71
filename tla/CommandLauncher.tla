-------------------------- MODULE CommandLauncher ---------------------------
(***************************************************************************)
(* The launcher's command worker: the transport job of MainActivity, the   *)
(* DeviceCommandCoordinator it calls and the journal of results that       *)
(* survives restarts.                                                      *)
(*                                                                         *)
(* The operators are the worker's own part of each step; CommandDelivery   *)
(* joins them with the server, the broker and the network.                 *)
(***************************************************************************)
EXTENDS CommandRows

CONSTANTS
  ExitKiosk,   \* the requests whose command type is exit_kiosk
  MaxEntries,  \* capacity of the journal (256 in the code)
  NoRow        \* the worker handles no command

ASSUME ExitKioskAssumption == ExitKiosk \subseteq Request
ASSUME MaxEntriesAssumption == MaxEntries \in Nat \ {0}
ASSUME NoRowAssumption == NoRow \notin Row

VARIABLES
  mode,        \* what the transport job does: waits, streams, is about to
               \* poll after a failed stream, handles a polled batch
  batch,       \* polled commands not yet handled
  cur,         \* the command being handled
  pc,          \* the next step of handleIncomingCommand
  result,      \* the result in hand
  position,    \* journal: place of each entry counted from the newest, 0
               \* for a command without an entry
  stored,      \* journal: the result of each entry
  (* history *)
  executions,  \* how often the command's action was run
  outcomes,    \* the results those runs had
  lost,        \* how often such a result left, or never reached, the journal
  exits        \* how often the kiosk exit was applied after the ack

workerVars == <<mode, batch, cur, pc, result>>
journalVars == <<position, stored>>
historyVars == <<executions, outcomes, lost, exits>>
launcherVars == <<workerVars, journalVars, historyVars>>

LauncherTypeOK ==
  /\ mode \in [Device -> {"waiting", "stream", "fallback", "poll"}]
  /\ batch \in [Device -> SUBSET Row]
  /\ cur \in [Device -> Row \cup {NoRow}]
  /\ pc \in [Device -> {"idle", "execute", "record", "ack", "await", "after"}]
  /\ result \in [Device -> Result]
  /\ position \in [Row -> 0..MaxEntries]
  /\ stored \in [Row -> Result]
  /\ executions \in [Row -> Nat]
  /\ outcomes \in [Row -> SUBSET Result]
  /\ lost \in [Row -> Nat]
  /\ exits \in [Row -> Nat]

LauncherInit ==
  /\ mode = [d \in Device |-> "waiting"]
  /\ batch = [d \in Device |-> {}]
  /\ cur = [d \in Device |-> NoRow]
  /\ pc = [d \in Device |-> "idle"]
  /\ result = [d \in Device |-> "failed"]
  /\ position = [c \in Row |-> 0]
  /\ stored = [c \in Row |-> "failed"]
  /\ executions = [c \in Row |-> 0]
  /\ outcomes = [c \in Row |-> {}]
  /\ lost = [c \in Row |-> 0]
  /\ exits = [c \in Row |-> 0]

-----------------------------------------------------------------------------
(***************************************************************************)
(* The journal (DeviceCommandResultStore).  Each device has its own; the   *)
(* commands of other devices never meet in it.                             *)
(***************************************************************************)
Journaled(c) == position[c] > 0

(* Mutant: takeLast(maxEntries) forgotten. *)
PositionUntrimmed(c, x) ==
  IF x = c THEN 1
  ELSE IF Dev(x) = Dev(c) /\ position[x] # 0 THEN position[x] + 1
                                            ELSE position[x]

(* The entry of c goes to the end of the list; the list keeps its last     *)
(* MaxEntries entries.                                                     *)
PositionAfter(c, x) ==
  LET moved == IF position[c] = 0 \/ position[x] < position[c]
               THEN position[x] + 1 ELSE position[x]
  IN  CASE x = c -> 1
        [] x # c /\ (Dev(x) # Dev(c) \/ position[x] = 0) -> position[x]
        [] x # c /\ Dev(x) = Dev(c) /\ position[x] # 0 ->
             IF moved > MaxEntries THEN 0 ELSE moved

record(c, res) ==
  /\ position' = [x \in Row |-> PositionAfter(c, x)]
  /\ stored' = [stored EXCEPT ![c] = res]

(* The commands whose entry recording c pushes out. *)
Evicted(c) == {x \in Row : Journaled(x) /\ PositionAfter(c, x) = 0}

-----------------------------------------------------------------------------
(***************************************************************************)
(* handleIncomingCommand                                                   *)
(***************************************************************************)

(* Mutant: the coordinator keeps its default journal, which finds nothing. *)
LookupNoOpJournal(d, c) ==
  /\ cur' = [cur EXCEPT ![d] = c]
  /\ pc' = [pc EXCEPT ![d] = "execute"]
  /\ UNCHANGED <<result, journalVars, historyVars>>

(* Mutant: a duplicate is dropped instead of acknowledged again. *)
LookupSkipsDuplicates(d, c) ==
  /\ cur' = [cur EXCEPT ![d] = IF Journaled(c) THEN NoRow ELSE c]
  /\ pc' = [pc EXCEPT ![d] = IF Journaled(c) THEN "idle" ELSE "execute"]
  /\ UNCHANGED <<result, journalVars, historyVars>>

(* history.lookup: a stored result is acknowledged again, otherwise the    *)
(* command is executed.                                                    *)
Lookup(d, c) ==
  /\ cur' = [cur EXCEPT ![d] = c]
  /\ pc' = [pc EXCEPT ![d] = IF Journaled(c) THEN "ack" ELSE "execute"]
  /\ result' = [result EXCEPT ![d] = IF Journaled(c) THEN stored[c] ELSE @]
  /\ UNCHANGED <<journalVars, historyVars>>

(* Mutant: the result in hand is not replaced by the run's. *)
ExecuteKeepsResult(d, res) ==
  /\ pc[d] = "execute"
  /\ pc' = [pc EXCEPT ![d] = "record"]
  /\ executions' = [executions EXCEPT ![cur[d]] = @ + 1]
  /\ outcomes' = [outcomes EXCEPT ![cur[d]] = @ \cup {res}]
  /\ UNCHANGED <<mode, batch, cur, result, journalVars, lost, exits>>

(* executor.execute; an exception other than a cancellation is a failed    *)
(* result.                                                                 *)
Execute(d, res) ==
  /\ pc[d] = "execute"
  /\ pc' = [pc EXCEPT ![d] = "record"]
  /\ result' = [result EXCEPT ![d] = res]
  /\ executions' = [executions EXCEPT ![cur[d]] = @ + 1]
  /\ outcomes' = [outcomes EXCEPT ![cur[d]] = @ \cup {res}]
  /\ UNCHANGED <<mode, batch, cur, journalVars, lost, exits>>

(* rememberCommandResult *)
Remember(d) ==
  /\ pc[d] = "record"
  /\ pc' = [pc EXCEPT ![d] = "ack"]
  /\ record(cur[d], result[d])
  /\ lost' = [x \in Row |-> IF x \in Evicted(cur[d]) THEN lost[x] + 1
                                                         ELSE lost[x]]
  /\ UNCHANGED <<mode, batch, cur, result, executions, outcomes, exits>>

(* The journal cannot be written; the failure is swallowed. *)
RememberFails(d) ==
  /\ pc[d] = "record"
  /\ pc' = [pc EXCEPT ![d] = "ack"]
  /\ lost' = [lost EXCEPT ![cur[d]] = @ + 1]
  /\ UNCHANGED <<mode, batch, cur, result, journalVars,
                 executions, outcomes, exits>>

SendAck(d) ==
  /\ pc[d] = "ack"
  /\ pc' = [pc EXCEPT ![d] = "await"]
  /\ UNCHANGED <<mode, batch, cur, result, journalVars, historyVars>>

AckReturns(d) ==
  /\ pc' = [pc EXCEPT ![d] = "after"]
  /\ UNCHANGED <<mode, batch, cur, result, journalVars, historyVars>>

(* The ack throws: out of the stream into the fallback poll, or out of the *)
(* poll, whose remaining commands are dropped.                             *)
AckThrows(d) ==
  /\ pc' = [pc EXCEPT ![d] = "idle"]
  /\ cur' = [cur EXCEPT ![d] = NoRow]
  /\ mode' = [mode EXCEPT ![d] = IF @ = "stream" THEN "fallback" ELSE "waiting"]
  /\ batch' = [batch EXCEPT ![d] = {}]
  /\ UNCHANGED <<result, journalVars, historyVars>>

(* Mutant: the timeout is caught around the ack alone, and the side effect *)
(* is applied.                                                             *)
AckSwallowedEarly(d) ==
  /\ pc' = [pc EXCEPT ![d] = "after"]
  /\ UNCHANGED <<mode, batch, cur, result, journalVars, historyVars>>

(* The ack times out in the stream: the stream's catch of its own read     *)
(* timeouts is around onCommand too, so the command is dropped and the     *)
(* stream goes on.                                                         *)
AckSwallowed(d) ==
  /\ pc' = [pc EXCEPT ![d] = "idle"]
  /\ cur' = [cur EXCEPT ![d] = NoRow]
  /\ UNCHANGED <<mode, batch, result, journalVars, historyVars>>

(* applyCommandSideEffectAfterAckIfNeeded: exit_kiosk takes effect here.   *)
AfterAck(d) ==
  /\ pc[d] = "after"
  /\ pc' = [pc EXCEPT ![d] = "idle"]
  /\ cur' = [cur EXCEPT ![d] = NoRow]
  /\ exits' = IF cur[d][1] \in ExitKiosk
              THEN [exits EXCEPT ![cur[d]] = @ + 1]
              ELSE exits
  /\ UNCHANGED <<mode, batch, result, journalVars, executions, outcomes, lost>>

-----------------------------------------------------------------------------
(***************************************************************************)
(* The transport job                                                       *)
(***************************************************************************)
SetMode(d, m) ==
  /\ mode' = [mode EXCEPT ![d] = m]
  /\ UNCHANGED <<batch, cur, pc, result, journalVars, historyVars>>

PollReturns(d, commands) ==
  /\ mode' = [mode EXCEPT ![d] = "poll"]
  /\ batch' = [batch EXCEPT ![d] = commands]
  /\ UNCHANGED <<cur, pc, result, journalVars, historyVars>>

(* The job ends at any point: the process dies (a reboot command asks for  *)
(* it), or a config revision changes the job's target key and the job is   *)
(* cancelled and started again.  Only the journal is kept.                 *)
WorkerStops(d) ==
  /\ mode' = [mode EXCEPT ![d] = "waiting"]
  /\ batch' = [batch EXCEPT ![d] = {}]
  /\ cur' = [cur EXCEPT ![d] = NoRow]
  /\ pc' = [pc EXCEPT ![d] = "idle"]
  /\ lost' = IF pc[d] = "record" THEN [lost EXCEPT ![cur[d]] = @ + 1] ELSE lost
  /\ UNCHANGED <<result, journalVars, executions, outcomes, exits>>

=============================================================================
