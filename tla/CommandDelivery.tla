-------------------------- MODULE CommandDelivery ---------------------------
(***************************************************************************)
(* Command delivery end to end: the server's command store, the MQTT       *)
(* broker, the HTTP API and one command worker per launcher.               *)
(*                                                                         *)
(* The broker is external.  The server publishes with QoS 1 and the        *)
(* launcher subscribes with QoS 0, so the broker hands a message to a      *)
(* connected subscriber and drops it when there is none.                   *)
(***************************************************************************)
EXTENDS CommandStore, CommandLauncher

CONSTANT MaxFaults   \* how many things may go wrong in a behaviour
ASSUME MaxFaultsAssumption == MaxFaults \in Nat

VARIABLES
  inbox,    \* messages on a launcher's open MQTT stream, not yet read
  acks,     \* acknowledgement requests the server has not yet handled
  faults    \* faults so far

netVars == <<inbox, acks, faults>>
vars == <<storeVars, launcherVars, netVars>>

Ack == [dev : Device, row : Row, res : Result]

TypeOK ==
  /\ StoreTypeOK
  /\ LauncherTypeOK
  /\ inbox \in [Device -> SUBSET Row]
  /\ acks \subseteq Ack
  /\ faults \in 0..MaxFaults

Init ==
  /\ StoreInit
  /\ LauncherInit
  /\ inbox = [d \in Device |-> {}]
  /\ acks = {}
  /\ faults = 0

Fault ==
  /\ faults < MaxFaults
  /\ faults' = faults + 1

-----------------------------------------------------------------------------
(***************************************************************************)
(* Server                                                                  *)
(***************************************************************************)
AdminResolves(r, target) ==
  ResolveTargets(r, target) /\ UNCHANGED <<launcherVars, netVars>>

AdminEnqueues(r, expires) ==
  Enqueue(r, expires) /\ UNCHANGED <<launcherVars, netVars>>

AdminEnqueueFails(r) ==
  EnqueueFails(r) /\ Fault /\ UNCHANGED <<launcherVars, inbox, acks>>

(* The broker accepted the message. *)
Deliver(c) ==
  inbox' = IF mode[Dev(c)] = "stream"
           THEN [inbox EXCEPT ![Dev(c)] = @ \cup {c}]
           ELSE inbox

PublishConfirmed(c) ==
  publishEnqueued(c, TRUE) /\ Deliver(c)
                           /\ UNCHANGED <<launcherVars, acks, faults>>

(* The broker accepted the message, its PUBACK did not arrive. *)
PublishUnconfirmed(c) ==
  publishEnqueued(c, FALSE) /\ Deliver(c) /\ Fault
                            /\ UNCHANGED <<launcherVars, acks>>

PublishFails(c) ==
  publishEnqueued(c, FALSE) /\ Fault /\ UNCHANGED <<launcherVars, inbox, acks>>

MarksSent(c) ==
  markSent(c) /\ UNCHANGED <<launcherVars, netVars>>

MarkingSentFails(c) ==
  MarkSentFails(c) /\ Fault /\ UNCHANGED <<launcherVars, inbox, acks>>

ServerRestarts ==
  ServerStops /\ Fault /\ UNCHANGED <<launcherVars, inbox, acks>>

ClockPassesDeadline(r) ==
  Deadline(r) /\ UNCHANGED <<launcherVars, netVars>>

CleanupPass ==
  ExpireDueCommands /\ UNCHANGED <<launcherVars, netVars>>

DashboardListsPending(d) ==
  ListPending(d) /\ UNCHANGED <<launcherVars, netVars>>

AdminRetires(d) ==
  RetireDevice(d) /\ UNCHANGED <<launcherVars, netVars>>

-----------------------------------------------------------------------------
(***************************************************************************)
(* Transport                                                               *)
(***************************************************************************)
CloseStream(d) == inbox' = [inbox EXCEPT ![d] = {}]

Connect(d) ==
  /\ UseMqtt
  /\ mode[d] = "waiting"
  /\ SetMode(d, "stream")
  /\ UNCHANGED <<storeVars, netVars>>

(* The connection fails or ends between two commands. *)
Disconnect(d) ==
  /\ UseMqtt
  /\ mode[d] \in {"waiting", "stream"}
  /\ pc[d] = "idle"
  /\ SetMode(d, "fallback")
  /\ CloseStream(d)
  /\ Fault
  /\ UNCHANGED <<storeVars, acks>>

StreamReceives(d) ==
  /\ mode[d] = "stream"
  /\ pc[d] = "idle"
  /\ \E c \in inbox[d] :
       /\ inbox' = [inbox EXCEPT ![d] = @ \ {c}]
       /\ Lookup(d, c)
  /\ UNCHANGED <<storeVars, mode, batch, acks, faults>>

(* Without a broker the job polls in each round; with one, only after the  *)
(* stream has failed.                                                      *)
AboutToPoll(d) == mode[d] = IF UseMqtt THEN "fallback" ELSE "waiting"

Poll(d) ==
  /\ AboutToPoll(d)
  /\ d \notin retired
  /\ PollReturns(d, ListPendingForDevice(d))
  /\ UNCHANGED <<storeVars, netVars>>

PollFails(d) ==
  /\ AboutToPoll(d)
  /\ \/ d \in retired /\ UNCHANGED faults
     \/ Fault
  /\ SetMode(d, "waiting")
  /\ UNCHANGED <<storeVars, inbox, acks>>

PollReceives(d) ==
  /\ mode[d] = "poll"
  /\ pc[d] = "idle"
  /\ \E c \in batch[d] :
       /\ batch' = [batch EXCEPT ![d] = @ \ {c}]
       /\ Lookup(d, c)
  /\ UNCHANGED <<storeVars, mode, netVars>>

PollEnds(d) ==
  /\ mode[d] = "poll"
  /\ pc[d] = "idle"
  /\ batch[d] = {}
  /\ SetMode(d, "waiting")
  /\ UNCHANGED <<storeVars, netVars>>

WorkerRestarts(d) ==
  /\ WorkerStops(d)
  /\ CloseStream(d)
  /\ Fault
  /\ UNCHANGED <<storeVars, acks>>

-----------------------------------------------------------------------------
(***************************************************************************)
(* Execution and acknowledgement                                           *)
(***************************************************************************)
Executes(d, res) == Execute(d, res) /\ UNCHANGED <<storeVars, netVars>>

Remembers(d) == Remember(d) /\ UNCHANGED <<storeVars, netVars>>

RememberingFails(d) ==
  RememberFails(d) /\ Fault /\ UNCHANGED <<storeVars, inbox, acks>>

AckMessage(d) == [dev |-> d, row |-> cur[d], res |-> result[d]]

SendsAck(d) ==
  /\ SendAck(d)
  /\ acks' = acks \cup {AckMessage(d)}
  /\ UNCHANGED <<storeVars, inbox, faults>>

(* The launcher still waits for the answer to m. *)
Awaited(m) == pc[m.dev] = "await" /\ m = AckMessage(m.dev)

(* What the server does with an acknowledgement: authenticate the device,  *)
(* then one store transaction.                                             *)
ServerHandles(m) ==
  IF m.dev \in retired THEN UNCHANGED storeVars
                       ELSE Acknowledge(m.dev, m.row, m.res)

(* The ack throws in the launcher, which closes a stream it came from.     *)
Throws(d) == AckThrows(d) /\ CloseStream(d)

(* The ack times out: no message of an open stream is lost, and no         *)
(* fallback poll follows.                                                  *)
TimesOut(d) ==
  \/ mode[d] = "stream" /\ AckSwallowed(d) /\ UNCHANGED inbox
  \/ mode[d] # "stream" /\ Throws(d)

(* No answer comes: the connection fails, or the launcher waits in vain.   *)
GetsNoAnswer(d) == Throws(d) \/ TimesOut(d)

ServerAnswers(m) ==
  /\ acks' = acks \ {m}
  /\ ServerHandles(m)
  /\ \/ /\ Awaited(m) /\ AckSucceeds(m.dev, m.row)
        /\ AckReturns(m.dev) /\ UNCHANGED inbox
     \/ /\ Awaited(m) /\ ~AckSucceeds(m.dev, m.row)
        /\ Throws(m.dev)
     \/ /\ ~Awaited(m)
        /\ UNCHANGED <<launcherVars, inbox>>
  /\ UNCHANGED faults

(* The request is lost, or the server's answer to it. *)
RequestLost(m) ==
  /\ acks' = acks \ {m}
  /\ IF Awaited(m) THEN GetsNoAnswer(m.dev)
                 ELSE UNCHANGED <<launcherVars, inbox>>
  /\ Fault
  /\ UNCHANGED storeVars

AnswerLost(m) ==
  /\ acks' = acks \ {m}
  /\ ServerHandles(m)
  /\ Awaited(m)
  /\ GetsNoAnswer(m.dev)
  /\ Fault

(* The launcher gives up while the request is still under way. *)
AckTimesOut(d) ==
  /\ pc[d] = "await"
  /\ TimesOut(d)
  /\ Fault
  /\ UNCHANGED <<storeVars, acks>>

FinishesCommand(d) == AfterAck(d) /\ UNCHANGED <<storeVars, netVars>>

-----------------------------------------------------------------------------
ServerNext ==
  \/ \E r \in Request, t \in Target : AdminResolves(r, t)
  \/ \E r \in Request, e \in {"never", "ahead"} : AdminEnqueues(r, e)
  \/ \E r \in Request : AdminEnqueueFails(r) \/ ClockPassesDeadline(r)
  \/ \E c \in toPublish : \/ PublishConfirmed(c)
                          \/ PublishUnconfirmed(c)
                          \/ PublishFails(c)
  \/ \E c \in toMark : MarksSent(c) \/ MarkingSentFails(c)
  \/ ServerRestarts
  \/ CleanupPass
  \/ \E d \in Device : DashboardListsPending(d) \/ AdminRetires(d)
  \/ \E m \in acks : ServerAnswers(m) \/ RequestLost(m) \/ AnswerLost(m)

LauncherNext(d) ==
  \/ Connect(d)
  \/ Disconnect(d)
  \/ StreamReceives(d)
  \/ Poll(d)
  \/ PollFails(d)
  \/ PollReceives(d)
  \/ PollEnds(d)
  \/ WorkerRestarts(d)
  \/ \E res \in Result : Executes(d, res)
  \/ Remembers(d)
  \/ RememberingFails(d)
  \/ SendsAck(d)
  \/ AckTimesOut(d)
  \/ FinishesCommand(d)

Next == ServerNext \/ \E d \in Device : LauncherNext(d)

Spec == Init /\ [][Next]_vars

(***************************************************************************)
(* Fairness: the launcher's job loops for as long as the process lives,    *)
(* the server answers requests it received and handlers run to their end.  *)
(* Operators, the clock, the cleanup pass and faults owe nothing.          *)
(***************************************************************************)
WorkerSteps(d) ==
  \/ Connect(d)
  \/ StreamReceives(d)
  \/ Poll(d)
  \/ PollReceives(d)
  \/ PollEnds(d)
  \/ \E res \in Result : Executes(d, res)
  \/ Remembers(d)
  \/ SendsAck(d)
  \/ FinishesCommand(d)

FairSpec ==
  /\ Spec
  /\ \A d \in Device : WF_vars(WorkerSteps(d))
  /\ WF_vars(\E m \in acks : ServerAnswers(m))
  /\ WF_vars(\E c \in toPublish : PublishConfirmed(c))
  /\ WF_vars(\E c \in toMark : MarksSent(c))

-----------------------------------------------------------------------------
(***************************************************************************)
(* Properties                                                              *)
(***************************************************************************)

(* A row is acked or failed only with a result that the owning device's    *)
(* action really had, although requests are lost, answered late and sent   *)
(* again, and workers restart between any two steps of                     *)
(* handleIncomingCommand.                                                  *)
ResultsComeFromRuns ==
  \A c \in Row : status[c] \in Result => status[c] \in outcomes[c]

(* Every run of a command's action is accounted for: its result is in the  *)
(* journal, in the worker's hand before rememberCommandResult, or it was   *)
(* lost.  So the action runs again only after its last result was lost (a  *)
(* restart between execute and record, a failed write, an eviction), and   *)
(* MQTT and polling delivering the same row never run it twice by          *)
(* themselves.                                                             *)
RunsAreAccounted ==
  \A c \in Row :
    executions[c] = lost[c]
                    + (IF Journaled(c) THEN 1 ELSE 0)
                    + (IF pc[Dev(c)] = "record" /\ cur[Dev(c)] = c THEN 1 ELSE 0)

(* A terminal row never changes: neither a late markSent, nor a late or    *)
(* repeated acknowledgement, nor the cleanup pass touches it.              *)
TerminalIsFinal ==
  [][\A c \in Row : status[c] \in Terminal => status'[c] = status[c]]_vars

(* Command delivery implements the queue an operator sees. *)
Lifecycle ==
  INSTANCE CommandLifecycle WITH Row <- Row, status <- status, outcomes <- outcomes
LifecycleSpec == Lifecycle!Spec

(* With polling as the transport, every command of a device that stays     *)
(* registered is acknowledged unless it becomes due, once faults stop:     *)
(* queued and sent rows are listed again in each poll until then.          *)
PendingIsSettled ==
  \A c \in Row :
    status[c] \in Pending
      ~> (status[c] \notin Pending \/ Due(c) \/ Dev(c) \in retired)

(* The kiosk is left only for a command whose result the server has: an    *)
(* ack that throws, that times out while the stream goes on, or that is    *)
(* refused because the row expired never applies the exit, whatever is     *)
(* redelivered or answered late.                                           *)
ExitIsSettled ==
  \A c \in Row : exits[c] > 0 => status[c] \in {"acked", "failed"}

=============================================================================
