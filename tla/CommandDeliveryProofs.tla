----------------------- MODULE CommandDeliveryProofs ------------------------
(***************************************************************************)
(* Proofs about CommandDelivery, for any sets of requests, devices and     *)
(* groups, any journal capacity and any number of faults.                  *)
(***************************************************************************)
EXTENDS CommandDelivery, TLAPS

(***************************************************************************)
(* The inductive invariant.                                                *)
(***************************************************************************)

(* What a launcher holds is its own. *)
Owned ==
  \A d \in Device :
    /\ \A c \in batch[d] : Dev(c) = d
    /\ \A c \in inbox[d] : Dev(c) = d
    /\ pc[d] # "idle" => cur[d] \in Row /\ Dev(cur[d]) = d

(* Every result under way to the server had a run. *)
Real ==
  /\ \A m \in acks : m.res \in outcomes[m.row]
  /\ \A d \in Device : pc[d] \in {"record", "ack", "await"}
                         => result[d] \in outcomes[cur[d]]
  /\ \A c \in Row : position[c] > 0 => stored[c] \in outcomes[c]

(* A command is executed only while the journal has no entry for it. *)
Fresh ==
  \A d \in Device : pc[d] \in {"execute", "record"} => position[cur[d]] = 0

(* Rows come into being by Enqueue and are then known to everyone. *)
Known ==
  /\ \A c \in toPublish \cup toMark : status[c] # "none"
  /\ \A d \in Device :
       /\ \A c \in batch[d] \cup inbox[d] : status[c] # "none"
       /\ pc[d] # "idle" => status[cur[d]] # "none"
  /\ \A r \in Request, d \in Device :
       enqueue[r] # "done" => status[<<r, d>>] = "none"

IInv ==
  /\ TypeOK
  /\ Owned
  /\ Real
  /\ Fresh
  /\ Known
  /\ ResultsComeFromRuns
  /\ RunsAreAccounted

-----------------------------------------------------------------------------
(***************************************************************************)
(* Type correctness                                                        *)
(***************************************************************************)

(* An acknowledgement without an answer keeps the worker's types, whether  *)
(* it ends the stream or is swallowed by it.                               *)
LEMMA NoAnswerTypes ==
  ASSUME TypeOK, NEW d \in Device, GetsNoAnswer(d)
  PROVE  LauncherTypeOK' /\ inbox' \in [Device -> SUBSET Row]
<1> USE DEF TypeOK, LauncherTypeOK, historyVars, journalVars
<1> HIDE DEF Row, Result
<1>1. CASE Throws(d)
  BY <1>1 DEF Throws, AckThrows, CloseStream
<1>2. CASE AckSwallowed(d) /\ UNCHANGED inbox
  BY <1>2 DEF AckSwallowed
<1> QED
  BY <1>1, <1>2 DEF GetsNoAnswer, TimesOut

(* Every server step keeps the types. *)
LEMMA ServerTypes == TypeOK /\ ServerNext => TypeOK'
<1> SUFFICES ASSUME TypeOK, ServerNext PROVE TypeOK'
  OBVIOUS
<1> USE DEF TypeOK, StoreTypeOK, LauncherTypeOK, storeVars, launcherVars,
            workerVars, journalVars, historyVars, netVars, Row, Dev,
            Status, Pending, Terminal, Result
<1>1. ASSUME NEW r \in Request, NEW t \in Target, AdminResolves(r, t)
      PROVE  TypeOK'
  BY <1>1, GroupAssumption
     DEF AdminResolves, ResolveTargets, Target, resolveTargets
<1>2. ASSUME NEW r \in Request, NEW e \in {"never", "ahead"},
             AdminEnqueues(r, e)
      PROVE  TypeOK'
  BY <1>2 DEF AdminEnqueues, Enqueue
<1>3. ASSUME NEW r \in Request, AdminEnqueueFails(r) PROVE TypeOK'
  BY <1>3, MaxFaultsAssumption DEF AdminEnqueueFails, EnqueueFails, Fault
<1>4. ASSUME NEW r \in Request, ClockPassesDeadline(r) PROVE TypeOK'
  BY <1>4 DEF ClockPassesDeadline, Deadline
<1>5. ASSUME NEW c \in toPublish, PublishConfirmed(c) PROVE TypeOK'
  BY <1>5 DEF PublishConfirmed, publishEnqueued, Deliver
<1>6. ASSUME NEW c \in toPublish, PublishUnconfirmed(c) PROVE TypeOK'
  BY <1>6, MaxFaultsAssumption
     DEF PublishUnconfirmed, publishEnqueued, Deliver, Fault
<1>7. ASSUME NEW c \in toPublish, PublishFails(c) PROVE TypeOK'
  BY <1>7, MaxFaultsAssumption DEF PublishFails, publishEnqueued, Fault
<1>8. ASSUME NEW c \in toMark, MarksSent(c) PROVE TypeOK'
  BY <1>8 DEF MarksSent, markSent
<1>9. ASSUME NEW c \in toMark, MarkingSentFails(c) PROVE TypeOK'
  BY <1>9, MaxFaultsAssumption DEF MarkingSentFails, MarkSentFails, Fault
<1>10. ASSUME ServerRestarts PROVE TypeOK'
  BY <1>10, MaxFaultsAssumption DEF ServerRestarts, ServerStops, Fault
<1>11. ASSUME CleanupPass PROVE TypeOK'
  BY <1>11 DEF CleanupPass, ExpireDueCommands, Expired
<1>12. ASSUME NEW d \in Device, DashboardListsPending(d) PROVE TypeOK'
  BY <1>12 DEF DashboardListsPending, ListPending, Expired
<1>13. ASSUME NEW d \in Device, AdminRetires(d) PROVE TypeOK'
  BY <1>13 DEF AdminRetires, RetireDevice
<1>a. ASSUME NEW m \in acks
      PROVE  m.dev \in Device /\ m.row \in Row /\ m.res \in Result
  BY <1>a DEF Ack
<1>b. ASSUME NEW m \in acks, ServerHandles(m) PROVE StoreTypeOK'
  <2>1. m.dev \in Device /\ m.row \in Row /\ m.res \in Result
    BY <1>a
  <2>2. expireDueCommand(m.dev, m.row) \in [Row -> Status]
    BY <2>1 DEF expireDueCommand
  <2> HIDE DEF Row, Status, Result
  <2>3. Result \subseteq Status
    BY DEF Result, Status, Terminal
  <2>4. status' \in [Row -> Status]
    BY <1>b, <2>1, <2>2, <2>3 DEF ServerHandles, Acknowledge
  <2> QED
    BY <1>b, <2>4 DEF ServerHandles, Acknowledge
<1>c. ASSUME NEW m \in acks, GetsNoAnswer(m.dev)
      PROVE  LauncherTypeOK' /\ inbox' \in [Device -> SUBSET Row]
  BY <1>c, <1>a, NoAnswerTypes
<1>d. ASSUME NEW m \in acks, acks' = acks \ {m} PROVE acks' \subseteq Ack'
  BY <1>d DEF Ack
<1>14. ASSUME NEW m \in acks, ServerAnswers(m) PROVE TypeOK'
  <2>1. LauncherTypeOK' /\ inbox' \in [Device -> SUBSET Row]
    <3>1. CASE AckReturns(m.dev) /\ UNCHANGED inbox
      BY <3>1, <1>a DEF AckReturns
    <3>2. CASE Throws(m.dev)
      BY <3>2, <1>c DEF GetsNoAnswer
    <3>3. CASE UNCHANGED <<launcherVars, inbox>>
      BY <3>3
    <3> QED
      BY <1>14, <3>1, <3>2, <3>3 DEF ServerAnswers
  <2> QED
    BY <1>14, <1>b, <1>d, <2>1 DEF ServerAnswers
<1>15. ASSUME NEW m \in acks, RequestLost(m) PROVE TypeOK'
  BY <1>15, <1>c, <1>d, MaxFaultsAssumption DEF RequestLost, Fault
<1>16. ASSUME NEW m \in acks, AnswerLost(m) PROVE TypeOK'
  BY <1>16, <1>b, <1>c, <1>d, MaxFaultsAssumption DEF AnswerLost, Fault
<1> QED
  BY <1>1, <1>2, <1>3, <1>4, <1>5, <1>6, <1>7, <1>8, <1>9, <1>10, <1>11,
     <1>12, <1>13, <1>14, <1>15, <1>16, Zenon DEF ServerNext

(* The places of the journal stay within its capacity, whatever is         *)
(* recorded.                                                               *)
LEMMA PositionType ==
  ASSUME LauncherTypeOK, NEW c \in Row, NEW x \in Row
  PROVE  PositionAfter(c, x) \in 0..MaxEntries
<1> USE MaxEntriesAssumption DEF LauncherTypeOK
<1>1. position[c] \in 0..MaxEntries /\ position[x] \in 0..MaxEntries
  OBVIOUS
<1>2. CASE x = c
  BY <1>1, <1>2 DEF PositionAfter
<1>3. CASE x # c /\ (Dev(x) # Dev(c) \/ position[x] = 0)
  BY <1>1, <1>3 DEF PositionAfter
<1>4. CASE x # c /\ Dev(x) = Dev(c) /\ position[x] # 0
  BY <1>1, <1>4 DEF PositionAfter
<1> QED
  BY <1>2, <1>3, <1>4

(* Every launcher step keeps the types. *)
LEMMA LauncherTypes ==
  ASSUME TypeOK, Owned, NEW d \in Device, LauncherNext(d)
  PROVE  TypeOK'
<1> USE DEF TypeOK, StoreTypeOK, LauncherTypeOK, storeVars, launcherVars,
            workerVars, journalVars, historyVars, netVars
<1>0. pc[d] # "idle" => cur[d] \in Row
  BY DEF Owned
<1>1. CASE Connect(d)
  BY <1>1 DEF Connect, SetMode
<1>2. CASE Disconnect(d)
  BY <1>2, MaxFaultsAssumption DEF Disconnect, SetMode, CloseStream, Fault
<1>3. CASE StreamReceives(d)
  BY <1>3 DEF StreamReceives, Lookup, Journaled
<1>4. CASE Poll(d)
  BY <1>4 DEF Poll, PollReturns, ListPendingForDevice
<1>5. CASE PollFails(d)
  BY <1>5, MaxFaultsAssumption DEF PollFails, SetMode, Fault
<1>6. CASE PollReceives(d)
  BY <1>6 DEF PollReceives, Lookup, Journaled
<1>7. CASE PollEnds(d)
  BY <1>7 DEF PollEnds, SetMode
<1>8. CASE WorkerRestarts(d)
  BY <1>8, <1>0, MaxFaultsAssumption
     DEF WorkerRestarts, WorkerStops, CloseStream, Fault
<1>9. ASSUME NEW res \in Result, Executes(d, res) PROVE TypeOK'
  BY <1>9, <1>0 DEF Executes, Execute
<1>10. CASE Remembers(d)
  <2>1. cur[d] \in Row
    BY <1>10, <1>0 DEF Remembers, Remember
  <2>2. position' \in [Row -> 0..MaxEntries]
    BY <1>10, <2>1, PositionType DEF Remembers, Remember, record
  <2>3. stored' \in [Row -> Result] /\ lost' \in [Row -> Nat]
    BY <1>10, <2>1 DEF Remembers, Remember, record
  <2> QED
    BY <1>10, <2>2, <2>3 DEF Remembers, Remember, record
<1>11. CASE RememberingFails(d)
  BY <1>11, <1>0, MaxFaultsAssumption DEF RememberingFails, RememberFails, Fault
<1>12. CASE SendsAck(d)
  BY <1>12, <1>0 DEF SendsAck, SendAck, AckMessage, Ack
<1>13. CASE AckTimesOut(d)
  <2>1. LauncherTypeOK' /\ inbox' \in [Device -> SUBSET Row]
    BY <1>13, NoAnswerTypes DEF AckTimesOut, GetsNoAnswer
  <2> QED
    BY <1>13, <2>1, MaxFaultsAssumption DEF AckTimesOut, Fault
<1>14. CASE FinishesCommand(d)
  BY <1>14, <1>0 DEF FinishesCommand, AfterAck
<1> QED
  BY <1>1, <1>2, <1>3, <1>4, <1>5, <1>6, <1>7, <1>8, <1>9, <1>10, <1>11,
     <1>12, <1>13, <1>14 DEF LauncherNext

-----------------------------------------------------------------------------
(***************************************************************************)
(* The inductive step                                                      *)
(***************************************************************************)

(* A step of the store that leaves launchers and messages alone, takes no  *)
(* row away and acknowledges none.                                         *)
StoreOnly ==
  /\ UNCHANGED <<launcherVars, inbox, acks>>
  /\ \A c \in Row : /\ status[c] # "none" => status'[c] # "none"
                    /\ status'[c] \in Result => status'[c] = status[c]
  /\ \A c \in toPublish' \cup toMark' : status'[c] # "none"
  /\ \A r \in Request, d \in Device :
       enqueue'[r] # "done" => status'[<<r, d>>] = "none"

(* Such a step keeps the invariant. *)
LEMMA StoreStep == IInv /\ TypeOK' /\ StoreOnly => IInv'
<1> SUFFICES ASSUME IInv, TypeOK', StoreOnly PROVE IInv'
  OBVIOUS
<1> USE DEF StoreOnly, launcherVars, workerVars, journalVars, historyVars
<1>1. Owned' /\ Real' /\ Fresh' /\ RunsAreAccounted'
  BY DEF IInv, Owned, Real, Fresh, RunsAreAccounted, Journaled
<1>2. Known'
  <2>1. \A d \in Device : cur[d] \in Row \/ pc[d] = "idle"
    BY DEF IInv, Owned
  <2>2. \A d \in Device : batch[d] \cup inbox[d] \subseteq Row
    BY DEF IInv, TypeOK, LauncherTypeOK
  <2> QED
    BY <2>1, <2>2 DEF IInv, Known
<1>3. ResultsComeFromRuns'
  BY DEF IInv, ResultsComeFromRuns
<1> QED
  BY <1>1, <1>2, <1>3 DEF IInv

(* The store's own steps are such steps: in particular Enqueue only        *)
(* creates rows of a request that had none.                                *)
LEMMA StoreInv ==
  ASSUME IInv, TypeOK',
         \/ \E r \in Request, t \in Target : AdminResolves(r, t)
         \/ \E r \in Request, e \in {"never", "ahead"} : AdminEnqueues(r, e)
         \/ \E r \in Request : AdminEnqueueFails(r) \/ ClockPassesDeadline(r)
         \/ \E c \in toPublish : PublishFails(c)
         \/ \E c \in toMark : MarksSent(c) \/ MarkingSentFails(c)
         \/ ServerRestarts
         \/ CleanupPass
         \/ \E d \in Device : DashboardListsPending(d) \/ AdminRetires(d)
  PROVE  IInv'
<1>0. StoreTypeOK /\ Known
  BY DEF IInv, TypeOK
<1> USE <1>0 DEF StoreTypeOK, Known, netVars, Pending, Result
<1>1. ASSUME NEW r \in Request, NEW t \in Target, AdminResolves(r, t)
      PROVE  StoreOnly
  BY <1>1 DEF StoreOnly, AdminResolves, ResolveTargets
<1>2. ASSUME NEW r \in Request, NEW e \in {"never", "ahead"},
             AdminEnqueues(r, e)
      PROVE  StoreOnly
  <2>1. \A c \in Row : status'[c] = IF c \in {r} \X targets[r]
                                     THEN "queued" ELSE status[c]
    BY <1>2 DEF AdminEnqueues, Enqueue
  <2>2. {r} \X targets[r] \subseteq Row
    BY DEF Row
  <2>3. \A c \in toPublish' \cup toMark' :
          c \in {r} \X targets[r] \/ c \in toPublish \cup toMark
    BY <1>2 DEF AdminEnqueues, Enqueue
  <2>4. \A x \in Request, d \in Device :
          enqueue'[x] # "done" => x # r /\ enqueue[x] # "done"
    BY <1>2 DEF AdminEnqueues, Enqueue
  <2>5. \A x \in Request, d \in Device :
          enqueue'[x] # "done" => status'[<<x, d>>] = "none"
    BY <2>1, <2>4 DEF Row
  <2>6. \A c \in toPublish' \cup toMark' : status'[c] # "none"
    BY <2>1, <2>2, <2>3
  <2>7. \A c \in Row : /\ status[c] # "none" => status'[c] # "none"
                       /\ status'[c] \in Result => status'[c] = status[c]
    BY <2>1
  <2>8. UNCHANGED <<launcherVars, inbox, acks>>
    BY <1>2 DEF AdminEnqueues
  <2> QED
    BY <2>5, <2>6, <2>7, <2>8 DEF StoreOnly
<1>3. ASSUME NEW r \in Request, AdminEnqueueFails(r) PROVE StoreOnly
  BY <1>3 DEF StoreOnly, AdminEnqueueFails, EnqueueFails
<1>4. ASSUME NEW r \in Request, ClockPassesDeadline(r) PROVE StoreOnly
  BY <1>4 DEF StoreOnly, ClockPassesDeadline, Deadline
<1>5. ASSUME NEW c \in toPublish, PublishFails(c) PROVE StoreOnly
  BY <1>5 DEF StoreOnly, PublishFails, publishEnqueued
<1>6. ASSUME NEW c \in toMark, MarksSent(c) PROVE StoreOnly
  BY <1>6 DEF StoreOnly, MarksSent, markSent, Row
<1>7. ASSUME NEW c \in toMark, MarkingSentFails(c) PROVE StoreOnly
  BY <1>7 DEF StoreOnly, MarkingSentFails, MarkSentFails
<1>8. ASSUME ServerRestarts PROVE StoreOnly
  BY <1>8 DEF StoreOnly, ServerRestarts, ServerStops
<1>9. ASSUME NEW S \in SUBSET Row, status' = Expired(S),
             UNCHANGED <<launcherVars, inbox, acks, enqueue, toPublish, toMark>>
      PROVE  StoreOnly
  BY <1>9 DEF StoreOnly, Expired, Row
<1>10. ASSUME CleanupPass PROVE StoreOnly
  BY <1>9, <1>10 DEF CleanupPass, ExpireDueCommands
<1>11. ASSUME NEW d \in Device, DashboardListsPending(d) PROVE StoreOnly
  BY <1>9, <1>11 DEF DashboardListsPending, ListPending
<1>12. ASSUME NEW d \in Device, AdminRetires(d) PROVE StoreOnly
  BY <1>12 DEF StoreOnly, AdminRetires, RetireDevice
<1>13. StoreOnly
  BY <1>1, <1>2, <1>3, <1>4, <1>5, <1>6, <1>7, <1>8, <1>10, <1>11, <1>12
<1> QED
  BY <1>13, StoreStep

(* What the store does with an acknowledgement: at most the row named      *)
(* changes, from pending to the result reported.                           *)
LEMMA AckEffect ==
  ASSUME IInv, NEW m \in acks, ServerHandles(m) \/ UNCHANGED storeVars
  PROVE  /\ UNCHANGED <<enqueue, toPublish, toMark>>
         /\ \A c \in Row : \/ status'[c] = status[c]
                           \/ /\ status[c] \in Pending
                              /\ c = m.row /\ status'[c] = m.res
<1>1. m.dev \in Device /\ m.row \in Row /\ m.res \in Result
  BY DEF IInv, TypeOK, Ack
<1>2. status \in [Row -> Status]
  BY DEF IInv, TypeOK, StoreTypeOK
<1>3. CASE UNCHANGED storeVars
  BY <1>3 DEF storeVars
<1>4. CASE Acknowledge(m.dev, m.row, m.res)
  <2>1. CASE Acknowledges(m.dev, m.row)
    <3>1. status[m.row] \in Pending /\ ~Due(m.row)
      BY <1>1, <1>2, <2>1 DEF Acknowledges, expireDueCommand, Pending
    <3>2. expireDueCommand(m.dev, m.row) = status
      BY <3>1 DEF expireDueCommand
    <3>3. status' = [status EXCEPT ![m.row] = m.res]
      BY <1>4, <2>1, <3>2 DEF Acknowledge
    <3> QED
      BY <1>1, <1>2, <1>4, <3>1, <3>3 DEF Acknowledge
  <2>2. CASE ~Acknowledges(m.dev, m.row)
    BY <1>4, <2>2 DEF Acknowledge
  <2> QED
    BY <2>1, <2>2
<1> QED
  BY <1>3, <1>4 DEF ServerHandles

(* The launcher's part when an acknowledgement is answered, lost or given  *)
(* up: nothing, or the worker that awaited it goes on or gives up.         *)
AwaitEnds(d) ==
  /\ pc[d] = "await"
  /\ (AckReturns(d) /\ UNCHANGED inbox) \/ GetsNoAnswer(d)

(* Whatever becomes of an acknowledgement, the invariant stays.            *)
LEMMA AckStep ==
  ASSUME IInv, TypeOK', acks' \subseteq acks,
         NEW d \in Device, AwaitEnds(d) \/ UNCHANGED <<launcherVars, inbox>>,
         \/ UNCHANGED storeVars
         \/ \E m \in acks : ServerHandles(m)
  PROVE  IInv'
<1> USE DEF launcherVars, workerVars, journalVars, historyVars
<1>0. TypeOK /\ Owned /\ Real /\ Fresh /\ Known /\ ResultsComeFromRuns
      /\ RunsAreAccounted
  BY DEF IInv
<1>1. /\ UNCHANGED <<enqueue, toPublish, toMark>>
      /\ \A c \in Row : \/ status'[c] = status[c]
                        \/ /\ status[c] \in Pending
                           /\ status'[c] \in Result
                           /\ status'[c] \in outcomes[c]
  <2>1. CASE UNCHANGED storeVars
    BY <2>1 DEF storeVars
  <2>2. ASSUME NEW m \in acks, ServerHandles(m)
        PROVE  /\ UNCHANGED <<enqueue, toPublish, toMark>>
               /\ \A c \in Row : \/ status'[c] = status[c]
                                 \/ /\ status[c] \in Pending
                                    /\ status'[c] \in Result
                                    /\ status'[c] \in outcomes[c]
    <3>1. m.res \in Result /\ m.res \in outcomes[m.row]
      BY <1>0 DEF TypeOK, Ack, Real
    <3> QED
      BY <2>2, <3>1, AckEffect
  <2> QED
    BY <2>1, <2>2
<1>2. /\ UNCHANGED <<journalVars, historyVars, result>>
      /\ \A x \in Device :
           /\ batch'[x] \subseteq batch[x]
           /\ inbox'[x] \subseteq inbox[x]
           /\ \/ pc'[x] = pc[x] /\ cur'[x] = cur[x]
              \/ pc[x] = "await" /\ pc'[x] = "after" /\ cur'[x] = cur[x]
              \/ pc[x] = "await" /\ pc'[x] = "idle"
  <2>0. /\ batch \in [Device -> SUBSET Row] /\ inbox \in [Device -> SUBSET Row]
        /\ cur \in [Device -> Row \cup {NoRow}]
        /\ pc \in [Device -> {"idle", "execute", "record", "ack", "await",
                              "after"}]
    BY <1>0 DEF TypeOK, LauncherTypeOK
  <2>1. CASE pc[d] = "await" /\ AckReturns(d) /\ UNCHANGED inbox
    BY <2>0, <2>1 DEF AckReturns
  <2>2. CASE pc[d] = "await" /\ GetsNoAnswer(d)
    BY <2>0, <2>2 DEF GetsNoAnswer, Throws, TimesOut, AckThrows, AckSwallowed, CloseStream
  <2>3. CASE UNCHANGED <<launcherVars, inbox>>
    BY <2>0, <2>3
  <2> QED
    BY <2>1, <2>2, <2>3 DEF AwaitEnds
<1>3. Owned'
  BY <1>0, <1>2 DEF Owned
<1>4. Real'
  BY <1>0, <1>2 DEF Real
<1>5. Fresh'
  BY <1>0, <1>2 DEF Fresh
<1>6. Known'
  <2>0. \A c \in Row : status[c] # "none" => status'[c] # "none"
    BY <1>1 DEF Result
  <2>1. \A c \in toPublish' \cup toMark' : status'[c] # "none"
    BY <1>0, <1>1, <2>0 DEF Known, TypeOK, StoreTypeOK
  <2>2. ASSUME NEW x \in Device
        PROVE  /\ \A c \in batch'[x] \cup inbox'[x] : status'[c] # "none"
               /\ pc'[x] # "idle" => status'[cur'[x]] # "none"
    <3>1. batch[x] \cup inbox[x] \subseteq Row
      BY <1>0 DEF TypeOK, LauncherTypeOK
    <3>2. pc[x] # "idle" => cur[x] \in Row
      BY <1>0 DEF Owned
    <3> QED
      BY <1>0, <1>2, <2>0, <3>1, <3>2 DEF Known
  <2>3. ASSUME NEW r \in Request, NEW x \in Device, enqueue'[r] # "done"
        PROVE  status'[<<r, x>>] = "none"
    <3>1. status[<<r, x>>] = "none" /\ <<r, x>> \in Row
      BY <1>0, <1>1, <2>3 DEF Known, Row
    <3> QED
      BY <1>1, <3>1 DEF Pending
  <2> QED
    BY <2>1, <2>2, <2>3 DEF Known
<1>7. ResultsComeFromRuns'
  BY <1>0, <1>1, <1>2 DEF ResultsComeFromRuns
<1>8. RunsAreAccounted'
  <2>1. ASSUME NEW c \in Row
        PROVE  (pc'[Dev(c)] = "record" /\ cur'[Dev(c)] = c)
                 <=> (pc[Dev(c)] = "record" /\ cur[Dev(c)] = c)
    BY <1>2 DEF Row, Dev
  <2> QED
    BY <1>0, <1>2, <2>1 DEF RunsAreAccounted, Journaled
<1> QED
  BY <1>3, <1>4, <1>5, <1>6, <1>7, <1>8 DEF IInv

(* The broker hands a message on, to a connected launcher only.            *)
LEMMA DeliverStep ==
  ASSUME IInv, TypeOK', NEW c \in toPublish, NEW confirmed \in BOOLEAN,
         publishEnqueued(c, confirmed), Deliver(c),
         UNCHANGED <<launcherVars, acks>>
  PROVE  IInv'
<1> USE DEF launcherVars, workerVars, journalVars, historyVars
<1>0. TypeOK /\ Owned /\ Real /\ Fresh /\ Known /\ ResultsComeFromRuns
      /\ RunsAreAccounted
  BY DEF IInv
<1>1. UNCHANGED <<status, enqueue>>
  BY DEF publishEnqueued
<1>2. toPublish' \cup toMark' \subseteq toPublish \cup toMark
  BY DEF publishEnqueued
<1>3. c \in Row /\ Dev(c) \in Device /\ status[c] # "none"
  BY <1>0 DEF TypeOK, StoreTypeOK, Known, Row, Dev
<1>4. \A x \in Device : \A y \in inbox'[x] :
        y \in inbox[x] \/ (y = c /\ x = Dev(c))
  BY <1>0, <1>3 DEF TypeOK, Deliver
<1>5. Owned'
  BY <1>0, <1>4 DEF Owned
<1>6. Known'
  BY <1>0, <1>1, <1>2, <1>3, <1>4 DEF Known
<1>7. Real' /\ Fresh' /\ ResultsComeFromRuns' /\ RunsAreAccounted'
  BY <1>0, <1>1
     DEF Real, Fresh, ResultsComeFromRuns, RunsAreAccounted, Journaled
<1> QED
  BY <1>5, <1>6, <1>7 DEF IInv

(* The server keeps the invariant. *)
LEMMA ServerInv == IInv /\ ServerNext => IInv'
<1> SUFFICES ASSUME IInv, ServerNext PROVE IInv'
  OBVIOUS
<1>0. TypeOK'
  BY ServerTypes DEF IInv
<1>1. ASSUME NEW c \in toPublish, PublishConfirmed(c) PROVE IInv'
  BY <1>0, <1>1, DeliverStep DEF PublishConfirmed
<1>2. ASSUME NEW c \in toPublish, PublishUnconfirmed(c) PROVE IInv'
  BY <1>0, <1>2, DeliverStep DEF PublishUnconfirmed
<1>3. ASSUME NEW m \in acks,
             ServerAnswers(m) \/ RequestLost(m) \/ AnswerLost(m)
      PROVE  IInv'
  <2>1. m.dev \in Device
    BY DEF IInv, TypeOK, Ack
  <2>2. acks' \subseteq acks
    BY <1>3 DEF ServerAnswers, RequestLost, AnswerLost
  <2>3. AwaitEnds(m.dev) \/ UNCHANGED <<launcherVars, inbox>>
    BY <1>3 DEF ServerAnswers, RequestLost, AnswerLost, Awaited, AwaitEnds, GetsNoAnswer
  <2>4. UNCHANGED storeVars \/ ServerHandles(m)
    BY <1>3 DEF ServerAnswers, RequestLost, AnswerLost
  <2> QED
    BY <1>0, <2>1, <2>2, <2>3, <2>4, AckStep
<1> QED
  BY <1>0, <1>1, <1>2, <1>3, StoreInv, Zenon DEF ServerNext

(* A worker step that runs nothing and writes nothing: it fetches commands *)
(* of its own device, or looks one up.                                     *)
QuietStep(d) ==
  /\ UNCHANGED <<storeVars, journalVars, historyVars, acks>>
  /\ \A x \in Device \ {d} :
       /\ batch'[x] = batch[x] /\ inbox'[x] = inbox[x]
       /\ cur'[x] = cur[x] /\ pc'[x] = pc[x] /\ result'[x] = result[x]
  /\ \A c \in batch'[d] \cup inbox'[d] : Dev(c) = d /\ status[c] # "none"
  /\ \/ cur'[d] = cur[d] /\ pc'[d] = pc[d] /\ result'[d] = result[d]
     \/ /\ pc[d] = "idle"
        /\ cur'[d] \in Row /\ Dev(cur'[d]) = d /\ status[cur'[d]] # "none"
        /\ \/ pc'[d] = "ack" /\ result'[d] \in outcomes[cur'[d]]
           \/ pc'[d] = "execute" /\ position[cur'[d]] = 0

LEMMA QuietInv ==
  ASSUME IInv, TypeOK', NEW d \in Device, QuietStep(d)
  PROVE  IInv'
<1> USE DEF storeVars, journalVars, historyVars
<1>0. TypeOK /\ Owned /\ Real /\ Fresh /\ Known /\ ResultsComeFromRuns
      /\ RunsAreAccounted
  BY DEF IInv
<1>1. Owned'
  BY <1>0 DEF Owned, QuietStep
<1>2. Real'
  BY <1>0 DEF Real, QuietStep
<1>3. Fresh'
  BY <1>0 DEF Fresh, QuietStep
<1>4. Known'
  BY <1>0 DEF Known, QuietStep
<1>5. ResultsComeFromRuns'
  BY <1>0 DEF ResultsComeFromRuns, QuietStep
<1>6. RunsAreAccounted'
  <2>1. ASSUME NEW c \in Row
        PROVE  (pc'[Dev(c)] = "record" /\ cur'[Dev(c)] = c)
                 <=> (pc[Dev(c)] = "record" /\ cur[Dev(c)] = c)
    BY DEF Row, Dev, QuietStep
  <2> QED
    BY <1>0, <2>1 DEF RunsAreAccounted, Journaled, QuietStep
<1> QED
  BY <1>1, <1>2, <1>3, <1>4, <1>5, <1>6 DEF IInv

(* The steps of the transport job are quiet.  A poll answer holds rows of  *)
(* the device that asked, and Lookup executes only what has no entry.      *)
LEMMA TransportInv ==
  ASSUME IInv, TypeOK', NEW d \in Device,
         \/ Connect(d) \/ Disconnect(d) \/ StreamReceives(d) \/ Poll(d)
         \/ PollFails(d) \/ PollReceives(d) \/ PollEnds(d)
  PROVE  IInv'
<1> USE DEF launcherVars, workerVars, netVars
<1>0. TypeOK /\ Owned /\ Real /\ Known
  BY DEF IInv
<1>1. /\ batch \in [Device -> SUBSET Row] /\ inbox \in [Device -> SUBSET Row]
      /\ cur \in [Device -> Row \cup {NoRow}]
      /\ pc \in [Device -> {"idle", "execute", "record", "ack", "await",
                            "after"}]
      /\ result \in [Device -> Result]
      /\ position \in [Row -> 0..MaxEntries]
  BY <1>0 DEF TypeOK, LauncherTypeOK
<1>2. \A c \in batch[d] \cup inbox[d] : /\ c \in Row /\ Dev(c) = d
                                       /\ status[c] # "none"
  BY <1>0, <1>1 DEF Owned, Known
<1>3. CASE Connect(d)
  <2>1. QuietStep(d)
    BY <1>1, <1>2, <1>3 DEF Connect, SetMode, QuietStep
  <2> QED
    BY <2>1, QuietInv
<1>4. CASE Disconnect(d)
  <2>1. QuietStep(d)
    BY <1>1, <1>2, <1>4 DEF Disconnect, SetMode, CloseStream, QuietStep
  <2> QED
    BY <2>1, QuietInv
<1>5. ASSUME NEW c \in batch[d] \cup inbox[d], pc[d] = "idle", Lookup(d, c),
             \A x \in Device : /\ inbox'[x] \subseteq inbox[x]
                               /\ batch'[x] \subseteq batch[x],
             \A x \in Device \ {d} : /\ inbox'[x] = inbox[x]
                                     /\ batch'[x] = batch[x],
             UNCHANGED <<storeVars, acks>>
      PROVE  QuietStep(d)
  <2>1. cur'[d] = c /\ c \in Row /\ Dev(c) = d /\ status[c] # "none"
    BY <1>1, <1>2, <1>5 DEF Lookup
  <2>2. \/ pc'[d] = "ack" /\ result'[d] \in outcomes[c]
        \/ pc'[d] = "execute" /\ position[c] = 0
    <3>1. CASE Journaled(c)
      BY <1>0, <1>1, <1>5, <2>1, <3>1 DEF Lookup, Journaled, Real
    <3>2. CASE ~Journaled(c)
      BY <1>1, <1>5, <2>1, <3>2 DEF Lookup, Journaled
    <3> QED
      BY <3>1, <3>2
  <2>3. \A x \in Device \ {d} :
          cur'[x] = cur[x] /\ pc'[x] = pc[x] /\ result'[x] = result[x]
    BY <1>1, <1>5 DEF Lookup
  <2> QED
    BY <1>2, <1>5, <2>1, <2>2, <2>3 DEF QuietStep, Lookup
<1>6. CASE StreamReceives(d)
  <2>1. PICK c \in inbox[d] :
          inbox' = [inbox EXCEPT ![d] = @ \ {c}] /\ Lookup(d, c)
    BY <1>6 DEF StreamReceives
  <2>2. QuietStep(d)
    BY <1>1, <1>5, <1>6, <2>1 DEF StreamReceives
  <2> QED
    BY <2>2, QuietInv
<1>7. CASE PollReceives(d)
  <2>1. PICK c \in batch[d] :
          batch' = [batch EXCEPT ![d] = @ \ {c}] /\ Lookup(d, c)
    BY <1>7 DEF PollReceives
  <2>2. QuietStep(d)
    BY <1>1, <1>5, <1>7, <2>1 DEF PollReceives
  <2> QED
    BY <2>2, QuietInv
<1>8. CASE Poll(d)
  <2>1. \A c \in ListPendingForDevice(d) : Dev(c) = d /\ status[c] # "none"
    BY DEF ListPendingForDevice, Pending
  <2>2. QuietStep(d)
    BY <1>1, <1>2, <1>8, <2>1 DEF Poll, PollReturns, QuietStep
  <2> QED
    BY <2>2, QuietInv
<1>9. CASE PollFails(d)
  <2>1. QuietStep(d)
    BY <1>1, <1>2, <1>9 DEF PollFails, SetMode, QuietStep
  <2> QED
    BY <2>1, QuietInv
<1>10. CASE PollEnds(d)
  <2>1. QuietStep(d)
    BY <1>1, <1>2, <1>10 DEF PollEnds, SetMode, QuietStep
  <2> QED
    BY <2>1, QuietInv
<1> QED
  BY <1>3, <1>4, <1>6, <1>7, <1>8, <1>9, <1>10

(* Recording c, which has no entry yet: c gets one, and every other        *)
(* command keeps its own unless it is pushed out.                          *)
LEMMA RecordEffect ==
  ASSUME LauncherTypeOK, NEW c \in Row, position[c] = 0, NEW x \in Row
  PROVE  /\ x = c => PositionAfter(c, x) = 1 /\ x \notin Evicted(c)
         /\ x # c => /\ x \in Evicted(c) => /\ position[x] > 0
                                          /\ PositionAfter(c, x) = 0
                     /\ x \notin Evicted(c) =>
                          (PositionAfter(c, x) > 0 <=> position[x] > 0)
         /\ Dev(x) # Dev(c) => PositionAfter(c, x) = position[x]
<1> USE MaxEntriesAssumption DEF LauncherTypeOK
<1>1. position[c] \in 0..MaxEntries /\ position[x] \in 0..MaxEntries
  OBVIOUS
<1>2. PositionAfter(c, x) \in 0..MaxEntries
  BY PositionType
<1>3. CASE x = c
  BY <1>1, <1>3 DEF PositionAfter, Evicted, Journaled
<1>4. CASE x # c /\ (Dev(x) # Dev(c) \/ position[x] = 0)
  BY <1>1, <1>4 DEF PositionAfter, Evicted, Journaled
<1>5. CASE x # c /\ Dev(x) = Dev(c) /\ position[x] # 0
  BY <1>1, <1>2, <1>5 DEF Evicted, Journaled
<1> QED
  BY <1>3, <1>4, <1>5

(* A worker step that runs nothing and gives up the run in hand, if there  *)
(* is one.                                                                 *)
GiveUp(d) ==
  /\ UNCHANGED <<storeVars, result, journalVars, executions, outcomes>>
  /\ \A x \in Device : /\ batch'[x] \subseteq batch[x]
                       /\ inbox'[x] \subseteq inbox[x]
                       /\ cur'[x] = cur[x] \/ pc'[x] = "idle"
                       /\ x # d => pc'[x] = pc[x]
  /\ \/ pc'[d] = "idle"
     \/ pc[d] = "record" /\ pc'[d] = "ack"
     \/ pc[d] = "ack" /\ pc'[d] = "await"
  /\ \A m \in acks' : m \in acks \/ (m = AckMessage(d) /\ pc[d] = "ack")
  /\ \A c \in Row : lost'[c] = IF pc[d] = "record" /\ cur[d] = c
                               THEN lost[c] + 1 ELSE lost[c]

LEMMA GiveUpInv ==
  ASSUME IInv, TypeOK', NEW d \in Device, GiveUp(d)
  PROVE  IInv'
<1> USE DEF storeVars, journalVars
<1>0. TypeOK /\ Owned /\ Real /\ Fresh /\ Known /\ ResultsComeFromRuns
      /\ RunsAreAccounted
  BY DEF IInv
<1>1. Owned' /\ Known' /\ Fresh'
  BY <1>0 DEF Owned, Known, Fresh, GiveUp
<1>2. Real'
  BY <1>0 DEF Real, AckMessage, GiveUp
<1>3. ResultsComeFromRuns'
  BY <1>0 DEF ResultsComeFromRuns, GiveUp
<1>4. RunsAreAccounted'
  <2>1. \A c \in Row : Dev(c) \in Device
    BY DEF Row, Dev
  <2>2. pc[d] # "idle" => Dev(cur[d]) = d
    BY <1>0 DEF Owned
  <2>3. ASSUME NEW c \in Row
        PROVE  (pc'[Dev(c)] = "record" /\ cur'[Dev(c)] = c)
                 <=> /\ pc[Dev(c)] = "record" /\ cur[Dev(c)] = c
                     /\ ~(pc[d] = "record" /\ cur[d] = c)
    BY <2>1, <2>2 DEF GiveUp
  <2>4. ASSUME NEW c \in Row, pc[d] = "record", cur[d] = c
        PROVE  pc[Dev(c)] = "record" /\ cur[Dev(c)] = c
    BY <2>2, <2>4
  <2>5. \A c \in Row : lost[c] \in Nat /\ executions[c] \in Nat
    BY <1>0 DEF TypeOK, LauncherTypeOK
  <2>6. UNCHANGED <<executions, position>>
    BY DEF GiveUp
  <2>7. \A c \in Row : lost'[c] = IF pc[d] = "record" /\ cur[d] = c
                                  THEN lost[c] + 1 ELSE lost[c]
    BY DEF GiveUp
  <2> QED
    BY <1>0, <2>3, <2>4, <2>5, <2>6, <2>7 DEF RunsAreAccounted, Journaled
<1> QED
  BY <1>1, <1>2, <1>3, <1>4 DEF IInv

(* The worker's own steps: run, record or fail to, acknowledge, apply the  *)
(* side effect, restart.                                                   *)
LEMMA WorkerInv ==
  ASSUME IInv, TypeOK', NEW d \in Device,
         \/ \E res \in Result : Executes(d, res)
         \/ Remembers(d) \/ RememberingFails(d)
         \/ SendsAck(d) \/ FinishesCommand(d) \/ WorkerRestarts(d)
  PROVE  IInv'
<1> USE DEF storeVars, journalVars, historyVars, netVars
<1>0. TypeOK /\ Owned /\ Real /\ Fresh /\ Known /\ ResultsComeFromRuns
      /\ RunsAreAccounted
  BY DEF IInv
<1>1. LauncherTypeOK /\ inbox \in [Device -> SUBSET Row]
  BY <1>0 DEF TypeOK
<1>2. pc[d] # "idle" => cur[d] \in Row /\ Dev(cur[d]) = d
  BY <1>0 DEF Owned
<1>3. \A c \in Row : Dev(c) \in Device
  BY DEF Row, Dev
<1>4. ASSUME NEW res \in Result, Executes(d, res) PROVE IInv'
  <2> USE <1>4 DEF Executes, Execute, LauncherTypeOK
  <2>1. /\ UNCHANGED <<status, batch, inbox, cur, acks, position, stored, lost>>
        /\ \A x \in Device : x # d => pc'[x] = pc[x] /\ result'[x] = result[x]
        /\ pc[d] = "execute" /\ pc'[d] = "record" /\ result'[d] = res
    BY <1>1
  <2>2. \A c \in Row : outcomes[c] \subseteq outcomes'[c]
    BY <1>1
  <2>3. res \in outcomes'[cur[d]]
    BY <1>1, <1>2
  <2>4. Owned' /\ Known' /\ Fresh'
    BY <1>0, <2>1 DEF Owned, Known, Fresh
  <2>5. Real'
    <3>1. \A m \in acks : m.row \in Row
      BY <1>0 DEF TypeOK, Ack
    <3>2. \A x \in Device : pc[x] # "idle" => cur[x] \in Row
      BY <1>0 DEF Owned
    <3> QED
      BY <1>0, <2>1, <2>2, <2>3, <3>1, <3>2 DEF Real
  <2>6. ResultsComeFromRuns'
    BY <1>0, <2>1, <2>2 DEF ResultsComeFromRuns
  <2>7. RunsAreAccounted'
    <3>1. ASSUME NEW c \in Row, c # cur[d]
          PROVE  /\ executions'[c] = executions[c]
                 /\ (pc'[Dev(c)] = "record" /\ cur'[Dev(c)] = c)
                      <=> (pc[Dev(c)] = "record" /\ cur[Dev(c)] = c)
      BY <1>1, <1>2, <1>3, <2>1, <3>1
    <3>2. executions'[cur[d]] = executions[cur[d]] + 1
      BY <1>1, <1>2
    <3> QED
      BY <1>0, <1>1, <1>2, <2>1, <3>1, <3>2 DEF RunsAreAccounted, Journaled
  <2> QED
    BY <2>4, <2>5, <2>6, <2>7 DEF IInv
<1>5. CASE Remembers(d)
  <2> USE <1>5 DEF Remembers, Remember
  <2> DEFINE c == cur[d]
  <2>1. c \in Row /\ Dev(c) = d /\ position[c] = 0 /\ pc[d] = "record"
    BY <1>0, <1>2 DEF Fresh
  <2>2. /\ UNCHANGED <<status, batch, inbox, cur, result, acks, executions,
                       outcomes>>
        /\ \A x \in Device : x # d => pc'[x] = pc[x]
        /\ pc'[d] = "ack"
    BY <1>1 DEF LauncherTypeOK
  <2>3. \A x \in Row : position'[x] = PositionAfter(c, x)
    BY DEF record
  <2>4. \A x \in Row : stored'[x] = IF x = c THEN result[d] ELSE stored[x]
    BY <1>1, <2>1 DEF record, LauncherTypeOK
  <2>5. \A x \in Row : position'[x] > 0 => x = c \/ position[x] > 0
    BY <1>1, <2>1, <2>3, RecordEffect
  <2> HIDE DEF c
  <2>6. Owned' /\ Known'
    BY <1>0, <2>1, <2>2 DEF Owned, Known
  <2>7. Real'
    <3>1. result[d] \in outcomes[c]
      BY <1>0, <2>1 DEF Real, c
    <3> QED
      BY <1>0, <2>1, <2>2, <2>4, <2>5, <3>1 DEF Real
  <2>8. Fresh'
    <3> SUFFICES ASSUME NEW x \in Device, pc'[x] \in {"execute", "record"}
                 PROVE  position'[cur'[x]] = 0
      BY DEF Fresh
    <3>1. x # d /\ pc[x] \in {"execute", "record"}
      BY <2>2
    <3>2. cur[x] \in Row /\ Dev(cur[x]) = x /\ position[cur[x]] = 0
      BY <1>0, <3>1 DEF Owned, Fresh
    <3> QED
      BY <1>1, <2>1, <2>2, <2>3, <3>1, <3>2, RecordEffect
  <2>9. ResultsComeFromRuns'
    BY <1>0, <2>2 DEF ResultsComeFromRuns
  <2>10. RunsAreAccounted'
    <3>1. \A x \in Row : lost'[x] = IF x \in Evicted(c) THEN lost[x] + 1
                                                        ELSE lost[x]
      BY <1>1 DEF LauncherTypeOK, c
    <3>2. ASSUME NEW x \in Row, x # c
          PROVE  (pc'[Dev(x)] = "record" /\ cur'[Dev(x)] = x)
                   <=> (pc[Dev(x)] = "record" /\ cur[Dev(x)] = x)
      BY <1>3, <2>1, <2>2, <3>2 DEF c
    <3>3. \A x \in Row : lost[x] \in Nat /\ executions[x] \in Nat
      BY <1>1 DEF LauncherTypeOK
    <3> SUFFICES ASSUME NEW x \in Row
                 PROVE  executions'[x]
                          = lost'[x]
                            + (IF position'[x] > 0 THEN 1 ELSE 0)
                            + (IF pc'[Dev(x)] = "record" /\ cur'[Dev(x)] = x
                               THEN 1 ELSE 0)
      BY DEF RunsAreAccounted, Journaled
    <3>4. executions[x] = lost[x]
                          + (IF position[x] > 0 THEN 1 ELSE 0)
                          + (IF pc[Dev(x)] = "record" /\ cur[Dev(x)] = x
                             THEN 1 ELSE 0)
      BY <1>0 DEF RunsAreAccounted, Journaled
    <3>5. CASE x = c
      <4>1. lost'[x] = lost[x] /\ position'[x] = 1
        BY <1>1, <2>1, <2>3, <3>1, <3>5, RecordEffect
      <4>2. /\ pc[Dev(x)] = "record" /\ cur[Dev(x)] = x
            /\ pc'[Dev(x)] # "record"
        BY <2>1, <2>2, <3>5 DEF c
      <4> QED
        BY <2>1, <2>2, <3>3, <3>4, <3>5, <4>1, <4>2
    <3>6. CASE x # c
      <4>1. CASE x \in Evicted(c)
        BY <1>1, <2>1, <2>2, <2>3, <3>1, <3>2, <3>3, <3>4, <3>6, <4>1,
           RecordEffect
      <4>2. CASE x \notin Evicted(c)
        BY <1>1, <2>1, <2>2, <2>3, <3>1, <3>2, <3>3, <3>4, <3>6, <4>2,
           RecordEffect
      <4> QED
        BY <4>1, <4>2
    <3> QED
      BY <3>5, <3>6
  <2> QED
    BY <2>6, <2>7, <2>8, <2>9, <2>10 DEF IInv
<1>6. CASE RememberingFails(d)
  <2>1. GiveUp(d)
    BY <1>1, <1>2, <1>6 DEF RememberingFails, RememberFails, LauncherTypeOK, GiveUp
  <2> QED
    BY <2>1, GiveUpInv
<1>7. CASE SendsAck(d)
  <2>1. GiveUp(d)
    BY <1>1, <1>2, <1>7 DEF SendsAck, SendAck, LauncherTypeOK, GiveUp
  <2> QED
    BY <2>1, GiveUpInv
<1>8. CASE FinishesCommand(d)
  <2>1. GiveUp(d)
    BY <1>1, <1>2, <1>8 DEF FinishesCommand, AfterAck, LauncherTypeOK, GiveUp
  <2> QED
    BY <2>1, GiveUpInv
<1>9. CASE WorkerRestarts(d)
  <2>1. GiveUp(d)
    BY <1>1, <1>2, <1>9 DEF WorkerRestarts, WorkerStops, CloseStream, LauncherTypeOK, GiveUp
  <2> QED
    BY <2>1, GiveUpInv
<1> QED
  BY <1>4, <1>5, <1>6, <1>7, <1>8, <1>9

(* The launchers keep the invariant. *)
LEMMA LauncherInv ==
  ASSUME IInv, NEW d \in Device, LauncherNext(d)
  PROVE  IInv'
<1>1. TypeOK'
  BY LauncherTypes DEF IInv
<1>2. CASE AckTimesOut(d)
  <2>1. AwaitEnds(d) /\ UNCHANGED <<storeVars, acks>>
    BY <1>2 DEF AckTimesOut, AwaitEnds, GetsNoAnswer
  <2> QED
    BY <1>1, <2>1, AckStep
<1> QED
  BY <1>1, <1>2, TransportInv, WorkerInv DEF LauncherNext

(* It holds at the start. *)
LEMMA InitInv == Init => IInv
<1> SUFFICES ASSUME Init PROVE IInv
  OBVIOUS
<1> USE DEF Init, StoreInit, LauncherInit
<1>1. TypeOK
  BY MaxEntriesAssumption, MaxFaultsAssumption
     DEF TypeOK, StoreTypeOK, LauncherTypeOK, Status, Result
<1>2. Owned /\ Real /\ Fresh /\ Known
  BY DEF Owned, Real, Fresh, Known, Row
<1>3. ResultsComeFromRuns /\ RunsAreAccounted
  BY DEF ResultsComeFromRuns, RunsAreAccounted, Journaled, Result, Row, Dev
<1> QED
  BY <1>1, <1>2, <1>3 DEF IInv

(* A stuttering step keeps it. *)
LEMMA StutterInv == IInv /\ UNCHANGED vars => IInv'
  BY DEF IInv, TypeOK, StoreTypeOK, LauncherTypeOK, Owned, Real, Fresh, Known,
         ResultsComeFromRuns, RunsAreAccounted, Journaled, vars, storeVars,
         launcherVars, workerVars, journalVars, historyVars, netVars, Ack

LEMMA NextInv == IInv /\ [Next]_vars => IInv'
  BY ServerInv, LauncherInv, StutterInv DEF Next

-----------------------------------------------------------------------------
(***************************************************************************)
(* Results                                                                 *)
(***************************************************************************)

(* The inductive invariant holds in every reachable state. *)
THEOREM Invariance == Spec => []IInv
  BY InitInv, NextInv, PTL DEF Spec

(* Every variable stays within its type: in particular the journal never   *)
(* holds more than MaxEntries results.                                     *)
THEOREM TypeCorrect == Spec => []TypeOK
<1>1. IInv => TypeOK
  BY DEF IInv
<1> QED
  BY <1>1, Invariance, PTL

(* Acknowledge stores only results a run on the owning device had.         *)
THEOREM ResultsAreReal == Spec => []ResultsComeFromRuns
<1>1. IInv => ResultsComeFromRuns
  BY DEF IInv
<1> QED
  BY <1>1, Invariance, PTL

(* handleIncomingCommand runs an action again only after the result of its *)
(* last run was lost.                                                      *)
THEOREM RunsAccounted == Spec => []RunsAreAccounted
<1>1. IInv => RunsAreAccounted
  BY DEF IInv
<1> QED
  BY <1>1, Invariance, PTL

-----------------------------------------------------------------------------
(***************************************************************************)
(* Command delivery implements CommandLifecycle                            *)
(***************************************************************************)

(* Every step of the server is a step of the lifecycle or invisible to it. *)
LEMMA ServerRefines ==
  ASSUME IInv, TypeOK', ServerNext
  PROVE  Lifecycle!Next \/ UNCHANGED Lifecycle!vars
<1> USE DEF Lifecycle!Next, Lifecycle!vars, launcherVars, historyVars, storeVars
<1>0. StoreTypeOK /\ Known /\ Real /\ StoreTypeOK'
  BY DEF IInv, TypeOK
<1>1. status \in [Row -> Status] /\ status' \in [Row -> Status]
  BY <1>0 DEF StoreTypeOK
<1>2. ASSUME NEW r \in Request, NEW e \in {"never", "ahead"},
             AdminEnqueues(r, e)
      PROVE  Lifecycle!Queue
  <2> DEFINE S == {r} \X targets[r]
  <2>1. S \subseteq {c \in Row : status[c] = "none"}
    BY <1>0, <1>2 DEF AdminEnqueues, Enqueue, StoreTypeOK, Known, Row
  <2>2. status' = [c \in Row |-> IF c \in S THEN "queued" ELSE status[c]]
    BY <1>2 DEF AdminEnqueues, Enqueue
  <2>3. UNCHANGED outcomes
    BY <1>2 DEF AdminEnqueues
  <2> QED
    BY <2>1, <2>2, <2>3 DEF Lifecycle!Queue
<1>3. ASSUME NEW c \in toMark, MarksSent(c)
      PROVE  Lifecycle!Send(c) \/ UNCHANGED Lifecycle!vars
  BY <1>3 DEF MarksSent, markSent, Lifecycle!Send
<1>4. ASSUME NEW rows \in SUBSET Row, status' = Expired(rows),
             UNCHANGED outcomes
      PROVE  Lifecycle!Expire
  <2> DEFINE S == {c \in rows : status[c] \in Pending /\ Due(c)}
  <2>1. S \subseteq {c \in Row : status[c] \in Lifecycle!Open}
    BY DEF Lifecycle!Open, Pending
  <2>2. status' = [c \in Row |-> IF c \in S THEN "expired" ELSE status[c]]
    BY <1>4 DEF Expired
  <2> QED
    BY <1>4, <2>1, <2>2 DEF Lifecycle!Expire
<1>5. ASSUME NEW m \in acks, ServerHandles(m) \/ UNCHANGED storeVars,
             UNCHANGED outcomes
      PROVE  Lifecycle!Finish(m.row, m.res) \/ UNCHANGED Lifecycle!vars
  <2>1. m.row \in Row /\ m.res \in outcomes[m.row]
    BY <1>0 DEF IInv, TypeOK, Ack, Real
  <2>2. \A c \in Row : \/ status'[c] = status[c]
                       \/ /\ status[c] \in Pending
                          /\ c = m.row /\ status'[c] = m.res
    BY <1>5, AckEffect
  <2>3. CASE status'[m.row] = status[m.row]
    <3>1. status' = status
      BY <1>1, <2>2, <2>3
    <3> QED
      BY <1>5, <3>1
  <2>4. CASE status'[m.row] # status[m.row]
    <3>1. status' = [status EXCEPT ![m.row] = m.res]
      BY <1>1, <2>1, <2>2, <2>4
    <3>2. status[m.row] \in Lifecycle!Open
      BY <2>1, <2>2, <2>4 DEF Lifecycle!Open, Pending
    <3> QED
      BY <1>5, <2>1, <3>1, <3>2 DEF Lifecycle!Finish
  <2> QED
    BY <2>3, <2>4
<1>6. ASSUME NEW m \in acks,
             ServerAnswers(m) \/ RequestLost(m) \/ AnswerLost(m)
      PROVE  Lifecycle!Next \/ UNCHANGED Lifecycle!vars
  <2>1. UNCHANGED outcomes
    BY <1>6 DEF ServerAnswers, RequestLost, AnswerLost, GetsNoAnswer, Throws, TimesOut,
                AckThrows, AckSwallowed, AckReturns
  <2>2. ServerHandles(m) \/ UNCHANGED storeVars
    BY <1>6 DEF ServerAnswers, RequestLost, AnswerLost
  <2>3. m.row \in Row /\ m.res \in Lifecycle!Res
    BY DEF IInv, TypeOK, Ack, Result, Lifecycle!Res
  <2> QED
    BY <1>5, <2>1, <2>2, <2>3
<1>7. CASE CleanupPass
  BY <1>4, <1>7 DEF CleanupPass, ExpireDueCommands
<1>8. ASSUME NEW d \in Device, DashboardListsPending(d)
      PROVE  Lifecycle!Expire
  BY <1>4, <1>8 DEF DashboardListsPending, ListPending
<1>9. ASSUME NEW c \in toPublish,
             \/ PublishConfirmed(c) \/ PublishUnconfirmed(c)
             \/ PublishFails(c)
      PROVE  UNCHANGED Lifecycle!vars
  BY <1>9 DEF PublishConfirmed, PublishUnconfirmed, PublishFails,
              publishEnqueued
<1>10. ASSUME \/ \E r \in Request, t \in Target : AdminResolves(r, t)
              \/ \E r \in Request : \/ AdminEnqueueFails(r)
                                    \/ ClockPassesDeadline(r)
              \/ \E c \in toMark : MarkingSentFails(c)
              \/ ServerRestarts
              \/ \E d \in Device : AdminRetires(d)
       PROVE  UNCHANGED Lifecycle!vars
  BY <1>10 DEF AdminResolves, ResolveTargets, AdminEnqueueFails, EnqueueFails,
               ClockPassesDeadline, Deadline, MarkingSentFails, MarkSentFails,
               ServerRestarts, ServerStops, AdminRetires, RetireDevice
<1>11. toMark \subseteq Row
  BY <1>0 DEF StoreTypeOK
<1> HIDE DEF Lifecycle!Next, Lifecycle!vars
<1>12. Lifecycle!Queue \/ Lifecycle!Expire => Lifecycle!Next
  BY DEF Lifecycle!Next
<1>13. \A c \in toMark : Lifecycle!Send(c) => Lifecycle!Next
  BY <1>11 DEF Lifecycle!Next
<1> QED
  BY <1>2, <1>3, <1>6, <1>7, <1>8, <1>9, <1>10, <1>12, <1>13, Zenon
     DEF ServerNext

(* Every step of a launcher is, to the lifecycle, a run or invisible.      *)
LEMMA LauncherRefines ==
  ASSUME IInv, NEW d \in Device, LauncherNext(d)
  PROVE  Lifecycle!Next \/ UNCHANGED Lifecycle!vars
<1> USE DEF Lifecycle!vars, storeVars, historyVars
<1>1. ASSUME NEW res \in Result, Executes(d, res) PROVE Lifecycle!Next
  <2>1. cur[d] \in Row /\ status[cur[d]] # "none"
    BY <1>1 DEF IInv, Owned, Known, Executes, Execute
  <2>2. Lifecycle!Run(cur[d], res)
    BY <1>1, <2>1 DEF Executes, Execute, Lifecycle!Run
  <2> QED
    BY <2>1, <2>2 DEF Lifecycle!Next, Lifecycle!Res, Result
<1>2. ASSUME \/ Connect(d) \/ Disconnect(d) \/ StreamReceives(d) \/ Poll(d)
             \/ PollFails(d) \/ PollReceives(d) \/ PollEnds(d)
      PROVE  UNCHANGED Lifecycle!vars
  BY <1>2 DEF Connect, Disconnect, StreamReceives, Poll, PollFails,
              PollReceives, PollEnds, SetMode, Lookup, PollReturns
<1>3. ASSUME \/ WorkerRestarts(d) \/ Remembers(d) \/ RememberingFails(d)
             \/ SendsAck(d) \/ AckTimesOut(d) \/ FinishesCommand(d)
      PROVE  UNCHANGED Lifecycle!vars
  BY <1>3 DEF WorkerRestarts, WorkerStops, Remembers, Remember,
              RememberingFails, RememberFails, SendsAck, SendAck, AckTimesOut,
              TimesOut, Throws, AckThrows, AckSwallowed, FinishesCommand, AfterAck
<1> QED
  BY <1>1, <1>2, <1>3 DEF LauncherNext

(* One step of command delivery is a step of the lifecycle or a stutter.   *)
LEMMA StepRefines == IInv /\ TypeOK' /\ [Next]_vars => [Lifecycle!Next]_(Lifecycle!vars)
<1> SUFFICES ASSUME IInv, TypeOK', [Next]_vars
             PROVE  Lifecycle!Next \/ UNCHANGED Lifecycle!vars
  OBVIOUS
<1>1. CASE UNCHANGED vars
  BY <1>1 DEF vars, storeVars, launcherVars, historyVars, Lifecycle!vars
<1> QED
  BY <1>1, ServerRefines, LauncherRefines DEF Next

(* The server, broker and launchers together implement the queue an        *)
(* operator sees: a command is queued once, is run only after that, and    *)
(* ends once, expired or with a result one of its runs had.                *)
THEOREM Refinement == Spec => LifecycleSpec
<1>1. Init => Lifecycle!Init
  BY DEF Init, StoreInit, LauncherInit, Lifecycle!Init
<1>2. IInv' => TypeOK'
  BY DEF IInv
<1> QED
  BY <1>1, <1>2, StepRefines, Invariance, PTL
     DEF Spec, LifecycleSpec, Lifecycle!Spec

(* A lifecycle step leaves terminal commands as they are.                  *)
LEMMA TerminalStep ==
  ASSUME IInv, [Lifecycle!Next]_(Lifecycle!vars),
         NEW c \in Row, status[c] \in Terminal
  PROVE  status'[c] = status[c]
<1>1. status \in [Row -> Status]
  BY DEF IInv, TypeOK, StoreTypeOK
<1> QED
  BY <1>1 DEF Lifecycle!Next, Lifecycle!vars, Lifecycle!Queue, Lifecycle!Expire,
              Lifecycle!Send, Lifecycle!Run, Lifecycle!Finish, Lifecycle!Open,
              Terminal, Result

(* A terminal row is never touched again: by no late markSent, no repeated *)
(* or delayed acknowledgement and no cleanup pass.                         *)
THEOREM TerminalFinal == Spec => TerminalIsFinal
<1>1. IInv /\ TypeOK' /\ [Next]_vars
        => [\A c \in Row : status[c] \in Terminal
                             => status'[c] = status[c]]_vars
  BY StepRefines, TerminalStep
<1>2. IInv' => TypeOK'
  BY DEF IInv
<1> QED
  BY <1>1, <1>2, Invariance, PTL DEF Spec, TerminalIsFinal

-----------------------------------------------------------------------------
(***************************************************************************)
(* The kiosk exit                                                          *)
(***************************************************************************)

(* A worker past its acknowledgement handles a row that has a result, and  *)
(* so has every row whose exit was applied.                                *)
Settled ==
  /\ \A d \in Device : pc[d] = "after" => status[cur[d]] \in Result
  /\ \A c \in Row : exits[c] > 0 => status[c] \in Result

(* An answer that returns to the launcher leaves the row with a result:    *)
(* this acknowledgement gave it, or an earlier one did.                    *)
LEMMA AnswerSettles ==
  ASSUME IInv, NEW m \in acks, ServerHandles(m), AckSucceeds(m.dev, m.row)
  PROVE  status'[m.row] \in Result
<1>1. m.dev \in Device /\ m.row \in Row /\ m.res \in Result
  BY DEF IInv, TypeOK, Ack
<1>2. status \in [Row -> Status] /\ m.dev \notin retired
  BY DEF IInv, TypeOK, StoreTypeOK, AckSucceeds
<1>3. Acknowledge(m.dev, m.row, m.res)
  BY <1>2 DEF ServerHandles
<1>4. CASE Acknowledges(m.dev, m.row)
  <2>1. expireDueCommand(m.dev, m.row) \in [Row -> Status]
    BY <1>1, <1>2 DEF expireDueCommand, Status, Terminal
  <2>2. status' = [expireDueCommand(m.dev, m.row) EXCEPT ![m.row] = m.res]
    BY <1>3, <1>4 DEF Acknowledge
  <2> QED BY <1>1, <2>1, <2>2
<1>5. CASE ~Acknowledges(m.dev, m.row)
  BY <1>3, <1>5 DEF Acknowledge, AckSucceeds
<1> QED BY <1>4, <1>5

LEMMA InitSettled == Init => Settled
BY DEF Init, LauncherInit, Settled

LEMMA StepSettled == IInv /\ TypeOK' /\ Settled /\ [Next]_vars => Settled'
<1> SUFFICES ASSUME IInv, TypeOK', Settled, [Next]_vars PROVE Settled'
  OBVIOUS
<1>1. \A c \in Row : status[c] \in Result => status'[c] \in Result
  <2>1. \A c \in Row : status[c] \in Terminal => status'[c] = status[c]
    BY StepRefines, TerminalStep
  <2> QED BY <2>1 DEF Terminal
<1>2. /\ \A d \in Device : pc[d] # "idle" => cur[d] \in Row
      /\ pc \in [Device -> {"idle", "execute", "record", "ack", "await", "after"}]
      /\ cur \in [Device -> Row \cup {NoRow}] /\ exits \in [Row -> Nat]
  BY DEF IInv, Owned, TypeOK, LauncherTypeOK
<1>3. /\ \A d \in Device : pc[d] = "after" => status[cur[d]] \in Result
      /\ \A c \in Row : exits[c] > 0 => status[c] \in Result
  BY DEF Settled
(* Steps after which no worker is newly past its acknowledgement. *)
<1>Q. ASSUME UNCHANGED exits,
             \A d \in Device : pc'[d] = "after" => pc[d] = "after" /\ cur'[d] = cur[d]
      PROVE  Settled'
  BY <1>1, <1>2, <1>3, <1>Q DEF Settled
<1>4. CASE UNCHANGED launcherVars
  BY <1>4, <1>Q DEF launcherVars, workerVars, historyVars
<1>5. ASSUME NEW d \in Device, GetsNoAnswer(d) PROVE Settled'
  BY <1>2, <1>5, <1>Q DEF GetsNoAnswer, Throws, TimesOut, AckThrows, AckSwallowed, historyVars
<1>6. ASSUME NEW m \in acks, ServerAnswers(m), ~GetsNoAnswer(m.dev), ~UNCHANGED launcherVars
      PROVE  Settled'
  <2>1. /\ Awaited(m) /\ AckSucceeds(m.dev, m.row) /\ AckReturns(m.dev) /\ ServerHandles(m)
    BY <1>6 DEF ServerAnswers, GetsNoAnswer
  <2>2. m.dev \in Device /\ m.row \in Row /\ cur[m.dev] = m.row
    <3>1. m \in Ack
      BY DEF IInv, TypeOK
    <3> QED BY <2>1, <3>1 DEF Awaited, AckMessage, Ack
  <2>3. status'[m.row] \in Result
    BY <2>1, AnswerSettles
  <2>4. UNCHANGED <<cur, exits>> /\ \A d \in Device \ {m.dev} : pc'[d] = pc[d]
    BY <1>2, <2>1 DEF AckReturns, historyVars
  <2>5. ASSUME NEW d \in Device, pc'[d] = "after" PROVE status'[cur'[d]] \in Result
    <3>1. CASE d = m.dev BY <2>2, <2>3, <2>4, <3>1
    <3>2. CASE d # m.dev BY <1>1, <1>2, <1>3, <2>4, <2>5, <3>2
    <3> QED BY <3>1, <3>2
  <2> QED BY <1>1, <1>3, <2>4, <2>5 DEF Settled
<1>7. CASE ServerNext
  BY <1>4, <1>5, <1>6, <1>7
     DEF ServerNext, AdminResolves, AdminEnqueues, AdminEnqueueFails, ClockPassesDeadline,
         PublishConfirmed, PublishUnconfirmed, PublishFails, MarksSent, MarkingSentFails,
         ServerRestarts, CleanupPass, DashboardListsPending, AdminRetires, RequestLost, AnswerLost,
         Awaited, IInv, TypeOK, Ack
<1>8. ASSUME NEW d \in Device, LauncherNext(d) PROVE Settled'
  <2>1. CASE FinishesCommand(d)
    <3>1. pc[d] = "after" /\ cur[d] \in Row /\ status[cur[d]] \in Result
      BY <1>2, <1>3, <2>1 DEF FinishesCommand, AfterAck
    <3>2. \A c \in Row : exits'[c] > 0 => exits[c] > 0 \/ c = cur[d]
      BY <1>2, <2>1 DEF FinishesCommand, AfterAck
    <3>3. \A x \in Device : pc'[x] = "after" => pc[x] = "after" /\ cur'[x] = cur[x]
      BY <1>2, <2>1 DEF FinishesCommand, AfterAck
    <3> QED BY <1>1, <1>2, <1>3, <3>1, <3>2, <3>3 DEF Settled
  <2>2. CASE AckTimesOut(d)
    BY <1>5, <2>2 DEF AckTimesOut, GetsNoAnswer
  <2>3. ASSUME UNCHANGED exits, pc'[d] # "after", \A x \in Device \ {d} : pc'[x] = pc[x] /\ cur'[x] = cur[x]
        PROVE  Settled'
    BY <1>Q, <2>3
  <2>4. CASE Connect(d) \/ Disconnect(d) \/ Poll(d) \/ PollFails(d) \/ PollEnds(d)
    BY <1>Q, <2>4 DEF Connect, Disconnect, Poll, PollFails, PollEnds, SetMode, PollReturns,
                      historyVars
  <2>5. CASE StreamReceives(d) \/ PollReceives(d)
    BY <1>2, <2>3, <2>5 DEF StreamReceives, PollReceives, Lookup, historyVars
  <2>6. CASE WorkerRestarts(d)
    BY <1>2, <2>3, <2>6 DEF WorkerRestarts, WorkerStops
  <2>7. ASSUME NEW res \in Result, Executes(d, res) PROVE Settled'
    BY <1>2, <2>3, <2>7 DEF Executes, Execute
  <2>8. CASE Remembers(d) \/ RememberingFails(d)
    BY <1>2, <2>3, <2>8 DEF Remembers, Remember, RememberingFails, RememberFails
  <2>9. CASE SendsAck(d)
    BY <1>2, <2>3, <2>9 DEF SendsAck, SendAck, historyVars
  <2> QED BY <1>8, <2>1, <2>2, <2>4, <2>5, <2>6, <2>7, <2>8, <2>9 DEF LauncherNext
<1>9. CASE UNCHANGED vars
  BY <1>4, <1>9 DEF vars
<1> QED BY <1>7, <1>8, <1>9 DEF Next

(* The kiosk is left only for a command whose result the server has, and   *)
(* keeps: an acknowledgement that throws, times out or is refused, because *)
(* the row expired or the device was retired, never applies the exit.      *)
THEOREM ExitIsSettledAlways == Spec => []ExitIsSettled
<1>1. IInv' => TypeOK'
  BY DEF IInv
<1>2. Settled => ExitIsSettled
  BY DEF Settled, ExitIsSettled, Result
<1> QED BY Invariance, InitSettled, StepSettled, <1>1, <1>2, PTL DEF Spec

=============================================================================
