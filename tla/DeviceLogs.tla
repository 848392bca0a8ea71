----------------------------- MODULE DeviceLogs -----------------------------
(***************************************************************************)
(* Device logs: the launcher's bounded queue (DeviceLogStore), the         *)
(* coordinators that upload it (DeviceLogCoordinator), and the server's    *)
(* device_logs table.                                                      *)
(*                                                                         *)
(* Entries are appended at the end, so the queue is the set of its entries *)
(* and their order is that of their ids.  Its limit is the number of       *)
(* entries; the limit on serialized characters is left out.  Every         *)
(* activity has a coordinator of its own over the one queue, and that of a *)
(* recreated activity goes on uploading.  A session, once there, stays:    *)
(* re-provisioning is left to module Enrollment.                           *)
(***************************************************************************)
EXTENDS Naturals, FiniteSets

CONSTANTS
  Coordinator,
  MaxEntries,       \* DeviceLogStore.maxEntries
  FlushThreshold,   \* FLUSH_ENTRY_THRESHOLD
  MaxBatchEntries,  \* MAX_BATCH_ENTRIES
  MaxBatches,       \* MAX_BATCHES_PER_FLUSH
  MaxRecorded,      \* bound on the entries made before a call of record
  MaxFaults         \* bound on failed uploads, restarts and recreations

ASSUME LimitsAssumption ==
  /\ Coordinator # {}
  /\ MaxEntries \in Nat \ {0}
  /\ FlushThreshold \in Nat
  /\ MaxBatchEntries \in Nat \ {0}
  /\ MaxBatches \in Nat \ {0}
  /\ MaxRecorded \in Nat
  /\ MaxFaults \in Nat

VARIABLES
  (* on the phone's disk *)
  queue,      \* the pending entries
  spinning,   \* an edit of the queue is in a loop it never leaves
  session,    \* bootstrap and identity are stored
  (* in the launcher's memory *)
  current,    \* the coordinator of the current activity
  noticed,    \* pendingDeviceLogFlushSessionKey is the session's
  recording,  \* calls of record between their append and their schedule
  flushJob,   \* the coordinators whose flushJob is active
  flushes,    \* other flushes that are to run, per coordinator
  work,       \* the flush that holds uploadMutex, per coordinator
  failed,     \* the coordinators with consecutiveUploadFailures > 0
  (* at the server *)
  stored,     \* the entries in device_logs
  (* history *)
  ids,        \* number of entries made
  dropped,    \* entries trimmed from the queue
  faults

diskVars == <<queue, spinning, session>>
activityVars == <<current, noticed, recording>>
flushVars == <<flushJob, flushes, work, failed>>
historyVars == <<ids, dropped, faults>>
vars == <<diskVars, activityVars, flushVars, stored, historyVars>>

Kind == {"info", "critical", "summary"}
Entry == [id : Nat, kind : Kind]
Idle == [step |-> "idle", batch |-> {}, n |-> 0]

TypeOK ==
  /\ queue \subseteq Entry
  /\ Cardinality(queue) <= MaxEntries
  /\ spinning \in BOOLEAN
  /\ session \in BOOLEAN
  /\ current \in Coordinator
  /\ noticed \in BOOLEAN
  /\ recording \in Nat
  /\ flushJob \subseteq Coordinator
  /\ flushes \in [Coordinator -> Nat]
  /\ work \in [Coordinator ->
       [step : {"idle", "peek", "post", "remove", "finish"},
        batch : SUBSET Entry, n : 0..MaxBatches]]
  /\ failed \subseteq Coordinator
  /\ stored \subseteq Entry
  /\ ids \in Nat
  /\ dropped \subseteq Entry
  /\ faults \in 0..MaxFaults

Init ==
  /\ queue = {}
  /\ spinning = FALSE
  /\ session = FALSE
  /\ current = CHOOSE c \in Coordinator : TRUE
  /\ noticed = FALSE
  /\ recording = 0
  /\ flushJob = {}
  /\ flushes = [c \in Coordinator |-> 0]
  /\ work = [c \in Coordinator |-> Idle]
  /\ failed = {}
  /\ stored = {}
  /\ ids = 0
  /\ dropped = {}
  /\ faults = 0

-----------------------------------------------------------------------------
(***************************************************************************)
(* The queue                                                               *)
(***************************************************************************)
priorityScore(e) == IF e.kind = "info" THEN 40 ELSE 100

(* Mutant: the oldest entry goes first, whatever its priority. *)
LowestByAge(q) == CHOOSE e \in q : \A f \in q : e.id <= f.id

(* The entry dropLowestPriorityEntry removes: of the lowest priority, the  *)
(* oldest.                                                                 *)
Lowest(q) ==
  CHOOSE e \in q : \A f \in q :
    \/ priorityScore(e) < priorityScore(f)
    \/ priorityScore(e) = priorityScore(f) /\ e.id <= f.id

Summaries(q) == {e \in q : e.kind = "summary"}

TooLong(q) == Cardinality(q) > MaxEntries

(* The queue with one entry dropped and that reported.  An edit adds one   *)
(* entry at most, so each loop of trimForLimits has one to drop.           *)
Summed(q, summary) == (q \ {Lowest(q)}) \cup {summary}

(* Mutant: the summary is added without making room for it. *)
trimForLimitsOnce(q, summary) ==
  IF TooLong(q) THEN Summed(q, summary) ELSE q

(* Mutant: nothing reports the drop. *)
trimForLimitsSilently(q, summary) ==
  IF TooLong(q) THEN q \ {Lowest(q)} ELSE q

trimForLimits(q, summary) ==
  LET room == Summed(q, summary) \ Summaries(Summed(q, summary))
  IN  IF TooLong(q) THEN Summed(q, summary) \ {Lowest(room)} ELSE q

(* The second loop of trimForLimits ignores that dropLowestPriorityEntry   *)
(* found nothing to drop but summaries.                                    *)
Diverges(q, summary) ==
  TooLong(q) /\ Summed(q, summary) = Summaries(Summed(q, summary))

(* append: one edit of the DataStore, which runs edits one at a time. *)
append(kind) ==
  LET q == queue \cup {[id |-> ids + 1, kind |-> kind]}
      summary == [id |-> ids + 2, kind |-> "summary"]
  IN  /\ ~spinning
      /\ IF Diverges(q, summary)
         THEN spinning' = TRUE /\ UNCHANGED <<queue, ids, dropped>>
         ELSE /\ queue' = trimForLimits(q, summary)
              /\ dropped' = dropped \cup (q \ queue')
              /\ ids' = IF TooLong(q) THEN ids + 2 ELSE ids + 1
              /\ UNCHANGED spinning

(* peekBatch: the oldest entries. *)
peekBatch ==
  {e \in queue : Cardinality({f \in queue : f.id < e.id}) < MaxBatchEntries}

(* Mutant: the first entries are removed, as many as were uploaded. *)
removeFirst(batch) ==
  queue' = {e \in queue :
    Cardinality({f \in queue : f.id < e.id}) >= Cardinality(batch)}

(* remove: by id, whatever the queue holds by now. *)
remove(batch) == queue' = queue \ batch

-----------------------------------------------------------------------------
(***************************************************************************)
(* The coordinator                                                         *)
(***************************************************************************)
Fault ==
  /\ faults < MaxFaults
  /\ faults' = faults + 1

(* record, up to its append. *)
Record(kind) ==
  /\ ids < MaxRecorded
  /\ append(kind)
  /\ recording' = IF spinning' THEN recording ELSE recording + 1
  /\ UNCHANGED <<session, current, noticed, flushVars, stored, faults>>

(* triggerImmediateFlush *)
triggerImmediateFlush(c) ==
  /\ flushes' = [flushes EXCEPT ![c] = @ + 1]
  /\ UNCHANGED flushJob

(* scheduleFlush: one timer at a time. *)
scheduleFlush(c) == flushJob' = flushJob \cup {c}

(* The rest of record: nothing without a session. *)
RecordSchedules ==
  /\ recording > 0
  /\ recording' = recording - 1
  /\ IF ~session THEN UNCHANGED <<flushes, flushJob>>
     ELSE IF Cardinality(queue) >= FlushThreshold
          THEN triggerImmediateFlush(current)
          ELSE scheduleFlush(current) /\ UNCHANGED flushes
  /\ UNCHANGED <<diskVars, current, noticed, work, failed, stored, historyVars>>

(* maybeFlushPendingDeviceLogs, when the activity first sees a session. *)
maybeFlushPendingDeviceLogs ==
  /\ session
  /\ ~noticed
  /\ noticed' = TRUE
  /\ IF queue # {} THEN triggerImmediateFlush(current)
                   ELSE UNCHANGED <<flushes, flushJob>>
  /\ UNCHANGED <<diskVars, current, recording, work, failed, stored, historyVars>>

(* upload reads its batch. *)
Peek(c, n) ==
  work' = [work EXCEPT ![c] =
    [step |-> IF queue = {} THEN "finish" ELSE "post", batch |-> peekBatch, n |-> n]]

(* flushCurrentSession enters uploadMutex and clears flushJob: a timer     *)
(* that was waiting is no longer the one to wait for, and still fires.     *)
flushCurrentSession(c) ==
  /\ session
  /\ work[c].step = "idle"
  /\ \/ c \in flushJob /\ UNCHANGED flushes
     \/ /\ flushes[c] > 0
        /\ flushes' = IF c \in flushJob THEN flushes
                      ELSE [flushes EXCEPT ![c] = @ - 1]
  /\ flushJob' = flushJob \ {c}
  /\ Peek(c, 0)
  /\ UNCHANGED <<diskVars, activityVars, failed, stored, historyVars>>

(* The next batch, after RECOVERY_BATCH_DELAY_MS. *)
NextBatch(c) ==
  /\ work[c].step = "peek"
  /\ Peek(c, work[c].n)
  /\ UNCHANGED <<diskVars, activityVars, flushJob, flushes, failed, stored, historyVars>>

(* insertLog: a row that is there stays, ON CONFLICT (id) DO NOTHING. *)
insertLog(rows, batch) == rows \cup {e \in batch : \A f \in rows : f.id # e.id}

(* The server's Upload: one transaction. *)
Upload(batch) == stored' = insertLog(stored, batch)

(* The server's handler; an upload without entries is refused. *)
LogsRoute(batch) == batch # {} /\ Upload(batch)

(* postBatch succeeds, with the primary or the secondary address. *)
PostSucceeds(c) ==
  /\ work[c].step = "post"
  /\ LogsRoute(work[c].batch)
  /\ work' = [work EXCEPT ![c].step = "remove"]
  /\ UNCHANGED <<diskVars, activityVars, flushJob, flushes, failed, historyVars>>

(* postBatch fails; the request may have taken effect. *)
PostFails(c, effect) ==
  /\ work[c].step = "post"
  /\ IF effect THEN LogsRoute(work[c].batch) ELSE UNCHANGED stored
  /\ failed' = failed \cup {c}
  /\ scheduleFlush(c)
  /\ work' = [work EXCEPT ![c] = Idle]
  /\ Fault
  /\ UNCHANGED <<diskVars, activityVars, flushes, ids, dropped>>

Removes(c) ==
  /\ work[c].step = "remove"
  /\ ~spinning
  /\ remove(work[c].batch)
  /\ work' = [work EXCEPT ![c].batch = {},
                          ![c].n = @ + 1,
                          ![c].step = IF work[c].n + 1 < MaxBatches THEN "peek"
                                                                   ELSE "finish"]
  /\ UNCHANGED <<spinning, session, activityVars, flushJob, flushes, failed,
                 stored, historyVars>>

(* recordUploadRecoveredIfNeeded *)
Recovers(c) ==
  /\ work[c].step = "finish"
  /\ work[c].n > 0
  /\ c \in failed
  /\ append("info")
  /\ failed' = IF spinning' THEN failed ELSE failed \ {c}
  /\ UNCHANGED <<session, activityVars, flushJob, flushes, work, stored, faults>>

(* Mutant: what MaxBatches batches left over is not scheduled. *)
FinishesForGood(c) ==
  /\ work[c].step = "finish"
  /\ work[c].n = 0 \/ c \notin failed
  /\ work' = [work EXCEPT ![c] = Idle]
  /\ UNCHANGED <<diskVars, activityVars, flushJob, flushes, failed, stored, historyVars>>

(* The end of a flush: what is left is scheduled. *)
Finishes(c) ==
  /\ work[c].step = "finish"
  /\ work[c].n = 0 \/ c \notin failed
  /\ IF queue # {} THEN scheduleFlush(c) ELSE UNCHANGED flushJob
  /\ work' = [work EXCEPT ![c] = Idle]
  /\ UNCHANGED <<diskVars, activityVars, flushes, failed, stored, historyVars>>

-----------------------------------------------------------------------------
(***************************************************************************)
(* The launcher around it                                                  *)
(***************************************************************************)

(* Enrollment has stored the identity. *)
SessionStarts ==
  /\ ~session
  /\ session' = TRUE
  /\ UNCHANGED <<queue, spinning, activityVars, flushVars, stored, historyVars>>

Unused(c) ==
  c \notin flushJob /\ flushes[c] = 0 /\ work[c] = Idle /\ c \notin failed

(* The activity is recreated: its calls are cancelled, its coordinator's   *)
(* scope is not, and a new coordinator takes over.                         *)
Recreate(c) ==
  /\ c # current
  /\ Unused(c)
  /\ current' = c
  /\ noticed' = FALSE
  /\ recording' = 0
  /\ Fault
  /\ UNCHANGED <<diskVars, flushVars, stored, ids, dropped>>

(* The process ends and is started again; an unfinished edit is undone. *)
ProcessRestarts ==
  /\ noticed' = FALSE
  /\ recording' = 0
  /\ flushJob' = {}
  /\ flushes' = [c \in Coordinator |-> 0]
  /\ work' = [c \in Coordinator |-> Idle]
  /\ failed' = {}
  /\ spinning' = FALSE
  /\ Fault
  /\ UNCHANGED <<queue, session, current, stored, ids, dropped>>

Flush(c) ==
  \/ flushCurrentSession(c)
  \/ NextBatch(c) \/ PostSucceeds(c) \/ Removes(c) \/ Recovers(c) \/ Finishes(c)

Next ==
  \/ \E kind \in {"info", "critical"} : Record(kind)
  \/ RecordSchedules
  \/ maybeFlushPendingDeviceLogs
  \/ SessionStarts
  \/ ProcessRestarts
  \/ \E c \in Coordinator :
       \/ Flush(c)
       \/ Recreate(c)
       \/ \E effect \in BOOLEAN : PostFails(c, effect)

Spec == Init /\ [][Next]_vars

(***************************************************************************)
(* Fairness: coroutines that can run do, timers fire, and the server       *)
(* accepts what reaches it once faults have ceased.                        *)
(***************************************************************************)
FairSpec ==
  /\ Spec
  /\ WF_vars(RecordSchedules)
  /\ WF_vars(maybeFlushPendingDeviceLogs)
  /\ \A c \in Coordinator : WF_vars(Flush(c))

-----------------------------------------------------------------------------
(***************************************************************************)
(* Properties                                                              *)
(***************************************************************************)

(* An entry leaves the queue only when the server has stored it or the     *)
(* limit dropped it: not when an upload fails or is answered late, when    *)
(* the process ends between the post and the removal, when the queue is    *)
(* trimmed under an upload, or when two coordinators upload one batch.     *)
NothingIsLost ==
  \A i \in 1..ids : \E e \in queue \cup stored \cup dropped : e.id = i

(* Drops are reported: once an entry was dropped, a "device logs dropped"  *)
(* entry is in the queue or at the server, although summaries count        *)
(* against the limit and may be dropped themselves.                        *)
DropsAreReported ==
  dropped # {} => Summaries(queue \cup stored) # {}

(* An entry that priorityScore protects is dropped only when no other is   *)
(* left to drop.                                                           *)
CriticalOutlivesInfo ==
  [][\A e \in dropped' \ dropped : e.kind # "info"
       => \A f \in queue' : f.kind # "info"]_vars

(* The device and the server together keep what LogLifecycle promises.     *)
Lifecycle ==
  INSTANCE LogLifecycle WITH Limit <- MaxEntries, made <- ids,
    pending <- queue, delivered <- stored, lost <- dropped
LifecycleSpec == Lifecycle!Spec

(* With a session, every entry is uploaded or dropped in the end: no       *)
(* cleared flushJob, finished flush, failure or restart leaves the queue   *)
(* without a flush to come.                                                *)
LogsAreDelivered ==
  \A i \in 1..(MaxRecorded + 1 + 2 * MaxFaults) :
    (session /\ \E e \in queue : e.id = i)
      ~> (spinning \/ \A e \in queue : e.id # i)

(* docs/launcher-lifecycle.md: "Log uploads are separate from config sync  *)
(* so a log burst cannot block the signed snapshot refresh path."  record  *)
(* is awaited by every step of the lifecycle, so an append has to return.  *)
EditsEnd == ~spinning

=============================================================================
