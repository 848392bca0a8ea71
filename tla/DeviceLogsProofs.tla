-------------------------- MODULE DeviceLogsProofs --------------------------
(***************************************************************************)
(* Proofs that no log entry is lost, that the limit spares the important   *)
(* ones, that what it drops is reported, and that the queue keeps to it,   *)
(* for any number of coordinators, any limits of the queue and of the      *)
(* batches, and any number of faults.                                      *)
(***************************************************************************)
EXTENDS DeviceLogs, FiniteSetTheorems, WellFoundedInduction, TLAPS

(***************************************************************************)
(* The inductive invariant.                                                *)
(***************************************************************************)

Shapes ==
  /\ queue \subseteq Entry /\ stored \subseteq Entry /\ dropped \subseteq Entry
  /\ ids \in Nat
  /\ work \in [Coordinator -> [step : {"idle", "peek", "post", "remove", "finish"},
                               batch : SUBSET Entry, n : Nat]]

(* The server has every entry of the set, by its id. *)
HasAll(S) == \A e \in S : \E f \in stored : f.id = e.id

(* What a flush is about to remove is at the server. *)
Posted == \A c \in Coordinator : work[c].step = "remove" => HasAll(work[c].batch)

IInv == Shapes /\ Posted /\ NothingIsLost

-----------------------------------------------------------------------------
(***************************************************************************)
(* The entry that is dropped is one of the queue.                          *)
(***************************************************************************)
LEMMA SmallestExists ==
  ASSUME NEW S \in SUBSET Nat, S # {}
  PROVE  \E n \in S : \A k \in S : n <= k
<1> DEFINE R == OpToRel(<, Nat)
<1>1. PICK n \in S : \A k \in S : ~(<<k, n>> \in R)
  <2>1. IsWellFoundedOn(R, Nat) BY NatLessThanWellFounded
  <2> HIDE DEF R
  <2> QED BY <2>1, WFMin
<1>2. \A k \in S : ~(k < n)
  BY <1>1 DEF OpToRel
<1> QED BY <1>2

LEMMA OldestExists ==
  ASSUME NEW q \in SUBSET Entry, q # {}
  PROVE  \E e \in q : \A f \in q : e.id <= f.id
<1> DEFINE S == {e.id : e \in q}
<1>1. S \in SUBSET Nat /\ S # {} BY DEF Entry
<1>2. PICK n \in S : \A k \in S : n <= k
  <2> HIDE DEF S
  <2> QED BY <1>1, SmallestExists
<1> QED BY <1>2

LEMMA LowestIsThere ==
  ASSUME NEW q \in SUBSET Entry, q # {}
  PROVE  /\ Lowest(q) \in q
         /\ \A f \in q : priorityScore(Lowest(q)) <= priorityScore(f)
<1> DEFINE I == {e \in q : e.kind = "info"}
<1>1. \E e \in q : \A f \in q : \/ priorityScore(e) < priorityScore(f)
                                \/ priorityScore(e) = priorityScore(f) /\ e.id <= f.id
  <2>1. CASE I = {}
    <3>1. \A e \in q : priorityScore(e) = 100 BY <2>1 DEF priorityScore
    <3> QED BY <3>1, OldestExists
  <2>2. CASE I # {}
    <3>1. PICK e \in I : \A f \in I : e.id <= f.id BY <2>2, OldestExists
    <3>2. \A f \in q : IF f \in I THEN priorityScore(f) = 40 ELSE priorityScore(f) = 100
      BY DEF priorityScore
    <3>3. \A f \in q : \/ priorityScore(e) < priorityScore(f)
                       \/ priorityScore(e) = priorityScore(f) /\ e.id <= f.id
      BY <3>1, <3>2
    <3> QED BY <3>1, <3>3
  <2> QED BY <2>1, <2>2
<1>2. \A f \in q : priorityScore(f) \in Int BY DEF priorityScore
<1> QED BY <1>1, <1>2 DEF Lowest

(* What has a priority goes last. *)
LEMMA InfoGoesFirst ==
  ASSUME NEW q \in SUBSET Entry, q # {}, Lowest(q).kind # "info"
  PROVE  \A f \in q : f.kind # "info"
<1>1. priorityScore(Lowest(q)) = 100 BY DEF priorityScore
<1>2. \A f \in q : f.kind = "info" => priorityScore(f) = 40 BY DEF priorityScore
<1> QED BY <1>1, <1>2, LowestIsThere

-----------------------------------------------------------------------------
(***************************************************************************)
(* An edit loses nothing: what it makes is in the queue or dropped.        *)
(***************************************************************************)
LEMMA AppendKeeps ==
  ASSUME Shapes, NothingIsLost, NEW kind \in Kind, append(kind), UNCHANGED stored
  PROVE  /\ queue' \subseteq Entry /\ dropped' \subseteq Entry /\ ids' \in Nat
         /\ NothingIsLost'
<1> DEFINE new == [id |-> ids + 1, kind |-> kind]
           summary == [id |-> ids + 2, kind |-> "summary"]
           q == queue \cup {new}
<1>0. new \in Entry /\ summary \in Entry /\ q \subseteq Entry
  BY DEF Shapes, Entry, Kind
<1>1. CASE Diverges(q, summary)
  BY <1>1 DEF append, Shapes, NothingIsLost
<1>2. CASE ~Diverges(q, summary) /\ ~TooLong(q)
  <2>1. queue' = q /\ dropped' = dropped /\ ids' = ids + 1
    BY <1>2 DEF append, trimForLimits
  <2>2. \A i \in 1..ids' : i \in 1..ids \/ i = new.id
    BY <2>1 DEF Shapes
  <2> QED BY <1>0, <2>1, <2>2 DEF Shapes, NothingIsLost
<1>3. CASE ~Diverges(q, summary) /\ TooLong(q)
  <2> DEFINE sum == Summed(q, summary)
             room == sum \ Summaries(sum)
  <2>1. queue' = sum \ {Lowest(room)} /\ dropped' = dropped \cup (q \ queue') /\ ids' = ids + 2
    BY <1>3 DEF append, trimForLimits
  <2>2. sum \subseteq Entry /\ summary \in sum
    BY <1>0 DEF Summed
  <2>3. Lowest(room) # summary
    <3>1. room \in SUBSET Entry /\ summary \notin room BY <2>2 DEF Summaries
    <3>2. room # {} BY <1>3 DEF Diverges, Summaries
    <3> QED BY <3>1, <3>2, LowestIsThere
  <2>4. summary \in queue' /\ queue' \subseteq Entry
    BY <2>1, <2>2, <2>3
  <2>5. \A i \in 1..ids' : i \in 1..ids \/ i = new.id \/ i = summary.id
    BY <2>1 DEF Shapes
  <2>6. dropped' \subseteq Entry /\ q \subseteq queue' \cup dropped' /\ dropped \subseteq dropped'
    BY <1>0, <2>1 DEF Shapes
  <2>7. ASSUME NEW i \in 1..ids'
        PROVE  \E e \in queue' \cup stored' \cup dropped' : e.id = i
    <3>1. CASE i \in 1..ids BY <2>6, <3>1 DEF NothingIsLost
    <3>2. CASE i = new.id BY <2>6, <3>2
    <3>3. CASE i = summary.id BY <2>4, <3>3
    <3> QED BY <2>5, <2>7, <3>1, <3>2, <3>3
  <2>8. ids' \in Nat BY <2>1 DEF Shapes
  <2> QED BY <2>4, <2>6, <2>7, <2>8 DEF NothingIsLost
<1> QED BY <1>1, <1>2, <1>3

-----------------------------------------------------------------------------
LEMMA UploadStores ==
  ASSUME Shapes, NEW batch \in SUBSET Entry, LogsRoute(batch)
  PROVE  stored \subseteq stored' /\ stored' \subseteq Entry /\ HasAll(batch)'
BY DEF Shapes, LogsRoute, Upload, insertLog, HasAll

LEMMA PeekIsQueued == peekBatch \subseteq queue
BY DEF peekBatch

LEMMA InitIInv == Init => IInv
BY LimitsAssumption DEF Init, IInv, Shapes, Posted, NothingIsLost, Idle

LEMMA StepIInv == IInv /\ [Next]_vars => IInv'
<1> SUFFICES ASSUME IInv, [Next]_vars PROVE IInv'
  OBVIOUS
<1> USE DEF IInv
(* Steps that leave queue, server and history alone, and post nothing. *)
<1>Q. ASSUME UNCHANGED <<queue, stored, dropped, ids>>, Shapes',
             \A c \in Coordinator : work'[c].step = "remove" => work'[c] = work[c]
      PROVE  IInv'
  BY <1>Q DEF Posted, HasAll, NothingIsLost
<1>0. CASE UNCHANGED vars
  BY <1>0, <1>Q DEF vars, diskVars, flushVars, historyVars, Shapes
<1>1. ASSUME NEW kind \in {"info", "critical"}, Record(kind) PROVE IInv'
  <2>1. UNCHANGED <<stored, work>> /\ append(kind) BY <1>1 DEF Record, flushVars
  <2>2. /\ queue' \subseteq Entry /\ dropped' \subseteq Entry /\ ids' \in Nat
        /\ NothingIsLost'
    BY <2>1, AppendKeeps DEF Kind
  <2> QED BY <2>1, <2>2 DEF Shapes, Posted, HasAll
<1>2. CASE RecordSchedules
  BY <1>2, <1>Q DEF RecordSchedules, diskVars, historyVars, Shapes
<1>3. CASE maybeFlushPendingDeviceLogs
  BY <1>3, <1>Q DEF maybeFlushPendingDeviceLogs, diskVars, historyVars, Shapes
<1>4. CASE SessionStarts
  BY <1>4, <1>Q DEF SessionStarts, flushVars, historyVars, Shapes
<1>5. CASE ProcessRestarts
  BY <1>5, <1>Q DEF ProcessRestarts, Shapes, Idle
<1>6. ASSUME NEW c \in Coordinator, Recreate(c) PROVE IInv'
  BY <1>6, <1>Q DEF Recreate, diskVars, flushVars, Shapes
<1>7. ASSUME NEW c \in Coordinator, NEW n \in Nat, Peek(c, n),
             UNCHANGED <<queue, stored, dropped, ids>>
      PROVE  IInv'
  <2>1. Shapes' BY <1>7, PeekIsQueued DEF Peek, Shapes
  <2> QED BY <1>7, <1>Q, <2>1 DEF Peek, Shapes
<1>8. ASSUME NEW c \in Coordinator, flushCurrentSession(c) PROVE IInv'
  BY <1>7, <1>8 DEF flushCurrentSession, diskVars, historyVars
<1>9. ASSUME NEW c \in Coordinator, NextBatch(c) PROVE IInv'
  BY <1>7, <1>9 DEF NextBatch, diskVars, historyVars, Shapes
<1>10. ASSUME NEW c \in Coordinator, PostSucceeds(c) PROVE IInv'
  <2>1. /\ LogsRoute(work[c].batch) /\ UNCHANGED <<queue, dropped, ids>>
        /\ work' = [work EXCEPT ![c].step = "remove"] /\ work[c].batch \in SUBSET Entry
    BY <1>10 DEF PostSucceeds, diskVars, historyVars, Shapes
  <2>2. stored \subseteq stored' /\ stored' \subseteq Entry /\ HasAll(work[c].batch)'
    <3>1. \A b \in SUBSET Entry : LogsRoute(b) =>
            stored \subseteq stored' /\ stored' \subseteq Entry /\ HasAll(b)'
      BY UploadStores
    <3> QED BY <2>1, <3>1 DEF HasAll, Shapes
  <2>3. Shapes' BY <2>1, <2>2 DEF Shapes
  <2>4. Posted' BY <2>1, <2>2 DEF Posted, HasAll, Shapes
  <2> QED BY <2>1, <2>2, <2>3, <2>4 DEF NothingIsLost
<1>11. ASSUME NEW c \in Coordinator, NEW effect \in BOOLEAN, PostFails(c, effect) PROVE IInv'
  <2>1. /\ LogsRoute(work[c].batch) \/ UNCHANGED stored
        /\ UNCHANGED <<queue, dropped, ids>> /\ work' = [work EXCEPT ![c] = Idle]
        /\ work[c].batch \in SUBSET Entry
    BY <1>11 DEF PostFails, diskVars, Shapes
  <2>2. stored \subseteq stored' /\ stored' \subseteq Entry
    BY <2>1, UploadStores DEF Shapes
  <2>3. Shapes' BY <2>1, <2>2 DEF Shapes, Idle
  <2>4. Posted' BY <2>1, <2>2 DEF Posted, HasAll, Shapes, Idle
  <2> QED BY <2>1, <2>2, <2>3, <2>4 DEF NothingIsLost
<1>12. ASSUME NEW c \in Coordinator, Removes(c) PROVE IInv'
  <2>1. /\ queue' = queue \ work[c].batch /\ UNCHANGED <<stored, dropped, ids>>
        /\ HasAll(work[c].batch)
    BY <1>12 DEF Removes, remove, historyVars, Posted
  <2>2. NothingIsLost' BY <2>1 DEF NothingIsLost, HasAll
  <2>3. Shapes' /\ Posted'
    <3>1. /\ work' \in [Coordinator -> [step : {"idle", "peek", "post", "remove", "finish"},
                                        batch : SUBSET Entry, n : Nat]]
          /\ work'[c].step # "remove" /\ \A d \in Coordinator \ {c} : work'[d] = work[d]
      BY <1>12 DEF Removes, Shapes
    <3> QED BY <2>1, <3>1 DEF Shapes, Posted, HasAll
  <2> QED BY <2>2, <2>3
<1>13. ASSUME NEW c \in Coordinator, Recovers(c) PROVE IInv'
  <2>1. UNCHANGED <<stored, work>> /\ append("info") BY <1>13 DEF Recovers
  <2>2. /\ queue' \subseteq Entry /\ dropped' \subseteq Entry /\ ids' \in Nat
        /\ NothingIsLost'
    BY <2>1, AppendKeeps DEF Kind
  <2> QED BY <2>1, <2>2 DEF Shapes, Posted, HasAll
<1>14. ASSUME NEW c \in Coordinator, Finishes(c) PROVE IInv'
  BY <1>14, <1>Q DEF Finishes, diskVars, historyVars, Shapes, Idle
<1> QED BY <1>0, <1>1, <1>2, <1>3, <1>4, <1>5, <1>6, <1>8, <1>9, <1>10, <1>11, <1>12, <1>13, <1>14
        DEF Next, Flush

(***************************************************************************)
(* Every entry that was made is in the queue, at the server, or was        *)
(* dropped by the limit, whatever uploads fail or are answered late and    *)
(* however many coordinators share the queue.                              *)
(***************************************************************************)
THEOREM NothingIsLostEver == Spec => []NothingIsLost
<1>1. IInv => NothingIsLost
  BY DEF IInv
<1> QED BY InitIInv, StepIInv, <1>1, PTL DEF Spec

-----------------------------------------------------------------------------
(***************************************************************************)
(* Types, the limit of the queue, and the report of what was dropped.      *)
(***************************************************************************)

(* A batch in a flush has one more to go. *)
InBounds ==
  /\ TypeOK /\ IsFiniteSet(queue)
  /\ \A c \in Coordinator : work[c].step \in {"peek", "post", "remove"} => work[c].n < MaxBatches

(* An entry that is dropped or uploaded twice is one entry: ids are given  *)
(* once, and the copies in the batches of coordinators are not edited.     *)
Known == queue \cup stored \cup dropped \cup UNION {work[c].batch : c \in Coordinator}
GivenOnce ==
  \A e \in Known : e.id \in 1..ids /\ \A f \in Known : e.id = f.id => e = f

FullInv == IInv /\ InBounds /\ GivenOnce /\ DropsAreReported

(* An edit leaves no more entries than the limit allows, and a report if   *)
(* it dropped one.                                                         *)
LEMMA AppendFits ==
  ASSUME Shapes, IsFiniteSet(queue), Cardinality(queue) <= MaxEntries, NEW kind \in Kind, append(kind)
  PROVE  /\ IsFiniteSet(queue') /\ Cardinality(queue') <= MaxEntries
         /\ \/ dropped' = dropped /\ queue \subseteq queue'
            \/ Summaries(queue') # {}
         /\ \/ UNCHANGED <<queue, dropped, ids>>
            \/ /\ ids' > ids
               /\ \A e \in queue' \cup dropped' :
                    \/ e \in queue \cup dropped
                    \/ e = [id |-> ids + 1, kind |-> kind]
                    \/ e = [id |-> ids + 2, kind |-> "summary"] /\ ids' = ids + 2
<1> DEFINE new == [id |-> ids + 1, kind |-> kind]
           summary == [id |-> ids + 2, kind |-> "summary"]
           q == queue \cup {new}
<1>0. /\ new \in Entry /\ summary \in Entry /\ q \subseteq Entry /\ summary.kind = "summary"
      /\ ids \in Nat
  BY DEF Shapes, Entry, Kind
<1>1. /\ IsFiniteSet(q) /\ Cardinality(q) <= MaxEntries + 1
      /\ Cardinality(queue) \in Nat /\ Cardinality(q) \in Nat
  <2>1. IsFiniteSet(q) /\ Cardinality(q) =
          IF new \in queue THEN Cardinality(queue) ELSE Cardinality(queue) + 1
    BY FS_AddElement
  <2>2. Cardinality(queue) \in Nat
    BY FS_CardinalityType
  <2> QED BY <2>1, <2>2, LimitsAssumption
<1>2. CASE Diverges(q, summary)
  BY <1>2 DEF append
<1>3. CASE ~Diverges(q, summary) /\ ~TooLong(q)
  <2>1. queue' = q /\ dropped' = dropped /\ ids' = ids + 1
    BY <1>3 DEF append, trimForLimits
  <2> QED BY <1>0, <1>1, <1>3, <2>1, LimitsAssumption DEF TooLong
<1>4. CASE ~Diverges(q, summary) /\ TooLong(q)
  <2> DEFINE sum == Summed(q, summary)
             room == sum \ Summaries(sum)
  <2>1. queue' = sum \ {Lowest(room)} /\ dropped' = dropped \cup (q \ queue') /\ ids' = ids + 2
    BY <1>4 DEF append, trimForLimits
  <2>2. sum \subseteq Entry /\ summary \in sum /\ sum = (q \ {Lowest(q)}) \cup {summary}
    BY <1>0 DEF Summed
  <2>3. room \in SUBSET Entry /\ room # {} /\ summary \notin room
    BY <1>0, <1>4, <2>2 DEF Diverges, Summaries
  <2>4. Lowest(room) \in room
    BY <2>3, LowestIsThere
  <2>5. summary \in queue'
    BY <2>1, <2>2, <2>3, <2>4
  <2>6. q # {} /\ Lowest(q) \in q
    BY <1>0, LowestIsThere
  <2> HIDE DEF new, summary, sum, room
  <2>7. IsFiniteSet(q \ {Lowest(q)}) /\ Cardinality(q \ {Lowest(q)}) = Cardinality(q) - 1
    BY <1>1, <2>6, FS_RemoveElement
  <2>8. IsFiniteSet(sum) /\ Cardinality(sum) <= Cardinality(q) /\ Cardinality(sum) \in Nat
    <3> DEFINE rest == q \ {Lowest(q)}
    <3>1. IsFiniteSet(rest) /\ Cardinality(rest) = Cardinality(q) - 1 /\ sum = rest \cup {summary}
      BY <2>2, <2>7
    <3> HIDE DEF rest
    <3>2. /\ IsFiniteSet(sum)
          /\ Cardinality(sum) = IF summary \in rest THEN Cardinality(rest) ELSE Cardinality(rest) + 1
      BY <3>1, FS_AddElement
    <3> QED BY <1>1, <3>1, <3>2, FS_CardinalityType
  <2>9. IsFiniteSet(queue') /\ Cardinality(queue') = Cardinality(sum) - 1
    <3>1. Lowest(room) \in sum
      BY <2>4 DEF room
    <3> QED BY <2>1, <2>8, <3>1, FS_RemoveElement
  <2>10. Cardinality(queue') <= MaxEntries
    BY <1>1, <2>8, <2>9, LimitsAssumption
  <2>11. Summaries(queue') # {}
    BY <1>0, <2>5 DEF Summaries
  <2>12. \A e \in queue' \cup dropped' : e \in queue \cup dropped \/ e = new \/ e = summary
    BY <2>1, <2>2
  <2>13. ids' > ids
    BY <1>0, <2>1
  <2> QED BY <2>1, <2>9, <2>10, <2>11, <2>12, <2>13 DEF new, summary
<1> QED BY <1>2, <1>3, <1>4

(* A step that makes no entry knows no new one. *)
LEMMA NoneIsNew ==
  ASSUME GivenOnce, Known' \subseteq Known, ids' = ids
  PROVE  GivenOnce'
BY DEF GivenOnce

(* An edit in a step that moves no batch. *)
LEMMA EditStep ==
  ASSUME FullInv, NEW kind \in Kind, append(kind), UNCHANGED <<stored, work>>, TypeOK'
  PROVE  InBounds' /\ GivenOnce' /\ DropsAreReported'
<1> USE DEF FullInv, IInv
<1>1. /\ IsFiniteSet(queue') /\ Cardinality(queue') <= MaxEntries
      /\ \/ dropped' = dropped /\ queue \subseteq queue'
         \/ Summaries(queue') # {}
      /\ \/ UNCHANGED <<queue, dropped, ids>>
         \/ /\ ids' > ids
            /\ \A e \in queue' \cup dropped' :
                 \/ e \in queue \cup dropped
                 \/ e = [id |-> ids + 1, kind |-> kind]
                 \/ e = [id |-> ids + 2, kind |-> "summary"] /\ ids' = ids + 2
  BY AppendFits DEF InBounds, TypeOK
<1>2. InBounds'
  BY <1>1 DEF InBounds
<1>3. DropsAreReported'
  BY <1>1 DEF DropsAreReported, Summaries
<1>4. ASSUME UNCHANGED <<queue, dropped, ids>> PROVE GivenOnce'
  BY <1>4, NoneIsNew DEF Known
<1>5. ASSUME ids' > ids PROVE GivenOnce'
  <2>1. ids \in Nat /\ ids' \in Nat /\ \A e \in Known : e.id \in 1..ids
    BY DEF Shapes, GivenOnce, Known, Entry, TypeOK
  <2>2. \A e \in Known' : \/ e \in Known
                          \/ e = [id |-> ids + 1, kind |-> kind]
                          \/ e = [id |-> ids + 2, kind |-> "summary"] /\ ids' = ids + 2
    BY <1>1, <1>5 DEF Known
  <2>3. \A e \in Known' : e.id \in 1..ids'
    BY <1>5, <2>1, <2>2
  <2>4. ASSUME NEW e \in Known', NEW f \in Known', e.id = f.id PROVE e = f
    BY <2>1, <2>2, <2>4 DEF GivenOnce
  <2> QED BY <2>3, <2>4 DEF GivenOnce
<1> QED BY <1>1, <1>2, <1>3, <1>4, <1>5

LEMMA InitFullInv == Init => FullInv
<1> SUFFICES ASSUME Init PROVE FullInv
  OBVIOUS
<1>1. IInv
  BY InitIInv
<1>2. IsFiniteSet(queue) /\ Cardinality(queue) = 0
  BY FS_EmptySet DEF Init
<1>3. current \in Coordinator
  BY LimitsAssumption DEF Init
<1>4. InBounds
  <2>1. Cardinality(queue) <= MaxEntries /\ faults \in 0..MaxFaults
    BY <1>2, LimitsAssumption DEF Init
  <2>2. Idle \in [step : {"idle", "peek", "post", "remove", "finish"},
                  batch : SUBSET Entry, n : 0..MaxBatches]
    BY LimitsAssumption DEF Idle
  <2>3. work \in [Coordinator -> [step : {"idle", "peek", "post", "remove", "finish"},
                                  batch : SUBSET Entry, n : 0..MaxBatches]]
    BY <2>2 DEF Init
  <2>4. TypeOK
    BY <1>3, <2>1, <2>3 DEF Init, TypeOK
  <2>5. \A c \in Coordinator : work[c].step = "idle"
    BY DEF Init, Idle
  <2> QED BY <1>2, <2>4, <2>5 DEF InBounds
<1>5. Known = {}
  BY DEF Init, Known, Idle
<1>6. GivenOnce /\ DropsAreReported
  BY <1>5 DEF Init, GivenOnce, DropsAreReported
<1> QED BY <1>1, <1>4, <1>6 DEF FullInv

LEMMA StepFullInv == FullInv /\ [Next]_vars => FullInv'
<1> SUFFICES ASSUME FullInv, [Next]_vars PROVE FullInv'
  OBVIOUS
<1>1. IInv' /\ Shapes'
  BY StepIInv DEF FullInv, IInv
<1>2. /\ TypeOK /\ IsFiniteSet(queue) /\ Shapes /\ Posted /\ GivenOnce /\ DropsAreReported
      /\ \A c \in Coordinator : work[c].step \in {"peek", "post", "remove"} => work[c].n < MaxBatches
  BY DEF FullInv, InBounds, IInv
<1> DEFINE Result == InBounds' /\ GivenOnce' /\ DropsAreReported'
<1> SUFFICES Result
  BY <1>1 DEF FullInv
<1> HIDE DEF Result
(* Steps that leave queue, server and history alone, and batches of the queue. *)
<1>Q. ASSUME UNCHANGED <<queue, stored, dropped, ids>>, TypeOK',
             \A c \in Coordinator :
               /\ work'[c].step \in {"peek", "post", "remove"} => work'[c].n < MaxBatches
               /\ work'[c].batch \subseteq Known
      PROVE  Result
  <2>1. InBounds'
    BY <1>2, <1>Q DEF InBounds
  <2>2. Known' \subseteq Known
    BY <1>Q DEF Known
  <2>3. GivenOnce'
    BY <1>2, <1>Q, <2>2, NoneIsNew
  <2>4. DropsAreReported'
    BY <1>2, <1>Q DEF DropsAreReported, Summaries
  <2> QED BY <2>1, <2>3, <2>4 DEF Result
<1>K. \A c \in Coordinator : work[c].batch \subseteq Known
  BY DEF Known
<1>0. CASE UNCHANGED vars
  <2>1. TypeOK'
    BY <1>2, <1>0 DEF TypeOK, vars, diskVars, activityVars, flushVars, historyVars
  <2> QED BY <1>2, <1>K, <1>0, <1>Q, <2>1 DEF vars, diskVars, flushVars, historyVars
<1>1a. ASSUME NEW kind \in {"info", "critical"}, Record(kind) PROVE Result
  <2>1. /\ UNCHANGED <<stored, work>> /\ append(kind) /\ kind \in Kind
    BY <1>1a DEF Record, flushVars, Kind
  <2>2. IsFiniteSet(queue') /\ Cardinality(queue') <= MaxEntries
    BY <1>2, <2>1, AppendFits DEF TypeOK
  <2>3. spinning' \in BOOLEAN
    BY <1>2, <2>1 DEF append, TypeOK
  <2>4. TypeOK'
    BY <1>1, <1>2, <1>1a, <2>2, <2>3 DEF Record, TypeOK, Shapes, flushVars
  <2> QED BY <2>1, <2>4, EditStep DEF Result
<1>2a. CASE RecordSchedules
  <2>1. TypeOK'
    BY <1>1, <1>2, <1>2a DEF RecordSchedules, triggerImmediateFlush, scheduleFlush, TypeOK, Shapes,
       diskVars, historyVars
  <2> QED BY <1>2, <1>K, <1>Q, <1>2a, <2>1 DEF RecordSchedules, diskVars, historyVars
<1>3. CASE maybeFlushPendingDeviceLogs
  <2>1. TypeOK'
    BY <1>1, <1>2, <1>3 DEF maybeFlushPendingDeviceLogs, triggerImmediateFlush, TypeOK, Shapes,
       diskVars, historyVars
  <2> QED BY <1>2, <1>K, <1>Q, <1>3, <2>1 DEF maybeFlushPendingDeviceLogs, diskVars, historyVars
<1>4. CASE SessionStarts
  <2>1. TypeOK'
    BY <1>1, <1>2, <1>4 DEF SessionStarts, TypeOK, Shapes, activityVars, flushVars, historyVars
  <2> QED BY <1>2, <1>K, <1>Q, <1>4, <2>1 DEF SessionStarts, flushVars, historyVars
<1>5. CASE ProcessRestarts
  <2>0. Idle \in [step : {"idle", "peek", "post", "remove", "finish"},
                  batch : SUBSET Entry, n : 0..MaxBatches]
    BY LimitsAssumption DEF Idle
  <2>a. faults' \in 0..MaxFaults
    BY <1>2, <1>5, LimitsAssumption DEF ProcessRestarts, Fault, TypeOK
  <2>b. flushes' \in [Coordinator -> Nat]
    BY <1>5 DEF ProcessRestarts
  <2>c. work' \in [Coordinator -> [step : {"idle", "peek", "post", "remove", "finish"},
                                   batch : SUBSET Entry, n : 0..MaxBatches]]
    BY <1>5, <2>0 DEF ProcessRestarts
  <2>1. TypeOK'
    BY <1>2, <1>5, <2>a, <2>b, <2>c DEF ProcessRestarts, TypeOK
  <2>2. \A c \in Coordinator : work'[c].step = "idle" /\ work'[c].batch = {}
    BY <1>5 DEF ProcessRestarts, Idle
  <2> QED BY <1>Q, <1>5, <2>1, <2>2 DEF ProcessRestarts
<1>6. ASSUME NEW c \in Coordinator, Recreate(c) PROVE Result
  <2>a. faults' \in 0..MaxFaults
    BY <1>2, <1>6, LimitsAssumption DEF Recreate, Fault, TypeOK
  <2>1. TypeOK'
    BY <1>2, <1>6, <2>a DEF Recreate, TypeOK, diskVars, flushVars
  <2> QED BY <1>2, <1>K, <1>Q, <1>6, <2>1 DEF Recreate, diskVars, flushVars
<1>7. ASSUME NEW c \in Coordinator, NEW n \in 0..MaxBatches, n < MaxBatches, Peek(c, n),
             UNCHANGED <<diskVars, activityVars, failed, stored, historyVars>>,
             flushJob' \subseteq Coordinator, flushes' \in [Coordinator -> Nat]
      PROVE  Result
  <2>1. peekBatch \subseteq queue /\ peekBatch \in SUBSET Entry
    BY <1>2, PeekIsQueued DEF Shapes
  <2>2. work' \in [Coordinator -> [step : {"idle", "peek", "post", "remove", "finish"},
                                   batch : SUBSET Entry, n : 0..MaxBatches]]
    BY <1>2, <1>7, <2>1 DEF Peek, TypeOK
  <2>3. TypeOK'
    BY <1>2, <1>7, <2>2 DEF TypeOK, diskVars, activityVars, historyVars
  <2>4. \A d \in Coordinator : \/ work'[d] = work[d]
                               \/ work'[d].n = n /\ work'[d].batch = peekBatch
    BY <1>2, <1>7 DEF Peek, Shapes
  <2>5. peekBatch \subseteq Known
    BY <2>1 DEF Known
  <2> QED BY <1>2, <1>K, <1>Q, <1>7, <2>3, <2>4, <2>5 DEF diskVars, historyVars
<1>8. ASSUME NEW c \in Coordinator, flushCurrentSession(c) PROVE Result
  <2>1. flushes' \in [Coordinator -> Nat]
    BY <1>2, <1>8 DEF flushCurrentSession, TypeOK
  <2>2. flushJob' \subseteq Coordinator
    BY <1>2, <1>8 DEF flushCurrentSession, TypeOK
  <2>3. 0 \in 0..MaxBatches /\ 0 < MaxBatches
    BY LimitsAssumption
  <2> QED BY <1>7, <1>8, <2>1, <2>2, <2>3 DEF flushCurrentSession
<1>9. ASSUME NEW c \in Coordinator, NextBatch(c) PROVE Result
  <2>1. work[c].n \in 0..MaxBatches /\ work[c].n < MaxBatches
    BY <1>2, <1>9 DEF NextBatch, TypeOK
  <2>2. flushJob' \subseteq Coordinator /\ flushes' \in [Coordinator -> Nat]
    BY <1>2, <1>9 DEF NextBatch, TypeOK
  <2> QED BY <1>7, <1>9, <2>1, <2>2 DEF NextBatch
(* The server learns of no entry but those of the batch. *)
<1>U. ASSUME NEW c \in Coordinator, LogsRoute(work[c].batch)
      PROVE  stored \subseteq stored' /\ stored' \subseteq stored \cup work[c].batch
  BY <1>U DEF LogsRoute, Upload, insertLog
<1>P. ASSUME NEW c \in Coordinator, stored \subseteq stored', stored' \subseteq stored \cup work[c].batch,
             UNCHANGED <<queue, dropped, ids>>, TypeOK',
             \A d \in Coordinator :
               /\ work'[d].step \in {"peek", "post", "remove"} => work'[d].n < MaxBatches
               /\ work'[d].batch \subseteq Known
      PROVE  Result
  <2>1. InBounds'
    BY <1>2, <1>P DEF InBounds
  <2>2. Known' \subseteq Known
    BY <1>P DEF Known
  <2>3. GivenOnce'
    BY <1>2, <1>P, <2>2, NoneIsNew
  <2>4. DropsAreReported'
    BY <1>2, <1>P DEF DropsAreReported, Summaries
  <2> QED BY <2>1, <2>3, <2>4 DEF Result
<1>10. ASSUME NEW c \in Coordinator, PostSucceeds(c) PROVE Result
  <2>1. /\ LogsRoute(work[c].batch) /\ UNCHANGED <<queue, dropped, ids>>
        /\ work[c].step = "post" /\ work' = [work EXCEPT ![c].step = "remove"]
    BY <1>10 DEF PostSucceeds, diskVars, historyVars
  <2>2. work' \in [Coordinator -> [step : {"idle", "peek", "post", "remove", "finish"},
                                   batch : SUBSET Entry, n : 0..MaxBatches]]
    BY <1>2, <2>1 DEF TypeOK
  <2>3. TypeOK'
    BY <1>1, <1>2, <1>10, <2>2 DEF PostSucceeds, TypeOK, Shapes, diskVars, activityVars, historyVars
  <2>4. \A d \in Coordinator :
               /\ work'[d].step \in {"peek", "post", "remove"} => work'[d].n < MaxBatches
               /\ work'[d].batch = work[d].batch
    BY <1>2, <2>1 DEF Shapes
  <2> QED BY <1>K, <1>U, <1>P, <2>1, <2>3, <2>4
<1>11. ASSUME NEW c \in Coordinator, NEW effect \in BOOLEAN, PostFails(c, effect) PROVE Result
  <2>1. /\ LogsRoute(work[c].batch) \/ UNCHANGED stored
        /\ UNCHANGED <<queue, dropped, ids>> /\ work' = [work EXCEPT ![c] = Idle]
    BY <1>11 DEF PostFails, diskVars
  <2>2. work' \in [Coordinator -> [step : {"idle", "peek", "post", "remove", "finish"},
                                   batch : SUBSET Entry, n : 0..MaxBatches]]
    BY <1>2, <2>1, LimitsAssumption DEF TypeOK, Idle
  <2>3. failed' \subseteq Coordinator /\ flushJob' \subseteq Coordinator /\ faults' \in 0..MaxFaults
    BY <1>2, <1>11, LimitsAssumption DEF PostFails, scheduleFlush, Fault, TypeOK
  <2>4. TypeOK'
    BY <1>1, <1>2, <1>11, <2>2, <2>3 DEF PostFails, TypeOK, Shapes, diskVars, activityVars
  <2>5. \A d \in Coordinator :
               /\ work'[d].step \in {"peek", "post", "remove"} => work'[d].n < MaxBatches
               /\ work'[d].batch \subseteq work[d].batch
    BY <1>2, <2>1 DEF Shapes, Idle
  <2> QED BY <1>K, <1>U, <1>P, <2>1, <2>4, <2>5
<1>12. ASSUME NEW c \in Coordinator, Removes(c) PROVE Result
  <2>1. /\ queue' = queue \ work[c].batch /\ UNCHANGED <<stored, dropped, ids>>
        /\ HasAll(work[c].batch) /\ work[c].n < MaxBatches /\ work[c].n \in 0..MaxBatches
    BY <1>2, <1>12 DEF Removes, remove, historyVars, Posted, TypeOK
  <2>2. IsFiniteSet(queue') /\ Cardinality(queue') <= MaxEntries
    <3> DEFINE less == queue \ work[c].batch
    <3>1. less \in SUBSET queue /\ queue' = less
      BY <2>1
    <3> HIDE DEF less
    <3>2. IsFiniteSet(less) /\ Cardinality(less) <= Cardinality(queue)
      BY <1>2, <3>1, FS_Subset
    <3>3. Cardinality(less) \in Nat /\ Cardinality(queue) \in Nat /\ Cardinality(queue) <= MaxEntries
      BY <1>2, <3>2, FS_CardinalityType DEF TypeOK
    <3> QED BY <3>1, <3>2, <3>3, LimitsAssumption
  <2>3. /\ work' \in [Coordinator -> [step : {"idle", "peek", "post", "remove", "finish"},
                                      batch : SUBSET Entry, n : 0..MaxBatches]]
        /\ work'[c].step = "peek" => work'[c].n < MaxBatches
        /\ work'[c].step \in {"peek", "finish"} /\ work'[c].batch = {}
        /\ \A d \in Coordinator \ {c} : work'[d] = work[d]
    BY <1>2, <1>12, <2>1, LimitsAssumption DEF Removes, TypeOK
  <2>4. TypeOK'
    BY <1>1, <1>2, <1>12, <2>2, <2>3 DEF Removes, TypeOK, Shapes, activityVars, historyVars
  <2>5. InBounds'
    BY <1>2, <2>2, <2>3, <2>4 DEF InBounds
  <2>6. Known' \subseteq Known
    BY <2>1, <2>3 DEF Known
  <2>7. GivenOnce'
    BY <1>2, <2>1, <2>6, NoneIsNew
  (* A report that leaves the queue is at the server, the same one. *)
  <2>8. DropsAreReported'
    <3>1. \A e \in work[c].batch : e \in stored
      <4>1. SUFFICES ASSUME NEW e \in work[c].batch PROVE e \in stored
        OBVIOUS
      <4>2. PICK f \in stored : f.id = e.id
        BY <2>1 DEF HasAll
      <4>3. e \in Known /\ f \in Known
        BY <1>K DEF Known
      <4> QED BY <1>2, <4>2, <4>3 DEF GivenOnce
    <3>2. queue \cup stored = queue' \cup stored'
      BY <2>1, <3>1
    <3> QED BY <1>2, <2>1, <3>2 DEF DropsAreReported
  <2> QED BY <2>5, <2>7, <2>8 DEF Result
<1>13. ASSUME NEW c \in Coordinator, Recovers(c) PROVE Result
  <2>1. UNCHANGED <<stored, work>> /\ append("info") /\ "info" \in Kind
    BY <1>13 DEF Recovers, Kind
  <2>2. IsFiniteSet(queue') /\ Cardinality(queue') <= MaxEntries
    BY <1>2, <2>1, AppendFits DEF TypeOK
  <2>3. spinning' \in BOOLEAN
    BY <1>2, <2>1 DEF append, TypeOK
  <2>4. TypeOK'
    BY <1>1, <1>2, <1>13, <2>2, <2>3 DEF Recovers, TypeOK, Shapes, activityVars
  <2> QED BY <2>1, <2>4, EditStep DEF Result
<1>14. ASSUME NEW c \in Coordinator, Finishes(c) PROVE Result
  <2>1. work' = [work EXCEPT ![c] = Idle] /\ UNCHANGED <<queue, stored, dropped, ids>>
    BY <1>14 DEF Finishes, diskVars, historyVars
  <2>2. work' \in [Coordinator -> [step : {"idle", "peek", "post", "remove", "finish"},
                                   batch : SUBSET Entry, n : 0..MaxBatches]]
    BY <1>2, <2>1, LimitsAssumption DEF TypeOK, Idle
  <2>3. flushJob' \subseteq Coordinator
    BY <1>2, <1>14 DEF Finishes, scheduleFlush, TypeOK
  <2>4. TypeOK'
    BY <1>1, <1>2, <1>14, <2>2, <2>3 DEF Finishes, TypeOK, Shapes, diskVars, activityVars, historyVars
  <2>5. \A d \in Coordinator :
               /\ work'[d].step \in {"peek", "post", "remove"} => work'[d].n < MaxBatches
               /\ work'[d].batch \subseteq work[d].batch
    BY <1>2, <2>1 DEF Shapes, Idle
  <2> QED BY <1>K, <1>Q, <2>1, <2>4, <2>5
<1> QED BY <1>0, <1>1a, <1>2a, <1>3, <1>4, <1>5, <1>6, <1>8, <1>9, <1>10, <1>11, <1>12, <1>13, <1>14
        DEF Next, Flush

LEMMA FullInvariance == Spec => []FullInv
BY InitFullInv, StepFullInv, PTL DEF Spec

(***************************************************************************)
(* Every variable keeps to its type.  That is more than it says: the queue *)
(* is never left longer than its limit by an edit, and no flush posts more *)
(* batches than MAX_BATCHES_PER_FLUSH.                                     *)
(***************************************************************************)
THEOREM TypeCorrect == Spec => []TypeOK
<1>1. FullInv => TypeOK
  BY DEF FullInv, InBounds
<1> QED BY FullInvariance, <1>1, PTL

(***************************************************************************)
(* Once an entry was dropped, a report of drops is in the queue or at the  *)
(* server, whatever happens to that report: an upload that takes it, a     *)
(* post answered late, the edit that drops it for a newer one.             *)
(***************************************************************************)
THEOREM DropsAreReportedAlways == Spec => []DropsAreReported
<1>1. FullInv => DropsAreReported
  BY DEF FullInv
<1> QED BY FullInvariance, <1>1, PTL

-----------------------------------------------------------------------------
(***************************************************************************)
(* Device logs implement LogLifecycle                                      *)
(***************************************************************************)

(* The lifecycle counts as the queue does. *)
LEMMA SameCardinality ==
  ASSUME NEW S PROVE Lifecycle!Cardinality(S) = Cardinality(S)
BY DEF Lifecycle!Cardinality, Cardinality

(* The two entries that make room for a new one and for the report. *)
LEMMA RoomIsMade ==
  ASSUME NEW q \in SUBSET Entry, NEW summary \in Entry, summary.kind = "summary",
         summary \notin q, q # {}, ~Diverges(q, summary), TooLong(q)
  PROVE  LET kept == trimForLimits(q, summary)
         IN  \E x, y \in q :
               /\ x # y
               /\ kept = (q \cup {summary}) \ {x, y}
               /\ q \ kept = {x, y}
               /\ x.kind # "info" \/ y.kind # "info"
                    => \A e \in kept : e.kind # "info"
<1> DEFINE sum == Summed(q, summary)
           room == sum \ Summaries(sum)
           kept == trimForLimits(q, summary)
           x == Lowest(q)
           y == Lowest(room)
<1>1. kept = sum \ {y} /\ sum = (q \ {x}) \cup {summary}
  BY DEF trimForLimits, Summed
<1>2. room \in SUBSET Entry /\ room # {} /\ room \subseteq q \ {x}
  BY <1>1 DEF Diverges, Summaries
<1>3. x \in q /\ y \in room
  BY <1>2, LowestIsThere
<1>4. \A e \in kept : e.kind = "info" => e \in room
  BY <1>1 DEF Summaries
<1>5. x.kind # "info" => \A e \in q : e.kind # "info"
  BY InfoGoesFirst
<1>6. y.kind # "info" => \A e \in room : e.kind # "info"
  BY <1>2, InfoGoesFirst
<1> HIDE DEF sum, room, kept, x, y
<1>7. y \in q /\ x # y /\ kept = (q \cup {summary}) \ {x, y} /\ q \ kept = {x, y}
  BY <1>1, <1>2, <1>3
<1>8. x.kind # "info" \/ y.kind # "info" => \A e \in kept : e.kind # "info"
  BY <1>2, <1>4, <1>5, <1>6
<1> QED
  BY <1>3, <1>7, <1>8 DEF kept

(* An edit keeps its entry, or makes room for it when the queue is full.   *)
LEMMA EditRefines ==
  ASSUME FullInv, NEW kind \in {"info", "critical"}, append(kind), UNCHANGED stored
  PROVE  Lifecycle!Next \/ UNCHANGED Lifecycle!vars
<1> DEFINE new == [id |-> ids + 1, kind |-> kind]
           summary == [id |-> ids + 2, kind |-> "summary"]
           q == queue \cup {new}
<1>1. /\ IsFiniteSet(queue) /\ Cardinality(queue) <= MaxEntries
      /\ queue \subseteq Entry /\ ids \in Nat /\ GivenOnce
  BY DEF FullInv, IInv, InBounds, TypeOK, Shapes
<1>2. /\ new \in Entry /\ summary \in Entry /\ summary.kind = "summary"
      /\ q \in SUBSET Entry /\ q # {}
  <2>1. new \in Entry /\ summary \in Entry
    BY <1>1 DEF Entry, Kind
  <2>2. summary.kind = "summary" /\ new \in q
    OBVIOUS
  <2> HIDE DEF new, summary
  <2> QED
    BY <1>1, <2>1, <2>2
<1>3. \A e \in queue : e.id \in 1..ids
  BY <1>1 DEF GivenOnce, Known
<1>4. new \notin queue /\ summary \notin q
  <2>1. new.id = ids + 1 /\ summary.id = ids + 2
    OBVIOUS
  <2> HIDE DEF new, summary
  <2> QED
    BY <1>1, <1>3, <2>1
<1>5. Cardinality(q) = Cardinality(queue) + 1 /\ Cardinality(queue) \in Nat
  BY <1>1, <1>4, FS_AddElement, FS_CardinalityType
<1>6. Lifecycle!New(kind) = new /\ Lifecycle!Report = summary
  BY DEF Lifecycle!New, Lifecycle!Report
<1>7. CASE Diverges(q, summary)
  BY <1>7 DEF append, Lifecycle!vars
<1>8. CASE ~Diverges(q, summary) /\ ~TooLong(q)
  <2>1. queue' = q /\ dropped' = dropped /\ ids' = ids + 1
    BY <1>8 DEF append, trimForLimits
  <2>2. Cardinality(queue) < MaxEntries
    BY <1>5, <1>8, LimitsAssumption DEF TooLong
  <2> HIDE DEF new, summary
  <2>3. Lifecycle!Keep(kind)
    BY <1>6, <2>1, <2>2, SameCardinality DEF Lifecycle!Keep
  <2> QED
    BY <2>3 DEF Lifecycle!Next
<1>9. CASE ~Diverges(q, summary) /\ TooLong(q)
  <2>1. /\ queue' = trimForLimits(q, summary)
        /\ dropped' = dropped \cup (q \ queue') /\ ids' = ids + 2
    BY <1>9 DEF append
  <2>2. Cardinality(queue) = MaxEntries
    BY <1>1, <1>5, <1>9, LimitsAssumption DEF TooLong
  <2> HIDE DEF new, summary, q
  <2>3. PICK x \in q, y \in q :
          /\ x # y
          /\ queue' = (q \cup {summary}) \ {x, y}
          /\ q \ queue' = {x, y}
          /\ x.kind # "info" \/ y.kind # "info"
               => \A e \in queue' : e.kind # "info"
    BY <1>2, <1>4, <1>9, <2>1, RoomIsMade
  <2>4. Lifecycle!Overflow(kind)
    <3>1. q = queue \cup {Lifecycle!New(kind)}
      BY <1>6 DEF q
    <3>2. queue' = (q \cup {Lifecycle!Report}) \ {x, y}
      BY <1>6, <2>3
    <3>3. (q \cup {Lifecycle!Report})
            = queue \cup {Lifecycle!New(kind), Lifecycle!Report}
      BY <3>1
    <3> HIDE DEF q
    <3> QED
      BY <2>1, <2>2, <2>3, <3>1, <3>2, <3>3, SameCardinality
         DEF Lifecycle!Overflow
  <2> QED
    BY <2>4 DEF Lifecycle!Next
<1> QED
  BY <1>7, <1>8, <1>9

(* What a post newly stores is queued, or was dropped since it was read.   *)
LEMMA PostRefines ==
  ASSUME FullInv, NEW c \in Coordinator,
         LogsRoute(work[c].batch) \/ UNCHANGED stored,
         UNCHANGED <<queue, dropped, ids>>
  PROVE  Lifecycle!Next \/ UNCHANGED Lifecycle!vars
<1>1. CASE UNCHANGED stored
  BY <1>1 DEF Lifecycle!vars
<1>2. CASE LogsRoute(work[c].batch)
  <2> DEFINE S == {e \in work[c].batch : \A f \in stored : f.id # e.id}
  <2>1. stored' = stored \cup S
    BY <1>2 DEF LogsRoute, Upload, insertLog
  <2>2. ASSUME NEW e \in S PROVE e \in queue \cup dropped
    <3>1. e \in Known /\ e.id \in 1..ids
      BY DEF FullInv, GivenOnce, Known
    <3>2. PICK f \in queue \cup stored \cup dropped : f.id = e.id
      BY <3>1 DEF FullInv, IInv, NothingIsLost
    <3>3. f = e
      BY <3>1, <3>2 DEF FullInv, GivenOnce, Known
    <3> QED
      BY <3>2, <3>3
  <2> HIDE DEF S
  <2>3. Lifecycle!Deliver
    BY <2>1, <2>2 DEF Lifecycle!Deliver
  <2> QED
    BY <2>3 DEF Lifecycle!Next
<1> QED
  BY <1>1, <1>2

(* What is removed is at the server, the same entries.                     *)
LEMMA RemovalRefines ==
  ASSUME FullInv, NEW c \in Coordinator, Removes(c)
  PROVE  Lifecycle!Next
<1> DEFINE S == queue \cap work[c].batch
<1>1. /\ queue' = queue \ work[c].batch /\ UNCHANGED <<stored, dropped, ids>>
      /\ HasAll(work[c].batch)
  BY DEF Removes, remove, historyVars, FullInv, IInv, Posted
<1>2. queue' = queue \ S
  BY <1>1
<1>3. ASSUME NEW e \in S PROVE e \in stored
  <2>1. PICK f \in stored : f.id = e.id
    BY <1>1 DEF HasAll
  <2> QED
    BY <2>1 DEF FullInv, GivenOnce, Known
<1>4. S \in SUBSET (queue \cap stored)
  BY <1>3
<1> HIDE DEF S
<1>5. Lifecycle!Forget
  BY <1>1, <1>2, <1>4 DEF Lifecycle!Forget
<1> QED
  BY <1>5 DEF Lifecycle!Next

(* One step of phone and server is a step of the lifecycle or a stutter.   *)
LEMMA StepRefines ==
  FullInv /\ [Next]_vars => [Lifecycle!Next]_(Lifecycle!vars)
<1> SUFFICES ASSUME FullInv, [Next]_vars
             PROVE  Lifecycle!Next \/ UNCHANGED Lifecycle!vars
  OBVIOUS
<1> DEFINE Goal == Lifecycle!Next \/ UNCHANGED Lifecycle!vars
<1>1. ASSUME UNCHANGED <<queue, stored, dropped, ids>> PROVE Goal
  BY <1>1 DEF Lifecycle!vars
<1>2. ASSUME \/ UNCHANGED vars \/ RecordSchedules \/ maybeFlushPendingDeviceLogs
             \/ SessionStarts \/ ProcessRestarts
      PROVE  Goal
  BY <1>1, <1>2
     DEF vars, diskVars, historyVars, RecordSchedules,
         maybeFlushPendingDeviceLogs, SessionStarts, ProcessRestarts
<1>3. ASSUME NEW kind \in {"info", "critical"}, Record(kind) PROVE Goal
  BY <1>3, EditRefines DEF Record
<1>4. ASSUME NEW c \in Coordinator,
             \/ Recreate(c) \/ flushCurrentSession(c) \/ NextBatch(c)
             \/ Finishes(c)
      PROVE  Goal
  BY <1>1, <1>4
     DEF diskVars, historyVars, Recreate, flushCurrentSession, NextBatch, Finishes
<1>5. ASSUME NEW c \in Coordinator,
             PostSucceeds(c) \/ \E effect \in BOOLEAN : PostFails(c, effect)
      PROVE  Goal
  BY <1>5, PostRefines DEF PostSucceeds, PostFails, diskVars, historyVars
<1>6. ASSUME NEW c \in Coordinator, Removes(c) PROVE Goal
  BY <1>6, RemovalRefines
<1>7. ASSUME NEW c \in Coordinator, Recovers(c) PROVE Goal
  BY <1>7, EditRefines DEF Recovers
<1> QED
  BY <1>2, <1>3, <1>4, <1>5, <1>6, <1>7 DEF Next, Flush

(***************************************************************************)
(* The bounded queue, the coordinators that upload it and the server       *)
(* implement a mailbox that loses an entry only when it is full, two at a  *)
(* time, the unimportant ones first, and each time with a report.          *)
(***************************************************************************)
THEOREM Refinement == Spec => LifecycleSpec
<1>1. Init => Lifecycle!Init
  BY DEF Init, Lifecycle!Init
<1> QED
  BY <1>1, StepRefines, FullInvariance, PTL
     DEF Spec, LifecycleSpec, Lifecycle!Spec

(***************************************************************************)
(* No step drops an entry of high priority while one of low priority stays *)
(* in the queue: the limit drops two entries at once, the second of them   *)
(* to make room for the report of the first, and the lifecycle allows it   *)
(* no important one then.                                                  *)
(***************************************************************************)
THEOREM CriticalOutlives == Spec => CriticalOutlivesInfo
<1>1. ASSUME [Lifecycle!Next]_(Lifecycle!vars)
      PROVE  \A e \in dropped' \ dropped : e.kind # "info"
               => \A f \in queue' : f.kind # "info"
  <2>1. CASE UNCHANGED dropped
    BY <2>1
  <2>2. ASSUME NEW kind \in {"info", "critical"}, Lifecycle!Overflow(kind)
        PROVE  \A e \in dropped' \ dropped : e.kind # "info"
                 => \A f \in queue' : f.kind # "info"
    BY <2>2 DEF Lifecycle!Overflow
  <2> QED
    BY <1>1, <2>1, <2>2
       DEF Lifecycle!Next, Lifecycle!vars, Lifecycle!Keep, Lifecycle!Deliver,
           Lifecycle!Forget
<1> QED
  BY <1>1, Refinement, PTL DEF LifecycleSpec, Lifecycle!Spec, CriticalOutlivesInfo

-----------------------------------------------------------------------------
(***************************************************************************)
(* When an edit never ends                                                 *)
(***************************************************************************)

(* The queue is as long as it may be and holds nothing but reports. *)
FullOfReports ==
  /\ Cardinality(queue) = MaxEntries
  /\ \A e \in queue : e.kind = "summary"
SpinsOnReports == spinning => FullOfReports

LEMMA AppendSpins ==
  ASSUME FullInv, NEW kind \in {"info", "critical"}, append(kind), spinning'
  PROVE  FullOfReports /\ queue' = queue
<1> DEFINE new == [id |-> ids + 1, kind |-> kind]
           summary == [id |-> ids + 2, kind |-> "summary"]
           q == queue \cup {new}
<1>1. /\ IsFiniteSet(queue) /\ Cardinality(queue) <= MaxEntries
      /\ queue \in SUBSET Entry /\ ids \in Nat
  BY DEF FullInv, IInv, InBounds, TypeOK, Shapes
<1>2. Diverges(q, summary) /\ queue' = queue
  BY DEF append
<1>3. new \notin queue /\ new.id = ids + 1 /\ new.kind # "summary"
  <2>1. \A e \in queue : e.id \in 1..ids
    BY DEF FullInv, GivenOnce, Known
  <2> QED
    BY <1>1, <2>1
<1> HIDE DEF new, summary
<1>4. \A e \in (q \ {Lowest(q)}) \cup {summary} : e.kind = "summary"
  BY <1>2 DEF Diverges, Summed, Summaries
<1>5. Lowest(q) = new
  BY <1>3, <1>4
<1>6. \A e \in queue : e.kind = "summary"
  <2> TAKE e \in queue
  <2>1. e \in q \ {Lowest(q)}
    BY <1>3, <1>5
  <2> QED
    BY <1>4, <2>1
<1>7. Cardinality(queue) = MaxEntries
  <2>1. Cardinality(queue) \in Nat /\ Cardinality(q) = Cardinality(queue) + 1
    BY <1>1, <1>3, FS_AddElement, FS_CardinalityType
  <2>2. Cardinality(q) > MaxEntries
    BY <1>2 DEF Diverges, TooLong
  <2> HIDE DEF q
  <2> QED
    BY <1>1, <2>1, <2>2, LimitsAssumption
<1> QED
  BY <1>2, <1>6, <1>7 DEF FullOfReports

(***************************************************************************)
(* The second loop of trimForLimits runs forever only on a full queue that *)
(* holds nothing but reports of drops: as long as one other entry is       *)
(* queued, or there is room, every append returns.                         *)
(***************************************************************************)
THEOREM OnlyReportsSpin == Spec => []SpinsOnReports
<1>1. Init => SpinsOnReports
  BY DEF Init, SpinsOnReports
<1>2. FullInv /\ SpinsOnReports /\ [Next]_vars => SpinsOnReports'
  <2> SUFFICES ASSUME FullInv, SpinsOnReports, [Next]_vars
               PROVE  SpinsOnReports'
    OBVIOUS
  <2>1. ASSUME NEW kind \in {"info", "critical"}, append(kind)
        PROVE  SpinsOnReports'
    BY <2>1, AppendSpins DEF SpinsOnReports, FullOfReports
  <2>2. ASSUME \/ spinning' = FALSE
               \/ spinning' = spinning /\ queue' = queue
        PROVE  SpinsOnReports'
    BY <2>2 DEF SpinsOnReports, FullOfReports
  <2>3. ASSUME NEW c \in Coordinator, Removes(c) PROVE SpinsOnReports'
    BY <2>3 DEF Removes, SpinsOnReports
  <2>4. \/ \E kind \in {"info", "critical"} : append(kind)
        \/ spinning' = FALSE
        \/ spinning' = spinning /\ queue' = queue
        \/ \E c \in Coordinator : Removes(c)
    BY DEF Next, Record, RecordSchedules, maybeFlushPendingDeviceLogs, SessionStarts,
           ProcessRestarts, Recreate, PostFails, Flush, flushCurrentSession, NextBatch,
           PostSucceeds, Recovers, Finishes, vars, diskVars
  <2> QED
    BY <2>1, <2>2, <2>3, <2>4
<1> QED
  BY <1>1, <1>2, FullInvariance, PTL DEF Spec
=============================================================================
