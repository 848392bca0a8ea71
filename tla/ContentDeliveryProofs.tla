----------------------- MODULE ContentDeliveryProofs ------------------------
(***************************************************************************)
(* Proofs that content delivery keeps its types, and that what goes on     *)
(* record as applied is on the phone, for any snapshots, items, values,    *)
(* numbers of syncs, faults, publications and enrollments.                 *)
(***************************************************************************)
EXTENDS ContentDelivery, TLAPS

(***************************************************************************)
(* The inductive invariant.                                                *)
(***************************************************************************)

(* A sync that has fetched knows what it fetched, and for a requested one  *)
(* the state it had read before.                                           *)
Fetched(w, x) ==
  w.step \in {"save", "certificates"} =>
    w.snap \in Snapshot /\ w.key \in Key /\ (x = "request" => w.state \in AgentState)

Types == TypeOK /\ \A x \in Source : Fetched(sync[x], x)

Removable == {"files", "apps"}

(* Files and apps are applied by one job at a time: what it is done with   *)
(* is on the phone, or gone if only the record before wanted it; it is     *)
(* done with all that is wanted before anything goes.                      *)
OneAtATime(m, j) == m.inFlight[j.bucket] /\ \A k \in m.jobs : k.bucket = j.bucket => k = j

Gone(j, a) == Managed(j.bucket, a) \ Wanted(j.bucket, j.snap)

DoneInPlace(j, a, d) ==
  /\ InPlace(d, j.bucket, j.snap, Wanted(j.bucket, j.snap) \ j.todo, Gone(j, a) \ j.todo)
  /\ Gone(j, a) \ j.todo # {} => j.todo \cap Wanted(j.bucket, j.snap) = {}
  /\ j.todo \subseteq Wanted(j.bucket, j.snap) \cup Gone(j, a)

JobsApply(m, a, d) ==
  \A j \in m.jobs : j.bucket \in Removable =>
    /\ OneAtATime(m, j)
    /\ j.step # "clear"
    /\ j.step = "apply" => DoneInPlace(j, a, d)

-----------------------------------------------------------------------------
(***************************************************************************)
(* Records of the launcher                                                 *)
(***************************************************************************)
LEMMA AgentStates ==
  ASSUME NEW a \in AgentState
  PROVE  /\ a.identity \in Key \cup {None} /\ a.cache \in Signed \cup {None}
         /\ a.applied \in [Bucket -> Signed \cup {None}]
         /\ \A k \in Key : [a EXCEPT !.identity = k] \in AgentState
         /\ \A c \in Signed : [a EXCEPT !.cache = c] \in AgentState
         /\ \A k \in Key : [a EXCEPT !.identity = k].applied = a.applied
         /\ \A c \in Signed : [a EXCEPT !.cache = c].applied = a.applied
         /\ ForCertificates(a) \in AgentState
BY DEF AgentState, ForCertificates, Bucket

LEMMA RecordedStates ==
  ASSUME NEW a \in AgentState, NEW b \in Bucket, NEW r \in Signed \cup {None}
  PROVE  /\ [a EXCEPT !.applied[b] = r] \in AgentState
         /\ [a EXCEPT !.applied[b] = r].applied = [a.applied EXCEPT ![b] = r]
BY DEF AgentState

LEMMA EmptyStates ==
  /\ EmptyState \in AgentState /\ \A b \in Bucket : EmptyState.applied[b] = None
  /\ \A k \in Key : [EmptyState EXCEPT !.identity = k] \in AgentState
  /\ \A k \in Key, c \in Signed : [EmptyState EXCEPT !.identity = k, !.cache = c] \in AgentState
BY DEF EmptyState, AgentState

LEMMA Syncs ==
  /\ IdleSync \in SyncWork /\ \A x : Fetched(IdleSync, x)
  /\ \A k \in Key : LET w == [IdleSync EXCEPT !.step = "fetch", !.key = k]
                    IN  w \in SyncWork /\ \A x : Fetched(w, x)
  /\ \A s \in Snapshot, k \in Key, a \in AgentState \cup {None} : \A x :
       LET w == [step |-> "save", snap |-> s, key |-> k, state |-> a]
       IN  w \in SyncWork /\ ((x = "request" => a \in AgentState) => Fetched(w, x))
  /\ \A w \in SyncWork : w.step = "save" =>
       LET v == [w EXCEPT !.step = "certificates"]
       IN  v \in SyncWork /\ \A x : (Fetched(w, x) => Fetched(v, x))
BY DEF IdleSync, SyncWork, Fetched

LEMMA SignedRows ==
  /\ \A s \in Snapshot, k \in Key : [snap |-> s, key |-> k] \in Signed
  /\ \A c \in Signed : c.snap \in Snapshot /\ c.key \in Key
BY DEF Signed

LEMMA Versions ==
  ASSUME NEW b \in Bucket, NEW s \in Snapshot
  PROVE  /\ Version(b, s) \in Snapshot \cup [Item -> Value \cup {None}]
         /\ Content[s][b] \in [Item -> Value \cup {None}]
         /\ Wanted(b, s) \subseteq Item
BY ContentAssumption DEF Version, Wanted

LEMMA Sources == "initial" \in Source /\ "periodic" \in Source /\ "request" \in Source
BY DEF Source

LEMMA Buckets ==
  /\ "files" \in Bucket /\ "certificates" \in Bucket /\ "apps" \in Bucket
  /\ Removable = {"files", "apps"} /\ Removable \subseteq Bucket
BY DEF Bucket, Removable

-----------------------------------------------------------------------------
(***************************************************************************)
(* Jobs                                                                    *)
(***************************************************************************)
LEMMA Memories ==
  ASSUME NEW m \in Memory
  PROVE  /\ m.jobs \subseteq Job /\ m.inFlight \in [Bucket -> BOOLEAN]
         /\ m.last \in [Bucket -> Snapshot \cup [Item -> Value \cup {None}] \cup {None}]
         /\ \A J \in SUBSET Job : [m EXCEPT !.jobs = J] \in Memory
         /\ \A b \in Bucket, t \in BOOLEAN, J \in SUBSET Job :
              [m EXCEPT !.inFlight[b] = t, !.jobs = J] \in Memory
         /\ \A b \in Bucket, s \in Snapshot \cup [Item -> Value \cup {None}] :
              [m EXCEPT !.last[b] = s] \in Memory
BY DEF Memory

LEMMA Jobs ==
  ASSUME NEW j \in Job
  PROVE  /\ j.bucket \in Bucket /\ j.snap \in Snapshot /\ j.key \in Key /\ j.todo \subseteq Item
         /\ j.step \in {"apply", "clear", "mark", "reject"}
         /\ [j EXCEPT !.step = "mark"] \in Job
         /\ [j EXCEPT !.step = "mark"].bucket = j.bucket
         /\ [j EXCEPT !.step = "mark"].step = "mark"
         /\ \A i : LET k == [j EXCEPT !.todo = @ \ {i}]
                   IN  /\ k \in Job /\ k.bucket = j.bucket /\ k.snap = j.snap
                       /\ k.step = j.step /\ k.todo = j.todo \ {i}
BY DEF Job

(* The job that is started on a state. *)
NewJob(b, st, s, key) ==
  [bucket |-> b,
   step |-> IF Clears(b, s) THEN "clear" ELSE IF Verifies(b, st, key) THEN "apply" ELSE "reject",
   snap |-> s, key |-> st.identity, todo |-> ToDo(b, st, s)]

LEMMA ToDoIsItems ==
  ASSUME NEW b \in Bucket, NEW st \in AgentState, NEW s \in Snapshot
  PROVE  ToDo(b, st, s) \subseteq Item
<1>1. \A r \in Signed : r.snap \in Snapshot
  BY SignedRows
<1>2. st.applied[b] # None => Wanted(b, st.applied[b].snap) \subseteq Item
  <2>1. st.applied[b] # None => st.applied[b].snap \in Snapshot
    BY <1>1, AgentStates
  <2> QED BY <2>1, Versions
<1>3. Wanted(b, s) \subseteq Item
  BY Versions
<1> DEFINE gone == IF st.applied[b] = None THEN {}
                   ELSE Wanted(b, st.applied[b].snap) \ Wanted(b, s)
<1>4. gone \subseteq Item
  BY <1>2
<1>5. b = "files" \/ b = "certificates" \/ b = "apps"
  BY DEF Bucket
<1>6. CASE b = "files"
  BY <1>3, <1>4, <1>6 DEF ToDo
<1>7. CASE b = "certificates"
  BY <1>3, <1>7 DEF ToDo
<1>8. CASE b = "apps"
  BY <1>3, <1>4, <1>8 DEF ToDo
<1> QED BY <1>5, <1>6, <1>7, <1>8

LEMMA NewJobs ==
  ASSUME NEW b \in Bucket, NEW st \in AgentState, st.identity # None, NEW s \in Snapshot, NEW key
  PROVE  /\ NewJob(b, st, s, key) \in Job
         /\ NewJob(b, st, s, key).bucket = b /\ NewJob(b, st, s, key).snap = s
         /\ NewJob(b, st, s, key).todo = ToDo(b, st, s)
         /\ b \in Removable => NewJob(b, st, s, key).step # "clear"
<1>1. st.identity \in Key /\ ToDo(b, st, s) \in SUBSET Item
  BY AgentStates, ToDoIsItems
<1>2. PICK step \in {"apply", "clear", "reject"} :
        /\ step = IF Clears(b, s) THEN "clear" ELSE IF Verifies(b, st, key) THEN "apply" ELSE "reject"
        /\ b \in Removable => step # "clear"
  BY DEF Clears, Removable
<1> QED BY <1>1, <1>2 DEF NewJob, Job

LEMMA StartKeeps ==
  ASSUME NEW m \in Memory, NEW b \in Bucket, NEW st \in AgentState, st.identity # None,
         NEW s \in Snapshot, NEW key
  PROVE  /\ Start(b, m, st, s, key) \in Memory
         /\ Start(b, m, st, s, key).jobs = m.jobs \cup {NewJob(b, st, s, key)}
         /\ Start(b, m, st, s, key).inFlight = [m.inFlight EXCEPT ![b] = TRUE]
<1>1. m.jobs \subseteq Job
  BY Memories
<1>2. NewJob(b, st, s, key) \in Job
  BY NewJobs
<1> PICK J \in SUBSET Job : J = m.jobs \cup {NewJob(b, st, s, key)}
  BY <1>1, <1>2
<1>3. Start(b, m, st, s, key) = [m EXCEPT !.inFlight[b] = TRUE, !.jobs = J]
  BY DEF Start, NewJob
<1> QED BY <1>3 DEF Memory

(* What a decision makes of the memory keeps its shape. *)
LEMMA DecisionKeepsTypes ==
  ASSUME NEW m \in Memory, NEW b \in Bucket, NEW st \in AgentState, NEW s \in Snapshot, NEW key
  PROVE  maybeApply(b, m, st, s, key) \in Memory
<1>1. CASE Starts(b, m, st, s)
  <2>1. st.identity # None
    BY <1>1 DEF Starts, MayStart
  <2>2. maybeApply(b, m, st, s, key) = Start(b, m, st, s, key)
    BY <1>1 DEF maybeApply
  <2>3. Start(b, m, st, s, key) \in Memory
    BY <2>1, StartKeeps
  <2> QED BY <2>2, <2>3
<1>2. CASE ~Starts(b, m, st, s)
  <2>1. maybeApply(b, m, st, s, key) = m \/ maybeApply(b, m, st, s, key) = [m EXCEPT !.last[b] = Version(b, s)]
    BY <1>2 DEF maybeApply
  <2> PICK v \in Snapshot \cup [Item -> Value \cup {None}] : v = Version(b, s)
    BY Versions
  <2>2. [m EXCEPT !.last[b] = v] \in Memory
    BY DEF Memory
  <2> QED BY <2>1, <2>2
<1> QED BY <1>1, <1>2

(* The collector's three decisions, one after the other. *)
LEMMA CollectorIs ==
  ASSUME NEW a \in AgentState
  PROVE  \/ maybeApplyAll(a) = mem
         \/ \E s \in Snapshot : \E key :
              maybeApplyAll(a)
                = maybeApply("apps",
                    maybeApply("certificates", maybeApply("files", mem, a, s, key), a, s, key),
                    a, s, key)
<1>1. CASE a.cache = None
  BY <1>1 DEF maybeApplyAll
<1>2. CASE a.cache # None
  <2>1. a.cache.snap \in Snapshot
    BY <1>2, AgentStates, SignedRows
  <2> QED BY <1>2, <2>1 DEF maybeApplyAll
<1> QED BY <1>1, <1>2

LEMMA CollectorKeepsTypes ==
  ASSUME NEW a \in AgentState, mem \in Memory
  PROVE  maybeApplyAll(a) \in Memory
<1>1. ASSUME NEW s \in Snapshot, NEW key
      PROVE  maybeApply("apps",
               maybeApply("certificates", maybeApply("files", mem, a, s, key), a, s, key),
               a, s, key) \in Memory
  <2>1. maybeApply("files", mem, a, s, key) \in Memory
    BY Buckets, DecisionKeepsTypes
  <2>2. maybeApply("certificates", maybeApply("files", mem, a, s, key), a, s, key) \in Memory
    BY <2>1, Buckets, DecisionKeepsTypes
  <2> QED BY <2>2, Buckets, DecisionKeepsTypes
<1> QED BY <1>1, CollectorIs

(* What a new job leaves alone is already as it is wanted. *)
LEMMA NewJobInPlace ==
  ASSUME NEW b \in Removable, NEW a \in AgentState, NEW s \in Snapshot,
         NEW j, j.bucket = b, j.snap = s, j.todo = ToDo(b, a, s)
  PROVE  DoneInPlace(j, a, device)
<1>1. Gone(j, a) \ j.todo = {} /\ j.todo \subseteq Wanted(b, s) \cup Gone(j, a)
  <2>1. Gone(j, a) = IF a.applied[b] = None THEN {} ELSE Wanted(b, a.applied[b].snap) \ Wanted(b, s)
    BY DEF Gone, Managed
  <2>2. CASE b = "files"
    BY <2>1, <2>2 DEF ToDo
  <2>3. CASE b = "apps"
    BY <2>1, <2>3 DEF ToDo
  <2> QED BY <2>2, <2>3 DEF Removable
<1>2. \A i \in Wanted(b, s) \ j.todo : Place(b, i) = i /\ device[b][i] = Content[s][b][i]
  <2>1. CASE b = "files"
    BY <2>1 DEF ToDo
  <2>2. CASE b = "apps"
    BY <2>2 DEF ToDo, Place
  <2> QED BY <2>1, <2>2 DEF Removable
<1> QED BY <1>1, <1>2 DEF DoneInPlace, InPlace

(* Where an item is, is an item. *)
LEMMA Places ==
  ASSUME NEW b, NEW i \in Item
  PROVE  Place(b, i) \in Item
BY SandboxFileAssumption DEF Place

LEMMA StartKeepsJobs ==
  ASSUME NEW m \in Memory, NEW a \in AgentState, JobsApply(m, a, device),
         NEW b \in Bucket, NEW st \in AgentState, b \in Removable => st = a /\ ~m.inFlight[b],
         st.identity # None, NEW s \in Snapshot, NEW key
  PROVE  JobsApply(Start(b, m, st, s, key), a, device)
<1> DEFINE n == Start(b, m, st, s, key)
           k == NewJob(b, st, s, key)
<1>1. n.jobs = m.jobs \cup {k} /\ n.inFlight = [m.inFlight EXCEPT ![b] = TRUE]
  BY StartKeeps
<1>2. /\ k \in Job /\ k.bucket = b /\ k.snap = s /\ k.todo = ToDo(b, st, s)
      /\ b \in Removable => k.step # "clear"
  BY NewJobs
<1>3. m.jobs \subseteq Job /\ m.inFlight \in [Bucket -> BOOLEAN]
  BY Memories
<1> HIDE DEF n, k
<1>4. ASSUME NEW j \in n.jobs, j.bucket \in Removable
      PROVE  /\ OneAtATime(n, j)
             /\ j.step # "clear"
             /\ j.step = "apply" => DoneInPlace(j, a, device)
  <2>1. CASE j.bucket = b
    <3>1. ~m.inFlight[b] /\ st = a /\ b \in Removable
      BY <1>4, <2>1
    <3>2. \A l \in m.jobs : l.bucket # b
      BY <3>1 DEF JobsApply, OneAtATime
    <3>3. j = k
      BY <1>1, <2>1, <3>2
    <3>4. OneAtATime(n, j)
      BY <1>1, <1>2, <1>3, <3>2, <3>3 DEF OneAtATime
    <3>5. DoneInPlace(j, a, device)
      BY <1>2, <3>1, <3>3, NewJobInPlace
    <3> QED BY <1>2, <3>1, <3>3, <3>4, <3>5
  <2>2. CASE j.bucket # b
    <3>1. j \in m.jobs
      BY <1>1, <1>2, <2>2
    <3>2. OneAtATime(m, j) /\ j.step # "clear" /\ (j.step = "apply" => DoneInPlace(j, a, device))
      BY <1>4, <3>1 DEF JobsApply
    <3>3. j.bucket \in Bucket
      BY <1>4, Buckets
    <3>4. OneAtATime(n, j)
      BY <1>1, <1>2, <1>3, <2>2, <3>2, <3>3 DEF OneAtATime
    <3> QED BY <3>2, <3>4
  <2> QED BY <2>1, <2>2
<1> QED BY <1>4 DEF JobsApply, n

LEMMA DecisionKeepsJobs ==
  ASSUME NEW m \in Memory, NEW a \in AgentState, JobsApply(m, a, device),
         NEW b \in Bucket, NEW st \in AgentState, b \in Removable => st = a,
         NEW s \in Snapshot, NEW key
  PROVE  JobsApply(maybeApply(b, m, st, s, key), a, device)
<1>1. CASE Starts(b, m, st, s)
  <2>1. st.identity # None /\ ~m.inFlight[b]
    BY <1>1 DEF Starts, MayStart
  <2>2. maybeApply(b, m, st, s, key) = Start(b, m, st, s, key)
    BY <1>1 DEF maybeApply
  <2>3. JobsApply(Start(b, m, st, s, key), a, device)
    BY <2>1, StartKeepsJobs
  <2> QED BY <2>2, <2>3
<1>2. CASE ~Starts(b, m, st, s)
  <2> DEFINE n == [m EXCEPT !.last[b] = Version(b, s)]
  <2>1. maybeApply(b, m, st, s, key) = m \/ maybeApply(b, m, st, s, key) = n
    BY <1>2 DEF maybeApply
  <2>2. n.jobs = m.jobs /\ n.inFlight = m.inFlight
    BY DEF Memory
  <2> HIDE DEF n
  <2>3. JobsApply(n, a, device)
    BY <2>2 DEF JobsApply, OneAtATime
  <2> QED BY <2>1, <2>3
<1> QED BY <1>1, <1>2

(* The collector's decisions keep the jobs apart, too. *)
LEMMA CollectorKeepsJobs ==
  ASSUME NEW a \in AgentState, mem \in Memory, JobsApply(mem, a, device)
  PROVE  JobsApply(maybeApplyAll(a), a, device)
<1>1. ASSUME NEW s \in Snapshot, NEW key
      PROVE  JobsApply(maybeApply("apps",
               maybeApply("certificates", maybeApply("files", mem, a, s, key), a, s, key),
               a, s, key), a, device)
  <2> DEFINE files == maybeApply("files", mem, a, s, key)
             certificates == maybeApply("certificates", files, a, s, key)
  <2>1. files \in Memory /\ JobsApply(files, a, device)
    BY Buckets, DecisionKeepsTypes, DecisionKeepsJobs
  <2> HIDE DEF files
  <2>2. certificates \in Memory /\ JobsApply(certificates, a, device)
    BY <2>1, Buckets, DecisionKeepsTypes, DecisionKeepsJobs
  <2> HIDE DEF certificates
  <2>3. JobsApply(maybeApply("apps", certificates, a, s, key), a, device)
    BY <2>2, Buckets, DecisionKeepsJobs
  <2> QED BY <2>3 DEF certificates, files
<1> QED BY <1>1, CollectorIs

-----------------------------------------------------------------------------
(***************************************************************************)
(* Every step keeps the types.                                             *)
(***************************************************************************)
SyncsTyped(S) == S \in [Source -> SyncWork] /\ \A x \in Source : Fetched(S[x], x)

LEMMA TypesAre ==
  Types <=> /\ served \in Snapshot /\ serverKey \in 0..MaxEnrollments
            /\ agent \in AgentState /\ dirty \in BOOLEAN
            /\ target \in Target \cup {None} /\ SyncsTyped(sync)
            /\ mem \in Memory /\ device \in [{"files", "apps"} -> [Item -> Value \cup {None}]]
            /\ publishes \in 0..MaxPublishes /\ faults \in 0..MaxFaults
BY DEF Types, TypeOK, SyncTypeOK, ContentTypeOK, SyncsTyped

LEMMA SyncChanges ==
  ASSUME NEW S, SyncsTyped(S), NEW x \in Source, NEW w \in SyncWork, Fetched(w, x)
  PROVE  SyncsTyped([S EXCEPT ![x] = w])
BY DEF SyncsTyped

LEMMA SyncEnding ==
  ASSUME NEW S, SyncsTyped(S), NEW x \in Source
  PROVE  SyncsTyped([S EXCEPT ![x] = IdleSync])
<1>1. IdleSync \in SyncWork /\ Fetched(IdleSync, x)
  BY Syncs
<1> QED BY <1>1, SyncChanges

LEMMA NoSyncs == SyncsTyped([x \in Source |-> IdleSync])
<1>1. IdleSync \in SyncWork /\ \A x \in Source : Fetched(IdleSync, x)
  BY Syncs
<1> QED BY <1>1 DEF SyncsTyped

LEMMA ConfigSyncStarts ==
  ASSUME NEW state \in AgentState, NEW S, SyncsTyped(S), maybeStartConfigSync(state, S)
  PROVE  target' \in Target \cup {None} /\ SyncsTyped(sync')
<1> DEFINE wanted == IF state.identity = None THEN None
                     ELSE [key |-> state.identity,
                           snap |-> IF state.cache = None THEN None ELSE state.cache.snap]
<1>1. wanted \in Target \cup {None}
  <2>1. PICK v \in Snapshot \cup {None} : v = IF state.cache = None THEN None ELSE state.cache.snap
    BY AgentStates, SignedRows
  <2>2. state.identity \in Key \cup {None}
    BY AgentStates
  <2> QED BY <2>1, <2>2 DEF Target
<1>2. target' = wanted /\ (sync' = S \/ sync' = [S EXCEPT !["periodic"] = IdleSync])
  BY DEF maybeStartConfigSync
<1>3. SyncsTyped([S EXCEPT !["periodic"] = IdleSync])
  BY Sources, SyncEnding
<1> QED BY <1>1, <1>2, <1>3

LEMMA KeysAreKeys ==
  ASSUME Types, NEW x \in Source, KeyOf(x) # None
  PROVE  KeyOf(x) \in Key
<1>1. x = "initial" \/ x = "periodic" \/ x = "request"
  BY DEF Source
<1>2. target # None => target.key \in Key
  BY TypesAre DEF Target
<1>3. agent.identity \in Key \cup {None}
  BY TypesAre, AgentStates
<1>4. sync[x].key \in Key \cup {None}
  BY TypesAre DEF SyncsTyped, SyncWork
<1> QED BY <1>1, <1>2, <1>3, <1>4 DEF KeyOf

LEMMA FetchTypes ==
  ASSUME Types, NEW x \in Source, Fetch(x)
  PROVE  SyncsTyped(sync')
<1>1. served \in Snapshot /\ serverKey \in Key /\ SyncsTyped(sync)
  BY KeysAreKeys, TypesAre DEF Fetch
<1> PICK a \in AgentState \cup {None} : /\ a = IF x = "request" THEN ForCertificates(agent) ELSE None
                                        /\ x = "request" => a \in AgentState
  BY AgentStates, TypesAre
<1> DEFINE w == [step |-> "save", snap |-> served, key |-> serverKey, state |-> a]
<1>2. w \in SyncWork /\ Fetched(w, x)
  BY <1>1, Syncs
<1>3. sync' = [sync EXCEPT ![x] = w]
  BY DEF Fetch
<1> HIDE DEF w
<1> QED BY <1>1, <1>2, <1>3, SyncChanges

LEMMA SaveTypes ==
  ASSUME Types, NEW x \in Source, Save(x)
  PROVE  SyncsTyped(sync') /\ agent' \in AgentState /\ dirty' \in BOOLEAN /\ agent'.applied = agent.applied
<1>1. SyncsTyped(sync) /\ agent \in AgentState /\ sync[x] \in SyncWork /\ Fetched(sync[x], x)
  BY TypesAre DEF SyncsTyped
<1>2. sync[x].step = "save" /\ dirty' = TRUE
  BY DEF Save, savePolicyCache, Edit
<1>3. sync[x].snap \in Snapshot /\ sync[x].key \in Key
  BY <1>1, <1>2 DEF Fetched
<1> PICK c \in Signed : c = [snap |-> sync[x].snap, key |-> sync[x].key]
  BY <1>3, SignedRows
<1>4. agent' = [agent EXCEPT !.cache = c]
  BY DEF Save, savePolicyCache, Edit
<1>5. agent' \in AgentState /\ agent'.applied = agent.applied
  BY <1>1, <1>4, AgentStates
<1> DEFINE w == [sync[x] EXCEPT !.step = "certificates"]
<1>6. w \in SyncWork /\ Fetched(w, x)
  BY <1>1, <1>2, Syncs
<1>7. sync' = [sync EXCEPT ![x] = w]
  BY <1>1 DEF Save, Proceed, SyncsTyped
<1> HIDE DEF w
<1>8. SyncsTyped(sync')
  BY <1>1, <1>6, <1>7, SyncChanges
<1> QED BY <1>2, <1>5, <1>8

LEMMA StateAfterTypes ==
  ASSUME Types, NEW x \in Source, sync[x].step = "certificates"
  PROVE  StateAfter(x) \in AgentState /\ sync[x].snap \in Snapshot /\ sync[x].key \in Key
BY TypesAre DEF SyncsTyped, Fetched, StateAfter

LEMMA EnrollTypes ==
  ASSUME Types, enroll
  PROVE  /\ target' \in Target \cup {None} /\ SyncsTyped(sync') /\ serverKey' \in 0..MaxEnrollments
         /\ agent' \in AgentState /\ dirty' \in BOOLEAN /\ agent'.applied = agent.applied
<1>1. /\ SyncsTyped(sync) /\ agent \in AgentState /\ serverKey \in 0..MaxEnrollments
      /\ target \in Target \cup {None}
  BY TypesAre
<1> PICK k \in Key : k = serverKey + 1
  BY <1>1, MaxEnrollmentsAssumption DEF enroll, Key
<1>2. serverKey' \in 0..MaxEnrollments /\ dirty' = TRUE /\ agent' = [agent EXCEPT !.identity = k]
  BY <1>1, MaxEnrollmentsAssumption DEF enroll, Edit
<1> DEFINE w == [IdleSync EXCEPT !.step = "fetch", !.key = k]
           S == [sync EXCEPT !["initial"] = w]
           state == [EmptyState EXCEPT !.identity = k]
<1>3. w \in SyncWork /\ Fetched(w, "initial") /\ state \in AgentState
  BY Syncs, EmptyStates
<1>4. maybeStartConfigSync(state, S)
  BY DEF enroll
<1> HIDE DEF w
<1>5. SyncsTyped(S)
  BY <1>1, <1>3, Sources, SyncChanges
<1> HIDE DEF S, state
<1>6. target' \in Target \cup {None} /\ SyncsTyped(sync')
  BY <1>3, <1>4, <1>5, ConfigSyncStarts
<1>7. agent' \in AgentState /\ agent'.applied = agent.applied
  BY <1>1, <1>2, AgentStates
<1> QED BY <1>2, <1>6, <1>7

LEMMA ReplaceIs ==
  ASSUME mem \in Memory, NEW j, NEW k \in Job
  PROVE  /\ Replace(j, k) \in Memory /\ Replace(j, k).inFlight = mem.inFlight
         /\ Replace(j, k).jobs = (mem.jobs \ {j}) \cup {k}
BY DEF Replace, Memory

LEMMA FinishIs ==
  ASSUME mem \in Memory, NEW j \in Job
  PROVE  /\ Finish(j) \in Memory /\ Finish(j).jobs = mem.jobs \ {j}
         /\ Finish(j).inFlight = [mem.inFlight EXCEPT ![j.bucket] = FALSE]
<1>1. j.bucket \in Bucket
  BY Jobs
<1> QED BY <1>1 DEF Finish, Memory

LEMMA AppliesTypes ==
  ASSUME Types, NEW j \in mem.jobs, NEW i \in j.todo, Applies(j, i)
  PROVE  mem' \in Memory /\ device' \in [{"files", "apps"} -> [Item -> Value \cup {None}]]
<1>1. mem \in Memory /\ device \in [{"files", "apps"} -> [Item -> Value \cup {None}]]
  BY TypesAre
<1>2. j \in Job
  BY <1>1, Memories
<1> DEFINE k == [j EXCEPT !.todo = @ \ {i}]
<1>3. k \in Job
  BY <1>2, Jobs
<1>4. mem' = Replace(j, k)
  BY DEF Applies
<1> HIDE DEF k
<1>5. mem' \in Memory
  BY <1>1, <1>3, <1>4, ReplaceIs
<1>6. j.bucket \in Bucket /\ j.snap \in Snapshot /\ i \in Item
  BY <1>2, Jobs
<1>7. PICK v \in Value \cup {None} : v = Content[j.snap][j.bucket][i]
  BY <1>6, Versions
<1> PICK p \in Item : p = Place(j.bucket, i)
  BY <1>6, Places
<1>8. device' = IF j.bucket = "certificates" THEN device ELSE [device EXCEPT ![j.bucket][p] = v]
  BY <1>7 DEF Applies
<1>9. j.bucket = "certificates" \/ j.bucket \in {"files", "apps"}
  BY <1>6 DEF Bucket
<1> QED BY <1>1, <1>5, <1>6, <1>8, <1>9

LEMMA SavesTypes ==
  ASSUME Types, NEW j \in mem.jobs, Saves(j)
  PROVE  /\ mem' \in Memory /\ agent' \in AgentState /\ dirty' \in BOOLEAN
         /\ mem'.inFlight = mem.inFlight
         /\ mem'.jobs = (mem.jobs \ {j}) \cup {[j EXCEPT !.step = "mark"]}
         /\ j.step # "clear" => agent'.applied = [agent.applied EXCEPT ![j.bucket] = [snap |-> j.snap, key |-> j.key]]
         /\ j.step = "clear" => agent'.applied = [agent.applied EXCEPT ![j.bucket] = None]
<1>1. mem \in Memory /\ agent \in AgentState /\ j \in Job
  BY TypesAre, Memories
<1>2. [j EXCEPT !.step = "mark"] \in Job /\ j.bucket \in Bucket /\ j.snap \in Snapshot /\ j.key \in Key
  BY <1>1, Jobs
<1> PICK r \in Signed \cup {None} : r = IF j.step = "clear" THEN None ELSE [snap |-> j.snap, key |-> j.key]
  BY <1>2, SignedRows
<1>3. agent' = [agent EXCEPT !.applied[j.bucket] = r] /\ dirty' = TRUE
  BY DEF Saves, Edit
<1>4. agent' \in AgentState /\ agent'.applied = [agent.applied EXCEPT ![j.bucket] = r]
  BY <1>1, <1>2, <1>3, RecordedStates
<1>5. mem' = Replace(j, [j EXCEPT !.step = "mark"])
  BY DEF Saves
<1>6. /\ mem' \in Memory /\ mem'.inFlight = mem.inFlight
      /\ mem'.jobs = (mem.jobs \ {j}) \cup {[j EXCEPT !.step = "mark"]}
  BY <1>1, <1>2, <1>5, ReplaceIs
<1> QED BY <1>3, <1>4, <1>6

LEMMA EndsTypes ==
  ASSUME Types, NEW j \in mem.jobs, Marks(j) \/ JobThrows(j)
  PROVE  /\ mem' \in Memory /\ mem'.jobs = mem.jobs \ {j}
         /\ mem'.inFlight = [mem.inFlight EXCEPT ![j.bucket] = FALSE]
<1>1. mem \in Memory /\ j \in Job
  BY TypesAre, Memories
<1>2. /\ Finish(j) \in Memory /\ Finish(j).jobs = mem.jobs \ {j}
      /\ Finish(j).inFlight = [mem.inFlight EXCEPT ![j.bucket] = FALSE]
  BY <1>1, FinishIs
<1>3. j.bucket \in Bucket /\ j.snap \in Snapshot
  BY <1>1, Jobs
<1> PICK v \in Snapshot \cup [Item -> Value \cup {None}] : v = Version(j.bucket, j.snap)
  BY <1>3, Versions
<1> PICK m \in Memory : m = Finish(j)
  BY <1>2
<1>4. mem' = m \/ mem' = [m EXCEPT !.last[j.bucket] = v]
  BY DEF Marks, JobThrows
<1>5. LET n == [m EXCEPT !.last[j.bucket] = v]
      IN  n \in Memory /\ n.jobs = m.jobs /\ n.inFlight = m.inFlight
  BY <1>3 DEF Memory
<1> QED BY <1>2, <1>4, <1>5

LEMMA InitialTypes ==
  ASSUME Types, InitialSyncEnds
  PROVE  mem' \in Memory /\ target' \in Target \cup {None} /\ SyncsTyped(sync')
<1> DEFINE x == sync["initial"]
           state == [EmptyState EXCEPT !.identity = x.key, !.cache = [snap |-> x.snap, key |-> x.key]]
           S == [sync EXCEPT !["initial"] = IdleSync]
<1>1. agent \in AgentState /\ mem \in Memory /\ SyncsTyped(sync)
  BY TypesAre
<1>2. x.snap \in Snapshot /\ x.key \in Key
  BY StateAfterTypes, Sources DEF InitialSyncEnds
<1>3. maybeStartConfigSync(state, S) /\ mem' = maybeApply("certificates", mem, agent, x.snap, x.key)
  BY DEF InitialSyncEnds
<1> HIDE DEF x
<1>4. state \in AgentState
  BY <1>2, EmptyStates, SignedRows
<1>5. SyncsTyped(S)
  BY <1>1, Sources, SyncEnding
<1> HIDE DEF state, S
<1>6. target' \in Target \cup {None} /\ SyncsTyped(sync')
  BY <1>3, <1>4, <1>5, ConfigSyncStarts
<1>7. mem' \in Memory
  BY <1>1, <1>2, <1>3, Buckets, DecisionKeepsTypes
<1> QED BY <1>6, <1>7

LEMMA SyncEndsTypes ==
  ASSUME Types, NEW x \in Source, SyncEnds(x) \/ SyncRaces(x)
  PROVE  mem' \in Memory /\ SyncsTyped(sync')
<1>1. /\ mem \in Memory /\ SyncsTyped(sync) /\ sync[x].step = "certificates"
      /\ sync' = [sync EXCEPT ![x] = IdleSync]
  BY TypesAre DEF SyncEnds, SyncRaces, Ends
<1>2. StateAfter(x) \in AgentState /\ sync[x].snap \in Snapshot
  BY <1>1, StateAfterTypes
<1>3. SyncsTyped(sync')
  BY <1>1, SyncEnding
<1>4. CASE SyncEnds(x)
  <2>1. mem' = maybeApply("certificates", mem, StateAfter(x), sync[x].snap, sync[x].key)
    BY <1>4 DEF SyncEnds
  <2>2. mem' \in Memory
    BY <1>1, <1>2, <2>1, Buckets, DecisionKeepsTypes
  <2> QED BY <1>3, <2>2
<1>5. CASE SyncRaces(x)
  <2>1. /\ mem' = Start("certificates", mem, StateAfter(x), sync[x].snap, sync[x].key)
        /\ StateAfter(x).identity # None
    BY <1>5 DEF SyncRaces, Starts, MayStart
  <2>2. mem' \in Memory
    BY <1>1, <1>2, <2>1, Buckets, StartKeeps
  <2> QED BY <1>3, <2>2
<1> QED BY <1>4, <1>5

LEMMA BoundsStay ==
  ASSUME Types, UNCHANGED boundVars \/ Fault
  PROVE  publishes' \in 0..MaxPublishes /\ faults' \in 0..MaxFaults
BY BoundsAssumption, TypesAre DEF boundVars, Fault

LEMMA TypesStep ==
  ASSUME Types, [Next]_vars
  PROVE  Types'
<1> DEFINE Server == served' \in Snapshot /\ serverKey' \in 0..MaxEnrollments
           Agent == agent' \in AgentState /\ dirty' \in BOOLEAN
           Sync == target' \in Target \cup {None} /\ SyncsTyped(sync')
           Phone == mem' \in Memory /\ device' \in [{"files", "apps"} -> [Item -> Value \cup {None}]]
           Bounds == publishes' \in 0..MaxPublishes /\ faults' \in 0..MaxFaults
<1>1. /\ UNCHANGED serverVars => Server
      /\ UNCHANGED <<agent, dirty>> => Agent
      /\ UNCHANGED <<target, sync>> => Sync
      /\ UNCHANGED contentVars => Phone
      /\ (UNCHANGED boundVars \/ Fault) => Bounds
      /\ mem' \in Memory /\ UNCHANGED device => Phone
      /\ UNCHANGED target /\ SyncsTyped(sync') => Sync
  BY TypesAre, BoundsStay DEF serverVars, contentVars, SyncsTyped
<1> SUFFICES Server /\ Agent /\ Sync /\ Phone /\ Bounds
  BY DEF Types, TypeOK, SyncTypeOK, ContentTypeOK, SyncsTyped
<1>2. ASSUME NEW s \in Snapshot, Publish(s) PROVE Server /\ Agent /\ Sync /\ Phone /\ Bounds
  <2>1. Server /\ Bounds
    BY <1>2, BoundsAssumption, TypesAre DEF Publish
  <2>2. UNCHANGED <<agent, dirty>> /\ UNCHANGED <<target, sync>> /\ UNCHANGED contentVars
    BY <1>2 DEF Publish, syncVars
  <2> QED BY <1>1, <2>1, <2>2
<1>3. CASE Enroll
  <2>1. enroll /\ UNCHANGED contentVars /\ UNCHANGED boundVars /\ served' = served
    BY <1>3 DEF Enroll, enroll
  <2>2. Agent /\ Sync /\ serverKey' \in 0..MaxEnrollments
    BY <2>1, EnrollTypes
  <2>3. Server
    BY <2>1, <2>2, TypesAre
  <2> QED BY <1>1, <2>1, <2>2, <2>3
<1>4. CASE Reprovision
  <2>1. /\ agent' = EmptyState /\ dirty' = TRUE /\ mem' = [Fresh EXCEPT !.jobs = mem.jobs]
        /\ UNCHANGED device /\ UNCHANGED <<target, sync>> /\ UNCHANGED serverVars /\ UNCHANGED boundVars
    BY <1>4 DEF Reprovision, Edit
  <2>2. Agent
    BY <2>1, EmptyStates
  <2>3. mem' \in Memory
    <3>1. mem.jobs \subseteq Job
      BY TypesAre, Memories
    <3> QED BY <2>1, <3>1 DEF Fresh, Memory
  <2> QED BY <1>1, <2>1, <2>2, <2>3
<1>5. CASE Collect
  <2>1. /\ agent' = agent /\ dirty' = FALSE /\ mem' = maybeApplyAll(agent)
        /\ UNCHANGED device /\ UNCHANGED serverVars /\ UNCHANGED boundVars
        /\ maybeStartConfigSync(agent, sync)
    BY <1>5 DEF Collect
  <2>2. Agent
    BY <2>1, TypesAre
  <2>3. Sync
    BY <2>1, TypesAre, ConfigSyncStarts
  <2>4. mem' \in Memory
    BY <2>1, TypesAre, CollectorKeepsTypes
  <2> QED BY <1>1, <2>1, <2>2, <2>3, <2>4
<1>6. CASE InitialSyncEnds
  <2>1. UNCHANGED <<agent, dirty>> /\ UNCHANGED device /\ UNCHANGED serverVars /\ UNCHANGED boundVars
    BY <1>6 DEF InitialSyncEnds
  <2>2. mem' \in Memory /\ Sync
    BY <1>6, InitialTypes
  <2> QED BY <1>1, <2>1, <2>2
<1>7. ASSUME NEW x \in Source, SyncStep(x) PROVE Server /\ Agent /\ Sync /\ Phone /\ Bounds
  <2>1. CASE Fetch(x) /\ UNCHANGED <<contentVars, boundVars>>
    <3>1. /\ UNCHANGED <<agent, dirty>> /\ UNCHANGED target /\ UNCHANGED serverVars
          /\ UNCHANGED contentVars /\ UNCHANGED boundVars
      BY <2>1 DEF Fetch
    <3>2. SyncsTyped(sync')
      BY <2>1, FetchTypes
    <3> QED BY <1>1, <3>1, <3>2
  <2>2. CASE Save(x) /\ UNCHANGED <<contentVars, boundVars>>
    <3>1. UNCHANGED target /\ UNCHANGED serverVars /\ UNCHANGED contentVars /\ UNCHANGED boundVars
      BY <2>2 DEF Save
    <3>2. SyncsTyped(sync') /\ Agent
      BY <2>2, SaveTypes
    <3> QED BY <1>1, <3>1, <3>2
  <2>3. CASE SyncEnds(x)
    <3>1. /\ UNCHANGED <<agent, dirty>> /\ UNCHANGED target /\ UNCHANGED serverVars
          /\ UNCHANGED device /\ UNCHANGED boundVars
      BY <2>3 DEF SyncEnds
    <3>2. mem' \in Memory /\ SyncsTyped(sync')
      BY <2>3, SyncEndsTypes
    <3> QED BY <1>1, <3>1, <3>2
  <2> QED BY <1>7, <2>1, <2>2, <2>3 DEF SyncStep
<1>8. ASSUME NEW x \in Source, SyncRaces(x) PROVE Server /\ Agent /\ Sync /\ Phone /\ Bounds
  <2>1. /\ UNCHANGED <<agent, dirty>> /\ UNCHANGED target /\ UNCHANGED serverVars
        /\ UNCHANGED device /\ Fault
    BY <1>8 DEF SyncRaces
  <2>2. mem' \in Memory /\ SyncsTyped(sync')
    BY <1>8, SyncEndsTypes
  <2> QED BY <1>1, <2>1, <2>2
<1>9. ASSUME NEW x \in Source, SyncFails(x) PROVE Server /\ Agent /\ Sync /\ Phone /\ Bounds
  <2>1. /\ UNCHANGED <<agent, dirty>> /\ UNCHANGED target /\ UNCHANGED serverVars
        /\ UNCHANGED contentVars /\ (UNCHANGED boundVars \/ Fault)
        /\ sync' = [sync EXCEPT ![x] = IdleSync]
    BY <1>9 DEF SyncFails, SyncThrows, Ends
  <2>2. SyncsTyped(sync')
    BY <2>1, TypesAre, SyncEnding
  <2> QED BY <1>1, <2>1, <2>2
<1>10. ASSUME NEW j \in mem.jobs, JobStep(j) PROVE Server /\ Agent /\ Sync /\ Phone /\ Bounds
  <2>1. UNCHANGED boundVars
    BY <1>10 DEF JobStep
  <2>2. ASSUME NEW i \in j.todo, Applies(j, i) PROVE Server /\ Agent /\ Sync /\ Phone /\ Bounds
    <3>1. UNCHANGED serverVars /\ UNCHANGED <<agent, dirty>> /\ UNCHANGED <<target, sync>>
      BY <2>2 DEF Applies, syncVars
    <3>2. Phone
      BY <2>2, AppliesTypes
    <3> QED BY <1>1, <2>1, <3>1, <3>2
  <2>3. CASE Saves(j)
    <3>1. UNCHANGED serverVars /\ UNCHANGED <<target, sync>> /\ UNCHANGED device
      BY <2>3 DEF Saves
    <3>2. mem' \in Memory /\ Agent
      BY <2>3, SavesTypes
    <3> QED BY <1>1, <2>1, <3>1, <3>2
  <2>4. CASE Marks(j)
    <3>1. UNCHANGED serverVars /\ UNCHANGED <<agent, dirty>> /\ UNCHANGED <<target, sync>> /\ UNCHANGED device
      BY <2>4 DEF Marks, syncVars
    <3>2. mem' \in Memory
      BY <2>4, EndsTypes
    <3> QED BY <1>1, <2>1, <3>1, <3>2
  <2> QED BY <1>10, <2>2, <2>3, <2>4 DEF JobStep
<1>11. ASSUME NEW j \in mem.jobs, JobFails(j) PROVE Server /\ Agent /\ Sync /\ Phone /\ Bounds
  <2>1. /\ UNCHANGED serverVars /\ UNCHANGED <<agent, dirty>> /\ UNCHANGED <<target, sync>>
        /\ UNCHANGED device /\ (UNCHANGED boundVars \/ Fault) /\ JobThrows(j)
    BY <1>11 DEF JobFails, JobThrows, syncVars
  <2>2. mem' \in Memory
    BY <2>1, EndsTypes
  <2> QED BY <1>1, <2>1, <2>2
<1>12. CASE Restart
  <2>1. /\ UNCHANGED serverVars /\ agent' = agent /\ dirty' = TRUE /\ UNCHANGED device /\ Fault
        /\ target' = None /\ sync' = [x \in Source |-> IdleSync] /\ mem' = Fresh
    BY <1>12 DEF Restart
  <2>2. Agent /\ Sync
    BY <2>1, TypesAre, NoSyncs
  <2>3. mem' \in Memory
    BY <2>1 DEF Fresh, Memory
  <2> QED BY <1>1, <2>1, <2>2, <2>3
<1>13. CASE UNCHANGED vars
  BY <1>1, <1>13 DEF vars, syncVars
<1> QED BY <1>2, <1>3, <1>4, <1>5, <1>6, <1>7, <1>8, <1>9, <1>10, <1>11, <1>12, <1>13 DEF Next

-----------------------------------------------------------------------------
(***************************************************************************)
(* Every step keeps the jobs of a bucket apart, if no bootstrap comes      *)
(* while one is under way.                                                 *)
(***************************************************************************)
Apart == JobsApply(mem, agent, device)

(* Only what is on record matters of a state. *)
LEMMA SameRecord ==
  ASSUME Apart, mem' = mem, device' = device, agent'.applied = agent.applied
  PROVE  Apart'
BY DEF Apart, JobsApply, OneAtATime, DoneInPlace, Gone, Managed

LEMMA NoJobs ==
  ASSUME mem'.jobs = {}
  PROVE  Apart'
BY DEF Apart, JobsApply

(* Writing or deleting the file of one item. *)
LEMMA Written ==
  ASSUME NEW d, NEW e, NEW b, NEW s, NEW wanted, NEW i, InPlace(d, b, s, wanted, {}),
         e[b][Place(b, i)] = Content[s][b][i],
         \A k \in wanted : Place(b, k) # Place(b, i) => e[b][Place(b, k)] = d[b][Place(b, k)]
  PROVE  InPlace(e, b, s, wanted \cup {i}, {})
BY DEF InPlace

LEMMA Deleted ==
  ASSUME NEW d, NEW e, NEW b, NEW s, NEW wanted, NEW dropped, NEW i,
         InPlace(d, b, s, wanted, dropped), e[b][Place(b, i)] = None,
         \A k \in wanted \cup dropped :
           Place(b, k) # Place(b, i) => e[b][Place(b, k)] = d[b][Place(b, k)]
  PROVE  InPlace(e, b, s, wanted, dropped \cup {i})
<1>1. ASSUME NEW k \in wanted
      PROVE  \/ \E h \in dropped \cup {i} : Place(b, h) = Place(b, k)
             \/ \E h \in wanted : Place(b, h) = Place(b, k) /\ e[b][Place(b, k)] = Content[s][b][h]
  BY <1>1 DEF InPlace
<1>2. \A k \in dropped \cup {i} : e[b][Place(b, k)] = None
  BY DEF InPlace
<1> QED BY <1>1, <1>2 DEF InPlace

LEMMA AppliesApart ==
  ASSUME Types, Apart, NEW j \in mem.jobs, NEW i \in j.todo, Applies(j, i)
  PROVE  Apart'
<1>1. mem \in Memory /\ mem.jobs \subseteq Job /\ device \in [Removable -> [Item -> Value \cup {None}]]
  BY TypesAre, Memories, Buckets
<1>2. j \in Job /\ agent' = agent
  BY <1>1 DEF Applies, syncVars
<1> DEFINE k == [j EXCEPT !.todo = @ \ {i}]
<1>3. /\ k \in Job /\ k.bucket = j.bucket /\ k.snap = j.snap /\ k.step = j.step
      /\ k.todo = j.todo \ {i}
  BY <1>2 DEF Job
<1>4. mem' = Replace(j, k) /\ j.step = "apply"
  BY DEF Applies
<1> HIDE DEF k
<1>5. mem'.jobs = (mem.jobs \ {j}) \cup {k} /\ mem'.inFlight = mem.inFlight
  BY <1>1, <1>3, <1>4, ReplaceIs
<1>6. j.bucket \in Bucket /\ j.snap \in Snapshot /\ i \in Item
  BY <1>2, Jobs
<1>7. PICK v \in Value \cup {None} : v = Content[j.snap][j.bucket][i]
  BY <1>6, Versions
<1> PICK p \in Item : p = Place(j.bucket, i)
  BY <1>6, Places
<1>8. device' = IF j.bucket = "certificates" THEN device ELSE [device EXCEPT ![j.bucket][p] = v]
  BY <1>7 DEF Applies
<1>9. \A b \in Removable : b # j.bucket => device'[b] = device[b]
  BY <1>1, <1>8
<1>10. ASSUME NEW l \in mem'.jobs, l.bucket \in Removable
       PROVE  OneAtATime(mem', l) /\ l.step # "clear" /\ (l.step = "apply" => DoneInPlace(l, agent, device'))
  <2>1. CASE l = k
    <3>1. j.bucket \in Removable /\ OneAtATime(mem, j) /\ DoneInPlace(j, agent, device)
      BY <1>3, <1>4, <1>10, <2>1 DEF Apart, JobsApply
    <3>2. OneAtATime(mem', l)
      BY <1>3, <1>5, <2>1, <3>1 DEF OneAtATime
    <3>3. j.bucket # "certificates"
      BY <3>1, Buckets
    <3>4. /\ device'[j.bucket][p] = v
          /\ \A h \in Item : h # p => device'[j.bucket][h] = device[j.bucket][h]
      BY <1>1, <1>6, <1>8, <3>1, <3>3
    <3> DEFINE W == Wanted(j.bucket, j.snap)
               G == Gone(j, agent)
    <3>5. W \subseteq Item /\ G \subseteq Item
      BY DEF Gone, Managed, Wanted
    <3>6. \A h \in W \cup G : Place(j.bucket, h) # p
             => device'[j.bucket][Place(j.bucket, h)] = device[j.bucket][Place(j.bucket, h)]
      BY <3>4, <3>5, Places
    <3>7. /\ InPlace(device, j.bucket, j.snap, W \ j.todo, G \ j.todo)
          /\ G \ j.todo # {} => j.todo \cap W = {}
          /\ j.todo \subseteq W \cup G
      BY <3>1 DEF DoneInPlace
    <3>8. i \in IF j.todo \cap W # {} THEN j.todo \cap W ELSE j.todo
      BY DEF Applies
    <3>9. W \cap G = {}
      BY DEF Gone
    <3>10. Gone(l, agent) = G /\ Wanted(l.bucket, l.snap) = W
      BY <1>3, <2>1 DEF Gone
    <3> HIDE DEF W, G
    <3>11. CASE i \in W
      <4>1. G \ j.todo = {} /\ G \ k.todo = {} /\ W \ k.todo = (W \ j.todo) \cup {i}
        BY <1>3, <3>7, <3>9, <3>11
      <4>2. InPlace(device', j.bucket, j.snap, (W \ j.todo) \cup {i}, {})
        <5>1. InPlace(device, j.bucket, j.snap, W \ j.todo, {})
          BY <3>7, <4>1, Zenon
        <5>2. device'[j.bucket][Place(j.bucket, i)] = Content[j.snap][j.bucket][i]
          BY <1>7, <3>4
        <5>3. \A h \in W \ j.todo : Place(j.bucket, h) # Place(j.bucket, i)
                => device'[j.bucket][Place(j.bucket, h)] = device[j.bucket][Place(j.bucket, h)]
          BY <3>6
        <5> QED BY <5>1, <5>2, <5>3, Written
      <4> QED BY <1>3, <2>1, <3>2, <3>7, <3>10, <4>1, <4>2, <1>4 DEF DoneInPlace
    <3>12. CASE i \notin W
      <4>1. j.todo \cap W = {} /\ i \in G
        BY <3>7, <3>8, <3>12
      <4>2. W \ k.todo = W \ j.todo /\ G \ k.todo = (G \ j.todo) \cup {i}
            /\ k.todo \cap W = {} /\ k.todo \subseteq W \cup G
        BY <1>3, <3>7, <3>12, <4>1
      <4>3. v = None
        BY <1>6, <1>7, <3>12 DEF Wanted, W
      <4>4. InPlace(device', j.bucket, j.snap, W \ j.todo, (G \ j.todo) \cup {i})
        BY <3>4, <3>6, <3>7, <4>3, Deleted
      <4> QED BY <1>3, <2>1, <3>2, <3>10, <4>2, <4>4, <1>4 DEF DoneInPlace
    <3> QED BY <3>11, <3>12
  <2>2. CASE l # k
    <3>1. l \in mem.jobs /\ l # j
      BY <1>5, <1>10, <2>2
    <3>2. OneAtATime(mem, l) /\ l.step # "clear" /\ (l.step = "apply" => DoneInPlace(l, agent, device))
      BY <1>10, <3>1 DEF Apart, JobsApply
    <3>3. j.bucket # l.bucket
      BY <3>1, <3>2 DEF OneAtATime
    <3>4. OneAtATime(mem', l)
      BY <1>3, <1>5, <3>2, <3>3 DEF OneAtATime
    <3>5. device'[l.bucket] = device[l.bucket]
      BY <1>9, <1>10, <3>3
    <3> QED BY <3>2, <3>4, <3>5 DEF DoneInPlace, InPlace
  <2> QED BY <2>1, <2>2
<1> QED BY <1>2, <1>10 DEF Apart, JobsApply

LEMMA SavesApart ==
  ASSUME Types, Apart, NEW j \in mem.jobs, Saves(j)
  PROVE  Apart'
<1>1. mem.jobs \subseteq Job /\ j \in Job /\ agent.applied \in [Bucket -> Signed \cup {None}]
  BY TypesAre, Memories, AgentStates
<1> DEFINE k == [j EXCEPT !.step = "mark"]
<1>2. k.bucket = j.bucket /\ k.step = "mark" /\ j.bucket \in Bucket
  BY <1>1, Jobs
<1>3. /\ mem'.inFlight = mem.inFlight /\ mem'.jobs = (mem.jobs \ {j}) \cup {k}
      /\ \A b \in Bucket : b # j.bucket => agent'.applied[b] = agent.applied[b]
  BY <1>1, SavesTypes
<1>4. device' = device
  BY DEF Saves
<1> HIDE DEF k
<1>5. ASSUME NEW l \in mem'.jobs, l.bucket \in Removable
      PROVE  OneAtATime(mem', l) /\ l.step # "clear" /\ (l.step = "apply" => DoneInPlace(l, agent', device'))
  <2>1. CASE l = k
    <3>1. OneAtATime(mem, j)
      BY <1>2, <1>5, <2>1 DEF Apart, JobsApply
    <3> QED BY <1>2, <1>3, <2>1, <3>1 DEF OneAtATime
  <2>2. CASE l # k
    <3>1. l \in mem.jobs /\ l # j
      BY <1>3, <1>5, <2>2
    <3>2. OneAtATime(mem, l) /\ l.step # "clear" /\ (l.step = "apply" => DoneInPlace(l, agent, device))
      BY <1>5, <3>1 DEF Apart, JobsApply
    <3>3. j.bucket # l.bucket /\ l.bucket \in Bucket
      BY <1>5, <3>1, <3>2, Buckets DEF OneAtATime
    <3>4. OneAtATime(mem', l)
      BY <1>2, <1>3, <3>2, <3>3 DEF OneAtATime
    <3>5. agent'.applied[l.bucket] = agent.applied[l.bucket]
      BY <1>3, <3>3
    <3> QED BY <1>4, <3>2, <3>4, <3>5 DEF DoneInPlace, Gone, Managed
  <2> QED BY <2>1, <2>2
<1> QED BY <1>5 DEF Apart, JobsApply

LEMMA EndsApart ==
  ASSUME Types, Apart, NEW j \in mem.jobs, Marks(j) \/ JobThrows(j)
  PROVE  Apart'
<1>1. mem.jobs \subseteq Job /\ mem.inFlight \in [Bucket -> BOOLEAN]
  BY TypesAre, Memories
<1>2. /\ mem'.jobs = mem.jobs \ {j} /\ mem'.inFlight = [mem.inFlight EXCEPT ![j.bucket] = FALSE]
      /\ device' = device /\ agent' = agent
  BY EndsTypes DEF Marks, JobThrows, syncVars
<1>3. ASSUME NEW l \in mem'.jobs, l.bucket \in Removable
      PROVE  OneAtATime(mem', l) /\ l.step # "clear" /\ (l.step = "apply" => DoneInPlace(l, agent, device))
  <2>1. l \in mem.jobs /\ l # j
    BY <1>2, <1>3
  <2>2. OneAtATime(mem, l) /\ l.step # "clear" /\ (l.step = "apply" => DoneInPlace(l, agent, device))
    BY <1>3, <2>1 DEF Apart, JobsApply
  <2>3. j.bucket # l.bucket /\ l.bucket \in Bucket
    BY <1>3, <2>1, <2>2, Buckets DEF OneAtATime
  <2> QED BY <1>1, <1>2, <2>2, <2>3 DEF OneAtATime
<1> QED BY <1>2, <1>3 DEF Apart, JobsApply

(* A new bootstrap comes in the middle of no job.                          *)
CutsNoJob == Reprovision => mem.jobs = {}

LEMMA ApartStep ==
  ASSUME Types, Apart, CutsNoJob, [Next]_vars
  PROVE  Apart'
<1>1. mem \in Memory /\ agent \in AgentState
  BY TypesAre
<1>2. ASSUME UNCHANGED contentVars, UNCHANGED agent PROVE Apart'
  BY <1>2, SameRecord DEF contentVars
<1>3. ASSUME NEW s \in Snapshot, Publish(s) PROVE Apart'
  BY <1>2, <1>3 DEF Publish, syncVars
<1>4. CASE Enroll
  <2>1. enroll /\ mem' = mem /\ device' = device
    BY <1>4 DEF Enroll, contentVars
  <2> QED BY <2>1, EnrollTypes, SameRecord
<1>5. CASE Reprovision
  <2>1. mem' = [Fresh EXCEPT !.jobs = mem.jobs] /\ mem.jobs = {}
    BY <1>5 DEF Reprovision, CutsNoJob
  <2>2. mem'.jobs = {}
    BY <2>1 DEF Fresh
  <2> QED BY <2>2, NoJobs
<1>6. CASE Collect
  <2>1. mem' = maybeApplyAll(agent) /\ device' = device /\ agent' = agent
    BY <1>6 DEF Collect
  <2>2. JobsApply(maybeApplyAll(agent), agent, device)
    BY <1>1, CollectorKeepsJobs DEF Apart
  <2> QED BY <2>1, <2>2 DEF Apart
<1>7. CASE InitialSyncEnds
  <2> DEFINE x == sync["initial"]
  <2>1. /\ mem' = maybeApply("certificates", mem, agent, x.snap, x.key)
        /\ device' = device /\ agent' = agent /\ x.step = "certificates"
    BY <1>7 DEF InitialSyncEnds
  <2>2. x.snap \in Snapshot
    BY <2>1, StateAfterTypes, Sources
  <2>3. "certificates" \in Bucket /\ ~("certificates" \in Removable)
    BY Buckets
  <2> HIDE DEF x
  <2>4. JobsApply(maybeApply("certificates", mem, agent, x.snap, x.key), agent, device)
    BY <1>1, <2>2, <2>3, DecisionKeepsJobs DEF Apart
  <2> QED BY <2>1, <2>4 DEF Apart
<1>8. ASSUME NEW x \in Source, SyncEnds(x) \/ SyncRaces(x) PROVE Apart'
  <2>1. device' = device /\ agent' = agent /\ sync[x].step = "certificates"
    BY <1>8 DEF SyncEnds, SyncRaces
  <2>2. sync[x].snap \in Snapshot /\ StateAfter(x) \in AgentState
    BY <2>1, StateAfterTypes
  <2>3. "certificates" \in Bucket /\ ~("certificates" \in Removable)
    BY Buckets
  <2>4. CASE SyncEnds(x)
    <3>1. mem' = maybeApply("certificates", mem, StateAfter(x), sync[x].snap, sync[x].key)
      BY <2>4 DEF SyncEnds
    <3>2. JobsApply(maybeApply("certificates", mem, StateAfter(x), sync[x].snap, sync[x].key), agent, device)
      BY <1>1, <2>2, <2>3, DecisionKeepsJobs DEF Apart
    <3> QED BY <2>1, <3>1, <3>2 DEF Apart
  <2>5. CASE SyncRaces(x)
    <3>1. /\ mem' = Start("certificates", mem, StateAfter(x), sync[x].snap, sync[x].key)
          /\ StateAfter(x).identity # None
      BY <2>5 DEF SyncRaces, Starts, MayStart
    <3>2. JobsApply(Start("certificates", mem, StateAfter(x), sync[x].snap, sync[x].key), agent, device)
      BY <1>1, <2>2, <2>3, <3>1, StartKeepsJobs DEF Apart
    <3> QED BY <2>1, <3>1, <3>2 DEF Apart
  <2> QED BY <1>8, <2>4, <2>5
<1>9. ASSUME NEW x \in Source, SyncStep(x) PROVE Apart'
  <2>1. CASE Fetch(x) /\ UNCHANGED <<contentVars, boundVars>>
    BY <1>2, <2>1 DEF Fetch
  <2>2. CASE Save(x) /\ UNCHANGED <<contentVars, boundVars>>
    <3>1. mem' = mem /\ device' = device
      BY <2>2 DEF contentVars
    <3>2. agent'.applied = agent.applied
      BY <2>2, SaveTypes
    <3> QED BY <3>1, <3>2, SameRecord
  <2> QED BY <1>8, <1>9, <2>1, <2>2 DEF SyncStep
<1>10. ASSUME NEW x \in Source, SyncFails(x) PROVE Apart'
  BY <1>2, <1>10 DEF SyncFails, SyncThrows
<1>11. ASSUME NEW j \in mem.jobs, JobStep(j) PROVE Apart'
  BY <1>11, AppliesApart, SavesApart, EndsApart DEF JobStep
<1>12. ASSUME NEW j \in mem.jobs, JobFails(j) PROVE Apart'
  BY <1>12, EndsApart DEF JobFails
<1>13. CASE Restart
  <2>1. mem'.jobs = {}
    BY <1>13 DEF Restart, Fresh
  <2> QED BY <2>1, NoJobs
<1>14. CASE UNCHANGED vars
  BY <1>2, <1>14 DEF vars, syncVars
<1> QED BY <1>3, <1>4, <1>5, <1>6, <1>7, <1>8, <1>9, <1>10, <1>11, <1>12, <1>13, <1>14 DEF Next

(* What one step may put on record.                                        *)
RecordsWhatIsThere ==
  \A b \in Removable :
    (agent'.applied[b] # agent.applied[b] /\ agent'.applied[b] # None)
      => InPlace(device, b, agent'.applied[b].snap, Managed(b, agent'),
                 Managed(b, agent) \ Managed(b, agent'))

LEMMA RecordsStep ==
  ASSUME Types, Apart, [Next]_vars
  PROVE  RecordsWhatIsThere
<1>1. mem.jobs \subseteq Job /\ agent.applied \in [Bucket -> Signed \cup {None}]
  BY TypesAre, Memories, AgentStates
<1>2. ASSUME agent'.applied = agent.applied PROVE RecordsWhatIsThere
  BY <1>2 DEF RecordsWhatIsThere
<1>3. ASSUME \A b \in Bucket : agent'.applied[b] = None PROVE RecordsWhatIsThere
  BY <1>3, Buckets DEF RecordsWhatIsThere
<1>4. ASSUME NEW j \in mem.jobs, Saves(j) PROVE RecordsWhatIsThere
  <2> SUFFICES ASSUME NEW b \in Removable, agent'.applied[b] # agent.applied[b], agent'.applied[b] # None
               PROVE  InPlace(device, b, agent'.applied[b].snap, Managed(b, agent'),
                              Managed(b, agent) \ Managed(b, agent'))
    BY DEF RecordsWhatIsThere
  <2>1. b \in Bucket /\ j.bucket \in Bucket
    BY <1>1, Buckets, Jobs
  <2>2. b = j.bucket
    BY <1>1, <1>4, <2>1, SavesTypes
  <2>3. j.step # "clear" /\ (j.step = "apply" => DoneInPlace(j, agent, device))
    BY <2>2 DEF Apart, JobsApply
  <2>4. j.step = "apply" /\ j.todo = {}
    BY <1>4, <2>3 DEF Saves
  <2>5. agent'.applied[b] = [snap |-> j.snap, key |-> j.key]
    BY <1>1, <1>4, <2>1, <2>2, <2>3, SavesTypes
  <2>6. agent'.applied[b].snap = j.snap /\ Managed(b, agent') = Wanted(b, j.snap)
    BY <2>5 DEF Managed
  <2>7. InPlace(device, b, j.snap, Wanted(b, j.snap) \ {}, (Managed(b, agent) \ Wanted(b, j.snap)) \ {})
    BY <2>2, <2>3, <2>4 DEF DoneInPlace, Gone
  <2>8. Wanted(b, j.snap) \ {} = Managed(b, agent')
        /\ (Managed(b, agent) \ Wanted(b, j.snap)) \ {} = Managed(b, agent) \ Managed(b, agent')
    BY <2>6
  <2> QED BY <2>6, <2>7, <2>8
<1>5. CASE Enroll
  BY <1>2, <1>5, EnrollTypes DEF Enroll
<1>6. CASE Reprovision
  BY <1>3, <1>6, EmptyStates DEF Reprovision, Edit
<1>7. ASSUME NEW x \in Source, Save(x) PROVE RecordsWhatIsThere
  BY <1>2, <1>7, SaveTypes
<1>8. ASSUME UNCHANGED agent PROVE RecordsWhatIsThere
  BY <1>2, <1>8
<1>9. ASSUME NEW s \in Snapshot, Publish(s) PROVE UNCHANGED agent
  BY <1>9 DEF Publish, syncVars
<1>10. CASE Collect
  BY <1>8, <1>10 DEF Collect
<1>11. CASE InitialSyncEnds
  BY <1>8, <1>11 DEF InitialSyncEnds
<1>12. ASSUME NEW x \in Source, SyncStep(x) \/ SyncRaces(x) \/ SyncFails(x) PROVE RecordsWhatIsThere
  BY <1>7, <1>8, <1>12 DEF SyncStep, Fetch, SyncEnds, SyncRaces, SyncFails, SyncThrows
<1>13. ASSUME NEW j \in mem.jobs, JobStep(j) \/ JobFails(j) PROVE RecordsWhatIsThere
  BY <1>4, <1>8, <1>13 DEF JobStep, Applies, Marks, JobFails, JobThrows, syncVars
<1>14. CASE Restart
  BY <1>8, <1>14 DEF Restart
<1>15. CASE UNCHANGED vars
  BY <1>8, <1>15 DEF vars, syncVars
<1> QED BY <1>5, <1>6, <1>8, <1>9, <1>10, <1>11, <1>12, <1>13, <1>14, <1>15 DEF Next

-----------------------------------------------------------------------------
(***************************************************************************)
(* Theorems                                                                *)
(***************************************************************************)
LEMMA InitTypes == Init => Types
<1> SUFFICES ASSUME Init PROVE Types
  OBVIOUS
<1>1. served \in Snapshot /\ serverKey \in 0..MaxEnrollments
  BY MaxEnrollmentsAssumption DEF Init, SyncInit
<1>2. agent \in AgentState /\ dirty \in BOOLEAN /\ target \in Target \cup {None}
  BY EmptyStates DEF Init, SyncInit
<1>3. SyncsTyped(sync)
  BY NoSyncs DEF Init, SyncInit
<1>4. mem \in Memory
  BY DEF Init, ContentInit, Fresh, Memory
<1>5. device \in [{"files", "apps"} -> [Item -> Value \cup {None}]]
  BY DEF Init, ContentInit
<1>6. publishes \in 0..MaxPublishes /\ faults \in 0..MaxFaults
  BY BoundsAssumption DEF Init
<1> QED BY <1>1, <1>2, <1>3, <1>4, <1>5, <1>6, TypesAre

LEMMA TypesAlways == Spec => []Types
<1>1. Init => Types
  BY InitTypes
<1>2. Types /\ [Next]_vars => Types'
  BY TypesStep
<1> QED BY <1>1, <1>2, PTL DEF Spec

(* What AgentStateStore holds is always a state the launcher can read: a   *)
(* record names a snapshot and the secret it is signed with, also when a   *)
(* sync or a job saves after a new bootstrap has cleared the state.        *)
THEOREM TypeCorrect == Spec => []TypeOK
<1>1. Types => TypeOK
  BY DEF Types
<1> QED BY <1>1, TypesAlways, PTL

LEMMA StateIsRecorded ==
  [RecordsWhatIsThere]_vars =>
    [\A b \in {"files", "apps"} :
       (agent'.applied[b] # agent.applied[b] /\ agent'.applied[b] # None)
         => InPlace(device, b, agent'.applied[b].snap, Managed(b, agent'),
                    Managed(b, agent) \ Managed(b, agent'))]_vars
BY DEF RecordsWhatIsThere, Removable

(* From any moment on at which no content job runs, what saveManagedFiles  *)
(* and saveManagedApps (maybeApplyManagedFiles and maybeApplyManagedApps,  *)
(* MainActivity.kt) put on record is on the phone, and what only the       *)
(* record before wanted is gone, as long as no new bootstrap comes in the  *)
(* middle of a job.  It may come in the middle of a sync, and whatever     *)
(* came before that moment has no bearing on it: a job that a bootstrap    *)
(* has cut may misrecord, but leaves nothing behind that would make the    *)
(* jobs after it do so.                                                    *)
THEOREM RecordedMeansAppliedAfterwards ==
  Spec => [](mem.jobs = {} /\ [][CutsNoJob]_vars => RecordedMeansApplied)
<1>1. mem.jobs = {} => Apart
  BY DEF Apart, JobsApply
<1>2. Types /\ Apart /\ [Next]_vars /\ [CutsNoJob]_vars => Apart'
  <2> SUFFICES ASSUME Types, Apart, [Next]_vars, [CutsNoJob]_vars PROVE Apart'
    OBVIOUS
  <2>1. CASE CutsNoJob
    BY <2>1, ApartStep
  <2>2. CASE UNCHANGED vars
    BY <2>2, SameRecord DEF vars, syncVars, contentVars
  <2> QED BY <2>1, <2>2
<1>3. Types /\ Apart /\ [Next]_vars => [RecordsWhatIsThere]_vars
  BY RecordsStep
<1> QED BY <1>1, <1>2, <1>3, TypesAlways, StateIsRecorded, PTL DEF Spec, RecordedMeansApplied

=============================================================================
