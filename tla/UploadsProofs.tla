--------------------------- MODULE UploadsProofs ----------------------------
(***************************************************************************)
(* Proofs about Uploads, for every set of requests, keys, payloads and     *)
(* packages, and every number of faults.  The inductive invariant follows  *)
(* a payload from the object its handler puts to the artifact row that     *)
(* describes it, the file or certificate that refers to the row, and the   *)
(* version that is published from it.                                      *)
(***************************************************************************)
EXTENDS Uploads, WellFoundedInduction, TLAPS

-----------------------------------------------------------------------------
(* Where a handler can be. *)

Running(j) ==
  LET q == job[j].req
      todo == job[j].todo IN
    \/ todo = <<"put", "file">> /\ q.kind = "file" /\ q.body
    \/ todo = <<"file">> /\ q.kind = "file"
    \/ todo = <<"put", "cert">> /\ (q.kind = "cert" \/ (q.kind = "certApi" /\ q.body))
    \/ todo = <<"cert">> /\ q.kind \in {"cert", "certApi"}
    \/ todo \in {<<"put", "file", "managed">>, <<"file", "managed">>} /\ q.kind = "managed"
    \/ todo = <<"managed">> /\ q.kind \in {"bind", "managed"}
    \/ /\ todo \in {<<"findApp", "createApp", "put", "file", "version">>,
                    <<"createApp", "put", "file", "version">>}
       /\ q.kind = "app"
    \/ /\ todo \in {<<"getApp", "findVersion", "put", "file", "version">>,
                    <<"findVersion", "put", "file", "version">>}
       /\ q.kind = "publish" /\ job[j].app \in AppId
    \/ /\ todo \in {<<"put", "file", "version">>, <<"file", "version">>}
       /\ q.kind \in {"app", "publish"} /\ job[j].app \in AppId
    \/ /\ todo = <<"version">>
       /\ q.kind \in {"app", "publish", "version", "versionApi"} /\ job[j].app \in AppId

Undoing(j) ==
  LET q == job[j].req
      todo == job[j].todo IN
    \/ todo = <<"drop">> /\ (Derived(q) \/ (q.kind \in {"file", "certApi"} /\ q.body))
    \/ todo = <<"retire", "drop">> /\ q.kind \in {"managed", "publish"}
    \/ /\ todo \in {<<"retire", "drop", "unapp">>, <<"drop", "unapp">>, <<"unapp">>}
       /\ q.kind = "app" /\ job[j].app \in AppId

Active(j) == job[j].at # "idle"

ControlOf(j) ==
  /\ Active(j) => job[j].req \in Request /\ job[j].pkg \in Package
  /\ job[j].at = "run" => Running(j)
  /\ job[j].at = "undo" => Undoing(j)
  /\ job[j].at \in {"idle", "ok", "failed"} => job[j].todo = <<>>
Control == \A j \in Job : ControlOf(j)

(* An upload whose object is put and not taken back (HasPut, spelled out). *)
PutDone(j) ==
  LET q == job[j].req
      todo == job[j].todo IN
    \/ /\ job[j].at = "run"
       /\ \/ todo = <<"file">> /\ q.body
          \/ todo = <<"cert">> /\ (q.kind = "cert" \/ q.body)
          \/ todo \in {<<"file", "managed">>, <<"file", "version">>}
          \/ todo = <<"managed">> /\ q.kind = "managed"
          \/ todo = <<"version">> /\ q.kind \in {"app", "publish"}
    \/ job[j].at = "undo" /\ todo # <<"unapp">>

(* The handler has not reached the call that stores a file or certificate. *)
Before(j) == \/ job[j].at = "idle"
             \/ job[j].at = "run" /\ job[j].todo \notin {<<"managed">>, <<"version">>}

(* An app or a published version that has stored its file. *)
Publishes(j) == Active(j) /\ job[j].req.kind \in {"app", "publish"}
OwnFileName(j) == AppFileName(job[j].pkg, job[j].req.code)

-----------------------------------------------------------------------------
(* Rows of artifacts: ids and keys are unique, each row is known by the    *)
(* request that made it, and the row of an upload of the dashboard is held *)
(* by the file or certificate it was made for.                             *)
RowsAreUnique ==
  \A a, b \in artifacts : a.id = b.id \/ a.key = b.key => a = b

IsKnown(a) ==
  \/ a.id = Legacy /\ a.key = Legacy
  \/ /\ a.id \in Job /\ Active(a.id)
     /\ a.key = StorageKey(a.id) /\ a.sum = job[a.id].req.sum
     /\ Derived(job[a.id].req) =>
          \/ files[a.id] # None /\ files[a.id].art = a.id
          \/ certs[a.id] # None /\ certs[a.id].art = a.id
     /\ ~Derived(job[a.id].req) => a.key \in ApiKey
RowsAreKnown == \A a \in artifacts : IsKnown(a)

(* A key of the dashboard that a client of the API uses has its row.       *)
KeyIsKnown(j) ==
  Active(j) /\ ~Derived(job[j].req) /\ job[j].req.key \in Job =>
    \E a \in artifacts : a.id = job[j].req.key /\ a.key = job[j].req.key
KeysAreKnown == \A j \in Job : KeyIsKnown(j)

Linked(row, j) ==
  row # None =>
    /\ Active(j) /\ row.sum = job[j].req.sum
    /\ \E a \in artifacts : a.id = row.art /\ a.key = StorageKey(j) /\ a.sum = row.sum
RowsAreLinked == \A j \in Job : Linked(files[j], j) /\ Linked(certs[j], j)

NothingTooEarly == \A j \in Job : Before(j) =>
  /\ files[j] = None /\ certs[j] = None
  /\ \A a \in artifacts : a.id # j

(* A handler past the file step has its file, under its own name. *)
FilesAreStored == \A j \in Job :
  job[j].at = "run" /\ job[j].todo \in {<<"managed">>, <<"version">>} /\ Derived(job[j].req) =>
    /\ files[j] # None
    /\ Publishes(j) => files[j].name = OwnFileName(j)

NamesAreUnique == \A i, j \in Job :
  files[i] # None /\ files[j] # None /\ files[i].name = files[j].name => i = j

(* A version says what its request said; the artifact of the dashboard it  *)
(* names has its payload.                                                  *)
VersionIsKnown(v) ==
  /\ v.id \in Job /\ job[v.id].at \in {"undo", "ok", "failed"}
  /\ v.code = job[v.id].req.code /\ v.sum = job[v.id].req.sum
  /\ Publishes(v.id) => files[v.id] # None /\ files[v.id].name = OwnFileName(v.id)
  /\ v.art \in Job =>
       /\ Active(v.art)
       /\ Derived(job[v.art].req) => \E a \in artifacts : a.id = v.art /\ a.sum = v.sum
VersionsAreKnown == \A v \in Range(versions) : VersionIsKnown(v)

(* The cleanup holds rows that exist, and none of the dashboard. *)
HasRow(c) == \E a \in artifacts : a.id = c.id /\ a.key = c.key
CleanupIsSafe ==
  /\ \A c \in cleanup.todo : HasRow(c) /\ c.key \in ApiKey
  /\ \A c, d \in cleanup.todo : c.id = d.id => c = d
  /\ cleanup.step \in {"object", "row"} =>
       /\ cleanup.now \in Artifact /\ HasRow(cleanup.now) /\ cleanup.now.key \in ApiKey
       /\ \A c \in cleanup.todo : c.id # cleanup.now.id

(* The object of an upload of the dashboard has the payload of its request, *)
(* unless a client of the API uploads to its key.                           *)
Overwritten(k) == \E i \in Job : Overwrites(i, k)
Due(j) ==
  /\ Active(j) /\ Derived(job[j].req) /\ ~Overwritten(j)
  /\ \/ job[j].at = "run" /\ PutDone(j)
     \/ job[j].at = "ok" /\ \E a \in artifacts : a.id = j
ObjectsAreServed == \A j \in Job : Due(j) => objects[j] = job[j].req.sum

(* Without faults: an object without a row belongs to an upload under way, *)
(* also when the cleanup is about to delete the row.                       *)
UnderWay(k) == \E j \in Job : PutDone(j) /\ StorageKey(j) = k
Accounted(k) == objects[k] # None => ArtifactsAt(k) # {} \/ UnderWay(k)
AllAccounted == faults = 0 => \A k \in Key : Accounted(k)
LastRowIsFree ==
  faults = 0 /\ cleanup.step = "row" =>
    objects[cleanup.now.key] = None \/ ~Deletable(cleanup.now) \/ UnderWay(cleanup.now.key)

IInv ==
  /\ TypeOK /\ Control /\ RowsAreUnique /\ RowsAreKnown /\ KeysAreKnown /\ RowsAreLinked /\ NothingTooEarly
  /\ FilesAreStored /\ NamesAreUnique /\ VersionsAreKnown /\ CleanupIsSafe
  /\ ObjectsAreServed /\ AllAccounted /\ LastRowIsFree

-----------------------------------------------------------------------------
(***************************************************************************)
(* Handlers                                                                *)
(***************************************************************************)

(* What every move of a handler keeps: the other handlers, the request,    *)
(* and the package once the file is stored under its name.                 *)
Moves(j) ==
  /\ job' \in [Job -> Handling]
  /\ \A i \in Job : i # j => job'[i] = job[i]
  /\ Active(j) /\ Active(j)'
  /\ job'[j].req = job[j].req
  /\ ControlOf(j)'
  /\ Before(j)' => Before(j)
  /\ job'[j].pkg = job[j].pkg \/ Before(j)'
  /\ job[j].at # "run" => job'[j].at \in {"undo", "failed"}

(* The fields a move to the next step does not touch. *)
Stays(j) ==
  /\ job' \in [Job -> Handling]
  /\ \A i \in Job : i # j => job'[i] = job[i]
  /\ job'[j].req = job[j].req /\ job'[j].app = job[j].app /\ job'[j].pkg = job[j].pkg

(* The handler of each kind of request, and what undoes its steps. *)
LEMMA HandlerIs ==
  ASSUME NEW q, q.kind \in Kind, q.body \in BOOLEAN
  PROVE  /\ q.kind = "file" /\ q.body => Handler(q).steps = <<"put", "file">>
         /\ q.kind = "file" /\ ~q.body => Handler(q).steps = <<"file">>
         /\ q.kind = "certApi" /\ q.body => Handler(q).steps = <<"put", "cert">>
         /\ q.kind = "certApi" /\ ~q.body => Handler(q).steps = <<"cert">>
         /\ q.kind = "cert" => Handler(q).steps = <<"put", "cert">>
         /\ q.kind = "bind" => Handler(q).steps = <<"managed">>
         /\ q.kind \in {"version", "versionApi"} => Handler(q).steps = <<"version">>
         /\ q.kind = "managed" => Handler(q).steps = <<"put", "file", "managed">>
         /\ q.kind = "app" =>
              Handler(q).steps = <<"findApp", "createApp", "put", "file", "version">>
         /\ q.kind = "publish" =>
              Handler(q).steps = <<"getApp", "findVersion", "put", "file", "version">>
BY DEF WithBody, Handler, Kind, PostFile, PostCertificate, PostManagedFile, PostVersion,
  createCertificate, createManagedFile, createApp, publishAppVersion, createAppVersion

LEMMA UndoIs ==
  ASSUME NEW q, q.kind \in Kind, q.body \in BOOLEAN
  PROVE  /\ q.kind \in {"managed", "app", "publish"} => Undo(q, "file") = <<"drop">>
         /\ q.kind = "cert" => Undo(q, "cert") = <<"drop">>
         /\ q.kind = "file" /\ q.body => Undo(q, "file") = <<"drop">>
         /\ q.kind = "file" /\ ~q.body => Undo(q, "file") = <<>>
         /\ q.kind = "certApi" /\ q.body => Undo(q, "cert") = <<"drop">>
         /\ q.kind = "certApi" /\ ~q.body => Undo(q, "cert") = <<>>
         /\ q.kind = "managed" => Undo(q, "managed") = <<"retire", "drop">>
         /\ q.kind = "bind" => Undo(q, "managed") = <<>>
         /\ q.kind = "app" => Undo(q, "version") = <<"retire", "drop", "unapp">>
         /\ q.kind = "publish" => Undo(q, "version") = <<"retire", "drop">>
         /\ q.kind \in {"version", "versionApi"} => Undo(q, "version") = <<>>
         /\ \A s \in {"put", "findApp", "createApp", "getApp", "findVersion"} : Undo(q, s) = <<>>
<1>1. Undo(q, "put") = <<>> /\ Undo(q, "findApp") = <<>> /\ Undo(q, "createApp") = <<>>
      /\ Undo(q, "getApp") = <<>> /\ Undo(q, "findVersion") = <<>>
  BY DEF Undo, Handler, Kind, PostFile, PostCertificate, PostManagedFile, PostVersion,
     createCertificate, createManagedFile, createApp, publishAppVersion, createAppVersion
<1>2. /\ q.kind = "file" => Undo(q, "file") = WithBody(q, <<"drop">>, <<>>)
      /\ q.kind = "certApi" => Undo(q, "cert") = WithBody(q, <<"drop">>, <<>>)
  BY DEF Undo, Handler, Kind, PostFile, PostCertificate
<1>3. /\ q.kind = "managed" => /\ Undo(q, "file") = <<"drop">>
                               /\ Undo(q, "managed") = <<"retire", "drop">>
      /\ q.kind = "cert" => Undo(q, "cert") = <<"drop">>
      /\ q.kind = "bind" => Undo(q, "managed") = <<>>
  BY DEF Undo, Handler, Kind, PostManagedFile, createCertificate, createManagedFile
<1>4. /\ q.kind = "app" => /\ Undo(q, "file") = <<"drop">>
                           /\ Undo(q, "version") = <<"retire", "drop", "unapp">>
      /\ q.kind = "publish" => /\ Undo(q, "file") = <<"drop">>
                               /\ Undo(q, "version") = <<"retire", "drop">>
      /\ q.kind \in {"version", "versionApi"} => Undo(q, "version") = <<>>
  BY DEF Undo, Handler, Kind, PostVersion, createApp, publishAppVersion, createAppVersion
<1> QED BY <1>1, <1>2, <1>3, <1>4 DEF WithBody
(* HasPut, spelled out. *)
LEMMA HasPutIs ==
  ASSUME NEW j \in Job, ControlOf(j)
  PROVE  HasPut(j) <=> PutDone(j)
<1>1. CASE job[j].at = "run"
  <2> DEFINE q == job[j].req
             todo == job[j].todo
  <2>1. q.kind \in Kind /\ q.body \in BOOLEAN /\ Running(j)
    BY <1>1, RequestAssumption DEF ControlOf, Active
  <2>2. HasPut(j) <=> "put" \in Range(Handler(q).steps) /\ "put" \notin Range(todo)
    BY <1>1 DEF HasPut
  <2>3. "put" \in Range(Handler(q).steps) <=>
          \/ q.kind \in {"file", "certApi"} /\ q.body
          \/ q.kind \in {"cert", "managed", "app", "publish"}
    BY <2>1, HandlerIs DEF Range, Kind
  <2>4. "put" \notin Range(todo) <=>
          todo \in {<<"file">>, <<"cert">>, <<"managed">>, <<"version">>,
                   <<"file", "managed">>, <<"file", "version">>}
    BY <2>1 DEF Range, Running
  <2>5. ASSUME HasPut(j) PROVE PutDone(j)
    <3>1. CASE todo \in {<<"file">>, <<"cert">>}
      BY <3>1, <1>1, <2>1, <2>2, <2>3, <2>5 DEF PutDone, Running
    <3>2. CASE todo \in {<<"managed">>, <<"version">>}
      BY <3>2, <1>1, <2>1, <2>2, <2>3, <2>5 DEF PutDone, Running
    <3>3. CASE todo \in {<<"file", "managed">>, <<"file", "version">>}
      BY <3>3, <1>1 DEF PutDone
    <3> QED BY <2>2, <2>4, <2>5, <3>1, <3>2, <3>3
  <2>6. ASSUME PutDone(j) PROVE HasPut(j)
    <3>1. \/ todo = <<"file">> /\ q.body
          \/ todo = <<"cert">> /\ (q.kind = "cert" \/ q.body)
          \/ todo \in {<<"file", "managed">>, <<"file", "version">>}
          \/ todo = <<"managed">> /\ q.kind = "managed"
          \/ todo = <<"version">> /\ q.kind \in {"app", "publish"}
      BY <1>1, <2>6 DEF PutDone
    <3>2. \/ q.kind \in {"file", "certApi"} /\ q.body
          \/ q.kind \in {"cert", "managed", "app", "publish"}
      BY <3>1, <2>1 DEF Running
    <3> QED BY <2>2, <2>3, <2>4, <3>1, <3>2
  <2> QED BY <2>5, <2>6
<1>2. CASE job[j].at = "undo"
  BY <1>2 DEF ControlOf, Undoing, HasPut, PutDone, Range
<1>3. CASE job[j].at \notin {"run", "undo"}
  BY <1>3 DEF HasPut, PutDone
<1> QED BY <1>1, <1>2, <1>3

(* Where Goes and Ends leave a handler. *)
LEMMA EndsAt ==
  ASSUME TypeOK, NEW j \in Job, NEW outcome \in {"ok", "failed"}, Ends(j, outcome)
  PROVE  Stays(j) /\ job'[j].at = outcome /\ job'[j].todo = <<>>
<1>1. job \in [Job -> Handling]
  BY DEF TypeOK
<1>2. job' = [job EXCEPT ![j] = [job[j] EXCEPT !.at = outcome, !.todo = <<>>]]
  BY <1>1 DEF Ends, Handling
<1>3. [job[j] EXCEPT !.at = outcome, !.todo = <<>>] \in Handling
  <2>1. <<>> \in Seq(StepName)
    OBVIOUS
  <2> QED BY <1>1, <2>1 DEF Handling
<1> QED BY <1>1, <1>2, <1>3 DEF Stays, Handling

LEMMA GoesTo ==
  ASSUME TypeOK, NEW j \in Job, Goes(j)
  PROVE  /\ Stays(j)
         /\ Len(job[j].todo) > 1 =>
              job'[j].at = job[j].at /\ job'[j].todo = Tail(job[j].todo)
         /\ ~(Len(job[j].todo) > 1) =>
              /\ job'[j].at = (IF job[j].at = "run" THEN "ok" ELSE "failed")
              /\ job'[j].todo = <<>>
<1>1. job \in [Job -> Handling]
  BY DEF TypeOK
<1>2. CASE Len(job[j].todo) > 1
  <2>1. job' = [job EXCEPT ![j] = [job[j] EXCEPT !.todo = Tail(job[j].todo)]]
    BY <1>1, <1>2 DEF Goes, Handling
  <2>2. Tail(job[j].todo) \in Seq(StepName)
    BY <1>1, <1>2 DEF Handling
  <2>3. [job[j] EXCEPT !.todo = Tail(job[j].todo)] \in Handling
    BY <1>1, <2>2 DEF Handling
  <2> QED BY <1>1, <1>2, <2>1, <2>3 DEF Stays, Handling
<1>3. CASE ~(Len(job[j].todo) > 1)
  BY <1>3, EndsAt DEF Goes
<1> QED BY <1>2, <1>3

(* What a failed step leaves to do. *)
LEMMA UndoOf ==
  ASSUME NEW j \in Job, job[j].at = "run", ControlOf(j)
  PROVE  LET undo == Undo(job[j].req, Step(j)) IN
         \/ undo = <<>> /\ ~PutDone(j)
         \/ /\ undo = <<"drop">>
            /\ \/ Derived(job[j].req)
               \/ job[j].req.kind \in {"file", "certApi"} /\ job[j].req.body
         \/ undo = <<"retire", "drop">> /\ job[j].req.kind \in {"managed", "publish"}
         \/ /\ undo = <<"retire", "drop", "unapp">>
            /\ job[j].req.kind = "app" /\ job[j].app \in AppId
<1> DEFINE q == job[j].req
           todo == job[j].todo
           undo == Undo(q, Step(j))
<1>1. q.kind \in Kind /\ q.body \in BOOLEAN /\ Running(j)
  BY RequestAssumption DEF ControlOf, Active
<1>2. todo # <<>> /\ Step(j) = Head(todo)
  <2>1. 1 \in DOMAIN todo
    BY <1>1 DEF Running
  <2> QED BY <2>1 DEF Step
<1>3. CASE Head(todo) \in {"put", "findApp", "createApp", "getApp", "findVersion"}
  <2>1. undo = <<>>
    BY <1>1, <1>2, <1>3, UndoIs
  <2>2. ~PutDone(j)
    BY <1>3 DEF PutDone
  <2> QED BY <2>1, <2>2
<1>4. CASE Head(todo) \in {"file", "cert"}
  <2>1. \/ todo = <<"file">> /\ q.kind = "file"
        \/ todo = <<"cert">> /\ q.kind \in {"cert", "certApi"}
        \/ todo = <<"file", "managed">> /\ q.kind = "managed"
        \/ todo = <<"file", "version">> /\ q.kind \in {"app", "publish"}
    BY <1>1, <1>4 DEF Running
  <2>2. CASE q.kind \in {"file", "certApi"} /\ ~q.body
    <3>1. undo = <<>>
      BY <1>1, <1>2, <2>1, <2>2, UndoIs
    <3>2. ~PutDone(j)
      BY <2>1, <2>2 DEF PutDone
    <3> QED BY <3>1, <3>2
  <2>3. CASE ~(q.kind \in {"file", "certApi"} /\ ~q.body)
    <3>1. undo = <<"drop">>
      BY <1>1, <1>2, <2>1, <2>3, UndoIs
    <3>2. Derived(q) \/ (q.kind \in {"file", "certApi"} /\ q.body)
      BY <2>1, <2>3 DEF Derived
    <3> QED BY <3>1, <3>2
  <2> QED BY <2>2, <2>3
<1>5. CASE todo = <<"managed">>
  <2>1. CASE q.kind = "managed"
    BY <1>1, <1>2, <1>5, <2>1, UndoIs
  <2>2. CASE q.kind = "bind"
    <3>1. undo = <<>>
      BY <1>1, <1>2, <1>5, <2>2, UndoIs
    <3>2. ~PutDone(j)
      BY <1>5, <2>2 DEF PutDone
    <3> QED BY <3>1, <3>2
  <2> QED BY <1>1, <1>5, <2>1, <2>2 DEF Running
<1>6. CASE todo = <<"version">>
  <2>1. CASE q.kind = "app"
    BY <1>1, <1>2, <1>6, <2>1, UndoIs DEF Running
  <2>2. CASE q.kind = "publish"
    BY <1>1, <1>2, <1>6, <2>2, UndoIs
  <2>3. CASE q.kind \in {"version", "versionApi"}
    BY <1>1, <1>2, <1>6, <2>3, UndoIs DEF PutDone
  <2> QED BY <1>1, <1>6, <2>1, <2>2, <2>3 DEF Running
<1> QED BY <1>1, <1>3, <1>4, <1>5, <1>6 DEF Running

(* A refused step of a running handler: undo, if there is something to undo. *)
LEMMA FailsTo ==
  ASSUME TypeOK, NEW j \in Job, job[j].at = "run", ControlOf(j), Fails(j)
  PROVE  /\ Stays(j)
         /\ Undo(job[j].req, Step(j)) = <<>> =>
              job'[j].at = "failed" /\ job'[j].todo = <<>>
         /\ Undo(job[j].req, Step(j)) # <<>> =>
              job'[j].at = "undo" /\ job'[j].todo = Undo(job[j].req, Step(j))
<1> DEFINE undo == Undo(job[j].req, Step(j))
<1>1. job \in [Job -> Handling]
  BY DEF TypeOK
<1>2. CASE undo = <<>>
  BY <1>2, EndsAt DEF Fails
<1>3. CASE undo # <<>>
  <2>1. undo \in Seq(StepName)
    <3>1. <<"drop">> \in Seq(StepName) /\ <<"retire", "drop">> \in Seq(StepName)
          /\ <<"retire", "drop", "unapp">> \in Seq(StepName)
      BY DEF StepName
    <3> QED BY <1>3, <3>1, UndoOf
  <2>2. [job[j] EXCEPT !.at = "undo", !.todo = undo] \in Handling
    BY <1>1, <2>1 DEF Handling
  <2>3. job' = [job EXCEPT ![j] = [job[j] EXCEPT !.at = "undo", !.todo = undo]]
    BY <1>1, <1>3 DEF Fails, Handling
  <2> QED BY <1>1, <1>3, <2>2, <2>3 DEF Stays, Handling
<1> QED BY <1>2, <1>3

(* Which steps belong to handlers, and which to what undoes them. *)
UndoSteps == {"retire", "drop", "unapp"}

LEMMA StepIs ==
  ASSUME NEW j \in Job, ControlOf(j), Step(j) # "none"
  PROVE  /\ Active(j) /\ job[j].req.kind \in Kind /\ job[j].req.body \in BOOLEAN
         /\ Step(j) = Head(job[j].todo)
         /\ \/ job[j].at = "run" /\ Running(j) /\ Step(j) \notin UndoSteps
            \/ job[j].at = "undo" /\ Undoing(j) /\ Step(j) \in UndoSteps
<1>1. Step(j) = Head(job[j].todo) /\ job[j].at \in {"run", "undo"}
  BY DEF Step
<1>2. Active(j) /\ job[j].req.kind \in Kind /\ job[j].req.body \in BOOLEAN
  BY <1>1, RequestAssumption DEF ControlOf, Active
<1>3. CASE job[j].at = "run"
  <2>1. Running(j)
    BY <1>3 DEF ControlOf
  <2>2. Head(job[j].todo) \notin UndoSteps
    BY <2>1 DEF Running, UndoSteps
  <2> QED BY <1>1, <1>2, <1>3, <2>1, <2>2
<1>4. CASE job[j].at = "undo"
  <2>1. Undoing(j)
    BY <1>4 DEF ControlOf
  <2>2. Head(job[j].todo) \in UndoSteps
    BY <2>1 DEF Undoing, UndoSteps
  <2> QED BY <1>1, <1>2, <1>4, <2>1, <2>2
<1> QED BY <1>1, <1>3, <1>4

(* What is left of the steps of a handler after the first one. *)
LEMMA TailIs ==
  ASSUME NEW t
  PROVE  /\ t \in {<<"file">>, <<"cert">>, <<"managed">>, <<"version">>, <<"drop">>, <<"unapp">>}
              => ~(Len(t) > 1)
         /\ t = <<"put", "file">> => Len(t) > 1 /\ Tail(t) = <<"file">>
         /\ t = <<"put", "cert">> => Len(t) > 1 /\ Tail(t) = <<"cert">>
         /\ t = <<"put", "file", "managed">> => Len(t) > 1 /\ Tail(t) = <<"file", "managed">>
         /\ t = <<"put", "file", "version">> => Len(t) > 1 /\ Tail(t) = <<"file", "version">>
         /\ t = <<"file", "managed">> => Len(t) > 1 /\ Tail(t) = <<"managed">>
         /\ t = <<"file", "version">> => Len(t) > 1 /\ Tail(t) = <<"version">>
         /\ t = <<"findApp", "createApp", "put", "file", "version">> =>
              /\ Len(t) > 1 /\ Tail(t) = <<"createApp", "put", "file", "version">>
              /\ Tail(Tail(t)) = <<"put", "file", "version">>
         /\ t = <<"createApp", "put", "file", "version">> =>
              Len(t) > 1 /\ Tail(t) = <<"put", "file", "version">>
         /\ t = <<"getApp", "findVersion", "put", "file", "version">> =>
              Len(t) > 1 /\ Tail(t) = <<"findVersion", "put", "file", "version">>
         /\ t = <<"findVersion", "put", "file", "version">> =>
              Len(t) > 1 /\ Tail(t) = <<"put", "file", "version">>
         /\ t = <<"retire", "drop">> => Len(t) > 1 /\ Tail(t) = <<"drop">>
         /\ t = <<"retire", "drop", "unapp">> => Len(t) > 1 /\ Tail(t) = <<"drop", "unapp">>
         /\ t = <<"drop", "unapp">> => Len(t) > 1 /\ Tail(t) = <<"unapp">>
<1>1. /\ Len(<<"file">>) = 1 /\ Len(<<"cert">>) = 1 /\ Len(<<"managed">>) = 1
      /\ Len(<<"version">>) = 1 /\ Len(<<"drop">>) = 1 /\ Len(<<"unapp">>) = 1
  OBVIOUS
<1>2. /\ Len(<<"put", "file">>) = 2 /\ Tail(<<"put", "file">>) = <<"file">>
      /\ Len(<<"put", "cert">>) = 2 /\ Tail(<<"put", "cert">>) = <<"cert">>
      /\ Len(<<"file", "managed">>) = 2 /\ Tail(<<"file", "managed">>) = <<"managed">>
      /\ Len(<<"file", "version">>) = 2 /\ Tail(<<"file", "version">>) = <<"version">>
      /\ Len(<<"retire", "drop">>) = 2 /\ Tail(<<"retire", "drop">>) = <<"drop">>
      /\ Len(<<"drop", "unapp">>) = 2 /\ Tail(<<"drop", "unapp">>) = <<"unapp">>
  OBVIOUS
<1>3. /\ Len(<<"put", "file", "managed">>) = 3
      /\ Tail(<<"put", "file", "managed">>) = <<"file", "managed">>
      /\ Len(<<"put", "file", "version">>) = 3
      /\ Tail(<<"put", "file", "version">>) = <<"file", "version">>
      /\ Len(<<"retire", "drop", "unapp">>) = 3
      /\ Tail(<<"retire", "drop", "unapp">>) = <<"drop", "unapp">>
  OBVIOUS
<1>4. /\ Len(<<"createApp", "put", "file", "version">>) = 4
      /\ Tail(<<"createApp", "put", "file", "version">>) = <<"put", "file", "version">>
      /\ Len(<<"findVersion", "put", "file", "version">>) = 4
      /\ Tail(<<"findVersion", "put", "file", "version">>) = <<"put", "file", "version">>
  OBVIOUS
<1>5. /\ Len(<<"findApp", "createApp", "put", "file", "version">>) = 5
      /\ Tail(<<"findApp", "createApp", "put", "file", "version">>)
           = <<"createApp", "put", "file", "version">>
      /\ Len(<<"getApp", "findVersion", "put", "file", "version">>) = 5
      /\ Tail(<<"getApp", "findVersion", "put", "file", "version">>)
           = <<"findVersion", "put", "file", "version">>
  OBVIOUS
<1>6. t \in {<<"file">>, <<"cert">>, <<"managed">>, <<"version">>, <<"drop">>, <<"unapp">>}
        => ~(Len(t) > 1)
  BY <1>1
<1>7. Tail(Tail(<<"findApp", "createApp", "put", "file", "version">>))
        = <<"put", "file", "version">>
  BY <1>4, <1>5
<1>8. \A n \in {2, 3, 4, 5} : n > 1
  OBVIOUS
<1> QED BY <1>2, <1>3, <1>4, <1>5, <1>6, <1>7, <1>8, Zenon

(* The moves, step by step. *)
LEMMA PutGoes ==
  ASSUME TypeOK, NEW j \in Job, ControlOf(j), Step(j) = "put", Goes(j)
  PROVE  /\ Moves(j) /\ job[j].at = "run" /\ Before(j) /\ ~PutDone(j)
         /\ job'[j].at = "run" /\ Before(j)' /\ PutDone(j)'
         /\ job'[j].todo \notin {<<"managed">>, <<"version">>}
<1> DEFINE todo == job[j].todo
<1>1. /\ Active(j) /\ job[j].at = "run" /\ Running(j) /\ Head(todo) = "put"
      /\ job[j].req.kind \in Kind
  BY StepIs DEF UndoSteps
<1>2. todo \in {<<"put", "file">>, <<"put", "cert">>, <<"put", "file", "managed">>,
                <<"put", "file", "version">>}
  BY <1>1 DEF Running
<1>3. /\ Stays(j) /\ job'[j].at = "run"
      /\ job'[j].todo = Tail(todo)
  BY <1>1, <1>2, GoesTo, TailIs
<1>4. /\ todo = <<"put", "file">> => job'[j].todo = <<"file">>
      /\ todo = <<"put", "cert">> => job'[j].todo = <<"cert">>
      /\ todo = <<"put", "file", "managed">> => job'[j].todo = <<"file", "managed">>
      /\ todo = <<"put", "file", "version">> => job'[j].todo = <<"file", "version">>
  BY <1>3, TailIs
<1>5. Before(j) /\ ~PutDone(j)
  BY <1>1, <1>2 DEF Before, PutDone
<1>6. Before(j)' /\ job'[j].todo \notin {<<"managed">>, <<"version">>}
  BY <1>2, <1>3, <1>4 DEF Before
<1>7. Running(j)'
  <2>1. CASE todo = <<"put", "file">>
    BY <1>1, <1>3, <1>4, <2>1 DEF Running, Stays
  <2>2. CASE todo = <<"put", "cert">>
    BY <1>1, <1>3, <1>4, <2>2 DEF Running, Stays
  <2>3. CASE todo = <<"put", "file", "managed">>
    BY <1>1, <1>3, <1>4, <2>3 DEF Running, Stays
  <2>4. CASE todo = <<"put", "file", "version">>
    BY <1>1, <1>3, <1>4, <2>4 DEF Running, Stays
  <2> QED BY <1>2, <2>1, <2>2, <2>3, <2>4
<1>8. PutDone(j)'
  <2>1. /\ todo = <<"put", "file">> => job'[j].req.body
        /\ todo = <<"put", "cert">> => job'[j].req.kind = "cert" \/ job'[j].req.body
    BY <1>1, <1>3 DEF Running, Stays
  <2> QED BY <1>2, <1>3, <1>4, <2>1 DEF PutDone
<1>9. ControlOf(j)' /\ Active(j)'
  BY <1>1, <1>3, <1>7 DEF ControlOf, Stays, Active
<1> QED BY <1>1, <1>3, <1>5, <1>6, <1>8, <1>9 DEF Moves, Stays

(* After the call that stores the file or the certificate. *)
LEMMA StoreGoes ==
  ASSUME TypeOK, NEW j \in Job, ControlOf(j), Step(j) \in {"file", "cert"}, Goes(j)
  PROVE  /\ Moves(j) /\ job[j].at = "run" /\ Before(j) /\ ~Before(j)'
         /\ Derived(job[j].req) => PutDone(j)
         /\ job'[j].at \in {"run", "ok"}
         /\ Derived(job[j].req) /\ job[j].req.kind # "cert" => Step(j) = "file"
         /\ job[j].req.kind \in {"app", "publish", "managed", "file"} => Step(j) = "file"
         /\ Step(j) = "file" => job[j].req.kind \in {"app", "publish", "managed", "file"}
<1> DEFINE todo == job[j].todo
           q == job[j].req
<1>1. /\ Active(j) /\ job[j].at = "run" /\ Running(j) /\ Head(todo) = Step(j) /\ q.kind \in Kind
  BY StepIs DEF UndoSteps
<1>2. \/ todo = <<"file">> /\ q.kind = "file"
      \/ todo = <<"cert">> /\ q.kind \in {"cert", "certApi"}
      \/ todo = <<"file", "managed">> /\ q.kind = "managed"
      \/ /\ todo = <<"file", "version">>
         /\ q.kind \in {"app", "publish"} /\ job[j].app \in AppId
  BY <1>1 DEF Running
<1>3. Before(j)
  BY <1>1, <1>2 DEF Before
<1>7. Derived(q) => PutDone(j)
  BY <1>1, <1>2 DEF PutDone, Derived
<1>8. /\ Derived(q) /\ q.kind # "cert" => Step(j) = "file"
      /\ q.kind \in {"app", "publish", "managed", "file"} => Step(j) = "file"
      /\ Step(j) = "file" => q.kind \in {"app", "publish", "managed", "file"}
  BY <1>1, <1>2 DEF Derived
<1>4. CASE todo \in {<<"file">>, <<"cert">>}
  <2>1. Stays(j) /\ job'[j].at = "ok" /\ job'[j].todo = <<>>
    BY <1>1, <1>4, GoesTo, TailIs
  <2>2. ControlOf(j)' /\ Active(j)' /\ ~Before(j)'
    BY <1>1, <2>1 DEF ControlOf, Stays, Active, Before
  <2>3. Moves(j)
    BY <1>1, <1>3, <2>1, <2>2 DEF Moves, Stays
  <2> QED BY <1>1, <1>3, <1>7, <1>8, <2>1, <2>2, <2>3
<1>5. CASE todo = <<"file", "managed">>
  <2>1. Stays(j) /\ job'[j].at = "run" /\ job'[j].todo = <<"managed">>
    BY <1>1, <1>5, GoesTo, TailIs
  <2>2. Running(j)'
    BY <1>2, <1>5, <2>1 DEF Running, Stays
  <2>3. ControlOf(j)' /\ Active(j)' /\ ~Before(j)'
    BY <1>1, <2>1, <2>2 DEF ControlOf, Stays, Active, Before
  <2>4. Moves(j)
    BY <1>1, <1>3, <2>1, <2>3 DEF Moves, Stays
  <2> QED BY <1>1, <1>3, <1>7, <1>8, <2>1, <2>3, <2>4
<1>6. CASE todo = <<"file", "version">>
  <2>1. Stays(j) /\ job'[j].at = "run" /\ job'[j].todo = <<"version">>
    BY <1>1, <1>6, GoesTo, TailIs
  <2>2. Running(j)'
    BY <1>2, <1>6, <2>1 DEF Running, Stays
  <2>3. ControlOf(j)' /\ Active(j)' /\ ~Before(j)'
    BY <1>1, <2>1, <2>2 DEF ControlOf, Stays, Active, Before
  <2>4. Moves(j)
    BY <1>1, <1>3, <2>1, <2>3 DEF Moves, Stays
  <2> QED BY <1>1, <1>3, <1>7, <1>8, <2>1, <2>3, <2>4
<1> QED BY <1>2, <1>4, <1>5, <1>6

(* The last step of a handler succeeded. *)
LEMMA LastGoes ==
  ASSUME TypeOK, NEW j \in Job, ControlOf(j), Step(j) \in {"managed", "version"}, Goes(j)
  PROVE  /\ Moves(j) /\ job[j].at = "run" /\ job'[j].at = "ok"
         /\ job[j].todo \in {<<"managed">>, <<"version">>}
         /\ Derived(job[j].req) => PutDone(j)
         /\ PutDone(j) => Derived(job[j].req)
         /\ Step(j) = "version" =>
              /\ job[j].req.kind \in {"app", "publish", "version", "versionApi"}
              /\ job[j].app \in AppId
<1> DEFINE todo == job[j].todo
           q == job[j].req
<1>1. /\ Active(j) /\ job[j].at = "run" /\ Running(j) /\ Head(todo) = Step(j) /\ q.kind \in Kind
  BY StepIs DEF UndoSteps
<1>2. \/ todo = <<"managed">> /\ q.kind \in {"bind", "managed"}
      \/ /\ todo = <<"version">> /\ job[j].app \in AppId
         /\ q.kind \in {"app", "publish", "version", "versionApi"}
  BY <1>1 DEF Running
<1>3. Stays(j) /\ job'[j].at = "ok" /\ job'[j].todo = <<>>
  BY <1>1, <1>2, GoesTo, TailIs
<1>4. ControlOf(j)' /\ Active(j)' /\ ~Before(j)'
  BY <1>1, <1>3 DEF ControlOf, Stays, Active, Before
<1>5. Moves(j)
  BY <1>1, <1>3, <1>4 DEF Moves, Stays
<1>6. Derived(q) <=> PutDone(j)
  BY <1>1, <1>2 DEF PutDone, Derived
<1>7. Step(j) = "version" =>
        q.kind \in {"app", "publish", "version", "versionApi"} /\ job[j].app \in AppId
  BY <1>1, <1>2
<1> QED BY <1>1, <1>2, <1>3, <1>5, <1>6, <1>7

(* A step of what undoes a handler. *)
LEMMA UndoGoes ==
  ASSUME TypeOK, NEW j \in Job, ControlOf(j), Step(j) \in UndoSteps, Goes(j)
  PROVE  /\ Moves(j) /\ job[j].at = "undo" /\ job'[j].at \in {"undo", "failed"}
         /\ Step(j) = "retire" => PutDone(j)'
         /\ Step(j) = "unapp" => ~PutDone(j) /\ job[j].app \in AppId
<1> DEFINE todo == job[j].todo
<1>1. Step(j) # "none" /\ Active(j) /\ Head(todo) = Step(j)
      /\ job[j].at = "undo" /\ Undoing(j)
  BY StepIs DEF UndoSteps
<1>2. \/ todo = <<"drop">>
      \/ todo = <<"retire", "drop">> /\ job[j].req.kind \in {"managed", "publish"}
      \/ /\ todo \in {<<"retire", "drop", "unapp">>, <<"drop", "unapp">>, <<"unapp">>}
         /\ job[j].req.kind = "app" /\ job[j].app \in AppId
  BY <1>1 DEF Undoing
<1>3. CASE todo \in {<<"drop">>, <<"unapp">>}
  <2>1. Stays(j) /\ job'[j].at = "failed" /\ job'[j].todo = <<>>
    BY <1>1, <1>3, GoesTo, TailIs
  <2>2. ControlOf(j)' /\ Active(j)' /\ ~Before(j)'
    BY <1>1, <2>1 DEF ControlOf, Stays, Active, Before
  <2>3. Moves(j)
    BY <1>1, <2>1, <2>2 DEF Moves, Stays
  <2>4. Step(j) = "unapp" => ~PutDone(j) /\ job[j].app \in AppId
    BY <1>1, <1>2, <1>3 DEF PutDone
  <2>5. Step(j) # "retire"
    BY <1>1, <1>3
  <2> QED BY <1>1, <2>1, <2>3, <2>4, <2>5
<1>4. CASE todo \in {<<"retire", "drop">>, <<"retire", "drop", "unapp">>, <<"drop", "unapp">>}
  <2>1. Stays(j) /\ job'[j].at = "undo" /\ job'[j].todo = Tail(todo)
    BY <1>1, <1>4, GoesTo, TailIs
  <2>2. \/ todo = <<"retire", "drop">> /\ job'[j].todo = <<"drop">>
        \/ todo = <<"retire", "drop", "unapp">> /\ job'[j].todo = <<"drop", "unapp">>
        \/ todo = <<"drop", "unapp">> /\ job'[j].todo = <<"unapp">>
    BY <1>4, <2>1, TailIs
  <2>3. Undoing(j)'
    <3>1. CASE todo = <<"retire", "drop">>
      <4>1. job[j].req.kind \in {"managed", "publish"}
        BY <1>2, <3>1
      <4>2. Derived(job'[j].req)
        BY <2>1, <4>1 DEF Stays, Derived
      <4> QED BY <2>2, <3>1, <4>2 DEF Undoing
    <3>2. CASE todo # <<"retire", "drop">>
      <4>1. todo # <<"drop">>
        BY <1>4
      <4>2. job[j].req.kind = "app" /\ job[j].app \in AppId
        BY <1>2, <3>2, <4>1
      <4>3. job'[j].req.kind = "app" /\ job'[j].app \in AppId
        BY <2>1, <4>2 DEF Stays
      <4> QED BY <2>2, <3>2, <4>3 DEF Undoing
    <3> QED BY <3>1, <3>2
  <2>4. ControlOf(j)' /\ Active(j)' /\ ~Before(j)'
    BY <1>1, <2>1, <2>3 DEF ControlOf, Stays, Active, Before
  <2>5. Moves(j)
    BY <1>1, <2>1, <2>4 DEF Moves, Stays
  <2>6. Step(j) = "retire" => PutDone(j)'
    BY <1>1, <2>1, <2>2 DEF PutDone
  <2>7. Step(j) # "unapp"
    BY <1>1, <2>2
  <2> QED BY <1>1, <2>1, <2>5, <2>6, <2>7
<1> QED BY <1>2, <1>3, <1>4

(* A handler whose step is refused. *)
LEMMA FailMoves ==
  ASSUME TypeOK, NEW j \in Job, ControlOf(j), job[j].at = "run", Fails(j)
  PROVE  Moves(j) /\ job'[j].at \in {"undo", "failed"} /\ (PutDone(j) => PutDone(j)')
<1> DEFINE undo == Undo(job[j].req, Step(j))
<1>1. Active(j)
  BY DEF Active
<1>2. CASE undo = <<>>
  <2>1. Stays(j) /\ job'[j].at = "failed" /\ job'[j].todo = <<>>
    BY <1>2, FailsTo
  <2>2. ControlOf(j)' /\ Active(j)' /\ ~Before(j)'
    BY <1>1, <2>1 DEF ControlOf, Stays, Active, Before
  <2>3. ~PutDone(j)
    <3>1. undo \notin {<<"drop">>, <<"retire", "drop">>, <<"retire", "drop", "unapp">>}
      BY <1>2
    <3> QED BY <3>1, UndoOf
  <2>4. Moves(j)
    BY <1>1, <2>1, <2>2 DEF Moves, Stays
  <2> QED BY <2>1, <2>3, <2>4
<1>3. CASE undo # <<>>
  <2>1. Stays(j) /\ job'[j].at = "undo" /\ job'[j].todo = undo
    BY <1>3, FailsTo
  <2>2. \/ /\ undo = <<"drop">>
           /\ \/ Derived(job[j].req)
              \/ job[j].req.kind \in {"file", "certApi"} /\ job[j].req.body
        \/ undo = <<"retire", "drop">> /\ job[j].req.kind \in {"managed", "publish"}
        \/ /\ undo = <<"retire", "drop", "unapp">>
           /\ job[j].req.kind = "app" /\ job[j].app \in AppId
    BY <1>3, UndoOf
  <2>3. Undoing(j)' /\ job'[j].todo # <<"unapp">>
    <3> HIDE DEF undo
    <3>1. job'[j].req = job[j].req /\ job'[j].app = job[j].app /\ job'[j].todo = undo
      BY <2>1 DEF Stays
    <3> QED BY <2>2, <3>1 DEF Undoing
  <2>4. ControlOf(j)' /\ Active(j)' /\ ~Before(j)' /\ PutDone(j)'
    BY <1>1, <2>1, <2>3 DEF ControlOf, Stays, Active, Before, PutDone
  <2>5. Moves(j)
    BY <1>1, <2>1, <2>4 DEF Moves, Stays
  <2> QED BY <2>1, <2>4, <2>5
<1> QED BY <1>2, <1>3

(* A refused or lost call, and the end of the server: the handler fails. *)
LEMMA RefusedMoves ==
  ASSUME TypeOK, NEW j \in Job, ControlOf(j), Step(j) # "none", Fails(j)
  PROVE  Moves(j) /\ job'[j].at \in {"undo", "failed"}
<1>1. CASE job[j].at = "run"
  BY <1>1, FailMoves
<1>2. CASE job[j].at = "undo"
  <2>1. Step(j) \in UndoSteps /\ Goes(j)
    BY <1>2, StepIs DEF Fails
  <2> QED BY <2>1, UndoGoes
<1> QED BY <1>1, <1>2, StepIs

LEMMA StopMoves ==
  ASSUME TypeOK, NEW j \in Job, ControlOf(j), job[j].at \in {"run", "undo"}, Ends(j, "failed")
  PROVE  Moves(j) /\ job'[j].at = "failed"
<1>1. Stays(j) /\ job'[j].at = "failed" /\ job'[j].todo = <<>> /\ Active(j)
  BY EndsAt DEF Active
<1>2. ControlOf(j)' /\ Active(j)' /\ ~Before(j)'
  BY <1>1 DEF ControlOf, Stays, Active, Before
<1> QED BY <1>1, <1>2 DEF Moves, Stays

(* Steps that look before anything is stored. *)
Looks(j) == FindsApp(j) \/ CreatesApp(j) \/ GetsApp(j) \/ FindsVersion(j)

(* A move to the next step that also notes the app, or its package. *)
Noted(j, app, pkg, todo) == [job[j] EXCEPT !.app = app, !.pkg = pkg, !.todo = todo]

LEMMA NotedIs ==
  ASSUME TypeOK, NEW j \in Job, NEW app \in AppId, NEW pkg \in Package,
         NEW todo \in Seq(StepName)
  PROVE  LET new == Noted(j, app, pkg, todo) IN
         /\ new \in Handling
         /\ new.at = job[j].at /\ new.req = job[j].req /\ new.todo = todo
         /\ new.app = app /\ new.pkg = pkg
<1>1. job \in [Job -> Handling]
  BY DEF TypeOK
<1> QED BY <1>1 DEF Handling, Noted

(* What is left after a step that looks. *)
LEMMA LooksAt ==
  ASSUME NEW j \in Job, ControlOf(j), Step(j) \in {"findApp", "createApp", "getApp", "findVersion"}
  PROVE  /\ job[j].at = "run" /\ Active(j) /\ Running(j) /\ Before(j) /\ ~PutDone(j)
         /\ Step(j) = "findApp" => /\ job[j].todo = <<"findApp", "createApp", "put", "file", "version">>
                                   /\ job[j].req.kind = "app"
         /\ Step(j) = "createApp" => /\ job[j].todo = <<"createApp", "put", "file", "version">>
                                     /\ job[j].req.kind = "app"
         /\ Step(j) = "getApp" =>
              /\ job[j].todo = <<"getApp", "findVersion", "put", "file", "version">>
              /\ job[j].req.kind = "publish" /\ job[j].app \in AppId
         /\ Step(j) = "findVersion" => /\ job[j].todo = <<"findVersion", "put", "file", "version">>
                                       /\ job[j].req.kind = "publish" /\ job[j].app \in AppId
<1> DEFINE todo == job[j].todo
<1>1. /\ Active(j) /\ job[j].at = "run" /\ Running(j) /\ Head(todo) = Step(j)
  BY StepIs DEF UndoSteps
<1>2. /\ Step(j) = "findApp" => todo = <<"findApp", "createApp", "put", "file", "version">>
      /\ Step(j) = "createApp" => todo = <<"createApp", "put", "file", "version">>
      /\ Step(j) = "getApp" => todo = <<"getApp", "findVersion", "put", "file", "version">>
      /\ Step(j) = "findVersion" => todo = <<"findVersion", "put", "file", "version">>
  BY <1>1 DEF Running
<1>3. /\ Step(j) \in {"findApp", "createApp"} => job[j].req.kind = "app"
      /\ Step(j) \in {"getApp", "findVersion"} => job[j].req.kind = "publish" /\ job[j].app \in AppId
  BY <1>1 DEF Running
<1>4. Before(j) /\ ~PutDone(j)
  BY <1>1 DEF Before, PutDone
<1> QED BY <1>1, <1>2, <1>3, <1>4

(* The rest of an upload of an app lies ahead. *)
LEMMA AheadIs ==
  ASSUME NEW j \in Job, job'[j].at = "run", job'[j].req \in Request, job'[j].pkg \in Package,
         \/ /\ job'[j].todo = <<"createApp", "put", "file", "version">>
            /\ job'[j].req.kind = "app"
         \/ /\ job'[j].todo = <<"findVersion", "put", "file", "version">>
            /\ job'[j].req.kind = "publish" /\ job'[j].app \in AppId
         \/ /\ job'[j].todo = <<"put", "file", "version">>
            /\ job'[j].req.kind \in {"app", "publish"} /\ job'[j].app \in AppId
  PROVE  ControlOf(j)' /\ Active(j)' /\ Before(j)' /\ ~PutDone(j)'
<1>1. Running(j)'
  BY DEF Running
<1>2. Before(j)' /\ ~PutDone(j)'
  BY DEF Before, PutDone
<1>3. Active(j)'
  BY DEF Active
<1> QED BY <1>1, <1>2, <1>3 DEF ControlOf

LEMMA LooksMoves ==
  ASSUME TypeOK, NEW j \in Job, ControlOf(j), Looks(j)
  PROVE  /\ Moves(j) /\ job[j].at = "run" /\ Before(j) /\ ~PutDone(j)
         /\ job'[j].at = "run" => ~PutDone(j)' /\ Before(j)'
<1> DEFINE Result == /\ Moves(j) /\ job[j].at = "run" /\ Before(j) /\ ~PutDone(j)
                     /\ job'[j].at = "run" => ~PutDone(j)' /\ Before(j)'
<1>0. Step(j) \in {"findApp", "createApp", "getApp", "findVersion"}
  BY DEF Looks, FindsApp, CreatesApp, GetsApp, FindsVersion
<1>1. /\ job[j].at = "run" /\ Active(j) /\ Before(j) /\ ~PutDone(j)
      /\ job[j].req \in Request /\ job[j].pkg \in Package
  BY <1>0, LooksAt DEF ControlOf
<1>2. ASSUME Fails(j) PROVE Result
  BY <1>0, <1>1, <1>2, FailMoves
<1>3. ASSUME Ends(j, "ok") PROVE Result
  <2>1. Stays(j) /\ job'[j].at = "ok" /\ job'[j].todo = <<>>
    BY <1>3, EndsAt
  <2>2. ControlOf(j)' /\ Active(j)' /\ ~Before(j)'
    BY <1>1, <2>1 DEF ControlOf, Stays, Active, Before
  <2>3. Moves(j)
    BY <1>1, <2>1, <2>2 DEF Moves, Stays
  <2> QED BY <1>1, <2>1, <2>3
<1>4. ASSUME job' \in [Job -> Handling], \A i \in Job : i # j => job'[i] = job[i],
             job'[j].req = job[j].req, job'[j].at = "run", job'[j].pkg \in Package,
             \/ /\ job'[j].todo = <<"createApp", "put", "file", "version">>
                /\ job'[j].req.kind = "app"
             \/ /\ job'[j].todo = <<"findVersion", "put", "file", "version">>
                /\ job'[j].req.kind = "publish" /\ job'[j].app \in AppId
             \/ /\ job'[j].todo = <<"put", "file", "version">>
                /\ job'[j].req.kind \in {"app", "publish"} /\ job'[j].app \in AppId
      PROVE  Result
  <2>1. ControlOf(j)' /\ Active(j)' /\ Before(j)' /\ ~PutDone(j)'
    BY <1>1, <1>4, AheadIs
  <2> QED BY <1>1, <1>4, <2>1 DEF Moves
<1>5. job[j] \in Handling /\ <<"put", "file", "version">> \in Seq(StepName)
      /\ <<"findVersion", "put", "file", "version">> \in Seq(StepName)
  BY DEF TypeOK, StepName
<1> SUFFICES Result
  OBVIOUS
<1> HIDE DEF Result
<1>6. CASE FindsApp(j)
  <2>1. Step(j) = "findApp"
    BY <1>6 DEF FindsApp
  <2>2. job[j].todo = <<"findApp", "createApp", "put", "file", "version">>
        /\ job[j].req.kind = "app"
    BY <2>1, LooksAt
  <2>3. CASE Goes(j)
    <3>1. Stays(j) /\ job'[j].at = "run"
          /\ job'[j].todo = <<"createApp", "put", "file", "version">>
      BY <1>1, <2>2, <2>3, GoesTo, TailIs
    <3> QED BY <1>1, <1>4, <2>2, <3>1 DEF Stays
  <2>4. ASSUME AppsNamed(job[j].req.pkg) # {},
               job' = [job EXCEPT ![j].app = GetAppByPackageName(job[j].req.pkg),
                                  ![j].todo = Tail(Tail(@))]
        PROVE  Result
    <3> DEFINE i == GetAppByPackageName(job[j].req.pkg)
               rest == <<"put", "file", "version">>
    <3>1. i \in AppId
      BY <2>4 DEF GetAppByPackageName, AppsNamed
    <3>2. Tail(Tail(job[j].todo)) = rest
      BY <2>2, TailIs
    <3>3. job' = [job EXCEPT ![j] = Noted(j, i, job[j].pkg, rest)]
      <4>1. job \in [Job -> Handling]
        BY DEF TypeOK
      <4> HIDE DEF i
      <4> QED BY <2>4, <3>2, <4>1 DEF Handling, i, Noted
    <3>4. rest \in Seq(StepName)
      BY <1>5 DEF Handling
    <3> HIDE DEF i, rest
    <3>5. /\ job' \in [Job -> Handling] /\ \A k \in Job : k # j => job'[k] = job[k]
          /\ job'[j].req = job[j].req /\ job'[j].app = i /\ job'[j].pkg = job[j].pkg
          /\ job'[j].at = job[j].at /\ job'[j].todo = rest
      <4> DEFINE new == Noted(j, i, job[j].pkg, rest)
      <4>1. /\ new \in Handling /\ new.at = job[j].at /\ new.req = job[j].req
            /\ new.todo = rest /\ new.app = i /\ new.pkg = job[j].pkg
        BY <1>1, <3>1, <3>4, NotedIs
      <4>2. job \in [Job -> Handling]
        BY DEF TypeOK
      <4> HIDE DEF new
      <4>3. /\ job' \in [Job -> Handling] /\ job'[j] = new
            /\ \A k \in Job : k # j => job'[k] = job[k]
        BY <3>3, <4>1, <4>2 DEF new
      <4> QED BY <4>1, <4>3
    <3> QED BY <1>1, <1>4, <2>2, <3>1, <3>5 DEF rest
  <2> QED BY <1>2, <1>3, <1>6, <2>3, <2>4 DEF FindsApp
<1>7. CASE CreatesApp(j)
  <2>1. Step(j) = "createApp"
    BY <1>7 DEF CreatesApp
  <2>2. job[j].todo = <<"createApp", "put", "file", "version">> /\ job[j].req.kind = "app"
    BY <2>1, LooksAt
  <2>3. ASSUME job' = [job EXCEPT ![j].app = j, ![j].reused = FALSE, ![j].todo = Tail(@)]
        PROVE  Result
    <3> DEFINE rest == <<"put", "file", "version">>
    <3>1. j \in AppId
      BY DEF AppId
    <3>2. Tail(job[j].todo) = rest
      BY <2>2, TailIs
    <3> DEFINE new == [job[j] EXCEPT !.app = j, !.reused = FALSE, !.todo = rest]
    <3>3. job \in [Job -> Handling]
      BY DEF TypeOK
    <3>4. job' = [job EXCEPT ![j] = new]
      BY <2>3, <3>2, <3>3 DEF Handling
    <3>5. /\ new.at = job[j].at /\ new.req = job[j].req /\ new.todo = rest
          /\ new.app = j /\ new.pkg = job[j].pkg
      BY <3>3 DEF Handling
    <3>6. new \in Handling
      BY <1>5, <3>1, <3>3 DEF Handling
    <3> HIDE DEF new
    <3>7. job' \in [Job -> Handling] /\ job'[j] = new /\ \A k \in Job : k # j => job'[k] = job[k]
      BY <3>3, <3>4, <3>6
    <3> QED BY <1>1, <1>4, <2>2, <3>1, <3>5, <3>7
  <2> QED BY <1>2, <1>7, <2>3 DEF CreatesApp
<1>8. CASE GetsApp(j)
  <2>1. Step(j) = "getApp"
    BY <1>8 DEF GetsApp
  <2>2. job[j].todo = <<"getApp", "findVersion", "put", "file", "version">>
        /\ job[j].req.kind = "publish" /\ job[j].app \in AppId
    BY <2>1, LooksAt
  <2>3. ASSUME apps[job[j].app] # None,
               job' = [job EXCEPT ![j].pkg = apps[job[j].app].pkg, ![j].todo = Tail(@)]
        PROVE  Result
    <3> DEFINE rest == <<"findVersion", "put", "file", "version">>
               pkg == apps[job[j].app].pkg
    <3>1. pkg \in Package
      BY <2>2, <2>3 DEF TypeOK, AppRow
    <3>2. Tail(job[j].todo) = rest
      BY <2>2, TailIs
    <3>3. job' = [job EXCEPT ![j] = Noted(j, job[j].app, pkg, rest)]
      <4>1. job \in [Job -> Handling]
        BY DEF TypeOK
      <4> QED BY <2>3, <3>2, <4>1 DEF Handling, Noted
    <3>4. rest \in Seq(StepName)
      BY <1>5 DEF Handling
    <3> HIDE DEF pkg, rest
    <3>5. /\ job' \in [Job -> Handling] /\ \A k \in Job : k # j => job'[k] = job[k]
          /\ job'[j].req = job[j].req /\ job'[j].app = job[j].app /\ job'[j].pkg = pkg
          /\ job'[j].at = job[j].at /\ job'[j].todo = rest
      <4> DEFINE new == Noted(j, job[j].app, pkg, rest)
      <4>1. /\ new \in Handling /\ new.at = job[j].at /\ new.req = job[j].req
            /\ new.todo = rest /\ new.app = job[j].app /\ new.pkg = pkg
        BY <2>2, <3>1, <3>4, NotedIs
      <4>2. job \in [Job -> Handling]
        BY DEF TypeOK
      <4> HIDE DEF new
      <4>3. /\ job' \in [Job -> Handling] /\ job'[j] = new
            /\ \A k \in Job : k # j => job'[k] = job[k]
        BY <3>3, <4>1, <4>2 DEF new
      <4> QED BY <4>1, <4>3
    <3> QED BY <1>1, <1>4, <2>2, <3>1, <3>5 DEF rest
  <2> QED BY <1>2, <1>8, <2>3 DEF GetsApp
<1>9. CASE FindsVersion(j)
  <2>1. Step(j) = "findVersion"
    BY <1>9 DEF FindsVersion
  <2>2. job[j].todo = <<"findVersion", "put", "file", "version">>
        /\ job[j].req.kind = "publish" /\ job[j].app \in AppId
    BY <2>1, LooksAt
  <2>3. CASE Goes(j)
    <3>1. Stays(j) /\ job'[j].at = "run" /\ job'[j].todo = <<"put", "file", "version">>
      BY <1>1, <2>2, <2>3, GoesTo, TailIs
    <3> QED BY <1>1, <1>4, <2>2, <3>1 DEF Stays
  <2> QED BY <1>2, <1>3, <1>9, <2>3 DEF FindsVersion
<1> QED BY <1>6, <1>7, <1>8, <1>9 DEF Looks

(* A request is taken up. *)
LEMMA StartsMoves ==
  ASSUME TypeOK, NEW j \in Job, NEW q \in Request, Starts(j, q)
  PROVE  /\ job' \in [Job -> Handling]
         /\ \A i \in Job : i # j => job'[i] = job[i]
         /\ job[j].at = "idle" /\ job'[j].at = "run" /\ job'[j].req = q
         /\ ControlOf(j)' /\ Active(j)' /\ ~PutDone(j)' /\ (Derived(q) => Before(j)')
<1> DEFINE new == [at |-> "run", req |-> q, todo |-> Handler(q).steps,
                   app |-> q.target, pkg |-> q.pkg, reused |-> TRUE]
<1>1. /\ q.kind \in Kind /\ q.body \in BOOLEAN /\ q.pkg \in Package /\ q.target \in AppId \cup {None}
      /\ q.kind \in {"version", "versionApi", "publish"} => q.target \in AppId
  BY RequestAssumption
<1>2. \/ q.kind = "file" /\ q.body /\ Handler(q).steps = <<"put", "file">>
      \/ q.kind = "file" /\ ~q.body /\ Handler(q).steps = <<"file">>
      \/ (q.kind = "cert" \/ (q.kind = "certApi" /\ q.body)) /\ Handler(q).steps = <<"put", "cert">>
      \/ q.kind = "certApi" /\ ~q.body /\ Handler(q).steps = <<"cert">>
      \/ q.kind = "bind" /\ Handler(q).steps = <<"managed">>
      \/ q.kind \in {"version", "versionApi"} /\ Handler(q).steps = <<"version">>
      \/ q.kind = "managed" /\ Handler(q).steps = <<"put", "file", "managed">>
      \/ q.kind = "app"
           /\ Handler(q).steps = <<"findApp", "createApp", "put", "file", "version">>
      \/ q.kind = "publish"
           /\ Handler(q).steps = <<"getApp", "findVersion", "put", "file", "version">>
  BY <1>1, HandlerIs DEF Kind
<1>3. Handler(q).steps \in Seq(StepName)
  <2>1. /\ <<"put", "file">> \in Seq(StepName) /\ <<"file">> \in Seq(StepName)
        /\ <<"put", "cert">> \in Seq(StepName) /\ <<"cert">> \in Seq(StepName)
        /\ <<"managed">> \in Seq(StepName) /\ <<"version">> \in Seq(StepName)
        /\ <<"put", "file", "managed">> \in Seq(StepName)
        /\ <<"findApp", "createApp", "put", "file", "version">> \in Seq(StepName)
        /\ <<"getApp", "findVersion", "put", "file", "version">> \in Seq(StepName)
    BY DEF StepName
  <2> QED BY <1>2, <2>1
<1>4. new \in Handling
  BY <1>1, <1>3 DEF Handling
<1>5. job \in [Job -> Handling] /\ job' = [job EXCEPT ![j] = new] /\ job[j].at = "idle"
  BY DEF Starts, TypeOK
<1>6. /\ new.at = "run" /\ new.req = q /\ new.todo = Handler(q).steps
      /\ new.app = q.target /\ new.pkg = q.pkg
  OBVIOUS
<1> HIDE DEF new
<1>7. job' \in [Job -> Handling] /\ job'[j] = new /\ \A i \in Job : i # j => job'[i] = job[i]
  BY <1>4, <1>5
<1>8. Running(j)'
  BY <1>1, <1>2, <1>6, <1>7 DEF Running
<1>9. ~PutDone(j)'
  BY <1>1, <1>2, <1>6, <1>7 DEF PutDone
<1>10. Derived(q) => Before(j)'
  BY <1>2, <1>6, <1>7 DEF Before, Derived
<1>11. ControlOf(j)' /\ Active(j)'
  BY <1>1, <1>6, <1>7, <1>8 DEF ControlOf, Active
<1> QED BY <1>5, <1>6, <1>7, <1>9, <1>10, <1>11

-----------------------------------------------------------------------------
(***************************************************************************)
(* What steps keep                                                         *)
(***************************************************************************)

(* No handler forgets its request, goes back before the file it stored, or *)
(* gives it another name.                                                  *)
JobsKeep == \A i \in Job :
  /\ Active(i) => Active(i)' /\ job'[i].req = job[i].req
  /\ Before(i)' => Before(i)
  /\ job[i].at \in {"undo", "ok", "failed"} => job'[i].at \in {"undo", "ok", "failed"}
  /\ ~Before(i) => job'[i].pkg = job[i].pkg

LEMMA MovesKeep ==
  ASSUME Control, NEW j \in Job, Moves(j)
  PROVE  JobsKeep /\ Control'
<1>1. ASSUME NEW i \in Job, i # j
      PROVE  /\ Active(i)' = Active(i) /\ job'[i] = job[i] /\ Before(i)' = Before(i)
             /\ ControlOf(i)'
  <2>1. job'[i] = job[i]
    BY <1>1 DEF Moves
  <2>2. ControlOf(i)
    BY DEF Control
  <2> QED BY <2>1, <2>2 DEF Active, Before, ControlOf, Running, Undoing
<1>2. Control'
  BY <1>1 DEF Moves, Control
<1>3. ASSUME NEW i \in Job
      PROVE  /\ Active(i) => Active(i)' /\ job'[i].req = job[i].req
             /\ Before(i)' => Before(i)
             /\ job[i].at \in {"undo", "ok", "failed"} => job'[i].at \in {"undo", "ok", "failed"}
             /\ ~Before(i) => job'[i].pkg = job[i].pkg
  <2>1. CASE i = j
    BY <2>1 DEF Moves
  <2>2. CASE i # j
    BY <1>1, <2>2
  <2> QED BY <2>1, <2>2
<1> QED BY <1>2, <1>3 DEF JobsKeep

LEMMA StartsKeep ==
  ASSUME TypeOK, Control, NEW j \in Job, NEW q \in Request, Starts(j, q)
  PROVE  JobsKeep /\ Control'
<1>1. ASSUME NEW i \in Job, i # j
      PROVE  /\ Active(i)' = Active(i) /\ job'[i] = job[i] /\ Before(i)' = Before(i)
             /\ ControlOf(i)'
  <2>1. job'[i] = job[i]
    BY <1>1, StartsMoves
  <2>2. ControlOf(i)
    BY DEF Control
  <2> QED BY <2>1, <2>2 DEF Active, Before, ControlOf, Running, Undoing
<1>2. Control'
  BY <1>1, StartsMoves DEF Control
<1>3. ~Active(j) /\ Before(j) /\ job[j].at = "idle"
  BY StartsMoves DEF Active, Before
<1> QED BY <1>1, <1>2, <1>3 DEF JobsKeep

LEMMA IdleKeeps ==
  ASSUME Control, UNCHANGED job
  PROVE  JobsKeep /\ Control'
BY DEF JobsKeep, Control, ControlOf, Active, Before, Running, Undoing

(* Rows of files and certificates keep what they say, rows of artifacts    *)
(* keep their id, key and payload.                                         *)
SameRow(r, s) == r # None => s # None /\ s.art = r.art /\ s.sum = r.sum /\ s.name = r.name
RowsKeep == \A i \in Job : SameRow(files[i], files'[i]) /\ SameRow(certs[i], certs'[i])

SameArtifact(a, b) == a.id = b.id /\ a.key = b.key /\ a.sum = b.sum
ArtifactsKeep == \A a \in artifacts : \E b \in artifacts' : SameArtifact(a, b)

LEMMA KnownKeep ==
  ASSUME RowsAreKnown, JobsKeep, RowsKeep, NEW a \in artifacts, NEW b \in artifacts',
         SameArtifact(a, b)
  PROVE  IsKnown(b)'
<1>1. IsKnown(a)
  BY DEF RowsAreKnown
<1>2. CASE a.id = Legacy /\ a.key = Legacy
  BY <1>2 DEF IsKnown, SameArtifact
<1>3. CASE ~(a.id = Legacy /\ a.key = Legacy)
  <2>1. /\ a.id \in Job /\ Active(a.id)
        /\ a.key = StorageKey(a.id) /\ a.sum = job[a.id].req.sum
        /\ Derived(job[a.id].req) =>
             \/ files[a.id] # None /\ files[a.id].art = a.id
             \/ certs[a.id] # None /\ certs[a.id].art = a.id
        /\ ~Derived(job[a.id].req) => a.key \in ApiKey
    BY <1>1, <1>3 DEF IsKnown
  <2>2. Active(a.id)' /\ job'[a.id].req = job[a.id].req
    BY <2>1 DEF JobsKeep
  <2>3. /\ b.id = a.id /\ b.key = a.key /\ b.key = StorageKey(a.id)'
        /\ b.sum = job'[a.id].req.sum
    BY <2>1, <2>2 DEF SameArtifact, StorageKey
  <2>4. Derived(job'[a.id].req) =>
             \/ files'[a.id] # None /\ files'[a.id].art = a.id
             \/ certs'[a.id] # None /\ certs'[a.id].art = a.id
    BY <2>1, <2>2 DEF RowsKeep, SameRow
  <2> QED BY <2>1, <2>2, <2>3, <2>4 DEF IsKnown
<1> QED BY <1>2, <1>3

(* What a handler knows of a key stays true; and what overwrites a key.    *)
LEMMA KeysKeep ==
  ASSUME KeysAreKnown, JobsKeep, ArtifactsKeep, NEW j \in Job, Active(j)' => Active(j)
  PROVE  KeyIsKnown(j)'
<1> SUFFICES ASSUME Active(j)', ~Derived(job'[j].req), job'[j].req.key \in Job
             PROVE  \E b \in artifacts' : b.id = job'[j].req.key /\ b.key = job'[j].req.key
  BY DEF KeyIsKnown
<1>1. Active(j) /\ job'[j].req = job[j].req
  BY DEF JobsKeep
<1>2. PICK a \in artifacts : a.id = job[j].req.key /\ a.key = job[j].req.key
  BY <1>1 DEF KeysAreKnown, KeyIsKnown
<1>3. PICK b \in artifacts' : SameArtifact(a, b)
  BY DEF ArtifactsKeep
<1> QED BY <1>1, <1>2, <1>3 DEF SameArtifact

LEMMA OverwrittenKeeps ==
  ASSUME JobsKeep, NEW k, Overwritten(k)
  PROVE  Overwritten(k)'
<1>1. PICK i \in Job : Overwrites(i, k)
  BY DEF Overwritten
<1>2. Active(i)' /\ job'[i].req = job[i].req
  BY <1>1 DEF Overwrites, Active, JobsKeep
<1> QED BY <1>1, <1>2 DEF Overwrites, Overwritten, Active

LEMMA LinksKeep ==
  ASSUME RowsAreLinked, JobsKeep, RowsKeep, ArtifactsKeep, NEW j \in Job
  PROVE  /\ files[j] # None => Linked(files[j], j)'
         /\ certs[j] # None => Linked(certs[j], j)'
<1>1. ASSUME Active(j) PROVE Active(j)' /\ job'[j].req = job[j].req /\ StorageKey(j)' = StorageKey(j)
  BY <1>1 DEF JobsKeep, StorageKey
<1>2. ASSUME files[j] # None PROVE Linked(files[j], j)'
  <2>1. /\ Active(j) /\ files[j].sum = job[j].req.sum
        /\ files'[j].art = files[j].art /\ files'[j].sum = files[j].sum
    BY <1>2 DEF RowsAreLinked, Linked, RowsKeep, SameRow
  <2>2. PICK a \in artifacts : a.id = files[j].art /\ a.key = StorageKey(j) /\ a.sum = files[j].sum
    BY <1>2 DEF RowsAreLinked, Linked
  <2>3. PICK b \in artifacts' : SameArtifact(a, b)
    BY DEF ArtifactsKeep
  <2> QED BY <1>1, <2>1, <2>2, <2>3 DEF Linked, SameArtifact
<1>3. ASSUME certs[j] # None PROVE Linked(certs[j], j)'
  <2>1. /\ Active(j) /\ certs[j].sum = job[j].req.sum
        /\ certs'[j].art = certs[j].art /\ certs'[j].sum = certs[j].sum
    BY <1>3 DEF RowsAreLinked, Linked, RowsKeep, SameRow
  <2>2. PICK a \in artifacts : a.id = certs[j].art /\ a.key = StorageKey(j) /\ a.sum = certs[j].sum
    BY <1>3 DEF RowsAreLinked, Linked
  <2>3. PICK b \in artifacts' : SameArtifact(a, b)
    BY DEF ArtifactsKeep
  <2> QED BY <1>1, <2>1, <2>2, <2>3 DEF Linked, SameArtifact
<1> QED BY <1>2, <1>3

LEMMA VersionsKeep ==
  ASSUME VersionsAreKnown, JobsKeep, RowsKeep, ArtifactsKeep, NEW v \in Range(versions)
  PROVE  VersionIsKnown(v)'
<1>1. VersionIsKnown(v)
  BY DEF VersionsAreKnown
<1>2. /\ v.id \in Job /\ job[v.id].at \in {"undo", "ok", "failed"}
      /\ v.code = job[v.id].req.code /\ v.sum = job[v.id].req.sum
      /\ Publishes(v.id) => files[v.id] # None /\ files[v.id].name = OwnFileName(v.id)
  BY <1>1 DEF VersionIsKnown
<1>3. Active(v.id) /\ ~Before(v.id)
  BY <1>2 DEF Active, Before
<1>4. /\ Active(v.id)' /\ job'[v.id].req = job[v.id].req /\ job'[v.id].pkg = job[v.id].pkg
      /\ job'[v.id].at \in {"undo", "ok", "failed"}
  BY <1>2, <1>3 DEF JobsKeep
<1>5. Publishes(v.id)' => files'[v.id] # None /\ files'[v.id].name = OwnFileName(v.id)'
  BY <1>2, <1>3, <1>4 DEF Publishes, OwnFileName, AppFileName, RowsKeep, SameRow
<1>6. ASSUME v.art \in Job
      PROVE  /\ Active(v.art)'
             /\ Derived(job'[v.art].req) => \E a \in artifacts' : a.id = v.art /\ a.sum = v.sum
  <2>1. /\ Active(v.art)
        /\ Derived(job[v.art].req) => \E a \in artifacts : a.id = v.art /\ a.sum = v.sum
    BY <1>1, <1>6 DEF VersionIsKnown
  <2>2. Active(v.art)' /\ job'[v.art].req = job[v.art].req
    BY <1>6, <2>1 DEF JobsKeep
  <2> QED BY <2>1, <2>2 DEF ArtifactsKeep, SameArtifact
<1> QED BY <1>2, <1>4, <1>5, <1>6 DEF VersionIsKnown

(* A step that stores no new row; an artifact may change its status. *)
SameRows ==
  /\ RowsKeep /\ ArtifactsKeep /\ versions' = versions
  /\ \A i \in Job : /\ files[i] = None => files'[i] = None
                    /\ certs[i] = None => certs'[i] = None
  /\ \A b \in artifacts' : \E a \in artifacts : SameArtifact(a, b)
  /\ RowsAreUnique'

LEMMA RowsStay ==
  ASSUME IInv, JobsKeep, SameRows
  PROVE  /\ RowsAreUnique' /\ RowsAreKnown' /\ RowsAreLinked' /\ NothingTooEarly'
         /\ NamesAreUnique' /\ VersionsAreKnown'
<1> USE DEF IInv
<1>1. RowsAreUnique'
  BY DEF SameRows
<1>2. RowsAreKnown'
  BY KnownKeep DEF SameRows, RowsAreKnown
<1>3. RowsAreLinked'
  <2>1. ASSUME NEW j \in Job PROVE Linked(files[j], j)' /\ Linked(certs[j], j)'
    <3>1. /\ files[j] # None => Linked(files[j], j)'
          /\ certs[j] # None => Linked(certs[j], j)'
      BY LinksKeep DEF SameRows
    <3>2. /\ files[j] = None => Linked(files[j], j)'
          /\ certs[j] = None => Linked(certs[j], j)'
      BY DEF SameRows, Linked
    <3> QED BY <3>1, <3>2
  <2> QED BY <2>1 DEF RowsAreLinked
<1>4. NothingTooEarly'
  <2>1. ASSUME NEW j \in Job, Before(j)'
        PROVE  files'[j] = None /\ certs'[j] = None /\ \A a \in artifacts' : a.id # j
    <3>1. files[j] = None /\ certs[j] = None /\ \A a \in artifacts : a.id # j
      BY <2>1 DEF JobsKeep, NothingTooEarly
    <3> QED BY <3>1 DEF SameRows, SameArtifact
  <2> QED BY <2>1 DEF NothingTooEarly
<1>5. NamesAreUnique'
  BY DEF NamesAreUnique, SameRows, RowsKeep, SameRow
<1>6. VersionsAreKnown'
  <2>1. \A v \in Range(versions) : VersionIsKnown(v)'
    BY VersionsKeep DEF SameRows
  <2> QED BY <2>1 DEF SameRows, VersionsAreKnown, Range
<1> QED BY <1>1, <1>2, <1>3, <1>4, <1>5, <1>6

(* The files of handlers that did not move, or are before their file. *)
LEMMA FilesStay ==
  ASSUME FilesAreStored, RowsKeep,
         \A i \in Job :
           \/ job'[i] = job[i]
           \/ Derived(job'[i].req) /\ job'[i].at = "run" => Before(i)'
           \/ files'[i] # None /\ (Publishes(i)' => files'[i].name = OwnFileName(i)')
  PROVE  FilesAreStored'
<1>1. ASSUME NEW i \in Job, job'[i].at = "run", job'[i].todo \in {<<"managed">>, <<"version">>},
             Derived(job'[i].req)
      PROVE  files'[i] # None /\ (Publishes(i)' => files'[i].name = OwnFileName(i)')
  <2>1. CASE files'[i] # None /\ (Publishes(i)' => files'[i].name = OwnFileName(i)')
    BY <2>1
  <2> SUFFICES ASSUME job'[i] = job[i]
               PROVE  files'[i] # None /\ (Publishes(i)' => files'[i].name = OwnFileName(i)')
    BY <1>1, <2>1 DEF Before
  <2>2. files[i] # None /\ (Publishes(i) => files[i].name = OwnFileName(i))
    BY <1>1 DEF FilesAreStored
  <2>3. Publishes(i)' = Publishes(i) /\ OwnFileName(i)' = OwnFileName(i)
    BY DEF Publishes, OwnFileName, AppFileName, Active
  <2> QED BY <2>2, <2>3 DEF RowsKeep, SameRow
<1> QED BY <1>1 DEF FilesAreStored

LEMMA ServedStay ==
  ASSUME ObjectsAreServed, JobsKeep,
         \A i \in Job : Due(i)' => \/ Due(i) /\ objects'[i] = objects[i]
                                   \/ objects'[i] = job'[i].req.sum
  PROVE  ObjectsAreServed'
<1>1. ASSUME NEW i \in Job, Due(i)' PROVE objects'[i] = job'[i].req.sum
  <2>1. CASE Due(i) /\ objects'[i] = objects[i]
    BY <2>1 DEF ObjectsAreServed, JobsKeep, Due
  <2> QED BY <1>1, <2>1
<1> QED BY <1>1 DEF ObjectsAreServed

(* Every object that was put is still somebody's. *)
PutsKeep == \A i \in Job : PutDone(i) =>
  PutDone(i)' \/ files'[i] # None \/ certs'[i] # None \/ objects'[StorageKey(i)] = None
ObjectsKeep == \A k \in Key : objects'[k] # None => objects[k] # None \/ UnderWay(k)'

LEMMA UnderWayKeeps ==
  ASSUME RowsAreLinked', JobsKeep, PutsKeep, NEW k, UnderWay(k), objects'[k] # None
  PROVE  \/ UnderWay(k)'
         \/ \E i \in Job : \E a \in artifacts' :
              /\ a.key = k
              /\ (files'[i] # None /\ files'[i].art = a.id) \/ (certs'[i] # None /\ certs'[i].art = a.id)
<1>1. PICK i \in Job : PutDone(i) /\ StorageKey(i) = k
  BY DEF UnderWay
<1>2. Active(i) /\ StorageKey(i)' = k
  <2>1. Active(i)
    BY <1>1 DEF PutDone, Active
  <2> QED BY <1>1, <2>1 DEF JobsKeep, StorageKey
<1>3. CASE PutDone(i)'
  BY <1>2, <1>3 DEF UnderWay
<1>4. CASE files'[i] # None
  BY <1>2, <1>4 DEF RowsAreLinked, Linked
<1>5. CASE certs'[i] # None
  BY <1>2, <1>5 DEF RowsAreLinked, Linked
<1> QED BY <1>1, <1>3, <1>4, <1>5 DEF PutsKeep

LEMMA AccountedStay ==
  ASSUME RowsAreLinked', JobsKeep, ArtifactsKeep, PutsKeep, ObjectsKeep, AllAccounted,
         faults' = faults
  PROVE  AllAccounted'
<1>1. ASSUME faults = 0, NEW k \in Key, objects'[k] # None
      PROVE  ArtifactsAt(k)' # {} \/ UnderWay(k)'
  <2>1. CASE UnderWay(k)'
    BY <2>1
  <2>2. CASE objects[k] # None /\ ArtifactsAt(k) # {}
    BY <2>2 DEF ArtifactsAt, ArtifactsKeep, SameArtifact
  <2>3. CASE objects[k] # None /\ UnderWay(k)
    BY <1>1, <2>3, UnderWayKeeps DEF ArtifactsAt
  <2> QED BY <1>1, <2>1, <2>2, <2>3 DEF ObjectsKeep, AllAccounted, Accounted
<1> QED BY <1>1 DEF AllAccounted, Accounted

LEMMA LastRowStays ==
  ASSUME TypeOK, TypeOK', RowsAreLinked', RowsAreUnique', CleanupIsSafe', JobsKeep, RowsKeep,
         PutsKeep, ObjectsKeep, LastRowIsFree, cleanup' = cleanup, faults' = faults
  PROVE  LastRowIsFree'
<1> DEFINE now == cleanup.now
<1> SUFFICES ASSUME faults = 0, cleanup.step = "row", objects'[now.key] # None
             PROVE  ~Deletable(now)' \/ UnderWay(now.key)'
  BY DEF LastRowIsFree
<1>1. now.key \in Key /\ HasRow(now)'
  BY DEF CleanupIsSafe, Artifact
<1>2. DOMAIN files = Job /\ DOMAIN certs = Job /\ DOMAIN files' = Job /\ DOMAIN certs' = Job
  BY DEF TypeOK
<1>3. CASE UnderWay(now.key)'
  BY <1>3
<1>4. CASE ~Deletable(now)
  BY <1>2, <1>4 DEF Deletable, Referring, RowsKeep, SameRow
<1>5. CASE UnderWay(now.key)
  <2>1. CASE \E i \in Job : \E a \in artifacts' :
              /\ a.key = now.key
              /\ (files'[i] # None /\ files'[i].art = a.id) \/ (certs'[i] # None /\ certs'[i].art = a.id)
    <3>1. PICK i \in Job, a \in artifacts' :
              /\ a.key = now.key
              /\ (files'[i] # None /\ files'[i].art = a.id) \/ (certs'[i] # None /\ certs'[i].art = a.id)
      BY <2>1
    <3>2. PICK b \in artifacts' : b.id = now.id /\ b.key = now.key
      BY <1>1 DEF HasRow
    <3>3. a.id = now.id
      BY <3>1, <3>2 DEF RowsAreUnique
    <3> QED BY <1>2, <3>1, <3>3 DEF Deletable, Referring
  <2> QED BY <1>5, <2>1, UnderWayKeeps
<1> QED BY <1>1, <1>3, <1>4, <1>5 DEF LastRowIsFree, ObjectsKeep

LEMMA SafeStays ==
  ASSUME CleanupIsSafe, ArtifactsKeep, cleanup' = cleanup
  PROVE  CleanupIsSafe'
<1>1. \A c : HasRow(c) => HasRow(c)'
  BY DEF HasRow, ArtifactsKeep, SameArtifact
<1> QED BY <1>1 DEF CleanupIsSafe

LEMMA SameRowsIfUnchanged ==
  ASSUME RowsAreUnique, UNCHANGED <<artifacts, files, certs, versions>>
  PROVE  SameRows
<1>1. RowsAreUnique'
  BY DEF RowsAreUnique
<1> QED BY <1>1 DEF SameRows, RowsKeep, SameRow, ArtifactsKeep, SameArtifact

(* A row that is retired stays what it was. *)
LEMMA SameRowsIfFileRetired ==
  ASSUME TypeOK, RowsAreUnique, NEW i \in Job, RetireFile(i), UNCHANGED <<artifacts, certs, versions>>
  PROVE  SameRows /\ files' \in [Job -> FileRow \cup {None}]
<1> DEFINE row == [files[i] EXCEPT !.status = "retired"]
<1>1. files \in [Job -> FileRow \cup {None}] /\ files[i] \in FileRow
      /\ files' = [files EXCEPT ![i] = row]
  BY DEF TypeOK, RetireFile
<1>2. row \in FileRow /\ row.art = files[i].art /\ row.sum = files[i].sum /\ row.name = files[i].name
  BY <1>1 DEF FileRow, Row
<1>3. row # None
  BY <1>2, NoneIsNoRow
<1> HIDE DEF row
<1>4. files'[i] = row /\ \A k \in Job : k # i => files'[k] = files[k]
  BY <1>1
<1>5. files[i] # None
  BY DEF RetireFile
<1>6. RowsAreUnique'
  BY DEF RowsAreUnique
<1>7. \A k \in Job : SameRow(files[k], files'[k]) /\ (files[k] = None => files'[k] = None)
  BY <1>2, <1>3, <1>4, <1>5 DEF SameRow
<1>8. files' \in [Job -> FileRow \cup {None}]
  BY <1>1, <1>2
<1> QED BY <1>6, <1>7, <1>8 DEF SameRows, RowsKeep, SameRow, ArtifactsKeep, SameArtifact

LEMMA SameRowsIfCertificateRetired ==
  ASSUME TypeOK, RowsAreUnique, NEW i \in Job, RetireCertificate(i),
         UNCHANGED <<artifacts, files, versions>>
  PROVE  SameRows /\ certs' \in [Job -> CertificateRow \cup {None}]
<1> DEFINE row == [certs[i] EXCEPT !.status = "retired"]
<1>1. certs \in [Job -> CertificateRow \cup {None}] /\ certs[i] \in CertificateRow
      /\ certs' = [certs EXCEPT ![i] = row]
  BY DEF TypeOK, RetireCertificate
<1>2. row \in CertificateRow /\ row.art = certs[i].art /\ row.sum = certs[i].sum
      /\ row.name = certs[i].name
  BY <1>1 DEF CertificateRow, Row
<1>3. row # None
  BY <1>2, NoneIsNoRow
<1> HIDE DEF row
<1>4. certs'[i] = row /\ \A k \in Job : k # i => certs'[k] = certs[k]
  BY <1>1
<1>5. certs[i] # None
  BY DEF RetireCertificate
<1>6. RowsAreUnique'
  BY DEF RowsAreUnique
<1>7. \A k \in Job : SameRow(certs[k], certs'[k]) /\ (certs[k] = None => certs'[k] = None)
  BY <1>2, <1>3, <1>4, <1>5 DEF SameRow
<1>8. certs' \in [Job -> CertificateRow \cup {None}]
  BY <1>1, <1>2
<1> QED BY <1>6, <1>7, <1>8 DEF SameRows, RowsKeep, SameRow, ArtifactsKeep, SameArtifact

(* What a request that did not move is due stays the same. *)
LEMMA DueStays ==
  ASSUME SameRows, JobsKeep, NEW i \in Job, job'[i] = job[i]
  PROVE  (Due(i)' => Due(i)) /\ (PutDone(i) => PutDone(i)')
<1>1. PutDone(i)' = PutDone(i) /\ Active(i)' = Active(i)
  BY DEF PutDone, Active
<1>2. (\E b \in artifacts' : b.id = i) => \E a \in artifacts : a.id = i
  BY DEF SameRows, SameArtifact
<1> QED BY <1>1, <1>2, OverwrittenKeeps DEF Due

(* A step of a handler that stores no new row. *)
LEMMA HandlerStep ==
  ASSUME IInv, TypeOK', NEW j \in Job, Moves(j), SameRows, cleanup' = cleanup,
         job'[j].at = "run" => Before(j)',
         Due(j)' => (Due(j) /\ objects'[j] = objects[j]) \/ objects'[j] = job'[j].req.sum,
         \A i \in Job : i # j => objects'[i] = objects[i] \/ Overwritten(i),
         faults' = 0 => /\ faults' = faults /\ ObjectsKeep
                        /\ PutDone(j) => \/ PutDone(j)' \/ files'[j] # None \/ certs'[j] # None
                                         \/ objects'[StorageKey(j)] = None
  PROVE  IInv'
<1> USE DEF IInv
<1>1. JobsKeep /\ Control' /\ \A i \in Job : i # j => job'[i] = job[i]
  BY MovesKeep DEF Moves
<1>2. /\ RowsAreUnique' /\ RowsAreKnown' /\ RowsAreLinked' /\ NothingTooEarly'
      /\ NamesAreUnique' /\ VersionsAreKnown'
  BY <1>1, RowsStay
<1>3. RowsKeep /\ ArtifactsKeep
  BY DEF SameRows
<1>4. FilesAreStored'
  BY <1>1, <1>3, FilesStay
<1>5. CleanupIsSafe'
  BY <1>3, SafeStays
<1>6. ObjectsAreServed' /\ KeysAreKnown'
  <2>1. \A i \in Job : i # j /\ Due(i)' => Due(i) /\ ~Overwritten(i)
    BY <1>1, DueStays DEF Due
  <2>2. \A i \in Job : KeyIsKnown(i)'
    BY <1>1, <1>3, KeysKeep DEF Moves, Active
  <2> QED BY <1>1, <2>1, <2>2, ServedStay DEF KeysAreKnown
<1>7. ASSUME faults' = 0 PROVE AllAccounted' /\ LastRowIsFree'
  <2>1. PutsKeep
    BY <1>1, <1>7, DueStays DEF PutsKeep
  <2> QED BY <1>1, <1>2, <1>3, <1>5, <1>7, <2>1, AccountedStay, LastRowStays
<1>8. AllAccounted' /\ LastRowIsFree'
  <2>1. CASE faults' = 0
    BY <1>7, <2>1
  <2>2. CASE faults' # 0
    BY <2>2 DEF AllAccounted, LastRowIsFree
  <2> QED BY <2>1, <2>2
<1> QED BY <1>1, <1>2, <1>4, <1>5, <1>6, <1>8

(* A step of an administrator, or of the server's start. *)
LEMMA AdministratorStep ==
  ASSUME IInv, TypeOK', SameRows, UNCHANGED <<job, cleanup, objects, faults>>
  PROVE  IInv'
<1> USE DEF IInv
<1>1. JobsKeep /\ Control' /\ \A i \in Job : job'[i] = job[i]
  BY IdleKeeps
<1>2. /\ RowsAreUnique' /\ RowsAreKnown' /\ RowsAreLinked' /\ NothingTooEarly'
      /\ NamesAreUnique' /\ VersionsAreKnown'
  BY <1>1, RowsStay
<1>3. RowsKeep /\ ArtifactsKeep
  BY DEF SameRows
<1>4. FilesAreStored'
  BY <1>1, <1>3, FilesStay
<1>5. CleanupIsSafe'
  BY <1>3, SafeStays
<1>6. ObjectsAreServed' /\ KeysAreKnown'
  <2>1. \A i \in Job : KeyIsKnown(i)'
    BY <1>1, <1>3, KeysKeep DEF Active
  <2> QED BY <1>1, <2>1, DueStays, ServedStay DEF KeysAreKnown
<1>7. PutsKeep /\ ObjectsKeep
  BY <1>1, DueStays DEF PutsKeep, ObjectsKeep
<1>8. AllAccounted' /\ LastRowIsFree'
  BY <1>1, <1>2, <1>3, <1>5, <1>7, AccountedStay, LastRowStays
<1> QED BY <1>1, <1>2, <1>4, <1>5, <1>6, <1>8

-----------------------------------------------------------------------------
(***************************************************************************)
(* Steps that store no row                                                 *)
(***************************************************************************)

LEMMA FaultCounts ==
  ASSUME TypeOK, Fault
  PROVE  faults' \in 0..MaxFaults /\ faults' # 0
BY FaultsAssumption DEF TypeOK, Fault

LEMMA JobTypes ==
  ASSUME TypeOK, job' \in [Job -> Handling], UNCHANGED <<catVars, cleanup>>,
         faults' \in 0..MaxFaults
  PROVE  TypeOK'
BY DEF TypeOK, catVars, Range

(* The key of an upload: its own for the dashboard, else any; a client that *)
(* puts or deletes the object of a dashboard's key overwrites it.           *)
LEMMA KeyIs ==
  ASSUME NEW j \in Job, Active(j), ControlOf(j)
  PROVE  /\ StorageKey(j) \in Key
         /\ Derived(job[j].req) => StorageKey(j) = j
         /\ ~Derived(job[j].req) => StorageKey(j) = job[j].req.key
         /\ job[j].req.sum \in Content
BY RequestAssumption DEF ControlOf, StorageKey, Key

LEMMA KeyOfAnother ==
  ASSUME NEW j \in Job, ControlOf(j), Step(j) \in {"put", "drop"}, NEW i \in Job, i # j,
         StorageKey(j) = i
  PROVE  Overwritten(i)
<1> DEFINE q == job[j].req
<1>1. /\ Active(j) /\ Step(j) = Head(job[j].todo) /\ q.kind \in Kind
      /\ \/ job[j].at = "run" /\ Running(j) /\ Step(j) = "put"
         \/ job[j].at = "undo" /\ Undoing(j) /\ Step(j) = "drop"
  BY StepIs DEF UndoSteps
<1>2. ~Derived(q) /\ q.key = i
  BY <1>1, KeyIs
<1>3. CASE job[j].at = "run" /\ Running(j) /\ Step(j) = "put"
  BY <1>1, <1>2, <1>3 DEF Running, Derived, Overwritten, Overwrites
<1>4. CASE job[j].at = "undo" /\ Undoing(j) /\ Step(j) = "drop"
  BY <1>1, <1>2, <1>4 DEF Undoing, Derived, Overwritten, Overwrites
<1> QED BY <1>1, <1>3, <1>4

LEMMA StartsStep ==
  ASSUME IInv, NEW j \in Job, NEW q \in Request, Starts(j, q)
  PROVE  IInv'
<1> USE DEF IInv
<1>1. UNCHANGED <<catVars, cleanup, faults>>
  BY DEF Starts
<1>2. TypeOK'
  BY <1>1, StartsMoves, JobTypes DEF TypeOK
<1>3. JobsKeep /\ Control' /\ \A i \in Job : i # j => job'[i] = job[i]
  BY StartsKeep, StartsMoves
<1>4. SameRows
  BY <1>1, SameRowsIfUnchanged DEF catVars
<1>5. /\ RowsAreUnique' /\ RowsAreKnown' /\ RowsAreLinked' /\ NothingTooEarly'
      /\ NamesAreUnique' /\ VersionsAreKnown'
  BY <1>3, <1>4, RowsStay
<1>6. RowsKeep /\ ArtifactsKeep
  BY <1>4 DEF SameRows
<1>7. FilesAreStored'
  BY <1>3, <1>6, StartsMoves, FilesStay
<1>8. CleanupIsSafe'
  BY <1>1, <1>6, SafeStays
<1>9. objects' = objects
  BY <1>1 DEF catVars
<1>10. ObjectsAreServed'
  <2>1. ~Due(j)'
    BY StartsMoves DEF Due
  <2> QED BY <1>3, <1>4, <1>9, <2>1, DueStays, ServedStay
<1>11. PutsKeep /\ ObjectsKeep
  <2>1. ~PutDone(j)
    BY StartsMoves DEF PutDone
  <2> QED BY <1>3, <1>4, <1>9, <2>1, DueStays DEF PutsKeep, ObjectsKeep
<1>12. AllAccounted' /\ LastRowIsFree'
  BY <1>1, <1>2, <1>3, <1>5, <1>6, <1>8, <1>11, AccountedStay, LastRowStays
<1>13. KeysAreKnown'
  <2>1. \A i \in Job : i # j => KeyIsKnown(i)'
    BY <1>3, <1>6, KeysKeep DEF Active
  <2>2. ASSUME ~Derived(q), q.key \in Job
        PROVE  \E a \in artifacts : a.id = q.key /\ a.key = q.key
    <3>1. PICK a \in artifacts : a.key = q.key
      BY <2>2 DEF Starts, ArtifactsAt
    <3>2. IsKnown(a) /\ a.key \notin ApiKey /\ a.key # Legacy
      BY <2>2, <3>1, LegacyAssumption DEF RowsAreKnown
    <3>3. a.id \in Job /\ Active(a.id) /\ a.key = StorageKey(a.id) /\ Derived(job[a.id].req)
      BY <3>2 DEF IsKnown
    <3> QED BY <3>1, <3>3, KeyIs DEF Control
  <2>3. KeyIsKnown(j)'
    BY <1>1, <2>2, StartsMoves DEF KeyIsKnown, catVars
  <2> QED BY <2>1, <2>3 DEF KeysAreKnown
<1> QED BY <1>2, <1>3, <1>5, <1>7, <1>8, <1>10, <1>12, <1>13

(* A step of a handler that changes at most apps and managed files. *)
LEMMA PlainStep ==
  ASSUME IInv, TypeOK', NEW j \in Job, Moves(j),
         UNCHANGED <<objects, artifacts, files, certs, versions, cleanup>>,
         job'[j].at = "run" => Before(j)' /\ ~PutDone(j)',
         job'[j].at = "ok" => job[j].at = "run" /\ (PutDone(j) \/ Before(j)),
         faults' = 0 => /\ faults' = faults
                        /\ PutDone(j) => PutDone(j)' \/ files'[j] # None \/ certs'[j] # None
  PROVE  IInv'
<1> USE DEF IInv
<1>1. SameRows
  BY SameRowsIfUnchanged
<1>2. ASSUME Due(j)' PROVE Due(j)
  <2>1. /\ job'[j].at = "ok" /\ Derived(job[j].req) /\ job[j].at = "run"
        /\ Active(j) /\ \E a \in artifacts : a.id = j
    BY <1>2 DEF Due, Moves
  <2>2. PutDone(j)
    BY <2>1 DEF NothingTooEarly
  <2>3. JobsKeep
    BY MovesKeep
  <2> QED BY <1>2, <2>1, <2>2, <2>3, OverwrittenKeeps DEF Due
<1>3. ObjectsKeep
  BY DEF ObjectsKeep
<1> QED BY <1>1, <1>2, <1>3, HandlerStep

(* Apps are created and changed, never removed. *)
AppsKeep ==
  /\ apps' \in [AppId -> AppRow \cup {None}]
  /\ \A i \in AppId : apps[i] # None => apps'[i] # None

LEMMA AppsTypes ==
  ASSUME TypeOK, AppsKeep, UNCHANGED <<objects, artifacts, files, certs, managed, versions, cleanup>>,
         job' \in [Job -> Handling], faults' \in 0..MaxFaults
  PROVE  TypeOK'
<1>1. \A v \in Range(versions) : v.app \in AppId
  <2>1. versions \in Seq(VersionRow)
    BY DEF TypeOK
  <2>2. \A n \in DOMAIN versions : versions[n] \in VersionRow
    BY <2>1
  <2> QED BY <2>2 DEF Range, VersionRow
<1>2. \A v \in Range(versions') : apps'[v.app] # None
  BY <1>1 DEF TypeOK, AppsKeep
<1> QED BY <1>2 DEF TypeOK, AppsKeep

LEMMA LooksStep ==
  ASSUME IInv, NEW j \in Job, Looks(j), UNCHANGED <<cleanup, faults>>
  PROVE  IInv'
<1> USE DEF IInv
<1>1. ControlOf(j)
  BY DEF Control
<1>2. UNCHANGED <<objects, artifacts, files, certs, managed, versions>>
  BY DEF Looks, FindsApp, CreatesApp, GetsApp, FindsVersion, catVars
<1>3. /\ Moves(j) /\ job[j].at = "run" /\ Before(j) /\ ~PutDone(j)
      /\ job'[j].at = "run" => ~PutDone(j)' /\ Before(j)'
  BY <1>1, LooksMoves
<1>4. AppsKeep
  <2>1. CASE apps' = apps
    BY <2>1 DEF TypeOK, AppsKeep
  <2>2. CASE CreateApp(j, job[j].req.pkg)
    <3>1. [pkg |-> job[j].req.pkg, system |-> FALSE, status |-> "active"] \in AppRow
      BY <1>1, <1>3, RequestAssumption DEF Moves, ControlOf, AppRow
    <3>2. [pkg |-> job[j].req.pkg, system |-> FALSE, status |-> "active"] # None
      BY <3>1, NoneIsNoRow
    <3> QED BY <2>2, <3>1, <3>2 DEF CreateApp, TypeOK, AppId, AppsKeep
  <2> QED BY <2>1, <2>2 DEF Looks, FindsApp, CreatesApp, GetsApp, FindsVersion, catVars
<1>5. TypeOK'
  BY <1>2, <1>3, <1>4, AppsTypes DEF Moves, TypeOK
<1> QED BY <1>2, <1>3, <1>5, PlainStep

(* A refused call; the handler undoes its work or gives up. *)
LEMMA RefusedStep ==
  ASSUME IInv, NEW j \in Job, StepRefused(j) \/ ServerStops(j)
  PROVE  IInv'
<1> USE DEF IInv
<1>1. ControlOf(j) /\ UNCHANGED <<catVars, cleanup>> /\ Fault
  BY DEF Control, StepRefused, ServerStops
<1>2. Moves(j) /\ job'[j].at \in {"undo", "failed"}
  BY <1>1, RefusedMoves, StopMoves DEF StepRefused, ServerStops
<1>3. faults' \in 0..MaxFaults /\ faults' # 0
  BY <1>1, FaultCounts
<1>4. TypeOK'
  BY <1>1, <1>2, <1>3, JobTypes DEF Moves
<1> QED BY <1>1, <1>2, <1>3, <1>4, PlainStep DEF catVars

(* A handler sees that a row it wants is refused. *)
LEMMA RejectedStep ==
  ASSUME IInv, NEW j \in Job, Step(j) \in {"file", "cert", "managed", "version"}, Fails(j),
         UNCHANGED <<catVars, cleanup, faults>>
  PROVE  IInv'
<1> USE DEF IInv
<1>1. ControlOf(j)
  BY DEF Control
<1>2. job[j].at = "run"
  BY <1>1, StepIs DEF UndoSteps
<1>3. Moves(j) /\ job'[j].at \in {"undo", "failed"} /\ (PutDone(j) => PutDone(j)')
  BY <1>1, <1>2, FailMoves
<1>4. TypeOK'
  BY <1>3, JobTypes DEF Moves, TypeOK
<1> QED BY <1>3, <1>4, PlainStep DEF catVars

LEMMA ManagedTypes ==
  ASSUME TypeOK, NEW j \in Job, ControlOf(j), Step(j) = "managed",
         CreateManagedFile(job[j].req.path, SourceFile(j), job[j].req.vars),
         UNCHANGED <<objects, artifacts, files, certs, apps, versions, cleanup>>,
         job' \in [Job -> Handling], faults' \in 0..MaxFaults
  PROVE  TypeOK'
<1> DEFINE q == job[j].req
           f == SourceFile(j)
           row == [file |-> f, vars |-> q.vars, status |-> "active"]
<1>1. Active(j) /\ Running(j) /\ Head(job[j].todo) = "managed"
  BY StepIs DEF UndoSteps
<1>2. q \in Request /\ q.kind \in {"bind", "managed"}
  BY <1>1 DEF Running, ControlOf
<1>3. q.path \in Path /\ q.vars \in BOOLEAN /\ (q.kind = "bind" => q.target \in Job)
  BY <1>2, RequestAssumption
<1>4. f \in Job
  BY <1>2, <1>3 DEF SourceFile
<1>5. files[f] # None /\ managed' = [managed EXCEPT ![q.path] = row]
  BY DEF CreateManagedFile, loadSourceFile
<1> HIDE DEF f
<1>6. row \in ManagedRow /\ row.file = f
  BY <1>3, <1>4 DEF ManagedRow
<1> HIDE DEF row
<1>7. managed' \in [Path -> ManagedRow \cup {None}]
      /\ \A p \in Path : managed'[p] # None => files[managed'[p].file] # None
  <2>1. managed \in [Path -> ManagedRow \cup {None}]
        /\ \A p \in Path : managed[p] # None => files[managed[p].file] # None
    BY DEF TypeOK
  <2>2. managed'[q.path] = row /\ \A p \in Path : p # q.path => managed'[p] = managed[p]
    BY <1>3, <1>5, <2>1
  <2> QED BY <1>5, <1>6, <2>1, <2>2
<1> QED BY <1>7 DEF TypeOK, Range

LEMMA BindsFileStep ==
  ASSUME IInv, NEW j \in Job, BindsFile(j), UNCHANGED <<cleanup, faults>>
  PROVE  IInv'
<1> USE DEF IInv
<1>1. ControlOf(j) /\ Step(j) = "managed"
      /\ UNCHANGED <<objects, artifacts, files, certs, apps, versions>>
  BY DEF Control, BindsFile
<1>2. CASE CreateManagedFile(job[j].req.path, SourceFile(j), job[j].req.vars) /\ Goes(j)
  <2>1. /\ Moves(j) /\ job[j].at = "run" /\ job'[j].at = "ok"
        /\ job[j].todo \in {<<"managed">>, <<"version">>}
        /\ Derived(job[j].req) => PutDone(j)
        /\ PutDone(j) => Derived(job[j].req)
    BY <1>1, <1>2, LastGoes
  <2>2. TypeOK'
    BY <1>1, <1>2, <2>1, ManagedTypes DEF Moves, TypeOK
  <2>3. PutDone(j) => files[j] # None
    BY <2>1 DEF FilesAreStored
  <2>4. ASSUME Due(j)' PROVE Due(j)
    <3>1. JobsKeep
      BY <2>1, MovesKeep
    <3> QED BY <2>1, <2>4, <3>1, OverwrittenKeeps DEF Due, Moves
  <2>5. SameRows /\ ObjectsKeep
    BY <1>1, SameRowsIfUnchanged DEF ObjectsKeep
  <2> QED BY <1>1, <2>1, <2>2, <2>3, <2>4, <2>5, HandlerStep
<1>3. CASE Fails(j) /\ UNCHANGED managed
  BY <1>1, <1>3, RejectedStep DEF catVars
<1> QED BY <1>2, <1>3 DEF BindsFile

LEMMA AppChanges ==
  ASSUME TypeOK, NEW i \in AppId, NEW row, row \in AppRow, apps' = [apps EXCEPT ![i] = row]
  PROVE  AppsKeep
<1>1. row # None
  BY NoneIsNoRow
<1> QED BY <1>1 DEF TypeOK, AppsKeep

LEMMA RetiresApp ==
  ASSUME TypeOK, NEW i \in AppId, RetireApp(i)
  PROVE  AppsKeep
<1> DEFINE row == [apps[i] EXCEPT !.status = "retired"]
<1>1. apps \in [AppId -> AppRow \cup {None}] /\ apps[i] \in AppRow /\ apps' = [apps EXCEPT ![i] = row]
  BY DEF TypeOK, RetireApp
<1>2. row \in AppRow
  BY <1>1 DEF AppRow
<1> HIDE DEF row
<1> QED BY <1>1, <1>2, AppChanges

LEMMA UpdatesApp ==
  ASSUME TypeOK, NEW i \in AppId, NEW p \in Package, UpdateApp(i, p)
  PROVE  AppsKeep
<1> DEFINE row == [apps[i] EXCEPT !.pkg = p]
<1>1. apps \in [AppId -> AppRow \cup {None}] /\ apps[i] \in AppRow /\ apps' = [apps EXCEPT ![i] = row]
  BY DEF TypeOK, UpdateApp
<1>2. row \in AppRow
  BY <1>1 DEF AppRow
<1> HIDE DEF row
<1> QED BY <1>1, <1>2, AppChanges

LEMMA SeedsApp ==
  ASSUME TypeOK, NEW p \in Package, UpsertSystemOwnedApp(p)
  PROVE  AppsKeep
<1>1. CASE apps' = [apps EXCEPT ![Seed] = [pkg |-> p, system |-> TRUE, status |-> "active"]]
  <2>1. [pkg |-> p, system |-> TRUE, status |-> "active"] \in AppRow /\ Seed \in AppId
    BY DEF AppRow, AppId
  <2> QED BY <1>1, <2>1, AppChanges
<1>2. ASSUME NEW i \in AppId, apps[i] # None, apps' = [apps EXCEPT ![i].status = "active"]
      PROVE  AppsKeep
  <2> DEFINE row == [apps[i] EXCEPT !.status = "active"]
  <2>1. apps \in [AppId -> AppRow \cup {None}] /\ apps[i] \in AppRow /\ apps' = [apps EXCEPT ![i] = row]
    BY <1>2 DEF TypeOK
  <2>2. row \in AppRow
    BY <2>1 DEF AppRow
  <2> HIDE DEF row
  <2> QED BY <2>1, <2>2, AppChanges
<1>3. ASSUME AppsNamed(p) # {}
      PROVE  GetAppByPackageName(p) \in AppId /\ apps[GetAppByPackageName(p)] # None
  BY <1>3 DEF AppsNamed, GetAppByPackageName
<1> QED BY <1>1, <1>2, <1>3 DEF UpsertSystemOwnedApp

LEMMA ObjectTypes ==
  ASSUME TypeOK, objects' \in [Key -> Content \cup {None}],
         UNCHANGED <<artifacts, files, certs, managed, apps, versions, cleanup>>,
         job' \in [Job -> Handling], faults' \in 0..MaxFaults
  PROVE  TypeOK'
BY DEF TypeOK, Range

LEMMA PutStep ==
  ASSUME IInv, NEW j \in Job, Step(j) = "put", Put(StorageKey(j), job[j].req.sum),
         (Goes(j) /\ faults' = faults) \/ (Fails(j) /\ Fault),
         UNCHANGED <<artifacts, files, certs, managed, apps, versions, cleanup>>
  PROVE  IInv'
<1> USE DEF IInv
<1>1. ControlOf(j) /\ Active(j) /\ job[j].at = "run"
  <2>1. ControlOf(j)
    BY DEF Control
  <2> QED BY <2>1, StepIs DEF UndoSteps
<1>2. /\ StorageKey(j) \in Key /\ job[j].req.sum \in Content
      /\ Derived(job[j].req) => StorageKey(j) = j
      /\ \A i \in Job : i # j /\ StorageKey(j) = i => Overwritten(i)
  BY <1>1, KeyIs, KeyOfAnother
<1>3. /\ objects' \in [Key -> Content \cup {None}]
      /\ objects'[StorageKey(j)] = job[j].req.sum
      /\ \A k \in Key : k # StorageKey(j) => objects'[k] = objects[k]
  BY <1>2 DEF Put, TypeOK
<1>4. Moves(j) /\ (job'[j].at = "run" => Before(j)') /\ faults' \in 0..MaxFaults
      /\ (faults' = 0 => faults' = faults /\ PutDone(j)' /\ ~PutDone(j))
  BY <1>1, PutGoes, FailMoves, FaultCounts DEF TypeOK
<1>5. SameRows
  BY SameRowsIfUnchanged
<1>6. TypeOK'
  BY <1>3, <1>4, ObjectTypes DEF Moves
<1>7. Due(j)' => objects'[j] = job'[j].req.sum
  BY <1>2, <1>3, <1>4 DEF Due, Moves
<1>8. \A i \in Job : i # j => objects'[i] = objects[i] \/ Overwritten(i)
  BY <1>2, <1>3 DEF Key
<1>9. ASSUME faults' = 0 PROVE ObjectsKeep
  <2>1. StorageKey(j)' = StorageKey(j)
    BY <1>4 DEF StorageKey, Moves
  <2>2. \A k \in Key : k = StorageKey(j) => UnderWay(k)'
    BY <1>4, <1>9, <2>1 DEF UnderWay
  <2> QED BY <1>3, <2>2 DEF ObjectsKeep
<1> QED BY <1>4, <1>5, <1>6, <1>7, <1>8, <1>9, HandlerStep

LEMMA UndoesStep ==
  ASSUME IInv, NEW j \in Job, Undoes(j), UNCHANGED <<cleanup, faults>>
  PROVE  IInv'
<1> USE DEF IInv
<1>1. ControlOf(j) /\ Step(j) \in UndoSteps
  BY DEF Control, Undoes, UndoSteps
<1>2. /\ Moves(j) /\ job'[j].at \in {"undo", "failed"} /\ Active(j)
      /\ Step(j) = "retire" => PutDone(j)'
      /\ Step(j) = "unapp" => ~PutDone(j) /\ job[j].app \in AppId
  BY <1>1, UndoGoes DEF Undoes, Moves
<1>3. faults' \in 0..MaxFaults /\ job' \in [Job -> Handling] /\ ~Due(j)'
  BY <1>2 DEF TypeOK, Moves, Due
<1>4. CASE Step(j) = "retire" /\ RetireFile(j)
           /\ UNCHANGED <<objects, artifacts, certs, managed, apps, versions>>
  <2>1. SameRows /\ files' \in [Job -> FileRow \cup {None}]
    BY <1>4, SameRowsIfFileRetired
  <2>2. TypeOK'
    BY <1>3, <1>4, <2>1 DEF TypeOK, Range, SameRows, RowsKeep, SameRow, ManagedRow
  <2>3. ObjectsKeep
    BY <1>4 DEF ObjectsKeep
  <2> QED BY <1>2, <1>3, <1>4, <2>1, <2>2, <2>3, HandlerStep
<1>5. CASE Step(j) = "drop" /\ Delete(StorageKey(j))
           /\ UNCHANGED <<artifacts, files, certs, managed, apps, versions>>
  <2>1. StorageKey(j) \in Key /\ \A i \in Job : i # j /\ StorageKey(j) = i => Overwritten(i)
    BY <1>1, <1>2, <1>5, KeyIs, KeyOfAnother
  <2>2. /\ objects' \in [Key -> Content \cup {None}]
        /\ objects'[StorageKey(j)] = None
        /\ \A k \in Key : k # StorageKey(j) => objects'[k] = objects[k]
    BY <1>5, <2>1 DEF Delete, TypeOK
  <2>3. TypeOK'
    BY <1>3, <1>5, <2>2, ObjectTypes
  <2>4. SameRows
    BY <1>5, SameRowsIfUnchanged
  <2>5. ObjectsKeep /\ \A i \in Job : i # j => objects'[i] = objects[i] \/ Overwritten(i)
    BY <2>1, <2>2 DEF ObjectsKeep, Key
  <2> QED BY <1>2, <1>3, <2>2, <2>3, <2>4, <2>5, HandlerStep
<1>6. CASE Step(j) = "unapp" /\ RetireApp(job[j].app)
           /\ UNCHANGED <<objects, artifacts, files, certs, managed, versions>>
  <2>1. TypeOK'
    BY <1>2, <1>3, <1>6, RetiresApp, AppsTypes
  <2> QED BY <1>2, <1>6, <2>1, PlainStep
<1>7. CASE Step(j) = "unapp" /\ UNCHANGED catVars
  <2>1. TypeOK'
    BY <1>3, <1>7, JobTypes
  <2> QED BY <1>2, <1>7, <2>1, PlainStep DEF catVars
<1> QED BY <1>4, <1>5, <1>6, <1>7 DEF Undoes

(* Administrators and the start of the server. *)
AdministratorActs ==
  \/ \E i \in Job : DeleteFile(i) \/ retireCertificate(i)
  \/ \E p \in Path : retireManagedFile(p)
  \/ \E i \in AppId : retireApp(i) \/ \E p \in Package : updateApp(i, p)
  \/ syncSeedApps

LEMMA AdministratorsStep ==
  ASSUME IInv, AdministratorActs
  PROVE  IInv'
<1> USE DEF IInv
<1>1. ASSUME NEW i \in Job, DeleteFile(i) PROVE IInv'
  <2>1. SameRows /\ files' \in [Job -> FileRow \cup {None}]
    BY <1>1, SameRowsIfFileRetired DEF DeleteFile
  <2>2. TypeOK'
    BY <1>1, <2>1 DEF DeleteFile, TypeOK, Range, SameRows, RowsKeep, SameRow, ManagedRow
  <2> QED BY <1>1, <2>1, <2>2, AdministratorStep DEF DeleteFile
<1>2. ASSUME NEW i \in Job, retireCertificate(i) PROVE IInv'
  <2>1. SameRows /\ certs' \in [Job -> CertificateRow \cup {None}]
    BY <1>2, SameRowsIfCertificateRetired DEF retireCertificate
  <2>2. TypeOK'
    BY <1>2, <2>1 DEF retireCertificate, TypeOK, Range
  <2> QED BY <1>2, <2>1, <2>2, AdministratorStep DEF retireCertificate
<1>3. ASSUME NEW p \in Path, retireManagedFile(p) PROVE IInv'
  <2>1. managed[p] \in ManagedRow /\ managed \in [Path -> ManagedRow \cup {None}]
    BY <1>3 DEF retireManagedFile, RetireManagedFile, TypeOK
  <2> DEFINE row == [managed[p] EXCEPT !.status = "retired"]
  <2>2. row \in ManagedRow /\ row.file = managed[p].file /\ managed' = [managed EXCEPT ![p] = row]
        /\ managed[p] # None
    BY <1>3, <2>1 DEF ManagedRow, retireManagedFile, RetireManagedFile
  <2> HIDE DEF row
  <2>3. TypeOK'
    BY <1>3, <2>1, <2>2 DEF TypeOK, retireManagedFile, Range
  <2>4. SameRows
    BY <1>3, SameRowsIfUnchanged DEF retireManagedFile
  <2> QED BY <1>3, <2>3, <2>4, AdministratorStep DEF retireManagedFile
<1>4. ASSUME AppsKeep, UNCHANGED <<objects, artifacts, files, certs, managed, versions, job, cleanup, faults>>
      PROVE  IInv'
  <2>1. TypeOK'
    BY <1>4, AppsTypes DEF TypeOK
  <2>2. SameRows
    BY <1>4, SameRowsIfUnchanged
  <2> QED BY <1>4, <2>1, <2>2, AdministratorStep
<1>5. ASSUME NEW i \in AppId, retireApp(i) PROVE IInv'
  BY <1>4, <1>5, RetiresApp DEF retireApp
<1>6. ASSUME NEW i \in AppId, NEW p \in Package, updateApp(i, p) PROVE IInv'
  BY <1>4, <1>6, UpdatesApp DEF updateApp
<1>7. ASSUME syncSeedApps PROVE IInv'
  BY <1>4, <1>7, SeedsApp, RequestAssumption DEF syncSeedApps
<1> QED BY <1>1, <1>2, <1>3, <1>5, <1>6, <1>7 DEF AdministratorActs

-----------------------------------------------------------------------------
(***************************************************************************)
(* Steps that store a row                                                  *)
(***************************************************************************)

(* A file or a certificate is stored, with the artifact it refers to. *)
Stores(j, row) ==
  LET k == StorageKey(j)
      q == job[j].req IN
  /\ ~ArtifactConflict(k, q.sum) /\ ensureArtifact(j, k, q.sum)
  /\ row # None /\ row.art = ArtifactFor(j, k) /\ row.sum = q.sum
  /\ \A i \in Job : i # j => files'[i] = files[i] /\ certs'[i] = certs[i]
  /\ \/ files'[j] = row /\ certs'[j] = certs[j]
     \/ certs'[j] = row /\ files'[j] = files[j]

LEMMA StoredArtifact ==
  ASSUME TypeOK, NEW j \in Job, Active(j), ControlOf(j), NEW row, Stores(j, row)
  PROVE  /\ ArtifactsKeep /\ artifacts' \subseteq Artifact
         /\ row.art \in Job \cup {Legacy} /\ row.sum \in Content
         /\ \E a \in artifacts' : a.id = row.art /\ a.key = StorageKey(j) /\ a.sum = row.sum
         /\ \A b \in artifacts' : \/ b \in artifacts
                                  \/ /\ \A a \in artifacts : a.key # StorageKey(j)
                                     /\ b.id = j /\ b.key = StorageKey(j) /\ b.sum = row.sum
                                     /\ row.art = j
<1> DEFINE k == StorageKey(j)
           c == job[j].req.sum
           new == [id |-> j, key |-> k, sum |-> c, status |-> "active"]
<1>1. k \in Key /\ c \in Content /\ row.sum = c
  BY KeyIs DEF Stores
<1>2. CASE ArtifactsAt(k) # {}
  <2>1. artifacts' = artifacts
    BY <1>2 DEF Stores, ensureArtifact
  <2> DEFINE a == CHOOSE x \in ArtifactsAt(k) : TRUE
  <2>2. a \in artifacts /\ a.key = k
    BY <1>2 DEF ArtifactsAt
  <2>3. a.sum = c
    BY <2>2 DEF Stores, ArtifactConflict, ArtifactsAt
  <2>4. row.art = a.id
    BY <1>2 DEF Stores, ArtifactFor
  <2> HIDE DEF a
  <2>5. artifacts \subseteq Artifact
    BY DEF TypeOK
  <2>6. row.art \in Job \cup {Legacy}
    BY <2>2, <2>4, <2>5 DEF Artifact
  <2> QED BY <1>1, <2>1, <2>2, <2>3, <2>4, <2>5, <2>6 DEF ArtifactsKeep, SameArtifact
<1>3. CASE ArtifactsAt(k) = {}
  <2>1. artifacts' = artifacts \cup {new} /\ row.art = j
    BY <1>3 DEF Stores, ensureArtifact, ArtifactFor
  <2>2. new \in Artifact /\ new.id = j /\ new.key = k /\ new.sum = c
    BY <1>1 DEF Artifact
  <2> HIDE DEF new
  <2>3. \A a \in artifacts : a.key # k
    BY <1>3 DEF ArtifactsAt
  <2>4. artifacts \subseteq Artifact
    BY DEF TypeOK
  <2> QED BY <1>1, <2>1, <2>2, <2>3, <2>4 DEF ArtifactsKeep, SameArtifact
<1> QED BY <1>2, <1>3

LEMMA StoreStep ==
  ASSUME IInv, TypeOK', NEW j \in Job, Moves(j), NEW row, Stores(j, row),
         NamesAreUnique', FilesAreStored', UNCHANGED <<objects, versions, cleanup>>,
         job[j].at = "run", Before(j), ~Before(j)',
         Derived(job[j].req) => PutDone(j),
         faults' = 0 => faults' = faults
  PROVE  IInv'
<1> USE DEF IInv
<1> DEFINE k == StorageKey(j)
<1>1. JobsKeep /\ Control' /\ \A i \in Job : i # j => job'[i] = job[i]
  BY MovesKeep DEF Moves
<1>2. /\ files[j] = None /\ certs[j] = None /\ \A a \in artifacts : a.id # j
  BY DEF NothingTooEarly
<1>3. /\ ArtifactsKeep
      /\ \E a \in artifacts' : a.id = row.art /\ a.key = k /\ a.sum = row.sum
      /\ \A b \in artifacts' : \/ b \in artifacts
                               \/ /\ \A a \in artifacts : a.key # k
                                  /\ b.id = j /\ b.key = k /\ b.sum = row.sum
                                  /\ row.art = j
  BY StoredArtifact DEF Moves, Control
<1>4. /\ row # None /\ row.sum = job[j].req.sum
      /\ \A i \in Job : i # j => files'[i] = files[i] /\ certs'[i] = certs[i]
      /\ \/ files'[j] = row /\ certs'[j] = certs[j]
         \/ certs'[j] = row /\ files'[j] = files[j]
  BY DEF Stores
<1>5. RowsKeep
  BY <1>2, <1>4 DEF RowsKeep, SameRow
<1>6. Active(j)' /\ job'[j].req = job[j].req /\ StorageKey(j)' = k
  BY DEF Moves, StorageKey
<1>7. RowsAreUnique'
  <2>1. ASSUME NEW a \in artifacts', NEW b \in artifacts', a.id = b.id \/ a.key = b.key, a # b
        PROVE  FALSE
    <3>1. CASE a \in artifacts /\ b \in artifacts
      BY <2>1, <3>1 DEF RowsAreUnique
    <3>2. CASE a \in artifacts /\ b \notin artifacts
      BY <1>2, <1>3, <2>1, <3>2
    <3>3. CASE a \notin artifacts /\ b \in artifacts
      BY <1>2, <1>3, <2>1, <3>3
    <3>4. CASE a \notin artifacts /\ b \notin artifacts
      BY <2>1, <3>4 DEF Stores, ensureArtifact
    <3> QED BY <3>1, <3>2, <3>3, <3>4
  <2> QED BY <2>1 DEF RowsAreUnique
<1>8. RowsAreKnown'
  <2>1. ASSUME NEW b \in artifacts', b \in artifacts PROVE IsKnown(b)'
    BY <1>1, <1>5, <2>1, KnownKeep DEF SameArtifact
  <2>2. ASSUME NEW b \in artifacts', b \notin artifacts PROVE IsKnown(b)'
    <3>1. b.id = j /\ b.key = k /\ b.sum = row.sum /\ row.art = j
      BY <1>3, <2>2
    <3>2. (files'[j] # None /\ files'[j].art = j) \/ (certs'[j] # None /\ certs'[j].art = j)
      BY <1>4, <3>1
    <3>3. ASSUME ~Derived(job[j].req) PROVE k \in ApiKey
      <4>1. \A a \in artifacts : a.key # k
        BY <1>3, <2>2
      <4>2. k = job[j].req.key /\ k \in Key /\ Active(j)
        BY <3>3, KeyIs DEF Moves, Control
      <4>3. k \notin Job
        BY <3>3, <4>1, <4>2 DEF KeysAreKnown, KeyIsKnown
      <4> QED BY <4>2, <4>3 DEF Key
    <3> QED BY <1>4, <1>6, <3>1, <3>2, <3>3 DEF IsKnown
  <2> QED BY <2>1, <2>2 DEF RowsAreKnown
<1>9. RowsAreLinked'
  <2>1. ASSUME NEW i \in Job, i # j PROVE Linked(files[i], i)' /\ Linked(certs[i], i)'
    <3>1. /\ files[i] # None => Linked(files[i], i)'
          /\ certs[i] # None => Linked(certs[i], i)'
      BY <1>1, <1>3, <1>5, LinksKeep
    <3>2. /\ files[i] = None => Linked(files[i], i)'
          /\ certs[i] = None => Linked(certs[i], i)'
      BY <1>4, <2>1 DEF Linked
    <3> QED BY <3>1, <3>2
  <2>2. Linked(files[j], j)' /\ Linked(certs[j], j)'
    BY <1>2, <1>3, <1>4, <1>6 DEF Linked
  <2> QED BY <2>1, <2>2 DEF RowsAreLinked
<1>10. NothingTooEarly'
  <2>1. ASSUME NEW i \in Job, Before(i)'
        PROVE  files'[i] = None /\ certs'[i] = None /\ \A a \in artifacts' : a.id # i
    <3>1. i # j /\ Before(i)
      BY <1>1, <2>1 DEF JobsKeep
    <3>2. files[i] = None /\ certs[i] = None /\ \A a \in artifacts : a.id # i
      BY <3>1 DEF NothingTooEarly
    <3> QED BY <1>3, <1>4, <3>1, <3>2
  <2> QED BY <2>1 DEF NothingTooEarly
<1>11. VersionsAreKnown'
  <2>1. \A v \in Range(versions) : VersionIsKnown(v)'
    BY <1>1, <1>3, <1>5, VersionsKeep
  <2> QED BY <2>1 DEF VersionsAreKnown, Range
<1>12. CleanupIsSafe'
  BY <1>3, SafeStays
<1>13. ObjectsAreServed'
  <2>1. ASSUME NEW i \in Job, i # j, Due(i)' PROVE Due(i)
    <3>1. PutDone(i)' = PutDone(i) /\ Active(i)' = Active(i) /\ job'[i] = job[i]
      BY <1>1, <2>1 DEF PutDone, Active
    <3>2. (\E b \in artifacts' : b.id = i) => \E a \in artifacts : a.id = i
      BY <1>3, <2>1
    <3> QED BY <1>1, <2>1, <3>1, <3>2, OverwrittenKeeps DEF Due
  <2>2. ASSUME Due(j)' PROVE Due(j)
    BY <1>1, <1>6, <2>2, OverwrittenKeeps DEF Due, Moves
  <2> QED BY <1>1, <2>1, <2>2, ServedStay
<1>14. AllAccounted' /\ LastRowIsFree'
  <2>1. CASE faults' = 0
    <3>1. PutsKeep /\ ObjectsKeep
      <4>1. ASSUME NEW i \in Job, i # j PROVE PutDone(i)' = PutDone(i)
        BY <1>1, <4>1 DEF PutDone
      <4> QED BY <1>4, <4>1 DEF PutsKeep, ObjectsKeep
    <3> QED BY <1>1, <1>3, <1>5, <1>7, <1>9, <1>12, <2>1, <3>1, AccountedStay, LastRowStays
  <2>2. CASE faults' # 0
    BY <2>2 DEF AllAccounted, LastRowIsFree
  <2> QED BY <2>1, <2>2
<1>15. KeysAreKnown'
  <2>1. \A i \in Job : KeyIsKnown(i)'
    BY <1>1, <1>3, KeysKeep DEF Moves, Active
  <2> QED BY <2>1 DEF KeysAreKnown
<1> QED BY <1>1, <1>7, <1>8, <1>9, <1>10, <1>11, <1>12, <1>13, <1>14, <1>15

(* The handler that stores a row, whether it sees the answer or not. *)
LEMMA StoreMoves ==
  ASSUME TypeOK, NEW j \in Job, ControlOf(j), Step(j) \in {"file", "cert"},
         (Goes(j) /\ faults' = faults) \/ (Fails(j) /\ Fault)
  PROVE  /\ Moves(j) /\ job[j].at = "run" /\ Before(j) /\ ~Before(j)'
         /\ Derived(job[j].req) => PutDone(j)
         /\ faults' \in 0..MaxFaults /\ (faults' = 0 => faults' = faults)
         /\ Step(j) = "file" => job[j].req.kind \in {"app", "publish", "managed", "file"}
         /\ Step(j) = "cert" => job'[j].at \in {"undo", "ok", "failed"}
<1> DEFINE todo == job[j].todo
           q == job[j].req
<1>1. /\ Active(j) /\ job[j].at = "run" /\ Running(j) /\ Head(todo) = Step(j) /\ q.kind \in Kind
  BY StepIs DEF UndoSteps
<1>2. \/ todo = <<"file">> /\ q.kind = "file"
      \/ todo = <<"cert">> /\ q.kind \in {"cert", "certApi"}
      \/ todo = <<"file", "managed">> /\ q.kind = "managed"
      \/ todo = <<"file", "version">> /\ q.kind \in {"app", "publish"}
  BY <1>1 DEF Running
<1>3. /\ Before(j)
      /\ Derived(q) => PutDone(j)
      /\ Step(j) = "file" => q.kind \in {"app", "publish", "managed", "file"}
      /\ Step(j) = "cert" => todo = <<"cert">>
  BY <1>1, <1>2 DEF Before, PutDone, Derived
<1>4. CASE Goes(j) /\ faults' = faults
  <2>1. Moves(j) /\ ~Before(j)'
    BY <1>4, StoreGoes
  <2>2. Step(j) = "cert" => job'[j].at = "ok"
    BY <1>1, <1>3, <1>4, GoesTo, TailIs
  <2> QED BY <1>1, <1>3, <1>4, <2>1, <2>2 DEF TypeOK
<1>5. CASE Fails(j) /\ Fault
  <2>1. Moves(j) /\ job'[j].at \in {"undo", "failed"}
    BY <1>1, <1>5, FailMoves
  <2>2. ~Before(j)'
    BY <2>1 DEF Before
  <2>3. faults' \in 0..MaxFaults /\ faults' # 0
    BY <1>5, FaultCounts
  <2> QED BY <1>1, <1>3, <2>1, <2>2, <2>3
<1> QED BY <1>4, <1>5

LEMMA FileStep ==
  ASSUME IInv, NEW j \in Job, Step(j) = "file",
         CreateFile(j, FileName(j), StorageKey(j), job[j].req.sum),
         (Goes(j) /\ faults' = faults) \/ (Fails(j) /\ Fault),
         UNCHANGED <<objects, certs, managed, apps, versions, cleanup>>
  PROVE  IInv'
<1> USE DEF IInv
<1> DEFINE n == FileName(j)
           k == StorageKey(j)
           q == job[j].req
           row == [name |-> n, art |-> ArtifactFor(j, k), sum |-> q.sum, status |-> "active"]
<1>1. ControlOf(j)
  BY DEF Control
<1>2. /\ Moves(j) /\ job[j].at = "run" /\ Before(j) /\ ~Before(j)'
      /\ Derived(q) => PutDone(j)
      /\ faults' \in 0..MaxFaults /\ (faults' = 0 => faults' = faults)
      /\ q.kind \in {"app", "publish", "managed", "file"}
  BY <1>1, StoreMoves
<1>3. Active(j) /\ q \in Request /\ job[j].pkg \in Package /\ job'[j].req = q /\ job'[j].pkg = job[j].pkg
  BY <1>1, <1>2 DEF Moves, ControlOf
<1>4. n \in {<<i>> : i \in Job \cup Label} \cup (Package \X Code)
  BY <1>2, <1>3 DEF FileName, AppFileName, Label, Code
<1>5. /\ ~ArtifactConflict(k, q.sum) /\ ~NameTaken(files, n) /\ ensureArtifact(j, k, q.sum)
      /\ files' = [files EXCEPT ![j] = row]
  BY DEF CreateFile, FileAccepted
<1>6. row.name = n /\ row.art = ArtifactFor(j, k) /\ row.sum = q.sum
      /\ row = [name |-> n, art |-> row.art, sum |-> row.sum, status |-> "active"]
  OBVIOUS
<1> HIDE DEF row
<1>7. files \in [Job -> FileRow \cup {None}] /\ files'[j] = row
      /\ \A i \in Job : i # j => files'[i] = files[i]
  BY <1>5 DEF TypeOK
<1>8. ASSUME row # None PROVE Stores(j, row)
  BY <1>5, <1>6, <1>7, <1>8 DEF Stores
<1>9. row \in FileRow
  <2>1. row.art \in Job \cup {Legacy} /\ row.sum \in Content
    <3>1. k \in Key /\ q.sum \in Content
      BY <1>1, <1>3, KeyIs
    <3>2. artifacts \subseteq Artifact
      BY DEF TypeOK
    <3>3. ASSUME ArtifactsAt(k) # {} PROVE ArtifactFor(j, k) \in Job \cup {Legacy}
      <4>1. (CHOOSE a \in ArtifactsAt(k) : TRUE) \in artifacts
        BY <3>3 DEF ArtifactsAt
      <4> QED BY <3>2, <3>3, <4>1 DEF ArtifactFor, Artifact
    <3> QED BY <1>6, <3>1, <3>3 DEF ArtifactFor
  <2> QED BY <1>4, <1>6, <2>1 DEF FileRow, Row
<1>10. row # None /\ Stores(j, row)
  BY <1>8, <1>9, NoneIsNoRow
<1>11. artifacts' \subseteq Artifact
  BY <1>1, <1>3, <1>10, StoredArtifact
<1>12. TypeOK'
  <2>1. files' \in [Job -> FileRow \cup {None}]
    BY <1>5, <1>7, <1>9
  <2>2. \A p \in Path : managed[p] # None => files'[managed[p].file] # None
    <3>1. \A p \in Path : managed[p] # None => managed[p].file \in Job /\ files[managed[p].file] # None
      BY DEF TypeOK, ManagedRow
    <3> QED BY <1>7, <1>10, <3>1
  <2> QED BY <1>2, <1>11, <2>1, <2>2 DEF TypeOK, Range, Moves
<1>13. files[j] = None
  BY <1>2 DEF NothingTooEarly
<1>14. NamesAreUnique'
  <2>1. \A i \in Job : files[i] # None => files[i].name # n
    BY <1>5, <1>7 DEF NameTaken
  <2> QED BY <1>6, <1>7, <2>1 DEF NamesAreUnique
<1>15. FilesAreStored'
  <2>1. RowsKeep
    BY <1>7, <1>10, <1>13 DEF RowsKeep, SameRow
  <2>2. Publishes(j)' => files'[j].name = OwnFileName(j)'
    BY <1>2, <1>3, <1>6, <1>7 DEF Publishes, OwnFileName, FileName
  <2>3. \A i \in Job : i # j => job'[i] = job[i]
    BY <1>2 DEF Moves
  <2> QED BY <1>7, <1>10, <2>1, <2>2, <2>3, FilesStay
<1> QED BY <1>2, <1>10, <1>12, <1>14, <1>15, StoreStep

LEMMA CertificateStep ==
  ASSUME IInv, NEW j \in Job, Step(j) = "cert",
         CreateCertificate(j, job[j].req.name, StorageKey(j), job[j].req.sum),
         (Goes(j) /\ faults' = faults) \/ (Fails(j) /\ Fault),
         UNCHANGED <<objects, files, managed, apps, versions, cleanup>>
  PROVE  IInv'
<1> USE DEF IInv
<1> DEFINE k == StorageKey(j)
           q == job[j].req
           row == [name |-> q.name, art |-> ArtifactFor(j, k), sum |-> q.sum, status |-> "active"]
<1>1. ControlOf(j)
  BY DEF Control
<1>2. /\ Moves(j) /\ job[j].at = "run" /\ Before(j) /\ ~Before(j)'
      /\ Derived(q) => PutDone(j)
      /\ faults' \in 0..MaxFaults /\ (faults' = 0 => faults' = faults)
      /\ job'[j].at \in {"undo", "ok", "failed"}
  BY <1>1, StoreMoves
<1>3. Active(j) /\ q \in Request
  BY <1>1, <1>2 DEF Moves, ControlOf
<1>4. /\ ~ArtifactConflict(k, q.sum) /\ ensureArtifact(j, k, q.sum)
      /\ certs' = [certs EXCEPT ![j] = row]
  BY DEF CreateCertificate, CertificateAccepted, CertArtifactConflict, ensureCertArtifact
<1>5. row.name = q.name /\ row.art = ArtifactFor(j, k) /\ row.sum = q.sum
      /\ row = [name |-> q.name, art |-> row.art, sum |-> row.sum, status |-> "active"]
  OBVIOUS
<1> HIDE DEF row
<1>6. certs \in [Job -> CertificateRow \cup {None}] /\ certs'[j] = row
      /\ \A i \in Job : i # j => certs'[i] = certs[i]
  BY <1>4 DEF TypeOK
<1>7. ASSUME row # None PROVE Stores(j, row)
  BY <1>4, <1>5, <1>6, <1>7 DEF Stores
<1>8. row \in CertificateRow
  <2>1. row.art \in Job \cup {Legacy} /\ row.sum \in Content
    <3>1. k \in Key /\ q.sum \in Content
      BY <1>1, <1>3, KeyIs
    <3>2. artifacts \subseteq Artifact
      BY DEF TypeOK
    <3>3. ASSUME ArtifactsAt(k) # {} PROVE ArtifactFor(j, k) \in Job \cup {Legacy}
      <4>1. (CHOOSE a \in ArtifactsAt(k) : TRUE) \in artifacts
        BY <3>3 DEF ArtifactsAt
      <4> QED BY <3>2, <3>3, <4>1 DEF ArtifactFor, Artifact
    <3> QED BY <1>5, <3>1, <3>3 DEF ArtifactFor
  <2> QED BY <1>3, <1>5, <2>1 DEF CertificateRow, Row, Label
<1>9. row # None /\ Stores(j, row)
  BY <1>7, <1>8, NoneIsNoRow
<1>10. artifacts' \subseteq Artifact
  BY <1>1, <1>3, <1>9, StoredArtifact
<1>11. TypeOK'
  <2>1. certs' \in [Job -> CertificateRow \cup {None}]
    BY <1>4, <1>6, <1>8
  <2> QED BY <1>2, <1>10, <2>1 DEF TypeOK, Range, Moves
<1>12. certs[j] = None
  BY <1>2 DEF NothingTooEarly
<1>13. NamesAreUnique'
  BY DEF NamesAreUnique
<1>14. FilesAreStored'
  <2>1. RowsKeep
    BY <1>6, <1>9, <1>12 DEF RowsKeep, SameRow
  <2>2. \A i \in Job : i # j => job'[i] = job[i]
    BY <1>2 DEF Moves
  <2> QED BY <1>2, <2>1, <2>2, FilesStay
<1> QED BY <1>2, <1>9, <1>11, <1>13, <1>14, StoreStep

LEMMA AppendRange ==
  ASSUME NEW S, NEW s \in Seq(S), NEW e \in S
  PROVE  Append(s, e) \in Seq(S) /\ Range(Append(s, e)) = Range(s) \cup {e}
<1>1. /\ DOMAIN Append(s, e) = 1..(Len(s) + 1) /\ DOMAIN s = 1..Len(s)
      /\ Append(s, e)[Len(s) + 1] = e /\ Len(s) \in Nat
      /\ \A n \in 1..Len(s) : Append(s, e)[n] = s[n]
      /\ Append(s, e) \in Seq(S)
  OBVIOUS
<1>2. \A n \in 1..(Len(s) + 1) : n = Len(s) + 1 \/ n \in 1..Len(s)
  BY <1>1
<1>3. 1..Len(s) \subseteq 1..(Len(s) + 1) /\ Len(s) + 1 \in 1..(Len(s) + 1)
  BY <1>1
<1> QED BY <1>1, <1>2, <1>3, Zenon DEF Range

(* The last step of a published version, whether its answer is lost or not. *)
LEMMA VersionMoves ==
  ASSUME TypeOK, NEW j \in Job, ControlOf(j), Step(j) = "version",
         (Goes(j) /\ faults' = faults) \/ (Fails(j) /\ Fault)
  PROVE  /\ Moves(j) /\ job[j].at = "run" /\ job'[j].at \in {"undo", "ok", "failed"} /\ Active(j)
         /\ job[j].todo = <<"version">> /\ job[j].app \in AppId
         /\ job[j].req.kind \in {"app", "publish", "version", "versionApi"}
         /\ Derived(job[j].req) <=> PutDone(j)
         /\ faults' \in 0..MaxFaults /\ (faults' = 0 => faults' = faults)
<1> DEFINE todo == job[j].todo
           q == job[j].req
<1>1. /\ Active(j) /\ job[j].at = "run" /\ Running(j) /\ Head(todo) = "version" /\ q.kind \in Kind
  BY StepIs DEF UndoSteps
<1>2. /\ todo = <<"version">> /\ q.kind \in {"app", "publish", "version", "versionApi"}
      /\ job[j].app \in AppId
  BY <1>1 DEF Running
<1>3. Derived(q) <=> PutDone(j)
  BY <1>1, <1>2 DEF PutDone, Derived
<1>4. CASE Goes(j) /\ faults' = faults
  BY <1>1, <1>2, <1>3, <1>4, LastGoes DEF TypeOK
<1>5. CASE Fails(j) /\ Fault
  BY <1>1, <1>2, <1>3, <1>5, FailMoves, FaultCounts
<1> QED BY <1>4, <1>5

LEMMA VersionStep ==
  ASSUME IInv, NEW j \in Job, Step(j) = "version", CreateVersion(VersionUpsert(j)),
         (Goes(j) /\ faults' = faults) \/ (Fails(j) /\ Fault),
         UNCHANGED <<objects, artifacts, files, certs, managed, apps, cleanup>>
  PROVE  IInv'
<1> USE DEF IInv
<1> DEFINE q == job[j].req
<1>0. PICK v : v = VersionUpsert(j)
  OBVIOUS
<1>1. ControlOf(j)
  BY DEF Control
<1>2. /\ Moves(j) /\ job[j].at = "run" /\ job'[j].at \in {"undo", "ok", "failed"} /\ Active(j)
      /\ job[j].todo = <<"version">> /\ job[j].app \in AppId
      /\ q.kind \in {"app", "publish", "version", "versionApi"}
      /\ Derived(q) <=> PutDone(j)
      /\ faults' \in 0..MaxFaults /\ (faults' = 0 => faults' = faults)
  BY <1>1, VersionMoves
<1>3. q \in Request /\ job'[j].req = q /\ Active(j)' /\ job'[j].pkg = job[j].pkg /\ ~Before(j)'
  BY <1>1, <1>2 DEF Moves, ControlOf, Before
<1>4. Derived(q) => files[j] # None /\ (Publishes(j) => files[j].name = OwnFileName(j))
  BY <1>2 DEF FilesAreStored
<1>5. /\ v.id = j /\ v.app = job[j].app /\ v.name = q.name /\ v.code = q.code /\ v.sum = q.sum
      /\ v.status \in {"published", "uploaded"}
      /\ v.art = IF q.kind \in {"app", "publish"} THEN files[j].art ELSE q.art
      /\ v = [id |-> v.id, app |-> v.app, name |-> v.name, code |-> v.code, art |-> v.art,
              sum |-> v.sum, status |-> v.status]
  BY <1>0 DEF VersionUpsert
<1>6. VersionAccepted(v) /\ versions' = Append(versions, v)
  BY <1>0 DEF CreateVersion
<1>7. v \in VersionRow
  <2>1. q.kind \in {"app", "publish"} => files[j].art \in Job \cup {Legacy}
    <3>1. files \in [Job -> FileRow \cup {None}]
      BY DEF TypeOK
    <3> QED BY <1>4, <3>1 DEF Derived, FileRow, Row
  <2>2. v.art \in Job \cup {Legacy, None} /\ v.sum \in Content
    BY <1>3, <1>5, <2>1, RequestAssumption
  <2>3. v.name \in Label /\ v.code \in Code
    BY <1>3, <1>5 DEF Label, Code
  <2> QED BY <1>2, <1>5, <2>2, <2>3 DEF VersionRow
<1>8. versions' \in Seq(VersionRow) /\ Range(versions') = Range(versions) \cup {v}
  BY <1>6, <1>7, AppendRange DEF TypeOK
<1>9. TypeOK'
  <2>1. \A w \in Range(versions') : apps'[w.app] # None
    BY <1>6, <1>8 DEF VersionAccepted, TypeOK
  <2> QED BY <1>2, <1>8, <2>1 DEF TypeOK, Moves
<1>10. JobsKeep /\ Control' /\ \A i \in Job : i # j => job'[i] = job[i]
  BY <1>2, MovesKeep DEF Moves
<1>11. RowsKeep /\ ArtifactsKeep
  BY DEF RowsKeep, SameRow, ArtifactsKeep, SameArtifact
<1>12. RowsAreUnique' /\ NamesAreUnique' /\ CleanupIsSafe'
  BY <1>11, SafeStays DEF RowsAreUnique, NamesAreUnique
<1>13. RowsAreKnown'
  BY <1>10, <1>11, KnownKeep DEF RowsAreKnown, SameArtifact
<1>14. RowsAreLinked'
  <2>1. ASSUME NEW i \in Job PROVE Linked(files[i], i)' /\ Linked(certs[i], i)'
    <3>1. /\ files[i] # None => Linked(files[i], i)'
          /\ certs[i] # None => Linked(certs[i], i)'
      BY <1>10, <1>11, LinksKeep
    <3>2. /\ files[i] = None => Linked(files[i], i)'
          /\ certs[i] = None => Linked(certs[i], i)'
      BY DEF Linked
    <3> QED BY <3>1, <3>2
  <2> QED BY <2>1 DEF RowsAreLinked
<1>15. NothingTooEarly'
  BY <1>10 DEF JobsKeep, NothingTooEarly
<1>16. FilesAreStored'
  BY <1>2, <1>10, <1>11, FilesStay
<1>17. VersionIsKnown(v)'
  <2>1. Publishes(j)' => files'[j] # None /\ files'[j].name = OwnFileName(j)'
    BY <1>2, <1>3, <1>4 DEF Publishes, Derived, OwnFileName, AppFileName
  <2>2. ASSUME v.art \in Job
        PROVE  /\ Active(v.art)'
               /\ \E a \in artifacts' : a.id = v.art /\ a.sum = v.sum
    <3>1. v.art # None
      BY <2>2, NoneAssumption
    <3>2. PICK a \in artifacts : a.id = v.art /\ a.sum = v.sum
      BY <1>6, <3>1 DEF VersionAccepted, ArtifactRow
    <3>3. a.id # Legacy
      BY <2>2, <3>2, LegacyAssumption
    <3>4. Active(v.art)
      BY <3>2, <3>3 DEF RowsAreKnown, IsKnown
    <3> QED BY <1>10, <2>2, <3>2, <3>4 DEF JobsKeep
  <2> QED BY <1>2, <1>3, <1>5, <2>1, <2>2 DEF VersionIsKnown
<1>18. VersionsAreKnown'
  BY <1>8, <1>10, <1>11, <1>17, VersionsKeep DEF VersionsAreKnown
<1>19. ObjectsAreServed'
  <2>1. ASSUME NEW i \in Job, i # j, Due(i)' PROVE Due(i)
    BY <1>10, <2>1, OverwrittenKeeps DEF Due, PutDone, Active
  <2>2. ASSUME Due(j)' PROVE Due(j)
    BY <1>2, <1>3, <1>10, <2>2, OverwrittenKeeps DEF Due
  <2> QED BY <1>10, <2>1, <2>2, ServedStay
<1>20. AllAccounted' /\ LastRowIsFree'
  <2>1. CASE faults' = 0
    <3>1. PutsKeep /\ ObjectsKeep
      <4>1. ASSUME NEW i \in Job, i # j PROVE PutDone(i)' = PutDone(i)
        BY <1>10, <4>1 DEF PutDone
      <4> QED BY <1>2, <1>4, <4>1 DEF PutsKeep, ObjectsKeep
    <3> QED BY <1>2, <1>9, <1>10, <1>11, <1>12, <1>14, <2>1, <3>1, AccountedStay, LastRowStays
  <2>2. CASE faults' # 0
    BY <2>2 DEF AllAccounted, LastRowIsFree
  <2> QED BY <2>1, <2>2
<1>21. KeysAreKnown'
  <2>1. \A i \in Job : KeyIsKnown(i)'
    BY <1>3, <1>2, <1>10, <1>11, KeysKeep DEF Active
  <2> QED BY <2>1 DEF KeysAreKnown
<1> QED BY <1>9, <1>10, <1>12, <1>13, <1>14, <1>15, <1>16, <1>18, <1>19, <1>20, <1>21

(* A call whose effect took place and whose answer is lost. *)
LEMMA AnswerLostStep ==
  ASSUME IInv, NEW j \in Job, AnswerLost(j)
  PROVE  IInv'
<1> USE DEF IInv
<1> DEFINE q == job[j].req
<1>1. ControlOf(j) /\ job[j].at = "run" /\ Fails(j) /\ Fault /\ UNCHANGED cleanup
  BY DEF Control, AnswerLost
<1>2. Moves(j) /\ job'[j].at \in {"undo", "failed"}
  BY <1>1, FailMoves
<1>3. faults' \in 0..MaxFaults /\ faults' # 0
  BY <1>1, FaultCounts
<1>4. CASE /\ Step(j) = "put" /\ Put(StorageKey(j), q.sum)
           /\ UNCHANGED <<artifacts, files, certs, managed, apps, versions>>
  BY <1>1, <1>4, PutStep
<1>5. CASE /\ Step(j) = "file" /\ CreateFile(j, FileName(j), StorageKey(j), q.sum)
           /\ UNCHANGED <<objects, certs, managed, apps, versions>>
  BY <1>1, <1>5, FileStep
<1>6. CASE /\ Step(j) = "cert" /\ CreateCertificate(j, q.name, StorageKey(j), q.sum)
           /\ UNCHANGED <<objects, files, managed, apps, versions>>
  BY <1>1, <1>6, CertificateStep
<1>7. CASE /\ Step(j) = "managed" /\ CreateManagedFile(q.path, SourceFile(j), q.vars)
           /\ UNCHANGED <<objects, artifacts, files, certs, apps, versions>>
  <2>1. TypeOK'
    BY <1>1, <1>2, <1>3, <1>7, ManagedTypes DEF Moves
  <2> QED BY <1>1, <1>2, <1>3, <1>7, <2>1, PlainStep
<1>8. CASE /\ Step(j) = "createApp" /\ CreateApp(j, q.pkg)
           /\ UNCHANGED <<objects, artifacts, files, certs, managed, versions>>
  <2>1. [pkg |-> q.pkg, system |-> FALSE, status |-> "active"] \in AppRow /\ j \in AppId
    BY <1>1, <1>2, RequestAssumption DEF Moves, ControlOf, AppRow, AppId
  <2>2. AppsKeep
    BY <1>8, <2>1, AppChanges DEF CreateApp
  <2>3. TypeOK'
    BY <1>1, <1>2, <1>3, <1>8, <2>2, AppsTypes DEF Moves
  <2> QED BY <1>1, <1>2, <1>3, <1>8, <2>3, PlainStep
<1>9. CASE /\ Step(j) = "version" /\ CreateVersion(VersionUpsert(j))
           /\ UNCHANGED <<objects, artifacts, files, certs, managed, apps>>
  BY <1>1, <1>9, VersionStep
<1> QED BY <1>4, <1>5, <1>6, <1>7, <1>8, <1>9 DEF AnswerLost

-----------------------------------------------------------------------------
(***************************************************************************)
(* The artifact cleanup                                                    *)
(***************************************************************************)

(* A step of the cleanup that takes no row away. *)
LEMMA CleanupStep ==
  ASSUME IInv, TypeOK', SameRows, CleanupIsSafe', LastRowIsFree', job' = job,
         \A i \in Job : objects'[i] = objects[i],
         faults' = 0 => faults' = faults /\ ObjectsKeep
  PROVE  IInv'
<1> USE DEF IInv
<1>1. JobsKeep /\ Control'
  BY IdleKeeps
<1>2. /\ RowsAreUnique' /\ RowsAreKnown' /\ RowsAreLinked' /\ NothingTooEarly'
      /\ NamesAreUnique' /\ VersionsAreKnown'
  BY <1>1, RowsStay
<1>3. RowsKeep /\ ArtifactsKeep
  BY DEF SameRows
<1>4. FilesAreStored'
  BY <1>3, FilesStay
<1>5. ObjectsAreServed' /\ KeysAreKnown'
  <2>1. \A i \in Job : KeyIsKnown(i)'
    BY <1>1, <1>3, KeysKeep DEF Active
  <2> QED BY <1>1, <2>1, DueStays, ServedStay DEF KeysAreKnown
<1>6. AllAccounted'
  <2>1. CASE faults' = 0
    <3>1. PutsKeep
      BY <1>1, DueStays DEF PutsKeep
    <3> QED BY <1>1, <1>2, <1>3, <2>1, <3>1, AccountedStay
  <2>2. CASE faults' # 0
    BY <2>2 DEF AllAccounted
  <2> QED BY <2>1, <2>2
<1> QED BY <1>1, <1>2, <1>4, <1>5, <1>6

(* An orphan is the row of no upload of the dashboard. *)
LEMMA OrphanIs ==
  ASSUME IInv, NEW c \in ListOrphanArtifacts
  PROVE  c \in artifacts /\ c \in Artifact /\ c.key \in ApiKey
<1> USE DEF IInv
<1>1. c \in artifacts /\ c \in Artifact /\ ~Referring(files, c) /\ ~Referring(certs, c)
  BY DEF ListOrphanArtifacts, TypeOK
<1>2. CASE c.id = Legacy /\ c.key = Legacy
  BY <1>1, <1>2, LegacyAssumption
<1>3. CASE ~(c.id = Legacy /\ c.key = Legacy)
  <2>1. /\ c.id \in Job /\ Active(c.id) /\ c.key = StorageKey(c.id)
        /\ Derived(job[c.id].req) =>
             \/ files[c.id] # None /\ files[c.id].art = c.id
             \/ certs[c.id] # None /\ certs[c.id].art = c.id
        /\ ~Derived(job[c.id].req) => c.key \in ApiKey
    BY <1>1, <1>3 DEF RowsAreKnown, IsKnown
  <2>2. ~Derived(job[c.id].req)
    BY <1>1, <2>1 DEF Referring, TypeOK
  <2> QED BY <1>1, <2>1, <2>2
<1> QED BY <1>2, <1>3

LEMMA ListsStep ==
  ASSUME IInv, CleanupLists
  PROVE  IInv'
<1> USE DEF IInv
<1>1. /\ cleanup'.todo = ListOrphanArtifacts /\ cleanup'.step = "next"
      /\ cleanup' = [todo |-> ListOrphanArtifacts, now |-> None, step |-> "next"]
      /\ UNCHANGED <<catVars, job, faults>>
  BY DEF CleanupLists, NoPass
<1>2. TypeOK'
  BY <1>1, OrphanIs DEF TypeOK, catVars, Range
<1>3. SameRows
  BY <1>1, SameRowsIfUnchanged DEF catVars
<1>4. CleanupIsSafe'
  <2>1. ASSUME NEW c \in cleanup'.todo PROVE HasRow(c)' /\ c.key \in ApiKey
    BY <1>1, <2>1, OrphanIs DEF HasRow, catVars
  <2>2. \A c, d \in cleanup'.todo : c.id = d.id => c = d
    BY <1>1, OrphanIs DEF RowsAreUnique
  <2> QED BY <1>1, <2>1, <2>2 DEF CleanupIsSafe
<1>5. LastRowIsFree' /\ ObjectsKeep
  BY <1>1 DEF LastRowIsFree, ObjectsKeep, catVars
<1> QED BY <1>1, <1>2, <1>3, <1>4, <1>5, CleanupStep DEF catVars

(* The row of an artifact that is retired keeps what it says. *)
LEMMA SameRowsIfArtifactRetired ==
  ASSUME TypeOK, RowsAreUnique, NEW id, RetireArtifact(id), UNCHANGED <<files, certs, versions>>
  PROVE  SameRows /\ artifacts' \subseteq Artifact
<1> DEFINE new(a) == IF a.id = id THEN [a EXCEPT !.status = "retired"] ELSE a
<1>1. \A a \in artifacts : new(a) \in Artifact /\ SameArtifact(a, new(a))
  BY DEF TypeOK, Artifact, SameArtifact
<1>2. artifacts' = {new(a) : a \in artifacts}
  BY DEF RetireArtifact
<1> HIDE DEF new
<1>3. ArtifactsKeep /\ artifacts' \subseteq Artifact
      /\ \A b \in artifacts' : \E a \in artifacts : SameArtifact(a, b) /\ b = new(a)
  BY <1>1, <1>2 DEF ArtifactsKeep
<1>4. RowsAreUnique'
  <2>1. ASSUME NEW b \in artifacts', NEW d \in artifacts', b.id = d.id \/ b.key = d.key
        PROVE  b = d
    <3>1. PICK a \in artifacts : SameArtifact(a, b) /\ b = new(a)
      BY <1>3
    <3>2. PICK c \in artifacts : SameArtifact(c, d) /\ d = new(c)
      BY <1>3
    <3>3. a = c
      BY <2>1, <3>1, <3>2 DEF SameArtifact, RowsAreUnique
    <3> QED BY <3>1, <3>2, <3>3
  <2> QED BY <2>1 DEF RowsAreUnique
<1> QED BY <1>3, <1>4 DEF SameRows, RowsKeep, SameRow

LEMMA RetiresStep ==
  ASSUME IInv, CleanupRetires
  PROVE  IInv'
<1> USE DEF IInv
<1>1. PICK a \in cleanup.todo : /\ RetireArtifact(a.id)
                                /\ cleanup' = [todo |-> cleanup.todo \ {a}, now |-> a, step |-> "object"]
  BY DEF CleanupRetires
<1>2. /\ cleanup'.todo = cleanup.todo \ {a} /\ cleanup'.now = a /\ cleanup'.step = "object"
      /\ UNCHANGED <<objects, files, certs, managed, apps, versions, job, faults>>
      /\ cleanup.todo \subseteq Artifact
  BY <1>1 DEF CleanupRetires, TypeOK
<1>3. SameRows /\ artifacts' \subseteq Artifact
  BY <1>1, <1>2, SameRowsIfArtifactRetired
<1>4. TypeOK'
  BY <1>1, <1>2, <1>3 DEF TypeOK, Range
<1>5. CleanupIsSafe'
  <2>1. \A c : HasRow(c) => HasRow(c)'
    BY <1>3 DEF HasRow, SameRows, ArtifactsKeep, SameArtifact
  <2>2. \A c \in cleanup.todo : HasRow(c)' /\ c.key \in ApiKey
    BY <2>1 DEF CleanupIsSafe
  <2>3. \A c \in cleanup.todo : c.id = a.id => c = a
    BY <1>1 DEF CleanupIsSafe
  <2> QED BY <1>1, <1>2, <2>2, <2>3 DEF CleanupIsSafe
<1>6. LastRowIsFree' /\ ObjectsKeep
  BY <1>2 DEF LastRowIsFree, ObjectsKeep
<1> QED BY <1>2, <1>3, <1>4, <1>5, <1>6, CleanupStep

LEMMA DropsObjectStep ==
  ASSUME IInv, CleanupDropsObject
  PROVE  IInv'
<1> USE DEF IInv
<1> DEFINE now == cleanup.now
<1>1. /\ cleanup'.todo = cleanup.todo /\ cleanup'.now = now /\ cleanup'.step = "row"
      /\ cleanup' \in [todo : SUBSET Artifact, now : Artifact \cup {None},
                       step : {"next", "object", "row"}]
      /\ UNCHANGED <<artifacts, files, certs, managed, apps, versions, job, faults>>
  BY DEF CleanupDropsObject, TypeOK
<1>2. now \in Artifact /\ now.key \in ApiKey
  BY DEF CleanupDropsObject, CleanupIsSafe
<1>3. /\ objects' \in [Key -> Content \cup {None}]
      /\ objects'[now.key] = None
      /\ \A k \in Key : k # now.key => objects'[k] = objects[k]
  BY <1>2 DEF CleanupDropsObject, Delete, TypeOK, Key
<1>4. TypeOK'
  BY <1>1, <1>3 DEF TypeOK, Range
<1>5. SameRows
  BY <1>1, SameRowsIfUnchanged
<1>6. CleanupIsSafe'
  BY <1>1 DEF CleanupIsSafe, CleanupDropsObject, HasRow
<1>7. LastRowIsFree'
  BY <1>1, <1>3 DEF LastRowIsFree
<1>8. ObjectsKeep /\ \A i \in Job : objects'[i] = objects[i]
  BY <1>2, <1>3, LegacyAssumption DEF ObjectsKeep, Key
<1> QED BY <1>1, <1>4, <1>5, <1>6, <1>7, <1>8, CleanupStep

(* The pass is over, or gives up. *)
LEMMA NoPassStep ==
  ASSUME IInv, cleanup' = NoPass, UNCHANGED <<catVars, job>>,
         faults' \in 0..MaxFaults, faults' = 0 => faults' = faults
  PROVE  IInv'
<1> USE DEF IInv
<1>1. /\ cleanup'.todo = {} /\ cleanup'.step = "next"
      /\ cleanup' = [todo |-> {}, now |-> None, step |-> "next"]
  BY DEF NoPass
<1>2. TypeOK'
  BY <1>1 DEF TypeOK, catVars, Range
<1>3. SameRows
  BY SameRowsIfUnchanged DEF catVars
<1>4. CleanupIsSafe' /\ LastRowIsFree'
  BY <1>1 DEF CleanupIsSafe, LastRowIsFree
<1>5. ObjectsKeep
  BY DEF ObjectsKeep, catVars
<1> QED BY <1>2, <1>3, <1>4, <1>5, CleanupStep DEF catVars

(* The row that is deleted is not of the dashboard, no file or certificate *)
(* refers to it, and nobody else needs its object.                         *)
LEMMA DropsRowStep ==
  ASSUME IInv, CleanupDropsRow
  PROVE  IInv'
<1> USE DEF IInv
<1> DEFINE now == cleanup.now
<1>1. /\ UNCHANGED <<objects, files, certs, managed, apps, versions, job, faults>>
      /\ cleanup.step = "row"
  BY DEF CleanupDropsRow
<1>2. CASE cleanup' = NoPass /\ UNCHANGED artifacts
  BY <1>1, <1>2, NoPassStep DEF catVars, TypeOK
<1>3. CASE /\ Deletable(now) /\ DeleteArtifact(now.id)
           /\ cleanup' = [cleanup EXCEPT !.now = None, !.step = "next"]
  <2>1. /\ cleanup'.todo = cleanup.todo /\ cleanup'.step = "next"
        /\ cleanup' \in [todo : SUBSET Artifact, now : Artifact \cup {None},
                         step : {"next", "object", "row"}]
    BY <1>3 DEF TypeOK
  <2>2. artifacts' = {a \in artifacts : a.id # now.id}
    BY <1>3 DEF DeleteArtifact, ArtifactRow
  <2>3. now.key \in ApiKey /\ HasRow(now) /\ \A c \in cleanup.todo : c.id # now.id
    BY <1>1 DEF CleanupIsSafe
  <2>4. \A i \in Job : /\ files[i] # None => files[i].art # now.id
                       /\ certs[i] # None => certs[i].art # now.id
    BY <1>3 DEF Deletable, Referring, TypeOK
  <2>5. TypeOK'
    BY <1>1, <2>1, <2>2 DEF TypeOK, Range
  <2>6. JobsKeep /\ Control'
    BY <1>1, IdleKeeps
  <2>7. \A i \in Job : /\ Active(i)' = Active(i) /\ StorageKey(i)' = StorageKey(i)
                       /\ PutDone(i)' = PutDone(i) /\ Before(i)' = Before(i)
                       /\ Publishes(i)' = Publishes(i) /\ OwnFileName(i)' = OwnFileName(i)
    BY <1>1 DEF Active, StorageKey, PutDone, Before, Publishes, OwnFileName, AppFileName, Active
  <2>8. RowsAreUnique' /\ NothingTooEarly' /\ NamesAreUnique' /\ FilesAreStored'
    <3>1. RowsAreUnique'
      BY <2>2 DEF RowsAreUnique
    <3>2. NothingTooEarly'
      BY <1>1, <2>2, <2>7 DEF NothingTooEarly
    <3>3. NamesAreUnique'
      BY <1>1 DEF NamesAreUnique
    <3>4. FilesAreStored'
      BY <1>1, <2>7 DEF FilesAreStored
    <3> QED BY <3>1, <3>2, <3>3, <3>4
  <2>9. RowsAreKnown'
    <3>1. RowsKeep
      BY <1>1 DEF RowsKeep, SameRow
    <3>2. \A a \in artifacts' : a \in artifacts /\ SameArtifact(a, a)
      BY <2>2 DEF SameArtifact
    <3> QED BY <2>6, <3>1, <3>2, KnownKeep DEF RowsAreKnown
  <2>10. RowsAreLinked'
    <3>1. ASSUME NEW i \in Job, NEW row, row \in {files[i], certs[i]}, Linked(row, i)
          PROVE  Linked(row, i)'
      <4>1. row # None => \A a \in artifacts : a.id = row.art => a \in artifacts'
        BY <2>2, <2>4, <3>1
      <4> QED BY <1>1, <2>7, <3>1, <4>1 DEF Linked
    <3> QED BY <1>1, <3>1 DEF RowsAreLinked
  <2>11. VersionsAreKnown'
    <3>1. ASSUME NEW i \in Job, Derived(job[i].req) PROVE \A a \in artifacts : a.id = i => a \in artifacts'
      <4>1. ASSUME now.id = i PROVE FALSE
        <5>1. PICK c \in artifacts : c.id = i /\ c.key = now.key
          BY <2>3, <4>1 DEF HasRow
        <5>2. i # Legacy
          BY LegacyAssumption
        <5>3. Active(i) /\ c.key = StorageKey(i)
          BY <5>1, <5>2 DEF RowsAreKnown, IsKnown
        <5>4. c.key = i
          BY <3>1, <5>3, KeyIs DEF Control
        <5> QED BY <2>3, <5>1, <5>4, LegacyAssumption
      <4> QED BY <2>2, <4>1
    <3>2. ASSUME NEW v \in Range(versions), VersionIsKnown(v) PROVE VersionIsKnown(v)'
      BY <1>1, <2>7, <3>1, <3>2 DEF VersionIsKnown
    <3> QED BY <1>1, <3>2 DEF VersionsAreKnown, Range
  <2>12. CleanupIsSafe'
    <3>1. \A c : HasRow(c) /\ c.id # now.id => HasRow(c)'
      BY <2>2 DEF HasRow
    <3> QED BY <2>1, <2>3, <3>1 DEF CleanupIsSafe
  <2>13. ObjectsAreServed'
    <3>1. \A i \in Job : Due(i)' => Due(i)
      BY <1>1, <2>2, <2>6, <2>7, OverwrittenKeeps DEF Due
    <3> QED BY <1>1, <3>1 DEF ObjectsAreServed
  <2>14. LastRowIsFree'
    BY <2>1 DEF LastRowIsFree
  <2>15. AllAccounted'
    <3>1. ASSUME faults = 0, NEW k \in Key, objects[k] # None
          PROVE  ArtifactsAt(k)' # {} \/ UnderWay(k)'
      <4>1. UnderWay(k)' = UnderWay(k)
        BY <2>7 DEF UnderWay
      <4>2. CASE UnderWay(k)
        BY <4>1, <4>2
      <4>3. CASE k = now.key
        BY <1>1, <1>3, <3>1, <4>1, <4>3 DEF LastRowIsFree
      <4>4. CASE k # now.key /\ ArtifactsAt(k) # {}
        <5>1. PICK a \in artifacts : a.key = k
          BY <4>4 DEF ArtifactsAt
        <5>2. a.id # now.id
          BY <2>3, <4>4, <5>1 DEF HasRow, RowsAreUnique
        <5> QED BY <2>2, <5>1, <5>2 DEF ArtifactsAt
      <4> QED BY <3>1, <4>2, <4>3, <4>4 DEF AllAccounted, Accounted
    <3> QED BY <1>1, <3>1 DEF AllAccounted, Accounted
  <2>16. KeysAreKnown'
    <3>1. ASSUME NEW i \in Job, Active(i), ~Derived(job[i].req), job[i].req.key \in Job
          PROVE  \E a \in artifacts' : a.id = job[i].req.key /\ a.key = job[i].req.key
      <4>1. PICK a \in artifacts : a.id = job[i].req.key /\ a.key = job[i].req.key
        BY <3>1 DEF KeysAreKnown, KeyIsKnown
      <4>2. PICK c \in artifacts : c.id = now.id /\ c.key = now.key
        BY <2>3 DEF HasRow
      <4>3. a.id # now.id
        BY <2>3, <3>1, <4>1, <4>2, LegacyAssumption DEF RowsAreUnique
      <4> QED BY <2>2, <4>1, <4>3
    <3> QED BY <1>1, <2>7, <3>1 DEF KeysAreKnown, KeyIsKnown
  <2> QED BY <2>5, <2>6, <2>8, <2>9, <2>10, <2>11, <2>12, <2>13, <2>14, <2>15, <2>16
<1> QED BY <1>2, <1>3 DEF CleanupDropsRow

-----------------------------------------------------------------------------
(***************************************************************************)
(* Theorems                                                                *)
(***************************************************************************)

LEMMA InitIInv == Init => IInv
<1> SUFFICES ASSUME Init PROVE IInv
  OBVIOUS
<1>1. /\ files = [i \in Job |-> None] /\ certs = [i \in Job |-> None]
      /\ managed = [p \in Path |-> None] /\ apps = [i \in AppId |-> None] /\ versions = <<>>
      /\ job = [j \in Job |-> Idle] /\ cleanup = NoPass /\ faults = 0
      /\ objects = [k \in Key |-> IF ArtifactsAt(k) = {} THEN None
                                  ELSE (CHOOSE a \in ArtifactsAt(k) : TRUE).sum]
  BY DEF Init, InitCatalogue
<1>2. artifacts = {} \/ \E c \in Content : artifacts =
        {[id |-> Legacy, key |-> Legacy, sum |-> c, status |-> "active"]}
  BY DEF Init, InitCatalogue
<1>3. /\ artifacts \subseteq Artifact
      /\ \A a \in artifacts : a.id = Legacy /\ a.key = Legacy
      /\ \A a, b \in artifacts : a = b
  <2>1. Legacy \in Key
    BY LegacyAssumption DEF Key
  <2> QED BY <1>2, <2>1 DEF Artifact
<1>4. \A j \in Job : job[j] = Idle /\ files[j] = None /\ certs[j] = None
  BY <1>1
<1>5. Range(versions) = {}
  BY <1>1 DEF Range
<1>6. TypeOK
  <2>1. objects \in [Key -> Content \cup {None}]
    <3>1. ASSUME NEW k \in Key, ArtifactsAt(k) # {}
          PROVE  (CHOOSE a \in ArtifactsAt(k) : TRUE).sum \in Content
      <4>1. (CHOOSE a \in ArtifactsAt(k) : TRUE) \in artifacts
        BY <3>1 DEF ArtifactsAt
      <4> QED BY <1>3, <4>1 DEF Artifact
    <3> QED BY <1>1, <3>1
  <2>2. job \in [Job -> Handling]
    <3>1. <<>> \in Seq(StepName)
      OBVIOUS
    <3> QED BY <1>1, <3>1 DEF Idle, Handling
  <2>3. versions \in Seq(VersionRow)
    BY <1>1
  <2>4. cleanup \in [todo : SUBSET Artifact, now : Artifact \cup {None}, step : {"next", "object", "row"}]
    BY <1>1 DEF NoPass
  <2>5. faults \in 0..MaxFaults
    BY <1>1, FaultsAssumption
  <2> QED BY <1>1, <1>3, <1>5, <2>1, <2>2, <2>3, <2>4, <2>5 DEF TypeOK
<1>7. Control
  BY <1>4 DEF Control, ControlOf, Active, Idle
<1>8. RowsAreUnique /\ RowsAreKnown /\ KeysAreKnown
  BY <1>3, <1>4 DEF RowsAreUnique, RowsAreKnown, IsKnown, KeysAreKnown, KeyIsKnown, Active, Idle
<1>9. RowsAreLinked /\ NamesAreUnique
  BY <1>4 DEF RowsAreLinked, Linked, NamesAreUnique
<1>10. NothingTooEarly
  BY <1>3, <1>4, LegacyAssumption DEF NothingTooEarly
<1>11. FilesAreStored /\ ObjectsAreServed
  BY <1>4 DEF FilesAreStored, ObjectsAreServed, Due, Active, Idle
<1>12. VersionsAreKnown
  BY <1>5 DEF VersionsAreKnown
<1>13. CleanupIsSafe /\ LastRowIsFree
  BY <1>1 DEF CleanupIsSafe, LastRowIsFree, NoPass
<1>14. AllAccounted
  BY <1>1 DEF AllAccounted, Accounted
<1> QED BY <1>6, <1>7, <1>8, <1>9, <1>10, <1>11, <1>12, <1>13, <1>14 DEF IInv

(* Every step of a handler. *)
LEMMA StepsStep ==
  ASSUME IInv, NEW j \in Job, Steps(j)
  PROVE  IInv'
<1>1. UNCHANGED <<cleanup, faults>>
  BY DEF Steps
<1>2. CASE PutsObject(j)
  BY <1>1, <1>2, PutStep DEF PutsObject
<1>3. CASE CreatesFile(j)
  BY <1>1, <1>3, FileStep, RejectedStep DEF CreatesFile, catVars
<1>4. CASE CreatesCertificate(j)
  BY <1>1, <1>4, CertificateStep, RejectedStep DEF CreatesCertificate, catVars
<1>5. CASE BindsFile(j)
  BY <1>1, <1>5, BindsFileStep
<1>6. CASE CreatesVersion(j)
  BY <1>1, <1>6, VersionStep, RejectedStep DEF CreatesVersion, catVars
<1>7. CASE FindsApp(j) \/ CreatesApp(j) \/ GetsApp(j) \/ FindsVersion(j)
  BY <1>1, <1>7, LooksStep DEF Looks
<1>8. CASE Undoes(j)
  BY <1>1, <1>8, UndoesStep
<1> QED BY <1>2, <1>3, <1>4, <1>5, <1>6, <1>7, <1>8 DEF Steps

(* IInv is an invariant: every step of a handler, an administrator, the    *)
(* cleanup and a stop of the server keeps it.                              *)
THEOREM Invariance == Spec => []IInv
<1>1. IInv /\ [Next]_vars => IInv'
  <2> SUFFICES ASSUME IInv, [Next]_vars PROVE IInv'
    OBVIOUS
  <2>1. CASE UNCHANGED vars
    <3>1. UNCHANGED <<catVars, job, cleanup, faults>>
      BY <2>1 DEF vars
    <3>2. TypeOK'
      BY <3>1, JobTypes DEF IInv, TypeOK
    <3>3. SameRows
      BY <3>1, SameRowsIfUnchanged DEF IInv, catVars
    <3> QED BY <3>1, <3>2, <3>3, AdministratorStep DEF catVars
  <2>2. ASSUME NEW j \in Job, NEW q \in Request, Starts(j, q) PROVE IInv'
    BY <2>2, StartsStep
  <2>3. ASSUME NEW j \in Job, Steps(j) PROVE IInv'
    BY <2>3, StepsStep
  <2>4. ASSUME NEW j \in Job, StepRefused(j) \/ ServerStops(j) PROVE IInv'
    BY <2>4, RefusedStep
  <2>5. ASSUME NEW j \in Job, AnswerLost(j) PROVE IInv'
    BY <2>5, AnswerLostStep
  <2>6. CASE AdministratorActs
    BY <2>6, AdministratorsStep
  <2>7. CASE CleanupLists
    BY <2>7, ListsStep
  <2>8. CASE CleanupRetires
    BY <2>8, RetiresStep
  <2>9. CASE CleanupDropsObject
    BY <2>9, DropsObjectStep
  <2>10. CASE CleanupDropsRow
    BY <2>10, DropsRowStep
  <2>11. CASE CleanupRefused
    <3>1. faults' \in 0..MaxFaults /\ faults' # 0
      BY <2>11, FaultCounts DEF CleanupRefused, IInv
    <3> QED BY <2>11, <3>1, NoPassStep DEF CleanupRefused
  <2> QED BY <2>1, <2>2, <2>3, <2>4, <2>5, <2>6, <2>7, <2>8, <2>9, <2>10, <2>11
        DEF Next, AdministratorActs
<1> QED BY InitIInv, <1>1, PTL DEF Spec

(* Rows, objects, handlers and the cleanup keep to their types: also, what *)
(* a file, a certificate or a version refers to is a row that exists       *)
(* (createManagedFile, createCertificate, publishAppVersion).              *)
THEOREM TypeCorrect == Spec => []TypeOK
<1>1. IInv => TypeOK
  BY DEF IInv
<1> QED BY Invariance, <1>1, PTL

(* The place of the last of some rows. *)
NatPairs == {p \in Nat \X Nat : p[1] < p[2]}

LEMMA LastPlace ==
  ASSUME NEW n \in Nat, NEW places, places \subseteq 1..n, places # {}
  PROVE  Max(places) \in places
<1> DEFINE T == {n - y : y \in places}
<1>1. IsWellFoundedOn(NatPairs, Nat)
  BY NatLessThanWellFounded DEF OpToRel, NatPairs
<1>2. T \subseteq Nat /\ T # {}
  <2>1. \A y \in places : y \in Nat /\ n - y \in Nat
    OBVIOUS
  <2>2. PICK y \in places : TRUE
    OBVIOUS
  <2>3. n - y \in T
    OBVIOUS
  <2> QED BY <2>1, <2>3
<1>3. PICK t \in T : \A y \in T : <<y, t>> \notin NatPairs
  BY <1>1, <1>2, WFMin
<1>4. PICK x \in places : t = n - x
  OBVIOUS
<1>5. ASSUME NEW y \in places PROVE x >= y
  <2>1. n - y \in T /\ n - y \in Nat /\ t \in Nat
    BY <1>2
  <2>2. ~(n - y < t)
    BY <1>3, <2>1 DEF NatPairs
  <2> QED BY <1>4, <2>2
<1> QED BY <1>5 DEF Max

(* The version published last is a published version of the app. *)
LEMMA LatestIs ==
  ASSUME TypeOK, NEW i, GetLatestPublishedVersion(i) # None
  PROVE  /\ GetLatestPublishedVersion(i) \in Range(versions)
         /\ GetLatestPublishedVersion(i).status = "published"
<1> DEFINE places == {n \in VersionsOf(i) : versions[n].status = "published"}
<1>1. DOMAIN versions = 1..Len(versions) /\ Len(versions) \in Nat
  BY DEF TypeOK
<1>2. places # {} /\ GetLatestPublishedVersion(i) = versions[Max(places)]
  BY DEF GetLatestPublishedVersion, LastOf
<1>3. places \subseteq 1..Len(versions)
  BY <1>1 DEF VersionsOf
<1>4. Max(places) \in places
  BY <1>1, <1>2, <1>3, LastPlace
<1> QED BY <1>1, <1>2, <1>3, <1>4 DEF Range

(* The object of an upload that reported success is what its row says. *)
LEMMA KeptIsStored ==
  ASSUME IInv, NEW id, Kept(id), NEW a \in artifacts, a.id = id
  PROVE  Stored(ArtifactRow(id)) = a.sum
<1> USE DEF IInv
<1>1. ArtifactRow(id) = {a}
  BY DEF ArtifactRow, RowsAreUnique
<1>2. Stored(ArtifactRow(id)) = objects[a.key]
  BY <1>1 DEF Stored, Get
<1>3. id \in Job /\ id # Legacy /\ Derived(job[id].req) /\ job[id].at = "ok"
  BY LegacyAssumption DEF Kept
<1>4. Active(id) /\ a.key = StorageKey(id) /\ a.sum = job[id].req.sum
  BY <1>3 DEF RowsAreKnown, IsKnown
<1>5. a.key = id
  BY <1>3, <1>4, KeyIs DEF Control
<1>6. Due(id)
  BY <1>3, <1>4 DEF Due, Kept, Overwritten
<1> QED BY <1>2, <1>3, <1>4, <1>5, <1>6 DEF ObjectsAreServed

(* What an upload of the dashboard stored is served with the checksum that *)
(* a snapshot promises, whatever other uploads, administrators, the        *)
(* cleanup and stops of the server do, and clients of the API that do not  *)
(* upload to its very key (publishAppVersion, createManagedFile,           *)
(* createCertificate and the download handlers).                           *)
THEOREM OfferedIsServedAlways == Spec => []OfferedIsServed
<1>1. ASSUME IInv PROVE OfferedIsServed
  <2> USE <1>1
  <2>1. ASSUME NEW i, GetLatestPublishedVersion(i) # None, Kept(GetLatestPublishedVersion(i).art)
        PROVE  LET v == GetLatestPublishedVersion(i) IN AppDownload(v) = v.sum /\ downloadApp(i) = v.sum
    <3> DEFINE v == GetLatestPublishedVersion(i)
    <3>1. v \in Range(versions) /\ v.status = "published"
      BY <2>1, LatestIs DEF IInv
    <3>2. v.art \in Job /\ v.art # None /\ Derived(job[v.art].req)
      BY <2>1, NoneAssumption DEF Kept
    <3>3. PICK a \in artifacts : a.id = v.art /\ a.sum = v.sum
      BY <3>1, <3>2 DEF IInv, VersionsAreKnown, VersionIsKnown
    <3>4. Stored(GetVersion(v)) = v.sum
      BY <2>1, <3>2, <3>3, KeptIsStored DEF GetVersion
    <3> QED BY <2>1, <3>1, <3>4 DEF AppDownload, downloadApp
  <2>2. ASSUME NEW p \in ListedFiles, Kept(files[managed[p].file].art)
        PROVE  /\ FileDownload(p) = FileChecksum(p)
               /\ downloadManagedFile(p) = files[managed[p].file].sum
    <3> DEFINE f == files[managed[p].file]
    <3>1. managed[p].file \in Job /\ f # None /\ managed[p].status = "active"
      BY DEF ListedFiles, IInv, TypeOK, ManagedRow
    <3>2. PICK a \in artifacts : a.id = f.art /\ a.sum = f.sum
      BY <3>1 DEF IInv, RowsAreLinked, Linked
    <3>3. Stored(GetManagedFile(p)) = f.sum
      BY <2>2, <3>2, KeptIsStored DEF GetManagedFile, GetFile
    <3> QED BY <3>1, <3>3 DEF FileDownload, FileChecksum, downloadManagedFile, RenderTemplate,
          renderedManagedFileContent
  <2>3. ASSUME NEW i \in Job, certs[i] # None, Kept(certs[i].art)
        PROVE  /\ downloadCertificate(i) = certs[i].sum
               /\ i \in ListedCertificates => CertificateDownload(i) = certs[i].sum
    <3>1. PICK a \in artifacts : a.id = certs[i].art /\ a.sum = certs[i].sum
      BY <2>3 DEF IInv, RowsAreLinked, Linked
    <3>2. Stored(GetCertificate(i)) = certs[i].sum
      BY <2>3, <3>1, KeptIsStored DEF GetCertificate
    <3> QED BY <3>2 DEF downloadCertificate, CertificateDownload, ListedCertificates
  <2>4. ASSUME latestPublishedAgentAppVersion(Agent) # None,
               Kept(latestPublishedAgentAppVersion(Agent).art)
        PROVE  AgentDownload(Agent) = latestPublishedAgentAppVersion(Agent).sum
    <3>1. latestPublishedAgentAppVersion(Agent) = GetLatestPublishedVersion(GetAppByPackageName(Agent))
      BY <2>4 DEF latestPublishedAgentAppVersion
    <3> QED BY <2>1, <2>4, <3>1 DEF AgentDownload
  <2>5. \A i \in ListedApps : GetLatestPublishedVersion(i) # None
    BY DEF ListedApps
  <2>6. \A i \in ListedCertificates : i \in Job /\ certs[i] # None
    BY DEF ListedCertificates
  <2> QED BY <2>1, <2>2, <2>3, <2>4, <2>5, <2>6 DEF OfferedIsServed
<1> QED BY Invariance, <1>1, PTL

(* Without faults no object is left behind: one that no row describes      *)
(* belongs to an upload under way (the roll back of the handlers and the   *)
(* order in which cleanup.Run deletes).                                    *)
THEOREM ObjectsAreAccountedAlways == Spec => []ObjectsAreAccounted
<1>1. ASSUME IInv PROVE ObjectsAreAccounted
  <2>1. \A j \in Job : PutDone(j) => HasPut(j)
    BY <1>1, HasPutIs DEF IInv, Control
  <2>2. ASSUME faults = 0, NEW k \in Key, objects[k] # None
        PROVE  ArtifactsAt(k) # {} \/ \E j \in Job : HasPut(j) /\ StorageKey(j) = k
    <3>1. ArtifactsAt(k) # {} \/ UnderWay(k)
      BY <1>1, <2>2 DEF IInv, AllAccounted, Accounted
    <3> QED BY <2>1, <3>1 DEF UnderWay
  <2> QED BY <2>2 DEF ObjectsAreAccounted
<1> QED BY Invariance, <1>1, PTL

(* One version code of a package has one payload, since the name of the    *)
(* file it is published from is unique (publishAppVersion, createApp).     *)
THEOREM OneContentPerCodeAlways == Spec => []OneContentPerCode
<1>1. ASSUME IInv PROVE OneContentPerCode
  <2>1. ASSUME NEW v \in Range(versions), NEW w \in Range(versions), v.code = w.code,
               \A u \in {v, w} : job[u.id].req.kind \in {"app", "publish"},
               job[v.id].pkg = job[w.id].pkg
        PROVE  v.sum = w.sum
    <3>1. VersionIsKnown(v) /\ VersionIsKnown(w)
      BY <1>1 DEF IInv, VersionsAreKnown
    <3>2. Publishes(v.id) /\ Publishes(w.id)
      BY <2>1, <3>1 DEF VersionIsKnown, Publishes, Active
    <3>3. OwnFileName(v.id) = OwnFileName(w.id)
      BY <2>1, <3>1 DEF VersionIsKnown, OwnFileName
    <3>4. v.id = w.id
      BY <1>1, <3>1, <3>2, <3>3 DEF IInv, NamesAreUnique, VersionIsKnown
    <3> QED BY <3>1, <3>4 DEF VersionIsKnown
  <2> QED BY <2>1 DEF OneContentPerCode
<1> QED BY Invariance, <1>1, PTL
=============================================================================
