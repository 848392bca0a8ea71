---------------------------- MODULE FleetReports ----------------------------
(***************************************************************************)
(* Devices, the reports they upload, and the queries that read them: the   *)
(* device list with its filters, page by page, the latest report of each   *)
(* device, and the newest reports of all.                                  *)
(***************************************************************************)
EXTENDS Integers, Sequences, FiniteSets, SequencesExt, FiniteSetsExt

CONSTANTS
  Device,
  Level,       \* battery levels that reports hold; one may hold None
  LowLevel,    \* 20 percent
  Body,        \* what devices say in a report
  Day,         \* ticks of 24 hours
  DefaultLimit, PageCap,   \* rows per page: 25 and 100
  Limit,       \* the limits that pages are asked for
  MaxTime, MaxReports,
  None

(* A number, a string of digits, or a string of another form that means one: *)
(* "-5", " 15", "1e1".                                                     *)
Battery == [form : {"number", "digits", "text"}, value : Int]
ASSUME LevelAssumption == Level \subseteq Battery /\ LowLevel \in Int

(* The date, if the device gives one, any date; and the device that the    *)
(* payload names, its sender or another.                                   *)
ASSUME BodyAssumption ==
  Body \subseteq [at : Int \cup {None}, level : Level \cup {None}, named : Device \cup {None}]
ASSUME PagesAssumption ==
  /\ {DefaultLimit, PageCap, Day} \subseteq Nat \ {0}
  /\ {MaxTime, MaxReports} \subseteq Nat /\ Limit \subseteq Nat

DeviceRow == [status : {"pending", "enrolled", "active", "retired"}, created : Nat]
ReportRow == [dev : Device, at : Int, level : Level \cup {None}, named : Device \cup {None}]
ASSUME NoneIsNoRow ==
  /\ None \notin Device /\ None \notin DeviceRow /\ None \notin ReportRow
  /\ None \notin Battery /\ None \notin Int

VARIABLES
  now,
  device,  \* device |-> its status and its place in the order of creation, or None
  info     \* the reports, in the order they were stored

storeVars == <<now, device, info>>

Existing == {d \in Device : device[d] # None}
WithStatus(S) == {d \in Existing : device[d].status \in S}

StoreInit == now = 0 /\ device = [d \in Device |-> None] /\ info = <<>>

-----------------------------------------------------------------------------
(* Rows are dated by a clock that never shows one time twice. *)
CreateDevice(d) ==
  /\ device[d] = None
  /\ device' = [device EXCEPT ![d] = [status |-> "pending", created |-> Cardinality(Existing)]]
  /\ UNCHANGED <<now, info>>

BindDevice(d) ==
  /\ d \in WithStatus({"pending"})
  /\ device' = [device EXCEPT ![d].status = "enrolled"]
  /\ UNCHANGED <<now, info>>

RetireDevice(d) ==
  /\ d \in Existing
  /\ device' = [device EXCEPT ![d].status = "retired"]
  /\ UNCHANGED <<now, info>>

(* A device has a secret once it is enrolled, and until it is retired. *)
canAuthenticateDeviceStatus(s) == s \notin {"retired", "wiped"}
HasSecret(d) == d \in Existing /\ device[d].status # "pending"
Authenticate(d) == HasSecret(d) /\ canAuthenticateDeviceStatus(device[d].status)
loadDeviceForSecret(d) == d \in WithStatus({"enrolled", "active"})

(* Mutant: a report does not make its device active. *)
ActivatedNever(d) == device

Activated(d) == [device EXCEPT ![d].status = IF @ = "enrolled" THEN "active" ELSE @]

(* A report says when it was observed, and is believed.  One that does not *)
(* say is dated now.                                                       *)
decodeUploadRequest == {[b EXCEPT !.at = IF @ = None THEN now ELSE @] : b \in Body}

Upload(d, req) ==
  /\ loadDeviceForSecret(d) /\ Len(info) < MaxReports
  /\ info' = Append(info, [dev |-> d, at |-> req.at, level |-> req.level, named |-> req.named])
  /\ device' = Activated(d)
  /\ UNCHANGED now

DeviceInfoRoute(d) ==
  /\ Authenticate(d)
  /\ \E req \in decodeUploadRequest : Upload(d, req)

(* Telemetry is stored apart and read by nobody here. *)
UploadTelemetry(d) ==
  /\ loadDeviceForSecret(d)
  /\ device' = Activated(d)
  /\ UNCHANGED <<now, info>>

TelemetryRoute(d) == UploadTelemetry(d)

Tick ==
  /\ now < MaxTime
  /\ now' = now + 1
  /\ UNCHANGED <<device, info>>

-----------------------------------------------------------------------------
(* Pages *)

(* A limit that is not given is 0. *)
Normalize(params, default, cap) ==
  [limit  |-> Min({cap, IF params.limit <= 0 THEN default ELSE params.limit}),
   offset |-> Max({0, params.offset})]

Offset(page, limit) == IF page <= 1 \/ limit <= 0 THEN 0 ELSE (page - 1) * limit

(* Mutant: the offset counts the extra row of every page. *)
listPaginationParamsOver(page, limit) ==
  LET l == Normalize([limit |-> limit, offset |-> 0], DefaultLimit, PageCap).limit
  IN  [limit |-> l + 1, offset |-> Offset(page, l + 1)]

(* A page asks for one row more, to learn whether there is another page. *)
listPaginationParams(page, limit) ==
  LET l == Normalize([limit |-> limit, offset |-> 0], DefaultLimit, PageCap).limit
  IN  [limit |-> l + 1, offset |-> Offset(page, l)]

-----------------------------------------------------------------------------
(* Reports, newest first; the later stored wins a tie. *)

Newer(i, j) == info[i].at > info[j].at \/ (info[i].at = info[j].at /\ i > j)
Reports(d) == {i \in DOMAIN info : info[i].dev = d}

Search(limit) == {i \in DOMAIN info : Cardinality({j \in DOMAIN info : Newer(j, i)}) < limit}

ListLatestByDeviceIDs(S) ==
  [d \in {e \in S : Reports(e) # {}} |->
     info[CHOOSE i \in Reports(d) : \A j \in Reports(d) \ {i} : Newer(i, j)]]

-----------------------------------------------------------------------------
(* The device list *)

ListActiveDevices == WithStatus({"active", "enrolled"})

Listed == {"all", "low", "stale"}

(* The report beside the row of a device; None if it has none. *)
Lateral(d) ==
  IF Reports(d) = {} THEN None
  ELSE info[CHOOSE i \in Reports(d) : \A j \in Reports(d) : ~Newer(j, i)]

(* Mutant: a device without reports is not stale. *)
StaleReported(d) == Lateral(d) # None /\ Lateral(d).at <= now - Day

Stale(d) == Lateral(d) = None \/ Lateral(d).at <= now - Day

(* The query reads numbers and strings of digits; any other level is null. *)
Low(d) ==
  /\ Lateral(d) # None /\ Lateral(d).level # None
  /\ Lateral(d).level.form \in {"number", "digits"} /\ Lateral(d).level.value <= LowLevel

Matches(d, f) == (f = "stale" => Stale(d)) /\ (f = "low" => Low(d))

(* The place of a device in a list of devices, newest first. *)
CreatedLater(d, e) == device[d].created > device[e].created
Place(d, S) == Cardinality({e \in S : CreatedLater(e, d)})

Rows(S, params) == {d \in S : Place(d, S) \in params.offset..(params.offset + params.limit - 1)}

ListDevicesByFilter(params, f) ==
  Rows({d \in Existing : Matches(d, f)}, Normalize(params, DefaultLimit, PageCap))

=============================================================================
