# xmdm: a verification project

xmdm is a mobile device management system: a Go server (`src/server`) with a PostgreSQL
database, a Mosquitto broker and an object store, and an Android launcher (`src/app`) that runs
on the managed phones. This directory holds TLA+ modules that model its parts, TLC
configurations that check them on small instances, and proofs that TLAPS checks. `PROJECT.json`
maps every definition to the lines it models.

Paths below are relative to the repository; `launcher/` stands for
`src/app/src/main/java/com/xmdm/launcher/`, `server/` for `src/server/internal/`.

## 1. Inventory

| Component | State | Operations | Interacts with | What is hard |
|---|---|---|---|---|
| Command queue (`server/commands`) | `commands` rows with status and deadline | enqueue (fan-out to device, group or all), publish, mark sent, list pending, acknowledge, expire | broker, launcher, cleanup pass, devices | rows are published after the insert committed; marking, acknowledging and expiring race; transactions roll back |
| Launcher command worker (`launcher/commands`, `MainActivity`) | one transport job, a journal of results in DataStore | stream or poll, look up, execute, record, acknowledge, side effect | command API, broker, kiosk | restarts between any two steps, duplicated and lost deliveries, journal eviction |
| Enrollment server (`server/enrollment`) | tokens, devices, broker account | issue, validate, revoke, expire, bind | devices, broker accounts, launcher | races for a token or a device; an external call inside a transaction |
| Device registry (`server/device`) | `devices` rows | create, update, retire | enrollment, commands, broker accounts | retiring while an enrollment binds |
| Broker accounts (`server/mqttdynsec`) | clients of the dynamic-security plugin | upsert, disable and delete | enrollment, device registry | each operation is several messages that fail separately |
| Launcher enrollment (`launcher/enrollment`, `MainActivity`) | bootstrap and identity in DataStore, an in-memory state machine | take in an intent, start an attempt, store the identity | enrollment API | coroutines outlive the bootstrap they were started for; the activity is recreated with its intent |
| Device logs (`launcher/logs`, `server/devicelogs`) | bounded queue in DataStore, upload timers, `device_logs` | record, trim, flush, upload, remove | every lifecycle step | upload against append and trim, two coordinators, retry of what was stored, the queue at its limit |
| Config snapshot (`server/enrollment/http`) | none of its own | read policy, apps, files, certificates; hash; sign | policy store, catalogues, launcher sync | four reads without a common transaction |
| Launcher config sync (`launcher/sync`, `MainActivity`) | cached signed snapshot | initial, periodic and commanded sync | snapshot API, managed content, kiosk | three triggers share one cache; cancellation of the job that triggered the sync |
| Managed files, certificates, apps (`launcher`) | what was applied, per snapshot | download, verify, apply, retry | config cache, artifact downloads | partial failure, emissions skipped while an install is under way |
| Kiosk mode (`launcher/kiosk`, `MainActivity`) | suppression up to a policy version, the lock applied, menu, exit dialog | apply, exit, enter, hand over to the kiosk app | policy cache, content, commands | coroutines act on copies of the state; versions that are hashes are put in order |
| Policy store (`server/policy`, `device`, dashboard handlers) | policies with a version, assignments, groups, the device's row | create, update, retire, toggle, assign | snapshot, catalogues | looked up in one statement, stored in another; the passcode is read outside the update |
| Catalogues (`server/apps`, `files`, `managedfiles`, `certificates`, `artifacts`, object store) | rows, artifacts, objects | upload, link, retire, download, seed | dashboard, API, cleanup, snapshot | an upload is several commits with an undo for each; keys and names are shared |
| Artifact cleanup, cleanup pass (`server/artifactcleanup`, `server/cleanup`) | orphan list | retire, delete object, delete row; expire tokens and commands | object store, catalogues | stale list; object and row are deleted apart |
| Users, roles, sessions (`server/auth`, `users`, `roles`, dashboard) | rows; sessions in memory | log in, check, change, audit, log out | every writing handler | permissions are copied at login; the audit record is a second write |
| Rate limiter (`server/httpx`) | a bucket per client and rule | take a token | login, API | the first request, refilling, rounding |
| Telemetry and device info, device list, overview (`server/deviceinfo`, `device`, `admin/http`) | reports | upload, list with filters, latest per device, overview | devices, commands, policies | pages cut by offset; three ways to find the latest report, two to read a battery level; dates and names that the client makes up; an overview made of queries at different moments |
| Groups, plugins, hosting, companion app launch, screenshot fixture, Android receivers | rows or none | plain inserts, wiring, platform calls | | nothing beyond I/O |

What makes the main components correct:

* Commands: a stored result is the result of a run on the owning device; a terminal status is
  final; a command is run again only when its result was lost; a pending command is settled in
  the end.
* Enrollment: a token binds one device and a device is bound once; the secret on the phone is
  the one the server knows; nothing revoked, expired or retired comes back; a retired device
  cannot connect; an identity survives a restart.
* Content: what goes on record as applied is on the phone; what the administrator published is on
  record in the end.
* Device logs: an entry leaves the queue only by being stored or by a drop that is reported;
  drops spare what is critical; every entry is uploaded in the end; an append returns.
* Catalogues: what the dashboard uploaded and is offered is served intact, whatever other uploads
  undo and the cleanup deletes, unless a client of the API uploads to its very key; a refused
  upload leaves no object; a version code names one payload.
* Policies: a kiosk has a passcode; a version names one content; what is retired is not offered;
  in the end the device has what is assigned to it.
* Access: nobody changes anything later than the lifetime of a session after losing the right to;
  the audit log has only what was changed and by whom; the limiter admits no more than its rate.
* Fleet view: a walk through the pages misses nothing; list, filters and overview agree as far as
  they read the same; the overview says nothing better than the reports do.
* Kiosk: in the end the phone is locked if and only if the stored state asks for it, to what it
  asks for.

The hazards, each at its line, are listed in `PROJECT.json`, also those no property covers yet.

## 2. Plan

Done, each modelled, checked, and its safety properties proved:

1. Command delivery, end to end, with its refinement of an abstract queue.
2. Enrollment, end to end, with its refinement of a lifecycle of tokens and devices.
3. Device logs, with their refinement of a bounded mailbox.
4. Content delivery, from the sync triggers to the apply loops.
5. Catalogues, uploads and the artifact cleanup.
6. Policies, assignments and the assembly of a snapshot.
7. Users, roles, sessions, rate limiter and audit.
8. Reports, device list and overview.
9. Kiosk mode, checked only: its property is a liveness property.

Next, in this order:

1. A safety property of `Kiosk`: which states of the lock the handlers can leave behind.
2. An abstract specification of the catalogues (what is offered is served), which `Uploads`
   implements, and one of the fleet view.
3. What a log queue loses in terms of characters, the second limit of `trimForLimits`.

## 3. Modules

### Commands

| Module | Models |
|---|---|
| `CommandRows` | rows, statuses and the constants server and launcher share |
| `CommandStore` | `server/commands/postgres/store.go`: resolve targets, enqueue, publish, mark sent, list, acknowledge, expire, and the device status they read |
| `CommandLauncher` | transport job, `DeviceCommandCoordinator`, `DeviceCommandResultStore`: one worker per device |
| `CommandDelivery` | both with broker, HTTP and faults; the properties |
| `CommandLifecycle` | abstract: the queue an operator sees. Rows are created queued; a pending row is sent, settled with a result, or expired |
| `CommandDeliveryProofs` | the theorems |
| `MCCommandDelivery` | model values and symmetry |

A row is the pair of its request and its device. Deadlines are `never`, `ahead` or `due`; the
clock passes one at any moment. Resolving targets and inserting are two steps, so a device can be
retired in between; inserting all rows of a request is one transaction. Publishing and marking
are a step per row and run after it. Poll and acknowledgement each combine authentication
and the store's transaction. An acknowledgement that finds a due row rolls its own expiry back,
as the code does. Groups stand for the memberships of active groups; there is one tenant.

In the launcher, `pc` is the place in `handleIncomingCommand`: look up in the journal, execute,
record, acknowledge, await, side effect. A throw ends the batch or the stream it came from, but for
one: the stream catches the timeouts of its own reads around the handler too
(`MqttDeviceCommandTransport.kt` 59), so an acknowledgement that times out there is dropped and the
stream reads on (`AckSwallowed`). A restart of the worker stands for the end of the process and for the cancellation of the job
when its target changes. What waits on a stream or in a batch is a set, since no property
depends on its order. The launcher subscribes with QoS 0: a message for a launcher that is not
connected is dropped.

### Enrollment

| Module | Models |
|---|---|
| `Bootstraps` | the payload of a provisioning code: its token and its device |
| `EnrollmentStore` | tokens, devices, secrets and broker accounts; `BindDevice`, `RetireDevice`, `DisableDevice` and the token operations |
| `EnrollmentLauncher` | intents, DataStore edits and emissions, state machine, enrollment coroutines |
| `Enrollment` | both, with lost answers, timeouts, restarts; the properties |
| `EnrollmentLifecycle` | abstract: tokens, devices, the token each device was enrolled with, and which phone holds an identity the server accepts |
| `EnrollmentProofs` | the theorems |
| `MCEnrollment` | model values and symmetry |

`BindDevice` is one action because it holds the row locks of token and device (`FOR UPDATE`)
until it commits; the broker account is written before the commit, and when the commit fails the
account is removed after it. `RetireDevice` commits first and removes the account afterwards in
a step of its own; that request's answer is not modelled. The status of an active device is
folded into *enrolled*. The plugin's role and ACL, common to all devices, are left out.

In the launcher, what a DataStore edit writes and what the collector is handed are two
variables, so a handler may work on an outdated emission. A coroutine of an attempt has a slot
(`Call`) and survives the bootstrap it was started for. A recreated activity keeps its intent. A
payload that does not parse (`Malformed`) is noticed after the state was cleared. Waiting for the
phone to be unlocked is left out. Two calls of one phone race at the server as two phones do.

`EnrollmentLifecycle` knows neither requests nor coroutines. `Permit` reads the token of a device
from the bindings made, `Holds` the device of a phone from its stored identity, if the secret is
the one the server has the hash of. A binding is `Enroll`, storing an answer `Take`, clearing the
state `Drop`; what a request or a coroutine does besides is a stutter.

### Device logs

| Module | Models |
|---|---|
| `DeviceLogs` | `DeviceLogStore`, `DeviceLogCoordinator`, the places in `MainActivity` that start a flush, and the server's `Upload` |
| `LogLifecycle` | abstract: a bounded mailbox. An entry is kept, delivered, forgotten once delivered, or lost in a full queue, where two entries make room for the new one and a report |
| `DeviceLogsProofs` | the theorems |
| `MCDeviceLogs` | model values |

The queue is a set of entries ordered by id. Its limit counts entries; the limit on serialized
characters, which runs through the same loops, is left out. Every edit is atomic, as DataStore's
edits are, and adds one entry, so each loop of `trimForLimits` has one entry to drop, or is the
loop that never ends (`spinning`). Each activity creates a coordinator with a scope of its own, so
that of a recreated activity keeps uploading. Peek, post and remove are separate steps; a failed
post may have taken effect. Delays are abstracted: a timer fires at any moment. Once there, a
session stays. Of the lifecycle, `pending` is the queue, `delivered` what the server stored, `lost`
what was dropped and `made` the number of ids given; a batch is no state of its own there.

### Content

| Module | Models |
|---|---|
| `ConfigSnapshots` | signed snapshots, the stored `AgentState`, versions of buckets |
| `ConfigSync` | `ConfigSyncEngine`, the initial, periodic and requested sync, `maybeStartConfigSync` |
| `ManagedContent` | `maybeApplyManagedFiles`, `maybeApplyCertificates`, `maybeApplyManagedApps` and the coroutines they launch |
| `ContentDelivery` | both with administrator, collector, new bootstraps, restarts and faults; the properties |
| `ContentDeliveryProofs` | the theorems |
| `MCContentDelivery` | two snapshots: the second changes a file, writes the path of another differently, brings a certificate and replaces an app |

A snapshot is a model value and `Content` says what it wants of each bucket; the revision is a
hash of the contents, so comparing revisions is comparing snapshots. A signature is the number of
the secret it was made with. The three `maybeApply` functions take the same decisions in the
same order and are one operator with the bucket as a parameter; where they differ (certificates
have a version of their own and are cleared without being verified, apps may be tried again
without a record) the definition asks for the bucket. A job applies one item at a time, saves
its record and then sets the activity's memory; the finally block is part of the last step.
Reading the state and fetching are one step of a requested sync. The collector handles what is
stored when it runs. `certInstallInFlight` is looked at and set without a lock: `SyncRaces` is
the outcome in which a thread does not notice a job that was just started, and counts as a fault.
The server ties no download to an assignment, so an artifact that is no longer current may or may
not be there. Certificates are only added to the trust store and never read back. The items of the
file bucket are paths as policies write them; `SandboxFile` is `resolveTarget`, which makes one file
of several spellings. Removal compares paths and deletes files.

### Catalogues and uploads

| Module | Models |
|---|---|
| `Catalogue` | the tables of apps, versions, files, managed files, certificates and artifacts, the object store, the downloads, the orphans |
| `Uploads` | the handlers of dashboard and API that fill them, retiring and renaming, the artifact cleanup; the properties |
| `UploadsProofs` | the theorems |
| `MCUploads` | the requests of the instance: an upload of every kind, uploads of the API under keys of the dashboard, and links between the rows |

A handler is a list of steps, each a call that commits on its own, and for each step the calls
that undo the earlier ones when it fails. A step may succeed, be refused by the store for the
reasons the store has, fail without effect, take effect and lose its answer, or be the last one
before the server stops; the last three are faults. A payload stands for its checksum, size and
type. The dashboard makes a key of its own for every upload, a client of the API names any key,
also one of the dashboard that it has seen in a row. With a payload it puts that over the object
before the row is checked, and deletes the object if the row is refused; `Kept`, the uploads
`OfferedIsServed` speaks of, leaves out those that a client overwrites so. The cleanup lists the
orphans once and takes them one by one in three steps.

### Policies and the snapshot

| Module | Models |
|---|---|
| `PolicyStore` | statements of the stores of policies, assignments, groups and the device's row |
| `Policies` | the dashboard's handlers, a step per statement, and `BuildConfigSnapshot`, a step per query; the properties |
| `PoliciesProofs` | the theorems |
| `MCPolicies` | model values |

The handlers of apps, managed files and certificates are the same code three times and one set of
steps with the item as a parameter. What an item offers is a number that a publication or a new
binding raises. The three lists of a snapshot are read one after the other, each item of a list by
itself, the policy last. `ConfigSnapshots` (below) takes a finished snapshot as a value.

### Access

| Module | Models |
|---|---|
| `Access` | users, roles, logins, sessions, the check before a writing request, its change and its audit record, the rate limiter of one client, restarts |
| `AccessProofs` | the theorems |
| `MCAccess` | the changes of the instance: users and roles are what requests change |

The changes that matter here are those of users and roles, since they change who may change
something; other handlers check, store and record in the same way. Time is counted in ticks, and
tokens of the limiter in parts of a tick. A statement may fail, a commit may lose its answer, and
the insert of an audit record may fail, as when the client goes away and the context of its request
with it: a handler whose record is lost in one of these ways, or with the server, ends as `lost`.
Nobody is told, since `recordAudit` drops the error. `entitled` is not in the code: it remembers when the
database last granted a user something, for the property.

### Fleet view

| Module | Models |
|---|---|
| `FleetReports` | devices, uploads of reports, the queries of the device list and of the newest reports, the arithmetic of pages |
| `Fleet` | a walk through the list by its Next links, the overview query by query, its counters, charts and summary; the properties |
| `FleetProofs` | the theorems |
| `MCFleet` | a model for each device, what reports say, a calendar with a long day, symmetry |

Devices, reports and time move on between two pages and between two queries of an overview. Pages
only read, so one at a time is enough. A page is the set of devices whose place in the order of
creation lies between its offset and its limit, which is what the query sorts and cuts. The
thresholds of the code (a day, 72 hours, a week, 200 reports, six slices, a page of at most 100
rows) are constants.

What a report says is up to the device (`Body`): its date, any past or future one or none; its
battery level, a number, digits or another string that only Go reads as a number (`Battery`); and
the device that its payload names. `latestDeviceInfoByDevice` of the overview counts a report for
its sender and for the device it names (`ReportsOn`), the queries for its sender alone
(`Reports`). Local midnights are a constant too (`Midnight`): the bars of the activity chart begin
at one of them (`FirstDay`) and are a `Day` each, while the days between may be shorter or longer,
so what a long day pushes past the last bar is dropped.

### Kiosk mode

| Module | Models |
|---|---|
| `Kiosk` | `KioskModeController`, `KioskExitSupport` and the places in `MainActivity` that call them; the property |
| `MCKiosk` | a kiosk of the launcher and one of an app, whose version is smaller |

The stored state (`disk`), the activity's copy of it (`latest`) and the copy each coroutine has
read (`task`) are three variables. `lock` has what the controller believes to have applied, whose
task the phone is locked to (`holder`: the launcher, the kiosk app it launched in lock task mode,
or nobody) and the packages it has allowed in that mode. The launch of an app may fail, so
`enforceKiosk`, `apply` and `Handoff` are the sets of locks they can leave; `isInLockTaskMode` is
true while the launcher holds the lock, as in the host of `KioskModeControllerTest`, where it is
false once an app was launched and the launcher has ended its own lock. Applying content is
`ManagedContent`'s subject; here a coroutine puts the files and then the apps of a snapshot on
record and hands over to the kiosk app.

## 4. Runs

`pass` runs:

| Run | Instance | Distinct states | Shows |
|---|---|---|---|
| `cmd_mqtt` | 2 requests, 1 device, a group, MQTT, journal of 1 entry, 2 faults | 1.0 M | results are real, runs are accounted for, an exit belongs to a settled command, terminal rows are final, and all of it implements `CommandLifecycle` |
| `cmd_polling` | 2 requests, 1 device, polling, 1 fault | 41 k | pending commands are settled (liveness) |
| `enroll_again` | 2 tokens, 1 device, 1 phone with 2 calls, 2 intents, 1 fault | 911 k | tokens and devices are bound once, secrets are current, retirement cuts off, and all of it implements `EnrollmentLifecycle` (so nothing comes back) |
| `device_logs` | 2 coordinators, queue of 2, batches of 1, 2 batches per flush, 3 records, 1 fault | 273 k | nothing is lost, drops are reported, phone and server implement `LogLifecycle` (so critical entries outlive others), entries are delivered (liveness) |
| `content_converges` | 2 snapshots, 3 items of which 2 are spellings of one path, 2 enrollments, 1 change, 1 fault, syncs one by one | 102 k | what goes on record is applied, and a file that went with another spelling of its path is all that is missing; published content is on record in the end (liveness) |
| `uploads` | 2 requests of any kind, 2 payloads, 2 packages, the keys of the dashboard and one more, which may have a row nothing refers to, 1 fault | 1.2 M | what the dashboard uploaded and is offered is served intact unless a client of the API uploads to its key, refused uploads leave no object, a version code names one payload |
| `policies` | 2 policies, an app, a file, a certificate, a group, 2 requests at a time, 2 submissions, 1 failed fetch | 606 k | a kiosk can be left, a version names its content, nothing retired is offered, the device ends up with what is assigned (liveness) |
| `access` | 1 user and the environment's administrator, 2 roles, 2 sessions, 2 writing requests, 4 moments | 3.2 M | power lapses with the session, the audit log has only what was changed, by whom, and leaves out only what a failure or an ended session lost, logins are bounded |
| `fleet` | 3 devices, pages of 1 row, 2 reports of which the overview reads 1, charts of 1 slice, 2 moments, dates before and after them, a low level for both readers and one for Go, a long day, 1 change during an overview | 1.4 M | a walk misses nothing, list, filters and overview agree, an overview without alarm has a fresh report on every active device, its charts add up |
| `kiosk` | 2 policies, 2 new policies, 2 menus, commands or restarts | 755 k | in the end the phone is locked if and only if the stored state asks for it, to its app or to the launcher in its place, and lets run these two only (liveness) |

`violation` runs:

| Run | Property | What happens |
|---|---|---|
| `enroll_restart` | `RestartKeepsIdentity` | the system recreates the activity with the intent that provisioned it; the identity is cleared |
| `logs_spin` | `EditsEnd` | a queue full of drop summaries sends the next append into an endless loop |

In `logs_spin` every append to a full queue drops two entries and adds a summary, which the second
loop of `trimForLimits` never drops; after about as many appends as the queue is long, without an
upload, it holds nothing but summaries. The next append drops the new entry and adds a summary;
the loop's call then finds nothing it may drop, and its result is ignored. The edit holds
DataStore, and the next start meets the same queue.

**Bounds.** Two requests are enough for an eviction from a journal of one entry and for a batch
whose first command throws. Two tokens and two calls let an attempt overtake another with the same
token or with a different one. A queue of two entries fills, trims and is trimmed under an upload
within three records. Two uploads are enough for one to find, rename, link, undo or reuse what the
other made, and the cleanup runs beside them. Two requests of administrators put each statement of
a toggle or form between two of another, or of a snapshot. Four moments let a session of one
moment begin, expire and be missed when the change is recorded. Three devices with one per page
let a row shift over two page borders, the second report falls out of the window of the overview,
and time or a report can come between two of its queries; a report dated one moment before the
first is stale in the second. The choice of the latest of several reports in the window is left to
the proofs, which have any number of both and of changes. Two policies in a
kiosk, of which the newer has the smaller version, let an old copy of the state, an exit and a
hand-over meet a new policy. `MaxFaults` bounds everything that goes wrong together: lost requests
and answers, timeouts, failed writes, restarts. The other `Max` constants and `Call` bound what an
operator, a phone, a clock or the log may do.

Some bounds leave out behaviours in which a property of a passing run does not hold. They are the
code's, each can be seen by raising the bound, and section 6 describes them:

* `cmd_polling` has `UseMqtt = FALSE`. With `TRUE`, `PendingIsSettled` fails.
* `content_converges` has one change of the content and one sync at a time (`MaxPublishes`,
  `MaxSyncs`), and a new bootstrap comes only when no sync or job is under way (`Interrupts`).
* `policies` has one administrator who submits policy forms (`Editor`). With two,
  `KioskCanBeLeft` fails.

**Symmetry** is used for requests (`cmd_mqtt`), call slots (`enroll_again`), uploads (`uploads`),
sessions and writing requests (`access`) and devices (`fleet`), which no definition tells apart,
and never with liveness.

**Deadlock** is checked for commands, content and uploads. It is not in the other runs: a phone
that is enrolled, a queue that is empty, an administrator whose submissions are spent or a clock
at its last moment may leave nothing to do.

**Fairness.** The launcher's jobs loop while the process lives; Android runs coroutines, delivers
emissions and fires timers; the server answers what it received, and its handlers run to their
end. No fairness is assumed of administrators, of the clock, of the cleanup pass or of faults,
whose number is bounded. In `ContentDelivery` a sync that has begun goes on or fails, the
periodic one begins again, and requested ones need not come. In `Policies` a handler that began
goes on and the device keeps fetching; nobody has to submit anything. In `Kiosk` the runtime
starts, the periodic sync stores the snapshot with its time, the collector and the coroutines run
and a menu that was asked for is shown; nobody has to choose in it or resume the activity.

## 5. Proofs

Every safety property of a passing run is proved for all values of the constants. The assumptions
are those the modules state by name and TLC evaluates: limits are natural numbers, `None` is not
one of the values it stands beside, sets that the code keeps apart do not overlap. Two theorems
have a hypothesis about the behaviour, since without it TLC finds the property violated (section 4,
*Bounds*): `RecordedMeansAppliedAfterwards` that no bootstrap comes in the middle of a
job, and `KioskCanBeLeftUnraced` that no form ends a kiosk between the two reads of another.

Almost none of the properties is inductive as it stands. What each proof adds to them is described
below. Each proof has a lemma per action or group of actions, and the last lemma puts them
together over the disjuncts of `Next`.

### Commands

`CommandDeliveryProofs`, for any sets of requests, devices and groups, any journal capacity, with
or without MQTT, and any number of faults:

| Theorem | States |
|---|---|
| `TypeCorrect` | `TypeOK` always holds; the journal never exceeds its capacity |
| `ResultsAreReal` | `ResultsComeFromRuns` always holds |
| `RunsAccounted` | `RunsAreAccounted` always holds |
| `ExitIsSettledAlways` | `ExitIsSettled` always holds |
| `TerminalFinal` | no step changes a terminal row |
| `Refinement` | `Spec` implies `LifecycleSpec` |

`IInv` adds:

* `Owned`: what a launcher has in its batch, on its stream or in hand is its own, so a run on one
  device cannot account for another's row;
* `Real`: a result in flight, in hand or in the journal had a run. An acknowledgement may arrive
  long after its sender restarted, so this has to hold of messages, not of workers;
* `Fresh`: a command that is about to execute has no journal entry. Otherwise recording it would
  replace an entry, and a run would be counted once and made twice;
* `Known`: rows exist before they are published, delivered or marked; the refinement needs it to
  map an acknowledgement to the settling of a row that was created.

`ExitIsSettled` needs `Settled`: a worker past its acknowledgement has a row with a result. It
rests on `TerminalIsFinal`, since the row may have been settled by an earlier acknowledgement. The
refinement maps every step to a step of `CommandLifecycle` or to a stutter: fan-out creates
several rows in one step, the cleanup pass expires several.

### Enrollment

`EnrollmentProofs`, for any sets of tokens, devices, phones and calls, and any number of intents,
faults and disabling calls:

| Theorem | States |
|---|---|
| `TypeCorrect` | `TypeOK` always holds |
| `BoundOnceAlways` | `BoundOnce` always holds |
| `SecretIsCurrentAlways` | `SecretIsCurrent` always holds |
| `RetiredIsCutOffAlways` | `RetiredIsCutOff` always holds |
| `NothingIsRevivedEver` | no step brings back a token or a device |
| `Refinement` | `Spec` implies `LifecycleSpec` |

A phone stores a secret later than it is answered, and its coroutines outlive what they were
started for, so the invariant speaks of all a phone *holds* (`Held`): the stored identity and the
answers still in hand. `Good` says that whatever is held is the current secret of a device that
was bound, `Exclusive` that no two phones hold one device, `UsedUp` that a binding used up its
token and its device. A new binding then concerns a device nobody holds. `Requested` ties a
coroutine to the bootstrap it carries.

The refinement needs all of them. A binding gives its device a token that was issued until then
(`UsedUp`), and changes the token of no other device (`PermitKept`). It gives the device a new
secret, which would make an identity stale that a phone held before; nobody held one (`HoldsKept`).
When a phone stores an answer, no other phone holds the device (`Exclusive`), and the secret it
stores is the current one (`Good`), so that `Holds` changes as `Take` says. `RequestRefines` and
`PhoneRefines` put the steps of server and phone together.

### Device logs

`DeviceLogsProofs`, for any number of coordinators, any limits of queue and batches and any number
of faults:

| Theorem | States |
|---|---|
| `TypeCorrect` | `TypeOK` always holds; queue and flush keep to their limits |
| `NothingIsLostEver` | `NothingIsLost` always holds |
| `DropsAreReportedAlways` | `DropsAreReported` always holds |
| `Refinement` | `Spec` implies `LifecycleSpec` |
| `CriticalOutlives` | no step drops an entry of high priority while one of low priority stays queued |
| `OnlyReportsSpin` | an append that never returns met a full queue that holds nothing but reports of drops |

A flush removes a batch after the post, so `IInv` adds `Posted`: what a flush is about to remove is
at the server. An edit of the queue chooses what it drops; that there is a lowest entry
(`LowestIsThere`) follows from the natural numbers being well-founded, `InfoGoesFirst` says which
one it is, and `AppendKeeps` and `AppendFits` what an edit keeps and leaves. Types and reports need
`FullInv`: a finite queue within its limit, a flush within its batches (`InBounds`), and that an id
is given once (`GivenOnce`), so that a copy in the batch of a coordinator is the entry it was taken
from and removing it cannot remove a report.

For the refinement, `RoomIsMade` counts: the two loops of `trimForLimits` take exactly two
different entries from a full queue, the second of them no report. `GivenOnce` again is what makes
a late post deliver entries that were queued or dropped (`PostRefines`), and a removal, by id,
forget only what the server has (`RemovalRefines`). An append that spins is a stutter.
`CriticalOutlives` follows from the lifecycle alone. `OnlyReportsSpin` is the converse of what
`logs_spin` shows: one entry in the queue that is no report, or room for one more, and every
append returns.

### Content

`ContentDeliveryProofs`, for any snapshots, items and contents, any number of syncs at once,
changes of the content, enrollments and faults:

| Theorem | States |
|---|---|
| `TypeCorrect` | `TypeOK` always holds, interrupted or not |
| `RecordedMeansAppliedAfterwards` | from any moment without a content job on, no step puts files or apps on record that are not on the phone, as long as no bootstrap comes in the middle of a job |

For the types, `Fetched` says that a sync past its fetch knows what it fetched, and a requested one
the state it had read. The other theorem needs `Apart`: the job of files and the job of apps are
each the only one of their bucket while the bucket is in flight (`OneAtATime`), and what a job is
done with is on the phone, or gone if only the record before wanted it (`DoneInPlace`). The latter
comes last: once something dropped is gone, nothing wanted is left to write, so what is gone stays
gone, and a file that two paths name has the content of one of them or went with a dropped one
(`Written`, `Deleted`). Certificates may have two jobs at once, by the race described in section 3;
the invariant claims nothing of them. A new bootstrap in the middle of a job starts the memory
afresh with the job still running, which breaks `OneAtATime`; hence the hypothesis (`CutsNoJob`). A
bootstrap in the middle of a sync does no harm to it, and a moment without jobs restores `Apart`
whatever came before: a cut job may put on record what is not there, the jobs after it do not. The
first moment is one without jobs, so the theorem has what the run checks.

### Catalogues and uploads

`UploadsProofs`, for any requests, keys, payloads and packages and any number of faults:

| Theorem | States |
|---|---|
| `TypeCorrect` | `TypeOK` always holds; what a row refers to exists |
| `OfferedIsServedAlways` | `OfferedIsServed` always holds |
| `ObjectsAreAccountedAlways` | `ObjectsAreAccounted` always holds |
| `OneContentPerCodeAlways` | `OneContentPerCode` always holds |

The invariant follows a payload from the object to the version that is published from it.
`Control` says where a handler can be, so that each step knows what is already stored;
`RowsAreUnique`, `RowsAreKnown` and `RowsAreLinked` that an artifact row has one id and one key, is
the one its request made, and is there as long as a file or certificate refers to it;
`KeysAreKnown` that a key of the dashboard which a client of the API uses has its row;
`NothingTooEarly` and `FilesAreStored` what a handler has and has not stored at its step;
`NamesAreUnique` that two files never share a name, also not with a retired one;
`VersionsAreKnown` that a version has the payload its request said. `CleanupIsSafe` says that what
the cleanup has listed was never an artifact of the dashboard, although its list is stale;
`ObjectsAreServed` that an object whose row exists has the payload of its request, unless a client
of the API overwrites it. Two conjuncts
hold as long as nothing has failed: `AllAccounted`, that every object has a row or an upload under
way, and `LastRowIsFree`, that the row the cleanup is about to delete is the last of its object
only if the object is gone. `LegacyAssumption` only names things apart: `ApiKey` is the keys that
no upload of the dashboard makes. That a client knows a key of the dashboard from its row alone is
a guard of `Starts`; such keys are random.

### Policies

`PoliciesProofs`, for any policies, items, groups, passcodes and administrators, any number of
edits and failed requests:

| Theorem | States |
|---|---|
| `TypeCorrect` | `TypeOK` always holds |
| `VersionNamesContentAlways` | `VersionNamesContent` always holds |
| `RetiredIsNotOfferedEver` | `RetiredIsNotOffered` always holds |
| `KioskCanBeLeftUnraced` | `KioskCanBeLeft` always holds, with any number of administrators who submit policy forms, if none of them ends the kiosk of a policy between the two reads another one makes of it |

`PoliciesExist` says that whoever names a policy finds its row, `VersionsGrow` that an older
snapshot has no newer version, `GoneForGood` that apps and certificates which were retired when a
request came in still are when its lists are read; managed files can be brought back, and the
property does not speak of them. The last theorem adds `FormsHold`: between the reads of a form
that counts on the stored passcode its policy stays a kiosk, which has one. Every other race of
forms is harmless: one that ends the kiosk between the second read and the write is undone by the
write, which has taken the passcode along.

### Access

`AccessProofs`, for any users, roles, sessions, requests, changes and plugins, any lifetime of a
session, burst and rate:

| Theorem | States |
|---|---|
| `TypeCorrect` | `TypeOK` always holds |
| `PowerLapsesAlways` | `PowerLapses` always holds |
| `AuditMatchesChangesAlways` | `AuditMatchesChanges` always holds |
| `LoginsAreBoundedAlways` | `LoginsAreBounded` always holds |

For the second, a user has a *claim* until t: a login under way, a session that expires at t, or a
request admitted at t. The invariant `Founded` says that no claim reaches further than the
lifetime of a session, and that the database grants it now or did no longer than that ago.
`HeldStays` shows that this survives changes of users and roles, since every change of them
remembers who was entitled before. For the third, `Sessions` says that a session id is issued
once and belongs to one user, so a session that is over stays so; `Changes` that a request changes
something at most once and that what the audit log has was changed by its actor; `Recorded` what
a change without a record has met. For the
last, `Paid` says of each login that those since then and the tokens still left are paid for by a
full bucket and by what flowed in since: refilling raises both sides by the same, a cap only
lowers the left one, and a login moves a token from the second term to the first. The types need
that a stored role is never removed (`Rows`) and that only those get a session who may read
(`MayRead`).

### Fleet view

`FleetProofs`, for any devices, reports, page sizes, windows, deadlines and changes under way:

| Theorem | States |
|---|---|
| `TypeCorrect` | `TypeOK` always holds; a walk never shows more rows than its pages hold |
| `WalkMissesNothingAlways` | `WalkMissesNothing` always holds |
| `FiltersAgreeAlways` | `FiltersAgree` always holds |
| `StaleIsHighlightedAlways` | `StaleIsHighlighted` always holds |
| `HealthyHidesNothingAlways` | `HealthyHidesNothing` always holds |
| `ChartsAddUpAlways` | `ChartsAddUp` always holds |

`Ahead` says of a walk that each device it has yet to show stands behind the rows already walked:
its place in the list is at least the page's number times the limit. A device created meanwhile
only moves the others further back, and a device that leaves the list is noted in the walk
(`PageRows`, `AtMost`, `AtLeast` are the facts about places and pages this takes). `FiltersAgree`
follows from the two queries finding the same report of a device, and the overview one that is as
new or newer (`LatestIsOne`, `LatestTime`, `ReadersAgree`). Dates have no bound, so that some
report is the latest is a lemma of its own: it is the one with the fewest after it
(`LatestExists`). It is assumed that no level is another thing than a number, digits or a string
(`LevelAssumption`) and that the first bar begins a `Day` or more before the moment the chart is
made (`CalendarAssumption`: six calendar days, of which one may lack an hour). For the overview, `Itemized` says that a device active since the
first query is in the list the second one read, `Highlights` that it is counted if the reports on
it are all old, and `Counted` and `Healthy` carry the counters to the summary.

The charts are sums over labels, days or slices. So that they can be reasoned about without
induction, a sum is defined as the cardinality of a set of units, one for each thing counted
(`Units`), and two sums are compared by maps between their units that are one to one (`UnitsAre`
and the lemmas after it). `SizesKeepTheSum` and `LastSliceHoldsTheRest` say that folding the small
slices into one moves units and loses none, `ChartsKeepTheSum` that a chart therefore shows what was
counted, however many labels there are. `Charts`, a conjunct of the invariant, carries what was
counted through the queries of an overview. Its `Charted` says that the charts of freshness and of
models count each listed device once, and that the chart of activity counts every device seen in
the last day, if every report read has its place in the bars and names no other device
(`Barred`); this rests on `TheChartHasTheDay`: a report of the last day is in the bars, whatever
the length of the calendar days, or past the last one.

**Only model-checked:** the liveness properties `PendingIsSettled`, `LogsAreDelivered`,
`ContentConverges`, `SnapshotSettles` and `KioskSettles`, since neither fairness nor ENABLED is
within the prover's reach.

## 6. Not modelled

* Companion app launch, device commands and Android receivers: calls of the platform. The command
  model has the result of a command, the enrollment model the start of the activity.
* The screenshot fixture: test data.
* Templates and HTML of the dashboard, its plain lists and its health page: they render what they
  read. Exports, search terms and the timelines of the overview.
* Wiring, environment variables, metrics and SQL migrations; the MQTT framing of the broker
  accounts, the shared role and the server's publisher.
* Package rules, screen flags, the gesture that opens the kiosk menu, progress displays.
* The limit of the log queue in characters, back-off delays, intervals, the choice between two
  server addresses.
* Cryptography: secrets are numbers that differ from each other; signatures are not forged;
  a payload is its checksum. A battery level in more digits than a float holds is taken as exact.
  The canonical encoding of a snapshot is not modelled.

### Known limits of the code

Met while modelling, and not the subject of a violation run. Commands:

* A message published while the launcher is not subscribed is dropped (QoS 0), and a launcher
  whose stream is healthy never polls: the command stays pending. So does one whose
  acknowledgement timed out in the stream, which swallows the timeout.
* `exit_kiosk` takes effect after its acknowledgement; a stop in between loses it, a duplicate
  delivery applies it again. A worker that stops between executing and recording executes again.

Enrollment:

* A second intent while an attempt is under way: the end of the earlier attempt, or an emission
  from before, sets the state machine to Enrolled under the new bootstrap (`MainActivity.kt`
  1074), which is not tried before the next restart.
* The only copy of a secret is lost with the answer that carries it. A process that ends between
  `clearAllState` and `saveBootstrap` leaves neither identity nor bootstrap.

Content:

* With two changes of the content or two syncs at once, `performPolicySync` (640) may hand
  `maybeApplyCertificates` a state from before the sync, in which certificates were on record that
  were cleared meanwhile; they are remembered as applied, and the apps wait for them.
* A new bootstrap clears memory and records while a job goes on. The job then marks a revision as
  attempted that the new enrollment has not applied, or saves a record signed with the old secret,
  which every later job fails to verify.
* Files of a snapshot that failed midway stay when the policy returns to the revision before.
* A policy that only writes a path differently (`/a` for `a`) makes the launcher write the file,
  then delete it as one that is no longer wanted, and put the policy on record as applied.

Server:

* A lost answer of `CreateVersion` makes the handler delete the payload of a version that is
  published.
* A policy form without a passcode and another one that turns the kiosk off, at once, leave a
  kiosk without a passcode: `UpdatePolicy` reads it outside the update.
* `POST /files` and `POST /certificates` take any storage key: with a payload for a key that is in
  use they put it over the object, see the conflict, and delete the object, while what refers to
  it is still offered.
* A page with the largest limit never has a next page: the store cuts the extra row.
* The overview reads the newest 200 reports; a device whose reports were pushed out counts as
  stale. A report that is dated after the overview was begun counts for the freshness chart and not
  for the activity timeline.
* A report whose payload names another device makes that one fresh in the overview, which then
  does not count it as stale however long it has been silent; nothing checks the name.
* A battery level that is a string such as `"-5"`, `" 15"` or `"1e1"` is marked low in the device
  list and missed by its low filter, whose expression takes digits only.
* The bars of the activity timeline begin at a local midnight and are 24 hours each: with a day of
  25 hours among them, the reports of the last hour of today are dropped.
* The seeded role gets the permissions of plugins only while it is on the first page of the roles.
* A change whose session ended before the audit record was written has no record, nor one whose
  insert failed, as its error is dropped, nor one of which the handler learned only an error because
  the answer to its commit was lost.

Kiosk:

* An exit is remembered by the version of a policy and ends when the version compares greater, but
  versions are hashes: an exit may outlast its policy and suppress a later one.
* The exit dialog keeps the passcode of the snapshot it was opened with, which then opens the
  kiosk of a newer one.
* An activity that the system recreates with its boot intent clears an exit again.
* The lock is released while new content is applied. A kiosk app that ends is not launched again
  by `apply`, which takes it to be running; nor is one whose launch failed, as the app is noted as
  applied when the launcher was locked in its place. `KioskSettles` counts both as locked.
* The model has one lock: that the phone stays in lock task mode for the app's task when the
  launcher ends its own is Android's doing, and the source only asks and tells its host.
