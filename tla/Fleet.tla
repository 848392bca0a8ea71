-------------------------------- MODULE Fleet -------------------------------
(***************************************************************************)
(* The dashboard's view of the fleet: administrators walk through the      *)
(* pages of the device list and open the overview, which asks one query    *)
(* after the other, while devices are created, enrolled and retired and    *)
(* upload reports.                                                         *)
(***************************************************************************)
EXTENDS FleetReports

CONSTANTS
  Model, ModelOf,   \* the model of each device
  StaleAfter,       \* ticks of 72 hours
  Week,             \* ticks of 7 times 24 hours
  Midnight,         \* the local midnights: a day may be shorter or longer than Day
  Window,           \* newest reports the overview reads: 200
  Slices,           \* slices of the chart of models: 6
  MaxChanges        \* changes while an overview is made

ASSUME ChartsAssumption ==
  /\ ModelOf \in [Device -> Model] /\ "Unknown" \notin Model
  /\ {Window, Slices} \subseteq Nat \ {0} /\ MaxChanges \in Nat
  /\ StaleAfter \in Nat /\ StaleAfter >= Day /\ Week \in {i * Day : i \in 2..7}

(* The first midnight of the week of calendar days that ends with t's.     *)
FirstDay(t) ==
  CHOOSE m \in Midnight :
    /\ m <= t /\ Cardinality({n \in Midnight : m < n /\ n <= t}) = (Week \div Day) - 1
ASSUME CalendarAssumption ==
  \A t \in 0..MaxTime : FirstDay(t) \in Int /\ FirstDay(t) + Day <= t

Walk == [filter : Listed, limit : 1..PageCap, page : Nat \ {0}, shown : SUBSET Device,
         hasNext : BOOLEAN, due : SUBSET Device, left : BOOLEAN]
ASSUME NoneIsNoWalk == None \notin Walk

VARIABLES
  walk,      \* a walk through the list: filter, limit, page, and what it saw; or None
  overview   \* an overview being made or shown

vars == <<storeVars, walk, overview>>

-----------------------------------------------------------------------------
(* The device list *)

paginateItems(items, limit) ==
  [items |-> {d \in items : Place(d, items) < limit}, hasNext |-> Cardinality(items) > limit]

devices(f, page, limit) ==
  LET params == listPaginationParams(page, limit)
  IN  paginateItems(ListDevicesByFilter(params, f), params.limit - 1)

(* What the overview has gathered. *)
NoOverview == [at |-> "none", changes |-> 0, time |-> 0, total |-> 0, pending |-> 0, was |-> {},
               items |-> <<>>, read |-> 0, fresh |-> <<>>, activity |-> <<>>, models |-> <<>>,
               stale |-> {}, tone |-> "good", works |-> FALSE, seen |-> 0, status |-> <<>>]

(* Pages only read: one at a time is enough. *)
Free == walk = None /\ overview.at = "none"

Opens(f, l) ==
  LET p == devices(f, 1, l)
  IN  /\ Free
      /\ walk' = [filter |-> f, limit |-> listPaginationParams(1, l).limit - 1, page |-> 1,
                  shown |-> p.items, hasNext |-> p.hasNext,
                  due |-> {d \in Existing : Matches(d, f)}, left |-> FALSE]
      /\ UNCHANGED <<storeVars, overview>>

pager ==
  /\ walk # None /\ walk.hasNext
  /\ LET p == devices(walk.filter, walk.page + 1, walk.limit)
     IN  walk' = [walk EXCEPT !.page = @ + 1, !.shown = @ \cup p.items, !.hasNext = p.hasNext]
  /\ UNCHANGED <<storeVars, overview>>

Closes ==
  /\ walk # None
  /\ walk' = None
  /\ UNCHANGED <<storeVars, overview>>

(* Remembers whether a row has left the list under the walk. *)
Watches ==
  walk' = IF walk = None THEN None
          ELSE [walk EXCEPT !.left = @ \/ \E f \in Listed, d \in Device :
                                            f = walk.filter /\ Matches(d, f) /\ ~Matches(d, f)']

(* A row of the list shows the latest report, marked if it is old or low. *)
lastOnlineInfo(rec) == now - rec.at > Day
batteryLevelInfo(rec) == rec.level # None /\ rec.level.value <= LowLevel
MarkedStale(d) ==
  LET latest == ListLatestByDeviceIDs(Existing)
  IN  d \in DOMAIN latest /\ lastOnlineInfo(latest[d])
MarkedLow(d) ==
  LET latest == ListLatestByDeviceIDs(Existing)
  IN  d \in DOMAIN latest /\ batteryLevelInfo(latest[d])

-----------------------------------------------------------------------------
(* The overview *)

(* A report counts for its sender and for the device its payload names.    *)
ReportsOn(d) == {i \in DOMAIN info : d \in {info[i].dev, info[i].named}}
TimesOf(d, records) == {info[i].at : i \in records \cap ReportsOn(d)}

latestDeviceInfoByDevice(records) ==
  [d \in Device |-> IF TimesOf(d, records) = {} THEN None ELSE Max(TimesOf(d, records))]

(* Mutant: a device without a report is not counted. *)
countStaleReportedDevices(items, records, t) ==
  LET latest == latestDeviceInfoByDevice(records)
  IN  {d \in DOMAIN items : items[d] = "active" /\ latest[d] # None /\ t - latest[d] > StaleAfter}

countStaleActiveDevices(items, records, t) ==
  LET latest == latestDeviceInfoByDevice(records)
  IN  {d \in DOMAIN items : /\ items[d] = "active"
                            /\ latest[d] = None \/ t - latest[d] > StaleAfter}

(* Counts of several things as the units they count: their sum is how many *)
(* units there are.                                                        *)
Units(values) == UNION {{i} \X (1..values[i]) : i \in DOMAIN values}
SumOf(values) == Cardinality(Units(values))

(* The sizes of the slices: largest first, the smallest put together.      *)
(* The i-th largest is the largest count that i labels reach.              *)
Sizes(counts) ==
  LET labels == {x \in DOMAIN counts : counts[x] > 0}
  IN  [i \in 1..Cardinality(labels) |->
         Max({n \in {counts[x] : x \in labels} :
                Cardinality({x \in labels : counts[x] >= n}) >= i})]

(* Mutant: the last slice that would fit is lost. *)
chartFromCountsLossy(counts, limit) ==
  LET values == Sizes(counts) IN
  IF limit > 0 /\ Len(values) > limit
  THEN Append(SubSeq(values, 1, limit - 1), SumOf(SubSeq(values, limit + 1, Len(values))))
  ELSE values

chartFromCounts(counts, limit) ==
  LET values == Sizes(counts) IN
  IF limit > 0 /\ Len(values) > limit
  THEN Append(SubSeq(values, 1, limit - 1), SumOf(SubSeq(values, limit, Len(values))))
  ELSE values

buildDeviceInfoFreshnessChart(items, records, t) ==
  LET latest == latestDeviceInfoByDevice(records)
      Age(d) == IF latest[d] = None THEN "No report"
                ELSE IF t - latest[d] <= Day THEN "Last 24h"
                ELSE IF t - latest[d] <= Week THEN "2-7 days" ELSE "Stale 8+d"
  IN  [x \in {"Last 24h", "2-7 days", "Stale 8+d", "No report"} |->
         Cardinality({d \in DOMAIN items : Age(d) = x})]

(* Devices that reported on each day up to the day of t.  The bars begin at *)
(* a midnight, but each holds Day: what a long day pushes past the last is *)
(* dropped.                                                                *)
buildUniqueDeviceActivityChart(records, t) ==
  LET start == FirstDay(t)
  IN  [i \in 1..(Week \div Day) |->
         Cardinality({info[r].dev : r \in {x \in records :
           info[x].at \in start..t /\ (info[x].at - start) \div Day = i - 1}})]

(* The share of the devices that reported within a day, in percent. *)
deviceInfoFreshnessMetric(fresh, total) ==
  IF total = 0 THEN 0 ELSE (fresh["Last 24h"] * 100) \div total

latestDeviceInfoModelByDevice(records) ==
  [d \in Device |-> IF records \cap Reports(d) # {} THEN ModelOf[d] ELSE "Unknown"]

buildDeviceModelChart(items, records) ==
  LET label == latestDeviceInfoModelByDevice(records)
  IN  chartFromCounts([x \in Model \cup {"Unknown"} |->
                         Cardinality({d \in DOMAIN items : label[d] = x})], Slices)

buildDeviceStatusChart(counts) == chartFromCounts(counts, 8)

(* The counters of the devices; was: those active now. *)
GetOverviewStats ==
  /\ Free
  /\ overview' = [NoOverview EXCEPT !.at = "stats", !.time = now,
                                    !.total = Cardinality(Existing),
                                    !.pending = Cardinality(WithStatus({"pending"})),
                                    !.was = WithStatus({"active"})]
  /\ UNCHANGED <<storeVars, walk>>

OverviewDevices ==
  /\ overview.at = "stats"
  /\ overview' = [overview EXCEPT !.at = "devices",
                                  !.items = [d \in ListActiveDevices |-> device[d].status]]
  /\ UNCHANGED <<storeVars, walk>>

OverviewReports ==
  LET records == Search(Window) IN
  /\ overview.at = "devices"
  /\ overview' = [overview EXCEPT
       !.at = "reports", !.read = Len(info),
       !.fresh = buildDeviceInfoFreshnessChart(overview.items, records, overview.time),
       !.activity = buildUniqueDeviceActivityChart(records, overview.time),
       !.models = buildDeviceModelChart(overview.items, records),
       !.stale = countStaleActiveDevices(overview.items, records, overview.time)]
  /\ UNCHANGED <<storeVars, walk>>

(* Mutant: only pending devices are for review. *)
ReviewPending(o) == o.pending

Review(o) == o.pending + Cardinality(o.stale)

(* Policies and commands are other modules': their counters are inputs. *)
PolicyStats == {[total |-> 0, active |-> 0], [total |-> 1, active |-> 0], [total |-> 1, active |-> 1]}
CommandStats == [sent : {0, 1}, failed : {0, 1}]

(* The tones of what the page asks attention for. *)
Attention(o, policies, commands) ==
  {tone \in {"warn", "danger"} :
     CASE tone = "warn"   -> \/ o.total = 0 \/ o.pending > 0
                             \/ o.total > 0 /\ Review(o) > 0
                             \/ commands.sent > 0 \/ policies.active = 0
       [] tone = "danger" -> commands.failed > 0}

overviewStatusSummary(attention) ==
  IF "danger" \in attention THEN "danger" ELSE IF "warn" \in attention THEN "warn" ELSE "good"

(* works: a policy is active and every command was carried out. *)
OverviewSummary(policies, commands) ==
  /\ overview.at = "reports"
  /\ overview' = [overview EXCEPT
       !.at = "shown",
       !.tone = overviewStatusSummary(Attention(overview, policies, commands)),
       !.works = policies.active > 0 /\ commands.sent + commands.failed = 0,
       !.seen = deviceInfoFreshnessMetric(overview.fresh, overview.total),
       !.status = buildDeviceStatusChart([s \in {"pending", "enrolled", "active", "retired"} |->
                                            Cardinality(WithStatus({s}))])]
  /\ UNCHANGED <<storeVars, walk>>

(* A query fails and the page shows the error, or the page is left. *)
renderPageError ==
  /\ overview.at # "none"
  /\ overview' = NoOverview
  /\ UNCHANGED <<storeVars, walk>>

-----------------------------------------------------------------------------
Init == StoreInit /\ walk = None /\ overview = NoOverview

StoreStep ==
  \/ \E d \in Device : \/ CreateDevice(d) \/ BindDevice(d) \/ RetireDevice(d)
                       \/ DeviceInfoRoute(d) \/ TelemetryRoute(d)
  \/ Tick

Counts ==
  \/ overview.at = "none" /\ UNCHANGED overview
  \/ /\ overview.at # "none" /\ overview.changes < MaxChanges
     /\ overview' = [overview EXCEPT !.changes = @ + 1]

Next ==
  \/ Counts /\ StoreStep /\ Watches
  \/ \E f \in Listed, l \in Limit : Opens(f, l)
  \/ pager \/ Closes
  \/ GetOverviewStats \/ OverviewDevices \/ OverviewReports \/ renderPageError
  \/ \E policies \in PolicyStats, commands \in CommandStats : OverviewSummary(policies, commands)

Spec == Init /\ [][Next]_vars
-----------------------------------------------------------------------------
(***************************************************************************)
(* Properties                                                              *)
(***************************************************************************)

(* Reports belong to devices that were enrolled, and a page never holds    *)
(* more rows than its limit times the pages walked.                        *)
TypeOK ==
  /\ now \in 0..MaxTime
  /\ device \in [Device -> DeviceRow \cup {None}] /\ info \in Seq(ReportRow)
  /\ \A i \in DOMAIN info : info[i].dev \in WithStatus({"active", "retired"})
  /\ walk \in Walk \cup {None}
  /\ walk # None => Cardinality(walk.shown) <= walk.page * walk.limit

(* A walk by the Next links shows every device that was there when it      *)
(* began, although devices created meanwhile shift the pages; unless a     *)
(* device left the filter on the way, or the limit is the cap, where the   *)
(* store drops the extra row and the pages end with the first.             *)
WalkMissesNothing ==
  walk # None /\ ~walk.hasNext /\ ~walk.left /\ walk.limit < PageCap => walk.due \subseteq walk.shown

(* What the three readers of the latest reports say agrees: a row marked   *)
(* stale is found by its filter; a row found by the low filter is marked,  *)
(* and one marked is found unless its level is a string that only Go reads *)
(* as a number; and a device the overview would count as stale for three   *)
(* days is found by the filter for one, if the overview reads every        *)
(* report.  It speaks of the stored rows alone, so it is stated while no   *)
(* page is open.                                                           *)
FiltersAgree == Free =>
  /\ \A d \in Existing : /\ MarkedStale(d) => Matches(d, "stale")
                         /\ Matches(d, "low") => MarkedLow(d)
                         /\ MarkedLow(d) => Matches(d, "low") \/ Lateral(d).level.form = "text"
  /\ Len(info) <= Window =>
       \A d \in countStaleActiveDevices([e \in ListActiveDevices |-> device[e].status],
                                        Search(Window), now) : Matches(d, "stale")

(* docs/observability.md: "The overview dashboard highlights stale active  *)
(* devices".  A device that was active all the time the overview was made  *)
(* is counted if every report on it is old, those it sent and those of     *)
(* others that name it, however many reports others sent; and it is        *)
(* counted in error only if a report on it fell out of the window.         *)
StaleIsHighlighted ==
  overview.at \in {"reports", "shown"} =>
    /\ \A d \in overview.was \cap WithStatus({"active"}) :
         (\A i \in ReportsOn(d) : overview.time - info[i].at > StaleAfter) => d \in overview.stale
    /\ overview.read <= Window =>
         \A d \in overview.stale : \A i \in ReportsOn(d) :
           i <= overview.read => overview.time - info[i].at > StaleAfter

(* An overview that says the fleet is healthy hides nothing: no device was *)
(* pending when it was asked for, each one active since has a report on it *)
(* that is not stale, its own or one that names it, a policy is active and *)
(* no command waits or failed.                                             *)
HealthyHidesNothing ==
  overview.at = "shown" /\ overview.tone = "good" =>
    /\ overview.total > 0 /\ overview.pending = 0 /\ overview.works
    /\ \A d \in overview.was \cap WithStatus({"active"}) :
         \E i \in ReportsOn(d) : overview.time - info[i].at <= StaleAfter

(* The charts count every device once, also when rare models are folded    *)
(* into one slice; a device seen within a day is in the bar of a day,      *)
(* unless a report is dated later than the overview or falls in the last   *)
(* hour of a week with a long day, or names another device; the share of   *)
(* those seen is one of the counted devices, unless the store changed      *)
(* while the overview was made; the chart of statuses, read last, has no   *)
(* device less than the counters, read first.                              *)
ChartsAddUp ==
  /\ overview.at \in {"reports", "shown"} =>
       /\ SumOf(overview.models) = Cardinality(DOMAIN overview.items)
       /\ SumOf(overview.fresh) = Cardinality(DOMAIN overview.items)
       /\ (\A i \in 1..overview.read :
             /\ info[i].at <= overview.time /\ info[i].at < FirstDay(overview.time) + Week
             /\ info[i].named \in {None, info[i].dev}) =>
            overview.fresh["Last 24h"] <= SumOf(overview.activity)
  /\ overview.at = "shown" =>
       /\ SumOf(overview.status) \in overview.total..Cardinality(Existing)
       /\ overview.changes = 0 => overview.seen \in 0..100
=============================================================================
