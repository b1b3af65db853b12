# Driver behaviour score: verification project

TLA+ models of the `driver-behavior-score` repository, their TLC runs, and proofs
checked by TLAPS. Paths are those of the repository's root, which is mounted here as
`src/` (so the backend package is `src/src`, the device server `src/telematics`, the
trip worker `src/workers`). `PROJECT.json` lists the components, the runs, the mutants
(for each property of a passing run a plausible bug that breaks it), the lines each
definition translates, the hazards and the theorems.

## 1. The system

Three programs share one PostgreSQL database.

| Part | Where | State it keeps | Operations | Modelled by |
|---|---|---|---|---|
| Trip detector | `src/workers` | tables `vehicle_trips`, `telematics_trip_cursor`; during a device's run the open trip, the batch, the actions | one pass: timeout, list of devices with new events, per device: restore, fetch, fold, write | `TripWorker` |
| Trip metrics | `src/workers/trips` | accumulators of the open trip | distance of a segment, day/night split, speeds, alerts; saved and restored per batch | `TripMetrics` |
| Device server | `src/telematics/main.py` | TCP connections, a semaphore, a buffer per connection, the set of handler tasks, a shutdown event | admit, read, cut into packets, limit, process, answer health requests, shut down | `DeviceServer` |
| Rate limiter | `src/telematics/main.py` | token buckets per address and per device | take a token, prune | `RateLimiter` |
| Packet store | `src/telematics/service.py` | tables `telematics_events`, `telematics_devices` | validate, look the device up, insert, mark as seen, each with retries; the checksum of a packet is only stored, nothing is decided by it | `PacketStore` |
| Challans and score | `src/src/violations`, `src/src/score` | tables `challans`, `challans_fetch_logs`, `dbs_records` | refresh if stale, list, recompute or reuse the score | `ChallanScore` |
| Classification, score engine | `src/src/violations/service.py`, `src/src/score/engine.py` | none | text to category, challans to deductions, score, risk band, premium | `ChallanRating` |
| Batch lookup | `src/src/dashboard` | a bounded connection pool and a semaphore | concurrent lookups for many vehicles | `BatchPool` |
| Vehicles | `src/src/vehicles` | table `vehicles` | fetch from the vendor on first use | `Vehicles` |
| Usage events | `src/src/usage` | table `usage_events`, a set of background tasks | record in a task after the response, report | `UsageReports` |
| API keys | `src/src/auth` | table `api_keys` | verify, create, revoke, rotate | `ApiKeys` |
| Refresh tokens | `src/src/auth` | table `blacklisted_tokens` | login, refresh | `RefreshTokens` |
| Read API of trips | `src/src/telematics` | none | active trip, latest trips, statistics | not modelled |
| Login, dashboard users | `src/src/auth` | table of users | password check | not modelled |
| Shell, migrations | `src/src/main.py`, `src/src/core`, `src/alembic` | per-request state | wiring, configuration, logging, schema history | not modelled |

How they interact. The device server inserts events; the trip detector polls for ids
behind its cursor and folds them into trips; the read API shows the trips. These three
meet only in tables. The backend answers score lookups from the challans it stores and
refreshes them from a vendor when the last fetch is too old; the dashboard issues many
lookups at once, each on a connection of its own; keys and tokens guard both; usage is
recorded after the response. There is no lock of the application's own: every
interaction between requests or processes is decided by single statements, transactions
at READ COMMITTED and unique indexes.

What is hard, and what must hold:

- *Trips.* Ids are drawn before rows become visible; devices send late, buffered and
  future-dated events; the batch is cut by id and then sorted by device time; the cursor
  is one number that also serves as the last event of the open trip; the process can
  stop anywhere. A trip must absorb an event once, lie around its events, close once
  and stay closed; a device has one open trip; nothing is skipped; everything is
  eventually processed and every trip eventually ends. Its measures must not depend on
  where batches end by more than the rounding of what is saved there, and shares must
  add up across dusk, dawn and midnight.
- *Ingestion.* A read ends anywhere in a packet; a retried insert may already be
  committed; slots, buffers and pools are limited; a shutdown waits for work in
  progress, which waits for devices. Packets must be framed the same for any chunks, a
  slot freed on every way out, the limit kept although buckets are forgotten and the
  clock is set back, a packet logged as stored must be stored, the shutdown must end.
- *Score.* The refresh and the score commit separately, lookups of one vehicle run
  concurrently and a score is dated at the begin of its transaction. The newest score
  must be the score of the listed challans. A heavier offense must never rank lower and
  a challan more never improve the score, the band or the premium.
- *Keys and tokens.* Read first, write later, without locks. The limit on keys must
  hold; a rotated key has one heir; a refresh token is used once.
- *Dashboard.* Requests hold a connection while their lookups wait for others; every
  batch must end and return what it held. A lookup asks for a connection up to three
  times, and can wait or fail at each. A report is several queries during which rows
  appear, and clients choose the ids that are counted; windows must nest, series add up.

## 2. Modules

| Module | Reads as |
|---|---|
| `TripWorker` | the trip detector, with ingestion as its environment: the detailed specification |
| `TripLog` | what the detector promises the readers of `vehicle_trips`: the abstract specification |
| `TripWorkerProofs`, `TripEventsProofs`, `TripOrderedProofs` | its invariant and its refinement of `TripLog`; the events of a trip; what holds when events come in order |
| `TripMetrics` | what one trip accumulates, beside a `mirror` that is never saved, restored or rounded |
| `DeviceServer` | connection handlers, health endpoint and shutdown of the device server |
| `PacketStore` | the statements that store a packet, with their retries |
| `RateLimiter` | token buckets under a clock that can be set back |
| `ChallanScore` | concurrent score lookups of one vehicle |
| `ChallanRating` | the category of a text; score, band, premium and severities of the listed challans |
| `BatchPool` | batches of lookups on the connection pool |
| `Vehicles` | concurrent first lookups of vehicles |
| `UsageReports` | recording of requests, the summary and the page of the keys |
| `ApiKeys` | one user's API keys under concurrent requests |
| `RefreshTokens` | the exchange of refresh tokens |
| `FoldProofs` | least numbers, finite sets and sums, on which `ServersProofs`, `MeasuresProofs` and `AccountsProofs` rest |
| `ChallanScoreProofs` | why the newest score is current |
| `ServersProofs` | proofs about `DeviceServer`, `PacketStore` and `BatchPool` |
| `MeasuresProofs` | proofs about `RateLimiter`, `TripMetrics`, `ChallanRating` and `Vehicles` |
| `AccountsProofs` | proofs about `ApiKeys`, `RefreshTokens` and `UsageReports` |
| `MCTripWorker`, `MCChallanScore` | small instances of the modules they name |
| `MCServers`, `MCMeasures`, `MCAccounts` | small instances of several parts each |

The last three check parts that share no state in one run: they extend the modules of
the parts, which share no name, and a variable `focus`, chosen initially and constant,
names the part that moves while the others rest in their initial state. TLC thus explores the
sum of the state spaces, not their product. The properties are those of the modules,
under the same names; a named conjunction (`ShutdownIsClean`, `MetricsMatch`,
`HeavierRanksHigher`, `ReportsAgree`) states its parts separately in its module.

Operators marked `Fault:` stand before a definition of the model and are a wrong form of
it. No specification uses them; each is the mutation that shows one property able to
fail (`PROJECT.json`, "mutants").

### TripWorker

State: `log`, `visible` (the event table: an id is drawn by `StoreEvent`, the row appears
by `CommitEvent`), `cursor`, `trips`, `age` (the tables of the worker and the time since
a row was written), and the worker's locals: `dev`, `after`, `events`, `rest`, `last`,
`open`, `inserts`, `closes`. Each action is what happens between two database calls or
one iteration of the detector's loop:

| Action | Code |
|---|---|
| `TimeoutClose` | `timeout_close_stale_open_trips`, `trips/repository.py:249-274` |
| `FetchDevices` | `fetch_devices_with_new_events`, `trips/repository.py:20-29` |
| `LoadDevice` | cursor and `fetch_open_trip`, `trips/service.py:23-40` |
| `FetchEvents`, `NothingFetched` | `fetch_new_events`, `trips/repository.py:108-138` |
| `DropReversed`, `CloseOnGap`, `CloseOnIgnitionOff`, `Drive`, `StartTrip`, `SkipParked` | the branches of `detect_trips`, `trips/detector.py:147-243` |
| `Commit` | the transaction, `trips/service.py:48-68` |
| `SkipDevice` | an exception, caught per device, `main.py:25-29` |
| `Restart` | the process is restarted or a pass fails, `main.py:14-55` |
| `EndPass`, `Tick` | the next pass; time |

An accumulator is represented by the set of events it has absorbed (`evs`) and the
number of times it absorbed one (`hits`): adding an event twice, losing one, or mixing
two devices shows there, whatever is added up; what is added up is `TripMetrics`. The
majority vote on registration numbers writes a column nothing reads back and is left out.

`OneOpenTrip`, `CountedOnce`, `EventsWithinTrip`, `CursorAdvances`, `ClosedIsFinal` and
the refinement `KeepsPromise` hold for events in any order of clock and commit, with
faults; so do the liveness properties. `NothingSkipped` needs rows of a device to become
visible in the order of their ids (`CommitOrdered`): the device server gives no such
guarantee over two connections or a retry, and without it the cursor does pass events
that were never examined, so `AllProcessed` says "passed", not "examined".
`TripsDisjoint`, `CountedInOneTrip` and `EndEventMatches` need the device to report in
the order of its clock (`TimeOrdered`).

### TripMetrics

`Drive`, `StartTrip`, `Stop` and `Silence` are the branches that change the
accumulators; `NextBatch` saves and restores them, at any place. Times are tens of
minutes, so night begins and ends on a tick as it does in the code on an hour;
distances are twelfths of a kilometre; the haversine formula is a grid metric with its
exceptions (missing, zero or impossible coordinates). A save rounds the day and night
shares to four decimals of a kilometre (`Rounded`, `Saved`): shares are counted in ninths
of those ten centimetres, of which a twelfth of a kilometre has 7500 (`Fine`), so that a
segment divides exactly among its ticks and the rounding still takes something away.
Distances, odometer and speeds are saved as they are.

`SplitInvisible` compares the saved trip with `mirror`, which is never saved. The shares
may differ by half a grid step for each save that rounded (counted in `roundings`), and
no more. A position is restored with `or`, so a coordinate that is zero or missing falls
back to that of the start of the trip; this is seen only when a segment is then measured
from the position (`blurred`), and makes no trip shorter. All else is equal. The shares
of `MetricsMatch` add up to the distance within the same rounding. `OdometerTelescopes`
and `MetricsMatch` compare the accumulators with references over all events of the trip.

### DeviceServer, PacketStore, RateLimiter

A stream is a sequence of symbols; `Read` takes any prefix of what is left, so TLC tries
every cut into chunks. The steps of a handler are its pieces between two awaits (asyncio
runs nothing in between), the loop over the packets of a buffer cut once per packet.
`Frames` is the reference for the framing: the packets of the stream read in one piece.
The verdicts of the limiters and the result of the service are left free here, and their
own modules model them. A rate-limited packet skips the trim at the end of the loop
(`Deny`), so `FramingIgnoresChunks` is claimed until a packet was limited: afterwards
garbage can stay in front of the next packet. Shutdown is `run_server`: wait for the connections, for
the health clients, then drain, cancel, and close the pool.

In `PacketStore` a statement can fail, be applied with its answer lost (`InsertLate`,
`UpdateLate`), be refused, or be cut off by a cancellation, applied or not.
`DuplicatesFromLateReplies` states how far the at-least-once insert goes: a second row
exists only if an answer was lost.

`RateLimiter` counts tokens in clock ticks, which makes them integers. The code reads
`time.time()`, so `SetBack` can take the clock back, by `MaxBack` in all.
`BucketAssumption` relates the pruning threshold to capacity and rate as the
configuration does; a bucket pruned earlier would hand out new tokens (the mutant
`IdleEarly`).

### ChallanScore and ChallanRating

One action per statement group of a lookup: `Authenticate` (the session's transaction
begins when the key is read, unless `last_used_at` is written and committed),
`CheckCache`, `Fetch`, `FetchFails` (the call fails: the listing goes on with what is
stored), `FetchBreaks` (an answer that cannot be read: the lookup fails), `Compare`,
`Sync` (insert, then soft delete, then the fetch log, committed together), `List`,
`CacheHit`/`CacheMiss`, `Record`. A score is represented by the set of challans it was
computed from, its `computed_at` by the number of its transaction. Around the requests
the vendor's list changes, the TTL runs out, a challan leaves the scoring window, a
process dies.

`ScoreCurrent`: whenever no lookup is under way the newest record is the score of the
listed challans. The exceptions the code has are recorded in the history variable
`lost` (a crash between the two commits; a challan that ages out of the window), and
the property says there is no other, in particular none from three lookups that fetch,
write, list and insert in any order. It depends on `computed_at` being the begin of the
transaction that listed: with the time of the insert (the mutant) it fails.

`ChallanRating` represents a text by the number of its keywords in each category.
`HeavierRanksHigher` says that a tie between categories goes to the one that costs more
and that the severities follow the deductions; `MoreIsNeverBetter` that no step to more
challans improves score, level or premium across all ten bands.

### BatchPool, Vehicles, UsageReports

A batch request holds a connection from its authentication to its answer, its items ask
for their own; with as many batches as connections every one waits for the others
(`BatchesEnd` then rests on the pool's timeout), and every way an item ends must give its
connection back (`ConnectionsReturned`). A lookup has three stages: it refreshes the
challans, scores them, and reads when they were fetched. A refresh that wrote commits,
and so does a new score; each commit returns the connection, and the next stage queues
for one again, so an item has up to three turns in the queue and can time out at each.

`Vehicles` keeps the number the vendor answers with apart from the number asked for:
the row is inserted under the former. Which of two overlapping lookups fails is decided
by the primary key. The other columns of a row and their rendering are abstracted.

`UsageReports` runs the queries of a report in the order of the code, with records
written between any two. Nesting of the windows depends on that order: each shorter
window is counted before the longer one that contains it. The request id may repeat,
since it is taken from a header; `CountsSplit`, a part of `ReportsAgree`, says what then
still holds. `SeriesAddUp` is about the points of a series: no day or month is missing or
counted twice. A series is queried before the total of its window, so rows that appear
in between (`disturbed`) can only make the total larger.

### ApiKeys and RefreshTokens

`CountKeys`/`CreateKey` and `ReadKey`/`RotateKey` split the two operations that read
first and write later; `RevokeKey` and `UseExpired` write without a decision that could
be overtaken. `overlap` records that one request was begun, or a key revoked, inside
another's window; `LimitHolds` and `OneHeir` hold as long as it has not happened, and
`AtMostMaxKeys` shows that the limit fails once it has.

In `RefreshTokens` the two decodes, the check, the insert and the commit are separate
steps, and the unique index makes a second insert wait and then fail. `SingleUse` is
what the index gives although the check is made too early. It is about tokens that have
not expired: one that expires between the two decodes skips the blacklist and is
exchanged all the same (`DecodeFails`), which the model shows and no document forbids.

## 3. Runs

| Run | Expect | Shows | Bounds |
|---|---|---|---|
| `trip_any` | pass | the safety of the worker and its refinement of `TripLog` | 1 device, 3 events in any order of clock and commit, batches of 2, 1 fault |
| `trip_ordered` | pass | trips disjoint, events in one trip, the right end event, nothing skipped | 1 device, 4 events, `TimeOrdered`, `CommitOrdered`, batches of 2, no fault |
| `trip_live` | pass | two devices share the pass: everything passed by the cursor, every trip ends | 2 devices, 2 events, fairness below, 1 fault |
| `trip_reversed` | violation of `TripsDisjoint` | a late event opens a trip inside a closed one | 3 events, no fault |
| `trip_end_event` | violation of `EndEventMatches` | a dropped event becomes the recorded end | 3 events, no fault |
| `challan_score` | pass | `ScoreCurrent` | 3 lookups, 2 challans, 2 vendor changes, 1 expiry, 1 loss |
| `challan_diff` | violation of `DiffMeansChange` | removed challans are a difference again | 3 lookups, 1 challan |
| `servers` | pass | framing for any chunks, slots, clean and completed shutdown; stored packets and their retries, and that a connection reads on; connections returned and batches ended | below |
| `measures` | pass | window bound of the limiter; measures of a trip for any batches; ranking and monotonicity of ratings; one insert per vehicle | below |
| `metrics_reset` | violation of `ResetFallsBack` | a reset of the odometer counts as zero distance | as `measures` |
| `accounts` | pass | reports nest and add up while rows appear; limit and heirs of keys; single use of tokens | below |
| `api_keys_limit` | violation of `AtMostMaxKeys` | two creations pass the check together | as `accounts` |

*Worker.* The bounds are enough for the cases that distinguish its branches: a batch
smaller than the backlog (`FetchLimit` below `MaxEvents`), a trip opened and another
closed in one batch, gaps below, at and above `GapThreshold`, an event repeated in the
next run, a timeout of a restored trip, and (but in `trip_ordered`, whose four events
leave no room for it, and whose properties are proved for any number of faults) a fault
between any two steps. Times are small because only their order and their distance to
the threshold are compared.

*Score.* A wrong newest record needs two lookups in each other's way and a third that
finds the cache fresh.

*`servers`.* Three connections: one that sends, one that sends nothing, one from the own
host; one slot, so the limit is met. Four streams: packets with garbage between them, an
invalid character, a packet over the length limit, a rest over the buffer limit; each
arrives in every division into chunks, with one rate-limited packet allowed. A signal
and a lost device are possible at every step. The store gets packets of one device on
two connections, or each kind of broken packet beside a good one, with two attempts per
statement: the smallest number with a retry. Two batches of two items share two
connections, so all of them can be held by waiting requests, and each item asks for one
up to three times.

*`measures`.* Trips of three events with nine kinds of readings (jitter, reset, jump,
missing, zero and impossible values) start shortly before 20:00, 05:00 and midnight, and
saves are possible between any two events. Half a kilometre in thirty minutes of which
one or two thirds are night gives shares that are no multiple of ten centimetres, so
they are rounded. A bucket of two packets, refilled with one in
two ticks, has a threshold of six ticks, the least `BucketAssumption` allows, so it is
pruned and used again within eight; the clock is set back once. Four challans reach
every band, the last one included; keywords occur for two heavy
categories and a light one. Three lookups of two numbers the vendor takes for one
vehicle, or for two.

*`accounts`.* Two requests at a time and four keys let a limit of two be reached by
creations and by a rotation and crossed by one. Three refreshes share tokens of which
four can be issued. Two requests, which may repeat an id, are recorded over two days of
two ticks in each of two months while one report, or one page, is assembled.

Deadlock is not checked where the instance runs out of requests, keys, tokens, packets
or time, which is the bound and not the system; the worker's runs check it.

Fairness. The worker (`FairSpec`): weak fairness of its next step, because `main.py`
polls in an endless loop that survives exceptions, and of time. Nothing is assumed of the
devices, of the commit of an insert, or of faults; these are finitely many by
`MaxFaults`, without which a device whose every run fails would rightly never be
processed. The device server: its handlers' steps, because the event loop runs what is
ready, a read has the idle timeout, and the service's statements have timeouts and
bounded retries; the steps of `run_server`; nothing of the devices. One assumption is
about clients: `HealthClientsSpeak`, since the health endpoint reads its request line
without a time limit and a client of it that stays silent holds up the shutdown. The
store: every statement ends, by success or timeout, and the wait before a retry too.
The pool: it serves who waits, statements and vendor calls end within their timeouts,
and no task waits longer than `pool_timeout`; without the latter `BatchesEnd` fails
(its mutant).

## 4. Proofs

For every value of the constants, under the assumptions named:

| Module | Theorems | Assumes |
|---|---|---|
| `TripWorkerProofs` | `ConsistentAlways` (the inductive invariant), `TypeCorrect`, `AtMostOneOpenTrip`, `CursorNeverMovesBack`, `ClosedNeverChanges`, `DetectorImplementsLog` (the refinement of `TripLog`) | `BoundAssumption`, `NoneAssumption` of `TripWorker` |
| `TripEventsProofs` | `EventsLieWithinTrips`, `EventsCountedOnce` | as above |
| `TripOrderedProofs` | `CursorSkipsNothing` | as above, and `CommitOrdered` |
| | `TripsNeverOverlap`, `EventInOneTrip`, `EndEventEndsTrip` | as above, and `TimeOrdered` |
| `ChallanScoreProofs` | `LookupsReconcile` (the inductive invariant), `ScoresTyped`, `ScoreStaysCurrent` | the bounds are numbers, `None` is no record |
| `ServersProofs` | `StoredMeansStored`, `DuplicatesAreLostReplies`, `SeenMeansStored`, `StoreTyped` | `AttemptsAssumption`: at least one attempt |
| | `SlotsAreTracked`, `ShutdownStaysClean`, `ChunksDoNotShow`, `ServerTyped` | `ServerAssumption`: limits are numbers, streams sequences of symbols |
| | `ConnectionsComeBack`, `PoolIsTyped` | `PoolAssumption`: finitely many batches, the number of items and the size of the pool are numbers |
| | `ServersTyped` | the three above |
| `MeasuresProofs` | `WindowIsBounded`, `LimiterTyped` | `BucketAssumption`, a hypothesis of the theorems |
| | `RowHasOneAuthor` | there is a number to look up, a hypothesis |
| | `BatchesDoNotShow`, `DistanceTelescopes`, `MetricsAreOfEvents`, `MetricsTyped` | `ReadingAssumption`: what a reading is, times are numbers |
| | `HeavierIsNeverLighter`, `MoreNeverImproves` | `RatingAssumption`: hinted categories are categories |
| | `MeasuresTyped` | `BucketAssumption` and `ReadingAssumption` |
| `AccountsProofs` | `LimitHoldsAlone`, `OneHeirAlone`, `KeysTyped` | `LimitAssumption`: the limit is a number |
| | `TokenIsUsedOnce`, `TokensTyped` | nothing |
| | `ReportsStayConsistent`, `SeriesAddsUp`, `UsageTyped` | `UsageAssumption`: finitely many requests, days and months not empty, months made of days |
| | `AccountsTyped` | the three above |

The assumptions are ASSUMEs of the component modules, so TLC evaluates them for every
instance; the two hypotheses hold in the instances of `MCMeasures`. The composed
instances, which the last three modules extend, take only steps of their parts (`ServersRunParts`, `MeasuresRunParts`,
`AccountsRunParts`), so what is proved of a part holds there; `ServersTyped`,
`MeasuresTyped` and `AccountsTyped` are the `TypesOK` of these runs. Each inductive
invariant was model-checked at the bounds of its component's run before it was proved.

*Numbers and sums.* An induction theorem that takes a predicate is out of the provers'
reach; one that takes a set is not. `FoldProofs` states induction so: a set of numbers
that has zero and, with each, the next has them all (`NumbersRise`), and the like for
finite sets (`SetsRise`). What a sum over a function is follows from the equations that
define it (`Adds`): any two functions of sets that satisfy them agree (`SummedIs`).

*Worker.* Why `OneOpenTrip` is not inductive by itself: `Commit` writes what the run has
gathered in memory, so one must know that memory and tables belong together. `LocalOK`
says that between two devices nothing is left in memory and that inside one the position
read is still the one in the table (the timeout runs only between passes). `BatchOK` says
that every event of the batch lies behind that position, which makes the cursor advance.
`ActionsOK` is the core: a trip has been closed in this run or is still live, and never
both, exactly if it was begun in this run or is the one the cursor names. After `Commit`
the one trip that is live is therefore the one the cursor names, and every other one the
run touched is closed. A closed row is neither inserted (only absent ids are) nor named
by the cursor, hence never written: `ClosedIsFinal`. For the refinement `TimesOK` is
added: a trip in memory, or in a pending close, never ends before it began nor before the
end its row already has, so that the row is prolonged and never cut. `Commit` maps to
`Advance` of the device, `TimeoutClose` to `Expire`, every other step to a stutter.

*Events in order.* The four properties that need an order of events rest on two further
invariants, stated beside the properties in `TripWorker`. `NothingSkipped` needs
`CommitOrdered` alone: rows become visible in id order and a batch is a prefix of what
lies behind the cursor (`VisibleInOrder`), so the cursor, which stands on an event of the
batch, has passed only what was examined. The other three need `TimeOrdered` alone, so
they hold even where rows become visible out of order: a clock that does not run back
makes the order of the ids the order of the times among those the worker sees
(`LogInOrder`). Then everything in a device's rows lies at or before its cursor
(`RowsBehindCursor`), what a run gathers lies between the cursor and the event it has got
to, and ends there (`RunReached`), and what it closes is apart from every row and from
what it still drives (`RunDisjoint`). `Commit` is the step where the two sides meet; the
run `trip_reversed` shows what happens without the order.

*Score.* That the newest record is right whenever nobody looks says nothing while
lookups run. `Superseded` does: as long as nothing was lost, either some refresh has
reported a difference and has yet to list (`Relisting`), or every record and every list
held by a lookup that no longer matches is outdone by a score, stored or still to be
inserted, whose transaction began later (`ScoredAfter`). It survives a write in the
middle of other lookups because the writer reports a difference and lists again in a
transaction begun after its commit (`StampsOK`), and it gives `ScoreCurrent` once no
lookup is left that could be the later one. That the newest transaction, and not the
newest insert, counts is used in every step that records.

*Store.* The properties speak of packets that were stored; the invariant `Tracked`
follows a packet through its statements: while its insert is tried its rows are exactly
those whose answers were lost, and only a packet with a row gets to the update.

*Server.* `SlotsTracked` counts tasks; `ActiveTracked` ties the tasks to the places of
the handlers, so that one handler cannot give a slot back twice. `ShutdownIsClean` is the
order of the shutdown: `ListenerClosed` and `DrainedAll` say what each phase leaves, no
open transport once the listener has closed and no task that the drain does not wait
for; so only lost devices are cut off.

*Framing.* `FramingIgnoresChunks` compares what a loop over a buffer has cut off with one
pass over the stream. `Kept` says what links them at every place of a handler: framing
the buffer after the packets that were taken gives what framing the stream gives, the
buffer begins with a packet once it is trimmed, and ends none before a read. Framing two
parts is framing the first and then, from where it stands, the second; so what is trimmed
was not framed, and a trim that comes late loses nothing.

*Pool.* `ConnectionsReturned` looks at connections only, but one is granted to whoever
waits: an item that gave up its place and stayed in the queue would get one after its
end. `RequestTracked` and `ItemTracked` say that a task waits or holds only where it is
going on, `AsksOnce` that it waits once. That the pool is never overdrawn is a statement
about a sum over all tasks, of which each step changes one summand.

*Limiter.* `WindowBound` speaks of the past; what makes it last is that the bucket
remembers it: what is left, plus the cost of all packets since any earlier one, is within
the capacity and the refill since (`Remembered`), and a bucket is forgotten only once all
debts are paid, including what the clock may still lose (`Paid`). The step that prunes
needs all of `BucketAssumption`.

*Metrics.* `BatchesDoNotShow` rests on `Like`: trip and mirror agree in what a save leaves
untouched, and differ in a share by at most half a grid step for each save that rounded.
A segment adds the same to both, unless the position it is measured from was replaced by
that of the start, where the mirror measures nothing; a save moves a share by half a step
at most and counts itself. For the odometer `OdometerKept` says that the reading a trip remembers
is the highest so far, which no jitter moves, and that the distance is the advance to
it; a segment then adds exactly what the top moved. For speeds and alerts `SpeedsKept`
relates the accumulators to all events. The hours rest on the pieces a segment is cut in:
their lengths add up to the segment, those of the night to its hours of night, and no
boundary lies inside a piece (`HoursKept`). As no segment lasts longer than
`GapThreshold`, three units of time, and `Fine` is a multiple of six, the shares of a
segment are exact and add up to it; what is lost later is the rounding of the saves, at
most half a grid step for each of the two shares.

*Ratings.* `Best` and `Sum` are recursive functions over twelve categories. Their value
is unfolded category by category: `Best` has seen every category up to each index and
keeps the first of the best, and deductions fall along the order of the categories
(`HeavierFirst`); a challan more adds its deduction and nothing else. The ten bands are
compared pairwise.

*Keys.* A request writes by what it read. `Alone` says that without an overlap one request
is between its read and its write, `StillTrue` that what it read is still so; deactivating
an expired key is harmless because that key was not usable.

*Tokens.* `Claimed` and `Exchanged` say what each refresh holds, the row in the making or
the committed row; `OneClaims` that only one refresh with a live token is past the unique
index.

*Reports.* `ReportNested` compares answers of queries that saw different tables.
`Nested` compares each answer with what the next longer window would count now; that
count only grows while a report is assembled, as recorded rows stay and new ones join
(`WindowGrows`), and today lies in this month because months are made of days. Counting
distinct ids is monotone, which is all that is needed of cardinalities. For
`SeriesAddsUp` the days of a month and the months of a year split the requests of a window
by the quotient of their time; where no id is used again the ids of the parts are
disjoint, so the counts of the points add up to that of the window, for any finite number
of requests (`SeriesIs`). `SeriesKept` compares the sum, from the query of the series on,
first with what the query of the window would count now, which only grows, then with what
it did count.

*Vehicles.* `Authored`: the rows and the lookups that inserted them are one to one.

Model-checked only:

- The liveness properties `AllProcessed`, `TripsEnd`, `ShutdownCompletes`,
  `ConnectionReadsOn` and `BatchesEnd`: fairness and ENABLED are out of the prover's reach.
- What the runs of section 5 refute.

Every other property a passing run checks is a theorem above.

## 5. Disagreements between the code and its documents

Each is a run that TLC ends with a counterexample; `PROJECT.json`, "findings", quotes
the lines. (1) `trip_reversed`: a late event after a closed trip opens an overlapping
trip. (2) `trip_end_event`: the end event of a trip can be an event the detector dropped.
(3) `challan_diff`: a refresh reports removed challans as a difference for ever. (4)
`api_keys_limit`: two concurrent creations exceed the limit on keys. (5) `metrics_reset`:
the odometer's reset counts as zero distance, where the docstring promises the distance
of the positions.

## 6. Not modelled

- The read API of trips and statistics: queries whose meaning is their SQL. What they
  rely on, at most one open trip and closed rows that stay, is proved of the worker.
- Login and dashboard users: one read and a password check; tokens enter `RefreshTokens`
  as `Login`. Renaming a key changes a name and nothing the properties see.
- Shell, configuration, logging, the limits on HTTP requests (a library's), migrations.
- Vendor clients and the language model: external; their answers, failures and unreadable
  responses are nondeterministic in `ChallanScore`, `ChallanRating` and `Vehicles`.
- Within modelled parts: floating point (the sums and ratios of the metrics are exact until
  they are saved), the field values of a packet and its checksum, the average speed
  and the kinds of harsh events of a trip, the texts and keywords of challans, the columns
  of a vehicle, the risk distribution of a report and the sentence that summarises it.

What the code has and no property covers ("hazards" without a property in `PROJECT.json`
give the reason): rows that become visible after the cursor passed their ids are never
examined; a crash between the two commits of a lookup and a challan that leaves the
scoring window make the score old (`lost`); two overlapping rotations of a key issue two
heirs. The models take all these steps, and the properties that would speak of them
state the condition that excludes them. Besides, rows without a gps time count as new but are
never fetched, so their device is selected in every pass; a challan that was removed and
is listed again is in the existing rows and stays removed; the TTL compares the
local time of the process with a database time that has no zone; usage records still in a task when the process ends are
lost, which the model allows (`Drop`) and no document excludes. A silent client of the
health endpoint is excluded by an assumption (section 3), a token expiring during its
refresh by the statement of `SingleUse` (section 2).
