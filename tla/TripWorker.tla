----------------------------- MODULE TripWorker -----------------------------
(***************************************************************************)
(* The trip detector of workers/: one process that polls the               *)
(* telematics_events table, folds each device's new events into trips and  *)
(* commits the trips together with the device's cursor.                    *)
(*                                                                         *)
(* Ingestion (telematics/) runs beside it: an insert takes its id from the *)
(* table's sequence first and becomes visible when it commits, so ids may  *)
(* become visible out of order.  Everything between two database calls of  *)
(* the worker is local and is lost by an exception or a restart.           *)
(*                                                                         *)
(* Times are small numbers: Gps is the clock of the devices, and the age   *)
(* of an open row, NOW() - COALESCE(updated_at, created_at), is counted in *)
(* ticks and saturates at StaleAge + 1.  evs names the events that a       *)
(* trip's accumulators (speed, distance, harsh counters) have absorbed and *)
(* hits counts the calls that absorbed them.                               *)
(***************************************************************************)
EXTENDS Integers, Sequences, FiniteSets

CONSTANTS
    Imei,          \* devices
    Trip,          \* trip ids (uuid4); a bound on how many trips there can be
    Gps,           \* device timestamps
    None,          \* SQL NULL / Python None
    GapThreshold,  \* GAP_THRESHOLD_SECONDS
    StaleAge,      \* the 30 minutes of timeout_close_stale_open_trips
    FetchLimit,    \* _FETCH_LIMIT
    MaxEvents,     \* bound: events ever stored
    MaxFaults,     \* bound: exceptions and restarts
    TimeOrdered,   \* devices report in the order of their clocks
    CommitOrdered  \* rows of one device become visible in id order

ASSUME BoundAssumption == /\ Trip \subseteq Nat
                          /\ Gps \subseteq Nat
                          /\ GapThreshold \in Nat
                          /\ StaleAge \in Nat
                          /\ FetchLimit \in Nat \ {0}
                          /\ MaxEvents \in Nat
                          /\ MaxFaults \in Nat

\* The detector's live trip.
OpenTrip == [id : Trip, startId : Nat, start : Nat, lastId : Nat, lastAt : Nat,
             evs : SUBSET Nat, hits : Nat]

ASSUME NoneAssumption == None \notin Nat \cup Imei \cup OpenTrip

VARIABLES
    log,       \* telematics_events: the event with id n is log[n]
    visible,   \* ids whose insert has committed
    cursor,    \* telematics_trip_cursor; a missing row reads as [last 0, open None]
    trips,     \* vehicle_trips
    age,       \* ticks since a row was last written
    seen,      \* history: ids that were in a committed batch
    pc,        \* where the worker is
    todo,      \* devices left in this pass
    dev,       \* device being processed
    after,     \* after_id read from its cursor
    events,    \* batch fetched for it
    rest,      \* part of the batch the detector has not reached
    last,      \* the latest event it has reached; events[-1] once rest is empty
    open,      \* open_trip
    inserts,   \* OpenTripActions so far
    closes,    \* CloseTripActions so far
    faults     \* faults so far

store == <<log, visible>>
tables == <<cursor, trips, age, seen>>
local == <<dev, after, events, rest, last, open, inserts, closes>>
vars == <<log, visible, cursor, trips, age, seen, pc, todo, dev, after, events, rest,
          last, open, inserts, closes, faults>>

Event == [imei : Imei, gps : Gps \cup {None}, ignition : {"on", "off", "null"}]

Absent == [status |-> "absent", imei |-> None, startId |-> 0, start |-> 0,
           endId |-> None, end |-> 0, evs |-> {}, hits |-> 0]

Id == DOMAIN log
At(e) == log[e].gps
Ignition(e) == log[e].ignition

-----------------------------------------------------------------------------
(* Ingestion *)

\* An insert draws its id; the row cannot be seen yet.
StoreEvent(i) ==
    /\ Len(log) < MaxEvents
    /\ \E g \in Gps \cup {None}, ign \in {"on", "off", "null"} :
         /\ TimeOrdered =>
              \A e \in Id : (log[e].imei = i /\ At(e) # None /\ g # None) => At(e) <= g
         /\ log' = Append(log, [imei |-> i, gps |-> g, ignition |-> ign])
    /\ UNCHANGED <<visible, tables, pc, todo, local, faults>>

\* An insert commits.  One that rolls back is an id that never becomes visible.
CommitEvent(e) ==
    /\ e \in Id \ visible
    /\ CommitOrdered => \A f \in Id : (f < e /\ log[f].imei = log[e].imei) => f \in visible
    /\ visible' = visible \cup {e}
    /\ UNCHANGED <<log, tables, pc, todo, local, faults>>

-----------------------------------------------------------------------------
(* The pass: timeout, list of devices, one device after the other *)

\* Fault: an off-by-one in the test for new events.
HasNewButOne(i) == \E e \in visible : log[e].imei = i /\ e > cursor[i].last + 1
\* Rows without a gps time count here, though fetch_new_events skips them.
HasNew(i) == \E e \in visible : log[e].imei = i /\ e > cursor[i].last

Open(t) == trips[t].status = "open"
\* Fault: only devices that have reported are looked at.
StaleIfReporting(t) == Open(t) /\ age[t] > StaleAge /\ HasNew(trips[t].imei)
Stale(t) == Open(t) /\ age[t] > StaleAge

\* Fault: the timeout leaves the cursor alone.
KeptCursor(i) == cursor[i]
ClearedCursor(i) == IF \E t \in Trip : Stale(t) /\ cursor[i].open = t
                    THEN [cursor[i] EXCEPT !.open = None]
                    ELSE cursor[i]

Idle == /\ dev' = None
        /\ after' = 0
        /\ events' = {}
        /\ rest' = {}
        /\ last' = 0
        /\ open' = None
        /\ inserts' = {}
        /\ closes' = {}

\* timeout_close_stale_open_trips: one transaction over both tables.
TimeoutClose ==
    /\ pc = "timeout"
    /\ trips' = [t \in Trip |-> IF Stale(t) THEN [trips[t] EXCEPT !.status = "closed"]
                                            ELSE trips[t]]
    /\ cursor' = [i \in Imei |-> ClearedCursor(i)]
    /\ age' = [t \in Trip |-> IF Stale(t) THEN 0 ELSE age[t]]
    /\ pc' = "list"
    /\ UNCHANGED <<store, seen, todo, local, faults>>

FetchDevices ==
    /\ pc = "list"
    /\ todo' = {i \in Imei : HasNew(i)}
    /\ pc' = "device"
    /\ UNCHANGED <<store, tables, local, faults>>

\* Fault: the last event id is restored from the trip's first event.
RestoredFromStart(i) ==
    IF cursor[i].open = None THEN None
    ELSE LET r == trips[cursor[i].open]
         IN  [id |-> cursor[i].open, startId |-> r.startId, start |-> r.start,
              lastId |-> r.startId, lastAt |-> r.end, evs |-> r.evs, hits |-> r.hits]

\* Fault: the last event id is restored from end_event_id, NULL on an open row.
RestoredFromEnd(i) ==
    IF cursor[i].open = None THEN None
    ELSE LET r == trips[cursor[i].open]
         IN  [id |-> cursor[i].open, startId |-> r.startId, start |-> r.start,
              lastId |-> r.endId, lastAt |-> r.end, evs |-> r.evs, hits |-> r.hits]

\* fetch_open_trip: the row of the cursor's trip, whatever its status; the last
\* event id is not stored with the trip and is taken from the cursor.
Restored(i) ==
    LET t == cursor[i].open
        r == trips[t]
    IN  IF t = None THEN None
        ELSE [id |-> t, startId |-> r.startId, start |-> r.start,
              lastId |-> cursor[i].last, lastAt |-> r.end, evs |-> r.evs, hits |-> r.hits]

LoadDevice(i) ==
    /\ pc = "device"
    /\ i \in todo
    /\ dev' = i
    /\ after' = cursor[i].last
    /\ open' = Restored(i)
    /\ pc' = "fetch"
    /\ UNCHANGED <<store, tables, todo, events, rest, last, inserts, closes, faults>>

EndPass ==
    /\ pc = "device"
    /\ todo = {}
    /\ pc' = "timeout"
    /\ UNCHANGED <<store, tables, todo, local, faults>>

\* Fault: ORDER BY id DESC under the same limit.
NewestFetched ==
    LET new == {e \in visible : log[e].imei = dev /\ At(e) # None /\ e > after}
    IN  {e \in new : Cardinality({f \in new : f > e}) < FetchLimit}

\* Fault: id >= after_id.
FetchedAgain ==
    LET new == {e \in visible : log[e].imei = dev /\ At(e) # None /\ e >= after}
    IN  {e \in new : Cardinality({f \in new : f < e}) < FetchLimit}

\* The first FetchLimit visible ids of the device behind its cursor.
Fetched ==
    LET new == {e \in visible : log[e].imei = dev /\ At(e) # None /\ e > after}
    IN  {e \in new : Cardinality({f \in new : f < e}) < FetchLimit}

FetchEvents ==
    /\ pc = "fetch"
    /\ Fetched # {}
    /\ events' = Fetched
    /\ rest' = Fetched
    /\ pc' = "detect"
    /\ UNCHANGED <<store, tables, todo, dev, after, last, open, inserts, closes, faults>>

NothingFetched ==
    /\ pc = "fetch"
    /\ Fetched = {}
    /\ todo' = todo \ {dev}
    /\ pc' = "device"
    /\ Idle
    /\ UNCHANGED <<store, tables, faults>>

-----------------------------------------------------------------------------
(* detect_trips: one action per branch of the loop body.  The batch is      *)
(* sorted by gps time, and the sort is stable on a list ordered by id.      *)

Before(e, f) == At(e) < At(f) \/ (At(e) = At(f) /\ e <= f)
IsNext(e) == e \in rest /\ \A f \in rest : Before(e, f)

Inserted(t) == \E a \in inserts : a.id = t
Closed(t) == \E c \in closes : c.id = t
Live(t) == open # None /\ open.id = t

Fresh(t) == trips[t].status = "absent" /\ ~Inserted(t)
IsFresh(t) == Fresh(t) /\ \A u \in Trip : Fresh(u) => t <= u

\* Fault: started_at is not reset when one trip follows another.
NewTripKeepsStart(t, e) ==
    [id |-> t, startId |-> e, start |-> IF open = None THEN At(e) ELSE open.start,
     lastId |-> e, lastAt |-> At(e), evs |-> {e}, hits |-> 1]
NewTrip(t, e) == [id |-> t, startId |-> e, start |-> At(e),
                  lastId |-> e, lastAt |-> At(e), evs |-> {e}, hits |-> 1]

Absorb(trip, e) == [trip EXCEPT !.evs = @ \cup {e}, !.hits = @ + 1]

CloseAt(trip, endId, endAt) ==
    [id |-> trip.id, endId |-> endId, end |-> endAt, evs |-> trip.evs, hits |-> trip.hits]

\* Fault: a gap taken as an absolute value.
Distance(e) == IF At(e) < open.lastAt THEN open.lastAt - At(e) ELSE At(e) - open.lastAt
Gap(e) == At(e) - open.lastAt

Begin(e) == \E t \in Trip : /\ IsFresh(t)
                            /\ open' = NewTrip(t, e)
                            /\ inserts' = inserts \cup {NewTrip(t, e)}

\* The loop moves to the next event; the database is not touched.
Iterate(e) ==
    /\ pc = "detect"
    /\ IsNext(e)
    /\ rest' = rest \ {e}
    /\ last' = e
    /\ UNCHANGED <<store, tables, pc, todo, dev, after, events, faults>>

DropReversed(e) ==
    /\ Iterate(e)
    /\ open # None
    /\ Gap(e) < 0
    /\ UNCHANGED <<open, inserts, closes>>

\* A silent device: the trip ends at its last known event.
CloseOnGap(e) ==
    /\ Iterate(e)
    /\ open # None
    /\ Gap(e) > GapThreshold
    /\ closes' = closes \cup {CloseAt(open, open.lastId, open.lastAt)}
    /\ \/ Ignition(e) = "on" /\ Begin(e)
       \/ Ignition(e) # "on" /\ open' = None /\ UNCHANGED inserts

CloseOnIgnitionOff(e) ==
    /\ Iterate(e)
    /\ open # None
    /\ Gap(e) \in 0..GapThreshold
    /\ Ignition(e) = "off"
    /\ closes' = closes \cup {CloseAt(Absorb(open, e), e, At(e))}
    /\ open' = None
    /\ UNCHANGED inserts

Drive(e) ==
    /\ Iterate(e)
    /\ open # None
    /\ Gap(e) \in 0..GapThreshold
    /\ Ignition(e) # "off"
    /\ open' = [Absorb(open, e) EXCEPT !.lastId = e, !.lastAt = At(e)]
    /\ UNCHANGED <<inserts, closes>>

StartTrip(e) ==
    /\ Iterate(e)
    /\ open = None
    /\ Ignition(e) = "on"
    /\ Begin(e)
    /\ UNCHANGED closes

SkipParked(e) ==
    /\ Iterate(e)
    /\ open = None
    /\ Ignition(e) # "on"
    /\ UNCHANGED <<open, inserts, closes>>

DetectEvent(e) == \/ DropReversed(e)
                  \/ CloseOnGap(e)
                  \/ CloseOnIgnitionOff(e)
                  \/ Drive(e)
                  \/ StartTrip(e)
                  \/ SkipParked(e)

-----------------------------------------------------------------------------
(* The transaction: insert and close in the order of the actions, then the  *)
(* live state of the trip still open, then the cursor.                      *)

InsertRow(t) ==
    LET a == CHOOSE a \in inserts : a.id = t
    IN  [status |-> "open", imei |-> dev, startId |-> a.startId, start |-> a.start,
         endId |-> None, end |-> a.start, evs |-> {}, hits |-> 0]

\* Fault: close_trip leaves the status.
CloseRowKeepsStatus(r, t) ==
    LET c == CHOOSE c \in closes : c.id = t
    IN  [r EXCEPT !.endId = c.endId, !.end = c.end, !.evs = c.evs, !.hits = c.hits]

CloseRow(r, t) ==
    LET c == CHOOSE c \in closes : c.id = t
    IN  [r EXCEPT !.status = "closed", !.endId = c.endId, !.end = c.end,
                  !.evs = c.evs, !.hits = c.hits]

UpdateRow(r) == [r EXCEPT !.end = open.lastAt, !.evs = open.evs, !.hits = open.hits]

Written(t) == Inserted(t) \/ Closed(t) \/ Live(t)

\* An UPDATE of a row that was never inserted changes nothing.
NewRow(t) ==
    LET r == IF Inserted(t) THEN InsertRow(t) ELSE trips[t]
    IN  IF r.status = "absent" THEN r
        ELSE IF Closed(t) THEN CloseRow(r, t)
        ELSE IF Live(t) THEN UpdateRow(r)
        ELSE r

\* Fault: events[0] for events[-1].
CursorAtFirst == [last |-> CHOOSE e \in events : \A f \in events : Before(e, f),
                  open |-> IF open = None THEN None ELSE open.id]

\* Fault: a trip found in this run is not remembered.
CursorUnset == [last |-> last,
                open |-> IF inserts # {} \/ open = None THEN None ELSE open.id]

NewCursor == [last |-> last,
              open |-> IF open = None THEN None ELSE open.id]

Commit ==
    /\ pc = "detect"
    /\ rest = {}
    /\ trips' = [t \in Trip |-> NewRow(t)]
    /\ age' = [t \in Trip |-> IF Written(t) THEN 0 ELSE age[t]]
    /\ cursor' = [cursor EXCEPT ![dev] = NewCursor]
    /\ seen' = seen \cup events
    /\ todo' = todo \ {dev}
    /\ pc' = "device"
    /\ Idle
    /\ UNCHANGED <<store, faults>>

-----------------------------------------------------------------------------
(* Faults and time *)

\* An exception between two database calls of one device: the transaction rolls
\* back, the loop goes on with the next device.
SkipDevice ==
    /\ faults < MaxFaults
    /\ pc \in {"fetch", "detect"}
    /\ faults' = faults + 1
    /\ todo' = todo \ {dev}
    /\ pc' = "device"
    /\ Idle
    /\ UNCHANGED <<store, tables>>

\* The container restarts, or the pass itself fails: the next pass starts afresh.
Restart ==
    /\ faults < MaxFaults
    /\ pc # "timeout"
    /\ faults' = faults + 1
    /\ todo' = {}
    /\ pc' = "timeout"
    /\ Idle
    /\ UNCHANGED <<store, tables>>

Older(t) == IF Open(t) /\ age[t] <= StaleAge THEN age[t] + 1 ELSE age[t]

Tick ==
    /\ age' = [t \in Trip |-> Older(t)]
    /\ age' # age
    /\ UNCHANGED <<store, cursor, trips, seen, pc, todo, local, faults>>

Init ==
    /\ log = <<>>
    /\ visible = {}
    /\ cursor = [i \in Imei |-> [last |-> 0, open |-> None]]
    /\ trips = [t \in Trip |-> Absent]
    /\ age = [t \in Trip |-> 0]
    /\ seen = {}
    /\ pc = "timeout"
    /\ todo = {}
    /\ dev = None
    /\ after = 0
    /\ events = {}
    /\ rest = {}
    /\ last = 0
    /\ open = None
    /\ inserts = {}
    /\ closes = {}
    /\ faults = 0

Work ==
    \/ TimeoutClose
    \/ FetchDevices
    \/ \E i \in Imei : LoadDevice(i)
    \/ EndPass
    \/ FetchEvents
    \/ NothingFetched
    \/ \E e \in Id : DetectEvent(e)
    \/ Commit

Next ==
    \/ \E i \in Imei : StoreEvent(i)
    \/ \E e \in Id : CommitEvent(e)
    \/ Work
    \/ SkipDevice
    \/ Restart
    \/ Tick

Spec == Init /\ [][Next]_vars

\* The worker keeps polling and time passes; nothing obliges a device to report
\* or an insert to commit.
FairSpec == Spec /\ WF_vars(Work) /\ WF_vars(Tick)

-----------------------------------------------------------------------------
(* What the readers of vehicle_trips are promised *)

ReaderRow(t) == [status |-> trips[t].status, device |-> trips[t].imei,
                 start |-> trips[t].start, end |-> trips[t].end]

Readers == INSTANCE TripLog WITH
    Device <- Imei, TripId <- Trip, Nothing <- None,
    position <- [i \in Imei |-> cursor[i].last],
    current <- [i \in Imei |-> cursor[i].open],
    row <- [t \in Trip |-> ReaderRow(t)]

-----------------------------------------------------------------------------
(* Properties *)

Row == [status : {"absent", "open", "closed"}, imei : Imei \cup {None},
        startId : Nat, start : Nat, endId : Nat \cup {None}, end : Nat,
        evs : SUBSET Nat, hits : Nat]
CloseAction == [id : Trip, endId : Nat, end : Nat, evs : SUBSET Nat, hits : Nat]

\* Every variable of the worker and of its tables keeps its type.
TypeOK ==
    /\ log \in Seq(Event)
    /\ visible \subseteq Id
    /\ cursor \in [Imei -> [last : Nat, open : Trip \cup {None}]]
    /\ trips \in [Trip -> Row]
    /\ age \in [Trip -> 0..StaleAge + 1]
    /\ seen \subseteq visible
    /\ pc \in {"timeout", "list", "device", "fetch", "detect"}
    /\ todo \subseteq Imei
    /\ dev \in Imei \cup {None}
    /\ after \in Nat
    /\ events \subseteq visible
    /\ rest \subseteq events
    /\ last \in Nat
    /\ open \in OpenTrip \cup {None}
    /\ inserts \subseteq OpenTrip
    /\ closes \subseteq CloseAction
    /\ faults \in 0..MaxFaults

\* A device has at most one open row, and it is the one its cursor names: the trips
\* and the cursor are written by one transaction, in a detector run and in a timeout.
OneOpenTrip ==
    \A i \in Imei, t \in Trip : (Open(t) /\ trips[t].imei = i) <=> cursor[i].open = t

\* Between two devices nothing local is left; inside one, the worker still holds the
\* cursor position that is in the table.
LocalOK ==
    IF pc \in {"fetch", "detect"}
    THEN dev \in todo /\ after = cursor[dev].last
    ELSE dev = None /\ open = None /\ inserts = {} /\ closes = {} /\ events = {}

\* The batch lies behind the cursor and every event of it can be compared by time.
BatchOK ==
    pc = "detect" =>
        /\ \A e \in events : e > after /\ At(e) # None /\ log[e].imei = dev
        /\ events # {}
        /\ rest # events => last \in events

\* The actions to be written account for the trip the cursor names and for every trip
\* begun in this run: each is closed exactly or still live, never both, never neither.
ActionsOK ==
    pc \in {"fetch", "detect"} => \A t \in Trip :
        /\ Inserted(t) => trips[t].status = "absent"
        /\ (Closed(t) \/ Live(t)) <=> (Inserted(t) \/ t = cursor[dev].open)
        /\ ~(Closed(t) /\ Live(t))

\* The inductive invariant of OneOpenTrip, CursorAdvances and ClosedIsFinal.
Consistent == TypeOK /\ LocalOK /\ BatchOK /\ ActionsOK /\ OneOpenTrip

\* In a device's run no trip is shorter than when it was begun or restored.
TimesOK ==
    pc \in {"fetch", "detect"} =>
        /\ \A a \in inserts, c \in closes : a.id = c.id => a.start <= c.end
        /\ \A a \in inserts : Live(a.id) => a.start <= open.lastAt
        /\ \A c \in closes : c.id = cursor[dev].open => trips[c.id].end <= c.end
        /\ Live(cursor[dev].open) => trips[cursor[dev].open].end <= open.lastAt

\* A trip lies around the events it has absorbed, all of them from its own device.
EventsWithinTrip ==
    \A t \in Trip : \A e \in trips[t].evs :
        /\ log[e].imei = trips[t].imei
        /\ At(e) \in trips[t].start..trips[t].end

\* Where a trip of this run starts: in an action to insert it, or in its row.
Starts(t) == {a.start : a \in {b \in inserts : b.id = t}}
               \cup (IF cursor[dev].open = t THEN {trips[t].start} ELSE {})

\* The events of a run's trips are its device's and lie between the trips' times.
SpansOK ==
    /\ \A t \in Trip : trips[t].evs \subseteq Id /\ trips[t].start <= trips[t].end
    /\ pc \in {"fetch", "detect"} =>
         /\ \A c \in closes : \A e \in c.evs :
               e \in Id /\ log[e].imei = dev /\ At(e) \in 0..c.end
         /\ open # None =>
               /\ open.start <= open.lastAt
               /\ \A e \in open.evs :
                     e \in Id /\ log[e].imei = dev /\ At(e) \in open.start..open.lastAt
         /\ \A t \in Trip : \A s \in Starts(t) :
               /\ Live(t) => s = open.start
               /\ \A c \in closes : c.id = t =>
                     s <= c.end /\ \A e \in c.evs : s <= At(e)

Counted(r) == IsFiniteSet(r.evs) /\ r.hits = Cardinality(r.evs)

\* Rows, closes and the live trip count each event they name once.
CountsOK == /\ \A t \in Trip : Counted(trips[t])
            /\ \A c \in closes : Counted(c)
            /\ open # None => Counted(open)

\* An event that could reach the detector again, because the cursor stopped at a
\* lower id, is older than the last event of the open trip and will be dropped.
OrderOK ==
    /\ \A i \in Imei : cursor[i].open # None =>
         \A e \in trips[cursor[i].open].evs :
            e <= cursor[i].last \/ At(e) < trips[cursor[i].open].end
    /\ pc = "fetch" => events = {}
    /\ pc = "detect" => \A e \in events \ rest :
                          Before(e, last) /\ \A f \in rest : Before(e, f)
    /\ (pc \in {"fetch", "detect"} /\ open # None) =>
         /\ \A e \in open.evs : e <= after \/ At(e) < open.lastAt \/ e \in events \ rest
         /\ rest # events => At(last) <= open.lastAt

\* The inductive invariant of CountedOnce and EventsWithinTrip, beside Consistent.
Accounted == SpansOK /\ CountsOK /\ OrderOK /\ EventsWithinTrip

\* The cursor never moves back, though it is set to the id of the latest event by
\* gps time, which need not be the highest id of the batch (service.py, last_event_id).
CursorAdvances ==
    [][\A i \in Imei : \/ cursor'[i].last > cursor[i].last
                       \/ /\ cursor'[i].last = cursor[i].last
                          /\ cursor'[i].open \in {cursor[i].open, None}]_vars

\* A closed row is final: no detector run restores a trip that the timeout or an
\* earlier run has closed, although close_trip and update_open_trip never look at
\* the status.
ClosedIsFinal ==
    [][\A t \in Trip : trips[t].status = "closed" => trips'[t] = trips[t]]_vars

\* A trip's accumulators absorb an event once, although events behind the latest
\* one are fetched again by the next run: such an event reaches the detector only as
\* a reversed one while the trip is open.
CountedOnce ==
    \A t \in Trip : trips[t].hits = Cardinality(trips[t].evs)

Present(t) == trips[t].status # "absent"

\* Two trips of one device do not overlap in time.
TripsDisjoint ==
    \A t, u \in Trip :
        (t # u /\ Present(t) /\ Present(u) /\ trips[t].imei = trips[u].imei) =>
            trips[t].end <= trips[u].start \/ trips[u].end <= trips[t].start

\* No event is absorbed by two trips.
CountedInOneTrip ==
    \A t, u \in Trip : t # u => trips[t].evs \cap trips[u].evs = {}

\* The end event recorded with a trip is the one whose time ends the trip.
EndEventMatches ==
    \A t \in Trip : trips[t].endId # None => At(trips[t].endId) = trips[t].end

\* The cursor passes no visible event that the detector has not examined.
NothingSkipped ==
    \A e \in visible : (At(e) # None /\ e <= cursor[log[e].imei].last) => e \in seen

(* Why these hold when a device's rows become visible in id order (CommitOrdered), or  *)
(* when it reports in the order of its clock (TimeOrdered).                            *)

\* The cursor stands on an event of its device that can be compared by time.
CursorOK ==
    \A i \in Imei : LET e == cursor[i].last IN
        e # 0 => e \in visible /\ log[e].imei = i /\ At(e) # None

\* Rows become visible in id order, and a batch is a prefix of what is behind the cursor.
VisibleInOrder ==
    /\ \A e \in visible, f \in Id : f < e /\ log[f].imei = log[e].imei => f \in visible
    /\ pc = "detect" =>
         \A e \in events, f \in visible :
            after < f /\ f < e /\ log[f].imei = dev /\ At(f) # None => f \in events

\* The inductive invariant of NothingSkipped, beside Consistent.
Passed == CursorOK /\ VisibleInOrder /\ NothingSkipped

\* A device's clock does not run back.
LogInOrder ==
    \A e, f \in Id : /\ e < f /\ log[e].imei = log[f].imei
                     /\ At(e) # None /\ At(f) # None
                     => At(e) <= At(f)

\* Everything in a device's rows lies at or before its cursor, and its open trip, which
\* the cursor's event ended so far, behind all its other trips.
RowsBehindCursor ==
    \A t \in Trip :
        /\ ~Present(t) => trips[t] = Absent
        /\ Open(t) => trips[t].endId = None
        /\ trips[t].endId \in Id \cup {None}
        /\ Present(t) =>
             LET i == trips[t].imei
                 e == cursor[i].last
             IN  /\ i \in Imei /\ e # 0
                 /\ trips[t].end <= At(e)
                 /\ \A f \in trips[t].evs : f <= e
                 /\ cursor[i].open = t => trips[t].end = At(e)
                 /\ cursor[i].open \notin {t, None} =>
                      trips[t].end <= trips[cursor[i].open].start

\* The event that the run of a device has got to.
Reached == IF pc = "detect" /\ rest # events THEN last ELSE after

\* What the run has gathered lies at or before that event, the rest of the batch behind
\* it, and the live trip ends with it.
RunReached ==
    pc \in {"fetch", "detect"} =>
        /\ Reached # 0 => Reached \in visible /\ log[Reached].imei = dev /\ At(Reached) # None
        /\ after <= Reached
        /\ \A e \in rest : Reached < e
        /\ open # None => /\ open.lastId = Reached /\ Reached # 0
                          /\ open.lastAt = At(Reached)
                          /\ \A e \in open.evs : e <= Reached
        /\ \A c \in closes : /\ Reached # 0
                             /\ c.endId \in Id /\ c.end = At(c.endId)
                             /\ c.end <= At(Reached)
                             /\ \A e \in c.evs : e <= Reached

\* The trips a run has closed share no event and no time, nor any with its live trip.
ClosesApart ==
    \A c \in closes :
        /\ \A d \in closes : c.id # d.id =>
             /\ c.evs \cap d.evs = {}
             /\ \A s \in Starts(c.id), v \in Starts(d.id) : c.end <= v \/ d.end <= s
        /\ open # None => c.evs \cap open.evs = {} /\ c.end <= open.start

\* Nor do they share an event with another row, or time with another one of the device.
RowsApart ==
    /\ \A t \in Trip :
         /\ \A c \in closes : t # c.id => c.evs \cap trips[t].evs = {}
         /\ open # None /\ t # open.id => open.evs \cap trips[t].evs = {}
    /\ \A t \in Trip : (Present(t) /\ trips[t].imei = dev /\ t # cursor[dev].open) =>
         \A u \in Trip : \A s \in Starts(u) : trips[t].end <= s

\* What a run has closed and what it still drives are disjoint, and later than the rows.
RunDisjoint == pc \in {"fetch", "detect"} => ClosesApart /\ RowsApart

\* The inductive invariant of TripsDisjoint, CountedInOneTrip and EndEventMatches, beside
\* Consistent and Accounted.
InOrder == /\ CursorOK /\ LogInOrder /\ RowsBehindCursor /\ RunReached /\ RunDisjoint
           /\ TripsDisjoint /\ CountedInOneTrip /\ EndEventMatches

\* Every visible event with a gps time is passed by its device's cursor.
AllProcessed ==
    \A e \in 1..MaxEvents :
        (e \in visible /\ At(e) # None) ~> (e \in visible /\ e <= cursor[log[e].imei].last)

\* Every trip ends: by ignition, by a gap, or by the timeout once nothing arrives.
TripsEnd == \A t \in Trip : Open(t) ~> ~Open(t)

\* The detector keeps the promise of TripLog to the readers of vehicle_trips.
KeepsPromise == Readers!Spec

=============================================================================
