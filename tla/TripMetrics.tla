---------------------------- MODULE TripMetrics ----------------------------
(***************************************************************************)
(* What the trip detector accumulates along one trip: distance from the    *)
(* odometer or from the positions, its day and night shares, and speeds    *)
(* (workers/trips/detector.py, utils.py), saved after every batch and      *)
(* restored before the next (repository.py).                               *)
(*                                                                         *)
(* Time is in tens of minutes since midnight of some day, distance in      *)
(* twelfths of a kilometre, a share of it in ninths of ten centimetres.    *)
(* `mirror' is the same trip never saved, restored or rounded.             *)
(***************************************************************************)
EXTENDS Integers, Sequences, FiniteSets, SequencesExt

CONSTANTS
    Unknown,         \* a missing reading; differs from every number
    Reading,         \* what an event can carry: odometer, position, speed, packet
    StartTime,       \* times at which a trip can begin
    MaxEvents        \* bound on the events of the trip

\* Numbers, or missing; the odometer and the coordinates are not restricted to a range.
Measured == Int \cup {Unknown}
Position == [lat : Measured, lon : Measured]
ASSUME ReadingAssumption ==
    /\ Reading \subseteq [odo : Measured, pos : Position, speed : Measured, alert : BOOLEAN]
    /\ StartTime \subseteq Nat
    /\ MaxEvents \in Nat \ {0}

\* workers/trips/constants.py
GapThreshold == 3                  \* 30 minutes
Hour == 6
NightStart == 20 * Hour
NightEnd == 5 * Hour
DayLength == 24 * Hour
ResetThreshold == 500 * 12
NoiseThreshold == 12
MinSpeed == 2
MaxSpeed == 150

VARIABLES
    phase,    \* "idle", "open" or "closed"
    trip,     \* the OpenTrip of the worker
    mirror,   \* history: what it would be in a worker that never saves
    events,   \* history: the events absorbed so far, with their times
    roundings, \* history: saves so far that rounded a share
    blurred   \* history: a segment was measured from a position the restore had replaced

metricsVars == <<phase, trip, mirror, events, roundings, blurred>>

-----------------------------------------------------------------------------
(* Distance *)

Odd(c, bound) == c = Unknown \/ c = 0 \/ c < -bound \/ c > bound
Abs(n) == IF n < 0 THEN -n ELSE n
\* haversine_km: nothing when a coordinate is missing, zero or out of range; otherwise
\* a metric, here the one of a grid whose lines are 3 km apart.
Straight(p, q) ==
    IF \E r \in {p, q} : Odd(r.lat, 90) \/ Odd(r.lon, 180) THEN 0
    ELSE 36 * (Abs(p.lat - q.lat) + Abs(p.lon - q.lon))

\* Without two readings, or after a jump, the positions measure.
ByPosition(odo, e) == odo = Unknown \/ e.odo = Unknown \/ e.odo - odo > ResetThreshold
\* segment_distance
Segment(odo, pos, e) ==
    IF ByPosition(odo, e) THEN Straight(pos, e.pos)
    ELSE IF e.odo < odo THEN 0 ELSE e.odo - odo

\* Fault: the reading is kept whatever it is.
OdometerLatest(odo, e) == IF e.odo = Unknown THEN odo ELSE e.odo
\* A small step back is noise: the reading before it is kept.
Odometer(odo, e) ==
    IF e.odo # Unknown /\ (odo = Unknown \/ e.odo >= odo \/ odo - e.odo >= NoiseThreshold)
    THEN e.odo ELSE odo

-----------------------------------------------------------------------------
(* Day and night *)

IsNight(t) == LET h == t % DayLength IN h >= NightStart \/ h < NightEnd

\* Fault: only the begin of the night splits a segment.
CrossingsDusk(from, to) == {b \in from + 1 .. to - 1 : b % DayLength = NightStart}
Crossings(from, to) == {b \in from + 1 .. to - 1 : b % DayLength \in {NightStart, NightEnd}}

\* The boundaries cut a segment in pieces; as none is within a piece, its first moment says
\* which share it belongs to, as its midpoint does.
Pieces(from, to) ==
    LET cuts == {from, to} \cup Crossings(from, to)
    IN  {p \in cuts \X cuts : p[1] < p[2] /\ \A c \in cuts : ~(p[1] < c /\ c < p[2])}
NightTime(from, to) ==
    FoldFunction(+, 0, [p \in {q \in Pieces(from, to) : IsNight(q[1])} |-> p[2] - p[1]])

\* Shares of the distance are counted in ninths of ten centimetres, of which a unit of
\* distance has Fine: as no segment lasts more than three units of time, the ratio is exact
\* (the code's is one of floating point).
Fine == 7500

\* _day_night_split
Split(from, to, distance) ==
    LET night == NightTime(from, to)
        day == to - from - night
        share(time) == (Fine * time * distance) \div (to - from)
    IN  IF to <= from
        THEN [day |-> 0, night |-> 0, dayTime |-> 0, nightTime |-> 0]
        ELSE [day |-> share(day), night |-> share(night), dayTime |-> day, nightTime |-> night]

-----------------------------------------------------------------------------
(* Speeds and alerts *)

Valid(speed) == speed # Unknown /\ speed >= 0 /\ speed <= MaxSpeed
\* _accumulate_speed, _accumulate_harsh_events
Observe(t, e) ==
    [t EXCEPT !.max = IF Valid(e.speed) /\ (@ = Unknown \/ e.speed > @) THEN e.speed ELSE @,
              !.min = IF Valid(e.speed) /\ e.speed >= MinSpeed /\ (@ = Unknown \/ e.speed < @)
                      THEN e.speed ELSE @,
              !.alerts = IF e.alert THEN @ + 1 ELSE @]

-----------------------------------------------------------------------------
(* One event *)

\* new_open_trip
Begun(at, e) ==
    Observe([startAt |-> at, start |-> e.pos, at |-> at, pos |-> e.pos, odo |-> e.odo,
             distance |-> 0, day |-> 0, night |-> 0, dayTime |-> 0, nightTime |-> 0,
             max |-> Unknown, min |-> Unknown, alerts |-> 0], e)

\* The accumulators after the segment to an event; the rest of the trip is the caller's.
Driven(t, at, e) ==
    LET segment == Segment(t.odo, t.pos, e)
        split == Split(t.at, at, segment)
    IN  Observe([t EXCEPT !.distance = @ + segment,
                          !.day = @ + split.day, !.night = @ + split.night,
                          !.dayTime = @ + split.dayTime,
                          !.nightTime = @ + split.nightTime], e)

Moved(t, at, e) ==
    [Driven(t, at, e) EXCEPT !.at = at, !.pos = e.pos, !.odo = Odometer(t.odo, e)]
Ended(t, at, e) == [Driven(t, at, e) EXCEPT !.at = at, !.pos = e.pos]

-----------------------------------------------------------------------------
(* Saved and restored *)

\* A stored share is rounded to four decimals of a kilometre, ten centimetres; there are
\* no ties, as nine is odd.
Grid == 9
\* Fault: the decimals are cut off.
RoundedDown(share) == (share \div Grid) * Grid
Rounded(share) == ((share + Grid \div 2) \div Grid) * Grid

\* update_open_trip and update_cursor, _close_trip.  Times are of whole seconds, so int()
\* changes no duration.
Saved(t) == [t EXCEPT !.day = Rounded(@), !.night = Rounded(@)]

KnownCoordinate(c) == c # Unknown /\ c # 0
Or(c, d) == IF KnownCoordinate(c) THEN c ELSE d
\* Fault: the odometer of the cursor is not restored.
RestoredBare(t) == [t EXCEPT !.odo = Unknown]
\* fetch_open_trip, of what was saved
Restored(t) == [t EXCEPT !.pos = [lat |-> Or(t.pos.lat, t.start.lat),
                                  lon |-> Or(t.pos.lon, t.start.lon)]]

-----------------------------------------------------------------------------
(* Actions *)

Absorbed(at, e) == events' = Append(events, [at |-> at, reading |-> e])
\* The history of a save and of a segment.
Tallied(t) == roundings' = IF Saved(t) = t THEN roundings ELSE roundings + 1
Blurs(e) == blurred' = (blurred \/ (ByPosition(trip.odo, e) /\ trip.pos # mirror.pos))

\* Ignition on, no trip open.
StartTrip ==
    /\ phase = "idle"
    /\ phase' = "open"
    /\ \E at \in StartTime, e \in Reading :
          /\ trip' = Begun(at, e) /\ mirror' = Begun(at, e)
          /\ Absorbed(at, e)
    /\ UNCHANGED <<roundings, blurred>>

\* Ignition on or unknown, within the gap.
Drive ==
    /\ phase = "open" /\ Len(events) < MaxEvents
    /\ \E gap \in 0..GapThreshold, e \in Reading :
          LET at == trip.at + gap
          IN  /\ trip' = Moved(trip, at, e)
              /\ mirror' = Moved(mirror, at, e)
              /\ Absorbed(at, e) /\ Blurs(e)
    /\ UNCHANGED <<phase, roundings>>

\* Ignition off: the last segment counts, and the trip is closed at this event.
Stop ==
    /\ phase = "open" /\ Len(events) < MaxEvents
    /\ phase' = "closed"
    /\ \E gap \in 0..GapThreshold, e \in Reading :
          LET at == trip.at + gap
          IN  /\ trip' = Saved(Ended(trip, at, e)) /\ Tallied(Ended(trip, at, e))
              /\ mirror' = Ended(mirror, at, e)
              /\ Absorbed(at, e) /\ Blurs(e)

\* A longer gap, or the timeout: closed at the last event.  The timeout closes a row that
\* is saved already, and rounding twice is rounding once.
Silence ==
    /\ phase = "open"
    /\ phase' = "closed"
    /\ trip' = Saved(trip) /\ Tallied(trip)
    /\ UNCHANGED <<mirror, events, blurred>>

\* The batch ends here; the trip continues in the next run.
NextBatch ==
    /\ phase = "open"
    /\ trip' = Restored(Saved(trip)) /\ Tallied(trip)
    /\ UNCHANGED <<phase, mirror, events, blurred>>

MetricsInit ==
    /\ phase = "idle" /\ blurred = FALSE /\ events = <<>> /\ roundings = 0
    /\ trip = [distance |-> 0] /\ mirror = trip

MetricsNext == StartTrip \/ Drive \/ Stop \/ Silence \/ NextBatch

MetricsSpec == MetricsInit /\ [][MetricsNext]_metricsVars

-----------------------------------------------------------------------------
(* Properties *)

MetricsTypeOK ==
    /\ phase \in {"idle", "open", "closed"} /\ blurred \in BOOLEAN
    /\ Len(events) <= MaxEvents /\ roundings \in Nat
    /\ phase # "idle" =>
          /\ trip.distance \in Nat /\ trip.day \in Nat /\ trip.night \in Nat
          /\ trip.max = Unknown \/ trip.max \in 0..MaxSpeed
          /\ trip.min = Unknown \/ trip.min \in MinSpeed..MaxSpeed

Untouched == {"startAt", "start", "at", "odo", "dayTime", "nightTime", "max", "min", "alerts"}
\* Where the batches of the worker end shows in the shares by half a grid step for each save
\* that rounded, and in the distance only where a zero or missing position was replaced by
\* the start before a segment was measured from it, which never makes a trip shorter.
SplitInvisible ==
    phase # "idle" =>
        /\ \A part \in Untouched : trip[part] = mirror[part]
        /\ \A c \in {"lat", "lon"} : KnownCoordinate(mirror.pos[c]) => trip.pos[c] = mirror.pos[c]
        /\ trip.distance >= mirror.distance
        /\ ~blurred => trip.distance = mirror.distance
        /\ \A share \in {"day", "night"} :
              /\ 2 * (mirror[share] - trip[share]) <= Grid * roundings
              /\ ~blurred => 2 * (trip[share] - mirror[share]) <= Grid * roundings

Odo(i) == events[i].reading.odo
Highest(i) == CHOOSE o \in {Odo(j) : j \in 1..i} : \A j \in 1..i : Odo(j) <= o
\* Every reading so far was present and close enough to the highest before it.
Steady ==
    /\ \A i \in DOMAIN events : Odo(i) # Unknown
    /\ \A i \in 2..Len(events) : /\ Odo(i) - Highest(i - 1) <= ResetThreshold
                                 /\ Highest(i - 1) - Odo(i) < NoiseThreshold

\* With a steady odometer the distance is what it advanced, jitter never added up, for
\* any batches and times.
OdometerTelescopes ==
    phase # "idle" /\ Steady => trip.distance = Highest(Len(events)) - Odo(1)

\* The day and night seconds of a trip are those of the hours between its first and its
\* last event, none missing and none counted twice where night or day begins.
HoursAddUp ==
    phase # "idle" =>
        LET hours == trip.startAt .. trip.at - 1
        IN  /\ trip.nightTime = Cardinality({h \in hours : IsNight(h)})
            /\ trip.dayTime = Cardinality({h \in hours : ~IsNight(h)})

\* The shares add up to the distance when no two events have one time, to half a grid step
\* for each share of a save that rounded; otherwise what was driven between those is in the
\* total only.
SharesAddUp ==
    phase # "idle" =>
        /\ trip.day + trip.night <= Fine * trip.distance + Grid * roundings
        /\ (\A i \in 2..Len(events) : events[i - 1].at < events[i].at) =>
              trip.day + trip.night >= Fine * trip.distance - Grid * roundings

\* The lowest and highest speeds and the alerts are those of all events of the trip,
\* for any batches: the highest of the valid speeds, the lowest of those that are not idle.
ExtremesMatch ==
    LET speeds == {events[i].reading.speed : i \in DOMAIN events}
        valid == {s \in speeds : Valid(s)}
        moving == {s \in valid : s >= MinSpeed}
    IN  phase # "idle" =>
            /\ IF valid = {} THEN trip.max = Unknown
               ELSE trip.max \in valid /\ \A s \in valid : s <= trip.max
            /\ IF moving = {} THEN trip.min = Unknown
               ELSE trip.min \in moving /\ \A s \in moving : trip.min <= s
            /\ trip.alerts = Cardinality({i \in DOMAIN events : events[i].reading.alert})

\* The metrics of a trip are those of its events, for any batches: the parts above.
MetricsMatch == HoursAddUp /\ SharesAddUp /\ ExtremesMatch

\* What the comments on the thresholds say: a step back of a kilometre or more is a
\* reset of the odometer, and the segment counts with the distance of its positions.
ResetFallsBack ==
    [][\A i \in {Len(events')} :
          i > 1 /\ events' # events /\ events'[i].reading.odo # Unknown
             /\ trip.odo # Unknown /\ trip.odo - events'[i].reading.odo >= NoiseThreshold
          => trip'.distance - trip.distance = Straight(trip.pos, events'[i].reading.pos)]_metricsVars

=============================================================================
