-------------------------- MODULE TripEventsProofs --------------------------
(***************************************************************************)
(* The events of a trip, for any devices, trips, bounds and delivery: they *)
(* lie within the trip and each is absorbed once, although the cursor may  *)
(* stop at an id below ids already absorbed.                               *)
(***************************************************************************)
EXTENDS TripWorkerProofs, FiniteSetTheorems

USE DEF Open

-----------------------------------------------------------------------------
(* What the steps do *)

\* The worker never writes the log: an event is stored, or becomes visible, or neither.
LEMMA StoreSteps ==
    ASSUME [Next]_vars
    PROVE  \/ log' = log /\ visible' = visible
           \/ \E i \in Imei : StoreEvent(i)
           \/ \E e \in Id : CommitEvent(e)
<1>1. CASE \E e \in Id : DetectEvent(e)
    BY <1>1 DEF DetectEvent, DropReversed, CloseOnGap, CloseOnIgnitionOff, Drive,
                StartTrip, SkipParked, Iterate, store
<1>2. CASE Work /\ ~(\E e \in Id : DetectEvent(e))
    BY <1>2 DEF Work, TimeoutClose, FetchDevices, LoadDevice, EndPass, FetchEvents,
                NothingFetched, Commit, store
<1>3. CASE ~Work
    BY <1>3 DEF Next, SkipDevice, Restart, Tick, store, vars
<1> QED
    BY <1>1, <1>2, <1>3

\* A stored event never changes and a visible one stays visible.
LEMMA LogGrows ==
    ASSUME Consistent, [Next]_vars
    PROVE  /\ \A e \in Id : e \in Id' /\ log'[e] = log[e]
           /\ visible \subseteq visible'
<1>1. CASE \E i \in Imei : StoreEvent(i)
  <2>1. PICK i \in Imei, g \in Gps \cup {None}, ign \in {"on", "off", "null"} :
          /\ log' = Append(log, [imei |-> i, gps |-> g, ignition |-> ign])
          /\ visible' = visible
    BY <1>1 DEF StoreEvent
  <2> QED
    BY <2>1 DEF Consistent, TypeOK, Id
<1>2. CASE log' = log /\ visible' = visible
    BY <1>2 DEF Id
<1>3. CASE \E e \in Id : CommitEvent(e)
    BY <1>3 DEF CommitEvent, Id
<1> QED
    BY <1>1, <1>2, <1>3, StoreSteps

\* The steps that touch rows or the worker's memory; any other leaves both alone or
\* finds or makes the worker idle.
LEMMA StepKinds ==
    ASSUME Consistent, [Next]_vars
    PROVE  \/ TimeoutClose
           \/ \E i \in Imei : LoadDevice(i)
           \/ FetchEvents
           \/ \E e \in Id : DetectEvent(e)
           \/ Commit
           \/ /\ UNCHANGED <<cursor, trips>>
              /\ \/ UNCHANGED <<pc, dev, after, events, rest, last, open, inserts, closes>>
                 \/ pc' \notin {"fetch", "detect"} /\ open' = None /\ closes' = {}
<1>1. CASE Work
  <2>1. CASE FetchDevices \/ EndPass
    BY <2>1 DEF FetchDevices, EndPass, Consistent, LocalOK, tables, local
  <2>2. CASE NothingFetched
    BY <2>2 DEF NothingFetched, Idle, tables
  <2> QED
    BY <1>1, <2>1, <2>2 DEF Work
<1>2. CASE SkipDevice \/ Restart
    BY <1>2 DEF SkipDevice, Restart, Idle, tables
<1>3. CASE (\E i \in Imei : StoreEvent(i)) \/ (\E e \in Id : CommitEvent(e)) \/ Tick
    BY <1>3 DEF StoreEvent, CommitEvent, Tick, tables, local
<1>4. CASE UNCHANGED vars
    BY <1>4 DEF vars
<1> QED
    BY <1>1, <1>2, <1>3, <1>4 DEF Next

\* The next event of the batch.
LEMMA NextEventFacts ==
    ASSUME NEW e, Consistent, Iterate(e)
    PROVE  /\ e \in rest /\ e \in events /\ e \in Id /\ e \in Nat /\ e > after
           /\ log[e].imei = dev /\ At(e) \in Nat
           /\ \A f \in rest : Before(e, f)
           /\ rest' = rest \ {e} /\ last' = e
<1>1. e \in rest /\ e \in events /\ e \in Id
    BY DEF Iterate, IsNext, Consistent, TypeOK
<1> QED
    BY <1>1, IterateFacts DEF Iterate, IsNext, Consistent, BatchOK

\* A drive absorbs the event into the live trip.
LEMMA DriveFacts ==
    ASSUME NEW e, Consistent, Drive(e)
    PROVE  /\ open \in OpenTrip /\ open # None /\ open' \in OpenTrip
           /\ open'.id = open.id /\ open'.start = open.start
           /\ open'.evs = open.evs \cup {e} /\ open'.hits = open.hits + 1
           /\ open'.lastId = e /\ open'.lastAt = At(e) /\ At(e) >= open.lastAt
           /\ UNCHANGED <<inserts, closes>>
<1>1. /\ open # None /\ Gap(e) \in 0..GapThreshold
      /\ open' = [Absorb(open, e) EXCEPT !.lastId = e, !.lastAt = At(e)]
      /\ UNCHANGED <<inserts, closes>>
      /\ e \in Nat /\ At(e) \in Nat
    BY IterateFacts DEF Drive
<1>2. open \in OpenTrip
    BY <1>1 DEF Consistent, TypeOK
<1>3. At(e) >= open.lastAt
    BY <1>1, <1>2, BoundAssumption DEF Gap, OpenTrip
<1>4. Absorb(open, e) \in OpenTrip
    BY <1>1, <1>2, AbsorbFacts
<1>5. /\ Absorb(open, e).id = open.id /\ Absorb(open, e).start = open.start
      /\ Absorb(open, e).evs = open.evs \cup {e} /\ Absorb(open, e).hits = open.hits + 1
    BY <1>2 DEF Absorb, OpenTrip
<1> QED
    BY <1>1, <1>2, <1>3, <1>4, <1>5 DEF OpenTrip

\* A gap closes the live trip as it is.
LEMMA GapClose ==
    ASSUME NEW e, Consistent, CloseOnGap(e)
    PROVE  /\ open \in OpenTrip /\ open # None
           /\ \E c \in CloseAction :
                /\ c.id = open.id /\ c.endId = open.lastId /\ c.end = open.lastAt
                /\ c.evs = open.evs /\ c.hits = open.hits
                /\ closes' = closes \cup {c}
<1>1. /\ open # None
      /\ closes' = closes \cup {CloseAt(open, open.lastId, open.lastAt)}
    BY DEF CloseOnGap
<1>2. open \in OpenTrip
    BY <1>1 DEF Consistent, TypeOK
<1> QED
    BY <1>1, <1>2 DEF CloseAt, OpenTrip, CloseAction

\* Ignition off absorbs the event and closes the live trip with it.
LEMMA IgnitionClose ==
    ASSUME NEW e, Consistent, CloseOnIgnitionOff(e)
    PROVE  /\ open \in OpenTrip /\ open # None /\ open' = None /\ inserts' = inserts
           /\ At(e) >= open.lastAt
           /\ \E c \in CloseAction :
                /\ c.id = open.id /\ c.endId = e /\ c.end = At(e)
                /\ c.evs = open.evs \cup {e} /\ c.hits = open.hits + 1
                /\ closes' = closes \cup {c}
<1>1. /\ open # None /\ Gap(e) \in 0..GapThreshold /\ open' = None /\ inserts' = inserts
      /\ closes' = closes \cup {CloseAt(Absorb(open, e), e, At(e))}
      /\ e \in Nat /\ At(e) \in Nat
    BY IterateFacts DEF CloseOnIgnitionOff
<1>2. open \in OpenTrip
    BY <1>1 DEF Consistent, TypeOK
<1>3. At(e) >= open.lastAt
    BY <1>1, <1>2, BoundAssumption DEF Gap, OpenTrip
<1>4. /\ Absorb(open, e) \in OpenTrip /\ Absorb(open, e).id = open.id
      /\ Absorb(open, e).evs = open.evs \cup {e} /\ Absorb(open, e).hits = open.hits + 1
    BY <1>1, <1>2, AbsorbFacts DEF Absorb, OpenTrip
<1>5. CloseAt(Absorb(open, e), e, At(e)) \in CloseAction
    BY <1>1, <1>4, AbsorbFacts
<1> QED
    BY <1>1, <1>2, <1>3, <1>4, <1>5 DEF CloseAt

\* A trip begins with the event, under an id no other trip of the run has.
LEMMA BeginFacts ==
    ASSUME NEW e, Consistent, Iterate(e), Begin(e)
    PROVE  \E trip \in OpenTrip :
             /\ open' = trip /\ open' # None
             /\ inserts' = inserts \cup {trip}
             /\ trip.start = At(e) /\ trip.lastId = e /\ trip.lastAt = At(e)
             /\ trip.evs = {e} /\ trip.hits = 1
             /\ ~Inserted(trip.id) /\ ~Closed(trip.id)
             /\ trip.id # cursor[dev].open
<1>1. PICK t \in Trip : /\ Fresh(t)
                       /\ open' = NewTrip(t, e)
                       /\ inserts' = inserts \cup {NewTrip(t, e)}
    BY DEF Begin, IsFresh
<1>2. /\ NewTrip(t, e).start = At(e)
      /\ NewTrip(t, e).lastId = e /\ NewTrip(t, e).lastAt = At(e)
      /\ NewTrip(t, e).evs = {e} /\ NewTrip(t, e).hits = 1
    BY DEF NewTrip
<1> QED
    BY <1>1, <1>2, NewTripFacts, NoneAssumption DEF Fresh

\* The events of the batch that the detector has reached, and the live trip's time,
\* are never behind the next event.
LEMMA DetectFrame ==
    ASSUME NEW e, Consistent, DetectEvent(e)
    PROVE  /\ Iterate(e)
           /\ \/ /\ UNCHANGED <<open, inserts, closes>>
                 /\ open # None => At(e) < open.lastAt
              \/ Drive(e)
              \/ CloseOnGap(e) /\ open' = None /\ inserts' = inserts
              \/ CloseOnGap(e) /\ Begin(e)
              \/ CloseOnIgnitionOff(e)
              \/ Begin(e) /\ open = None /\ closes' = closes
<1>1. Iterate(e)
    BY DEF DetectEvent, DropReversed, CloseOnGap, CloseOnIgnitionOff, Drive, StartTrip, SkipParked
<1>2. CASE DropReversed(e)
  <2>1. open \in OpenTrip /\ At(e) \in Nat
    BY <1>2, IterateFacts DEF DropReversed, Consistent, TypeOK
  <2> QED
    BY <1>1, <1>2, <2>1 DEF DropReversed, Gap, OpenTrip
<1>3. CASE CloseOnGap(e)
    BY <1>1, <1>3 DEF CloseOnGap
<1>4. CASE StartTrip(e)
    BY <1>1, <1>4 DEF StartTrip
<1>5. CASE SkipParked(e)
    BY <1>1, <1>5 DEF SkipParked
<1> QED
    BY <1>1, <1>2, <1>3, <1>4, <1>5 DEF DetectEvent

\* The transaction writes a row with what its close holds, or the live trip, and
\* leaves the rows of no concern to this run alone.
LEMMA CommitRow ==
    ASSUME Consistent, Commit, NEW t \in Trip
    PROVE  \/ trips'[t] = trips[t] /\ t # cursor[dev].open /\ ~Inserted(t)
           \/ /\ trips'[t].start \in Starts(t) /\ trips'[t].imei = dev
              /\ trips'[t].status # "absent"
              /\ \/ \E c \in closes : /\ c.id = t
                                      /\ trips'[t].endId = c.endId /\ trips'[t].end = c.end
                                      /\ trips'[t].evs = c.evs /\ trips'[t].hits = c.hits
                 \/ /\ Live(t) /\ trips'[t].end = open.lastAt
                    /\ trips'[t].endId = IF Inserted(t) THEN None ELSE trips[t].endId
                    /\ trips'[t].evs = open.evs /\ trips'[t].hits = open.hits
<1> DEFINE r == IF Inserted(t) THEN InsertRow(t) ELSE trips[t]
<1>1. /\ pc = "detect" /\ dev \in Imei /\ trips[t] \in Row
      /\ Inserted(t) => trips[t].status = "absent"
      /\ (Closed(t) \/ Live(t)) <=> (Inserted(t) \/ t = cursor[dev].open)
      /\ trips'[t] = NewRow(t)
    BY DEF Commit, Consistent, TypeOK, LocalOK, ActionsOK
<1>2. t = cursor[dev].open => trips[t].status = "open"
    BY <1>1 DEF Consistent, OneOpenTrip
<1>3. CASE ~Inserted(t) /\ t # cursor[dev].open
    BY <1>1, <1>3, CommitFacts
<1>4. CASE Inserted(t) \/ t = cursor[dev].open
  <2>1. trips'[t].imei = dev
    BY <1>4, CommitFacts
  <2>2. /\ r \in Row /\ r.status # "absent" /\ r.start \in Starts(t)
        /\ r.endId = IF Inserted(t) THEN None ELSE trips[t].endId
    <3>1. CASE Inserted(t)
      <4>1. (CHOOSE a \in inserts : a.id = t) \in inserts
            /\ (CHOOSE a \in inserts : a.id = t).id = t
        BY <3>1 DEF Inserted
      <4>2. (CHOOSE a \in inserts : a.id = t) \in OpenTrip
        BY <4>1 DEF Consistent, TypeOK
      <4>3. InsertRow(t) \in Row
        BY <1>1, <4>2 DEF InsertRow, Row, OpenTrip
      <4>4. /\ InsertRow(t).status = "open" /\ InsertRow(t).endId = None
            /\ InsertRow(t).start = (CHOOSE a \in inserts : a.id = t).start
        BY DEF InsertRow
      <4> QED
        BY <3>1, <4>1, <4>3, <4>4 DEF Starts
    <3>2. CASE ~Inserted(t)
      BY <1>1, <1>2, <1>4, <3>2 DEF Starts
    <3> QED
      BY <3>1, <3>2
  <2>3. CASE Closed(t)
    <3>1. PICK c \in closes : c.id = t /\ c = (CHOOSE d \in closes : d.id = t)
      BY <2>3 DEF Closed
    <3>2. trips'[t] = CloseRow(r, t)
      BY <1>1, <2>2, <2>3 DEF NewRow
    <3>3. /\ CloseRow(r, t).status = "closed" /\ CloseRow(r, t).start = r.start
          /\ CloseRow(r, t).endId = c.endId /\ CloseRow(r, t).end = c.end
          /\ CloseRow(r, t).evs = c.evs /\ CloseRow(r, t).hits = c.hits
      BY <2>2, <3>1 DEF CloseRow, Row
    <3> QED
      BY <2>1, <2>2, <3>1, <3>2, <3>3
  <2>4. CASE ~Closed(t)
    <3>1. Live(t) /\ trips'[t] = UpdateRow(r)
      BY <1>1, <1>4, <2>2, <2>4 DEF NewRow
    <3>2. /\ UpdateRow(r).status = r.status /\ UpdateRow(r).start = r.start
          /\ UpdateRow(r).endId = r.endId /\ UpdateRow(r).end = open.lastAt
          /\ UpdateRow(r).evs = open.evs /\ UpdateRow(r).hits = open.hits
      BY <2>2 DEF UpdateRow, Row
    <3> QED
      BY <2>1, <2>2, <3>1, <3>2
  <2> QED
    BY <2>3, <2>4
<1> QED
    BY <1>3, <1>4


-----------------------------------------------------------------------------
(* The order in which events are absorbed, and the cursor behind them *)

\* One iteration of the loop moves the next event to the reached ones.
LEMMA DetectOrder ==
    ASSUME NEW e, Consistent, DetectEvent(e), SpansOK, OrderOK
    PROVE  OrderOK'
<1>1. /\ e \in rest /\ e \in events /\ e \in Nat /\ At(e) \in Nat
      /\ \A f \in rest : Before(e, f)
      /\ rest' = rest \ {e} /\ last' = e
      /\ pc' = pc /\ pc = "detect"
      /\ UNCHANGED <<log, cursor, trips, dev, after, events>>
    BY DetectFrame, NextEventFacts, IterateFacts
<1>2. \A i \in Imei : cursor'[i].open # None =>
         \A f \in trips'[cursor'[i].open].evs :
            f <= cursor'[i].last \/ At(f)' < trips'[cursor'[i].open].end
    BY <1>1 DEF OrderOK, At
<1>3. \A x \in events' \ rest' :
         Before(x, last)' /\ \A f \in rest' : Before(x, f)'
  <2>1. \A x, y : At(x)' = At(x) /\ (Before(x, y)' <=> Before(x, y))
    BY <1>1 DEF At, Before
  <2>2. \A x \in events \ rest : Before(x, e) /\ \A f \in rest : Before(x, f)
    BY <1>1 DEF OrderOK
  <2>3. Before(e, e)
    BY <1>1 DEF Before
  <2>4. \A x, f : (Before(x, last)' <=> Before(x, e)) /\ (Before(x, f)' <=> Before(x, f))
    BY <1>1 DEF At, Before
  <2> QED
    BY <1>1, <2>2, <2>3, <2>4
<1>4. ASSUME open' # None
      PROVE  /\ \A f \in open'.evs :
                   f <= after \/ At(f) < open'.lastAt \/ f \in events' \ rest'
             /\ At(e) <= open'.lastAt
  <2>1. e \in events' \ rest' /\ events \ rest \subseteq events' \ rest'
    BY <1>1
  <2>2. open # None =>
          \A f \in open.evs : f <= after \/ At(f) < open.lastAt \/ f \in events \ rest
    BY <1>1 DEF OrderOK
  <2>3. CASE UNCHANGED <<open, inserts, closes>> /\ (open # None => At(e) < open.lastAt)
    <3>1. open # None /\ open' = open /\ open \in OpenTrip
      BY <1>4, <2>3 DEF Consistent, TypeOK
    <3> QED
      BY <1>1, <2>1, <2>2, <2>3, <3>1 DEF OpenTrip
  <2>4. CASE Drive(e)
    <3>1. /\ open # None /\ open \in OpenTrip /\ open'.evs = open.evs \cup {e}
          /\ open'.lastAt = At(e) /\ At(e) >= open.lastAt
      BY <2>4, DriveFacts
    <3>2. open.start \in Nat /\ open.lastAt \in Nat
      BY <3>1 DEF OpenTrip
    <3>3. \A f \in open.evs : At(f) \in open.start..open.lastAt
      BY <1>1, <3>1 DEF SpansOK
    <3>4. \A f \in open.evs : At(f) < open.lastAt => At(f) < At(e)
      BY <1>1, <3>1, <3>2, <3>3
    <3> QED
      BY <1>1, <2>1, <2>2, <3>1, <3>4
  <2>5. CASE Begin(e)
    <3>1. open'.evs = {e} /\ open'.lastAt = At(e)
      BY <2>5, BeginFacts, DetectFrame
    <3> QED
      BY <1>1, <2>1, <3>1
  <2>6. CASE CloseOnIgnitionOff(e)
    BY <1>4, <2>6, IgnitionClose
  <2> QED
    BY <1>4, <2>3, <2>4, <2>5, <2>6, DetectFrame
<1>5. open' # None =>
        /\ \A f \in open'.evs : f <= after' \/ At(f)' < open'.lastAt \/ f \in events' \ rest'
        /\ rest' # events' => At(last)' <= open'.lastAt
  <2>1. \A f : At(f)' = At(f)
    BY <1>1 DEF At
  <2>2. At(last)' = At(e)
    BY <1>1 DEF At
  <2> QED
    BY <1>1, <1>4, <2>1, <2>2
<1>6. pc' # "fetch"
    BY <1>1
<1> QED
    BY <1>2, <1>3, <1>5, <1>6 DEF OrderOK


\* The transaction leaves the cursor at the latest event by time.
LEMMA CommitOrder ==
    ASSUME Consistent, Commit, SpansOK, OrderOK
    PROVE  OrderOK'
<1>1. /\ pc = "detect" /\ rest = {} /\ dev \in Imei /\ last \in events /\ last \in Nat
      /\ events # {} /\ last > after /\ At(last) \in Nat
      /\ cursor' = [cursor EXCEPT ![dev] = NewCursor]
      /\ pc' = "device" /\ open' = None /\ log' = log
  <2>1. /\ pc = "detect" /\ rest = {} /\ dev \in Imei /\ events # {} /\ last \in events
        /\ last \in Nat /\ last > after /\ At(last) # None
    BY DEF Commit, Consistent, TypeOK, LocalOK, BatchOK
  <2>2. last \in Id /\ log[last] \in Event
    BY <2>1 DEF Consistent, TypeOK, Id
  <2>3. At(last) \in Nat
    BY <2>1, <2>2, BoundAssumption DEF Event, At
  <2> QED
    BY <2>1, <2>3 DEF Commit, Idle, store
<1>2. SUFFICES ASSUME NEW i \in Imei, cursor'[i].open # None, NEW e \in trips'[cursor'[i].open].evs
               PROVE  e <= cursor'[i].last \/ At(e) < trips'[cursor'[i].open].end
    BY <1>1 DEF OrderOK, At
<1>3. CASE i # dev
  <2>1. cursor'[i] = cursor[i] /\ cursor[i].open \in Trip
    BY <1>1, <1>2, <1>3 DEF Consistent, TypeOK
  <2>2. trips[cursor[i].open].status = "open" /\ trips[cursor[i].open].imei = i
    BY <2>1 DEF Consistent, OneOpenTrip
  <2>3. cursor[i].open # cursor[dev].open /\ ~Inserted(cursor[i].open)
    BY <1>1, <1>3, <2>1, <2>2 DEF Consistent, OneOpenTrip, ActionsOK
  <2>4. trips'[cursor[i].open] = trips[cursor[i].open]
    BY <2>1, <2>3, CommitFacts
  <2> QED
    BY <1>2, <2>1, <2>4 DEF OrderOK
<1>4. CASE i = dev
  <2>1. /\ cursor'[i].last = last /\ open # None /\ cursor'[i].open = open.id
        /\ open \in OpenTrip /\ open.id \in Trip
    BY <1>1, <1>2, <1>4 DEF Consistent, TypeOK, NewCursor, OpenTrip
  <2>2. Live(open.id)
    BY <2>1 DEF Live
  <2>3. ~(Closed(open.id)) /\ (Inserted(open.id) \/ open.id = cursor[dev].open)
    BY <1>1, <2>1, <2>2 DEF Consistent, ActionsOK
  <2>4. trips'[open.id].evs = open.evs /\ trips'[open.id].end = open.lastAt
    BY <2>1, <2>3, CommitRow DEF Closed
  <2>5. /\ e \in open.evs /\ e \in Nat /\ after \in Nat /\ open.lastAt \in Nat
        /\ open.start \in Nat /\ At(e) \in open.start..open.lastAt
    BY <1>1, <1>2, <2>1, <2>4 DEF OpenTrip, SpansOK, Consistent, TypeOK
  <2>6. e <= after \/ At(e) < open.lastAt \/ Before(e, last)
    BY <1>1, <2>1, <2>5 DEF OrderOK
  <2>7. At(last) <= open.lastAt
    BY <1>1, <2>1 DEF OrderOK
  <2> QED
    BY <1>1, <2>1, <2>4, <2>5, <2>6, <2>7 DEF Before
<1> QED
    BY <1>3, <1>4

\* The order is kept by every step.
LEMMA NextOrder ==
    ASSUME Consistent, [Next]_vars, SpansOK, OrderOK
    PROVE  OrderOK'
<1>1. CASE TimeoutClose
  <2>1. pc' \notin {"fetch", "detect"} /\ log' = log
    BY <1>1 DEF TimeoutClose, store
  <2>2. \A t \in Trip : trips'[t].evs = trips[t].evs /\ trips'[t].end = trips[t].end
    BY <1>1 DEF TimeoutClose, Consistent, TypeOK, Row
  <2>3. \A i \in Imei : /\ cursor'[i].open \in {cursor[i].open, None}
                        /\ cursor'[i].last = cursor[i].last
                        /\ cursor[i].open # None => cursor[i].open \in Trip
    BY <1>1 DEF TimeoutClose, ClearedCursor, Consistent, TypeOK
  <2>4. ASSUME NEW i \in Imei, cursor'[i].open # None, NEW e \in trips'[cursor'[i].open].evs
        PROVE  e <= cursor'[i].last \/ At(e) < trips'[cursor'[i].open].end
    <3>1. cursor'[i].open = cursor[i].open /\ cursor[i].open # None /\ cursor[i].open \in Trip
      BY <2>3, <2>4
    <3>2. e \in trips[cursor[i].open].evs
      BY <2>2, <2>4, <3>1
    <3>3. e <= cursor[i].last \/ At(e) < trips[cursor[i].open].end
      BY <3>1, <3>2 DEF OrderOK
    <3> QED
      BY <2>2, <2>3, <3>1, <3>3
  <2>5. \A e : At(e)' = At(e)
    BY <2>1 DEF At
  <2> QED
    BY <2>1, <2>4, <2>5 DEF OrderOK
<1>2. CASE \E i \in Imei : LoadDevice(i)
  <2>1. PICK i \in Imei : LoadDevice(i)
    BY <1>2
  <2>2. /\ pc' = "fetch" /\ events' = {} /\ rest' = {} /\ after' = cursor[i].last
        /\ UNCHANGED <<log, cursor, trips>> /\ open' = Restored(i)
    BY <2>1 DEF LoadDevice, Consistent, LocalOK, TypeOK, store, tables
  <2>3. open' # None => /\ cursor[i].open # None
                        /\ open'.evs = trips[cursor[i].open].evs
                        /\ open'.lastAt = trips[cursor[i].open].end
    BY <2>2 DEF Restored
  <2> QED
    BY <2>2, <2>3 DEF OrderOK, At
<1>3. CASE FetchEvents
  <2>1. /\ pc = "fetch" /\ pc' = "detect" /\ events' = Fetched /\ rest' = Fetched
        /\ UNCHANGED <<log, cursor, trips, after, open>>
    BY <1>3 DEF FetchEvents, store, tables
  <2> QED
    BY <2>1 DEF OrderOK, At
<1>4. CASE \E e \in Id : DetectEvent(e)
    BY <1>4, DetectOrder
<1>5. CASE Commit
    BY <1>5, CommitOrder
<1>6. ASSUME UNCHANGED <<cursor, trips>>,
             \/ UNCHANGED <<pc, dev, after, events, rest, last, open, inserts, closes>>
             \/ pc' \notin {"fetch", "detect"}
      PROVE  OrderOK'
  <2>1. \A e \in Id : At(e)' = At(e)
    BY LogGrows DEF At
  <2>2. \A i \in Imei : cursor[i].open # None => trips[cursor[i].open].evs \subseteq Id
    BY DEF Consistent, TypeOK, SpansOK
  <2>3. \A i \in Imei : cursor'[i].open # None =>
           \A e \in trips'[cursor'[i].open].evs :
              e <= cursor'[i].last \/ At(e)' < trips'[cursor'[i].open].end
    BY <1>6, <2>1, <2>2 DEF OrderOK
  <2>4. CASE pc' \notin {"fetch", "detect"}
    BY <2>3, <2>4 DEF OrderOK
  <2>5. CASE UNCHANGED <<pc, dev, after, events, rest, last, open, inserts, closes>>
    <3>1. events \subseteq Id /\ rest \subseteq Id
      BY DEF Consistent, TypeOK
    <3>2. pc = "detect" /\ rest # events => last \in Id
      BY <3>1 DEF Consistent, BatchOK
    <3>3. pc \in {"fetch", "detect"} /\ open # None => open.evs \subseteq Id
      BY DEF SpansOK
    <3>4. pc = "fetch" => rest = events
      BY DEF OrderOK, Consistent, TypeOK
    <3>5. pc' = "detect" => \A e \in events' \ rest' :
                          Before(e, last)' /\ \A f \in rest' : Before(e, f)'
      BY <2>1, <2>5, <3>1, <3>2 DEF OrderOK, Before
    <3>6. (pc' \in {"fetch", "detect"} /\ open' # None) =>
             /\ \A e \in open'.evs : e <= after' \/ At(e)' < open'.lastAt \/ e \in events' \ rest'
             /\ rest' # events' => At(last)' <= open'.lastAt
      BY <2>1, <2>5, <3>2, <3>3, <3>4 DEF OrderOK
    <3> QED
      BY <2>3, <2>5, <3>5, <3>6 DEF OrderOK
  <2> QED
    BY <1>6, <2>4, <2>5
<1> QED
    BY <1>1, <1>2, <1>3, <1>4, <1>5, <1>6, StepKinds


-----------------------------------------------------------------------------
(* The span of a trip and its count, through one iteration of the loop *)

\* A branch that begins no trip leaves every trip's start where it was; one that does
\* adds the start of a trip the run did not know.
LEMMA StartsKept ==
    ASSUME NEW e, Consistent, DetectEvent(e), NEW t, Inserted(t) \/ Closed(t) \/ Live(t)
    PROVE  Starts(t)' = Starts(t)
<1>1. UNCHANGED <<cursor, trips, dev>> /\ Iterate(e)
    BY DetectFrame, IterateFacts
<1>2. CASE inserts' = inserts
    BY <1>1, <1>2 DEF Starts
<1>3. CASE Begin(e)
  <2>1. PICK trip \in OpenTrip : /\ inserts' = inserts \cup {trip}
                                 /\ ~Inserted(trip.id) /\ ~Closed(trip.id) /\ ~Live(trip.id)
    BY <1>1, <1>3, BeginActions
  <2>2. {b \in inserts' : b.id = t} = {b \in inserts : b.id = t}
    BY <2>1
  <2> QED
    BY <1>1, <2>2 DEF Starts
<1> QED
    BY <1>2, <1>3, DetectFrame, DriveFacts, IgnitionClose

\* A close keeps the bounds of the live trip it ends; later branches do not move them.
LEMMA DetectSpans ==
    ASSUME NEW e, Consistent, DetectEvent(e), SpansOK
    PROVE  SpansOK'
<1>1. /\ Iterate(e) /\ e \in Id /\ At(e) \in Nat /\ log[e].imei = dev
      /\ pc' = pc /\ pc = "detect"
      /\ UNCHANGED <<log, cursor, trips, dev>>
    BY DetectFrame, NextEventFacts, IterateFacts
<1>2. open # None =>
        /\ open \in OpenTrip /\ open.id \in Trip /\ open.start \in Nat /\ open.lastAt \in Nat
        /\ open.start <= open.lastAt
        /\ \A f \in open.evs :
              f \in Id /\ log[f].imei = dev /\ At(f) \in open.start..open.lastAt
  <2>1. open # None => open \in OpenTrip
    BY DEF Consistent, TypeOK
  <2> QED
    BY <1>1, <2>1 DEF SpansOK, OpenTrip
<1>3. \A c \in closes : \A f \in c.evs :
         f \in Id /\ log[f].imei = dev /\ At(f) \in 0..c.end
    BY <1>1 DEF SpansOK
<1>4. \A t \in Trip : \A s \in Starts(t) :
         /\ Live(t) => s = open.start
         /\ \A c \in closes : c.id = t => s <= c.end /\ \A f \in c.evs : s <= At(f)
    BY <1>1 DEF SpansOK
<1>5. \A t : Inserted(t) \/ Closed(t) \/ Live(t) => Starts(t)' = Starts(t)
    BY StartsKept
<1>6. ASSUME NEW c, open # None, closes' = closes \cup {c}, c.id = open.id,
             open.start <= c.end,
             \A f \in c.evs : f \in Id /\ log[f].imei = dev
                                /\ At(f) \in 0..c.end /\ open.start <= At(f)
      PROVE  /\ \A d \in closes' : \A f \in d.evs :
                   f \in Id /\ log[f].imei = dev /\ At(f) \in 0..d.end
             /\ \A t \in Trip : \A s \in Starts(t)' :
                   \A d \in closes' : d.id = t => s <= d.end /\ \A f \in d.evs : s <= At(f)
  <2>1. \A t \in Trip : \A s \in Starts(t)' :
          \A d \in closes : d.id = t => s <= d.end /\ \A f \in d.evs : s <= At(f)
    BY <1>4, <1>5 DEF Closed
  <2>2. \A t \in Trip : \A s \in Starts(t)' :
          c.id = t => s <= c.end /\ \A f \in c.evs : s <= At(f)
    BY <1>4, <1>5, <1>6 DEF Live
  <2> QED
    BY <1>3, <1>6, <2>1, <2>2
<1>7. /\ \A d \in closes' : \A f \in d.evs :
            f \in Id /\ log[f].imei = dev /\ At(f) \in 0..d.end
      /\ \A t \in Trip : \A s \in Starts(t)' :
            \A d \in closes' : d.id = t => s <= d.end /\ \A f \in d.evs : s <= At(f)
  <2>1. CASE closes' = closes
    BY <1>3, <1>4, <1>5, <2>1 DEF Closed
  <2>2. CASE CloseOnGap(e)
    <3>1. PICK c \in CloseAction : /\ c.id = open.id /\ c.end = open.lastAt
                                   /\ c.evs = open.evs /\ closes' = closes \cup {c}
                                   /\ open # None
      BY <2>2, GapClose
    <3>2. \A f \in c.evs : f \in Id /\ log[f].imei = dev
                            /\ At(f) \in 0..c.end /\ open.start <= At(f)
      BY <1>2, <3>1
    <3> QED
      BY <1>2, <1>6, <3>1, <3>2
  <2>3. CASE CloseOnIgnitionOff(e)
    <3>1. PICK c \in CloseAction : /\ c.id = open.id /\ c.end = At(e)
                                   /\ c.evs = open.evs \cup {e} /\ closes' = closes \cup {c}
                                   /\ open # None /\ At(e) >= open.lastAt
      BY <2>3, IgnitionClose
    <3>2. open.start <= c.end
      BY <1>1, <1>2, <3>1
    <3>3. \A f \in c.evs : f \in Id /\ log[f].imei = dev
                            /\ At(f) \in 0..c.end /\ open.start <= At(f)
      BY <1>1, <1>2, <3>1, <3>2
    <3> QED
      BY <1>6, <3>1, <3>3
  <2> QED
    BY <2>1, <2>2, <2>3, DetectFrame, DriveFacts
<1>8. open' # None =>
        /\ open'.start <= open'.lastAt
        /\ \A f \in open'.evs :
              f \in Id /\ log[f].imei = dev /\ At(f) \in open'.start..open'.lastAt
        /\ \A t \in Trip : open'.id = t => \A s \in Starts(t)' : s = open'.start
  <2>0. open # None => \A t \in Trip : open.id = t => \A s \in Starts(t)' : s = open.start
    BY <1>4, <1>5 DEF Live
  <2>1. CASE open' = open
    BY <1>2, <2>0, <2>1
  <2>2. CASE Drive(e)
    <3>1. /\ open # None /\ open'.id = open.id /\ open'.start = open.start
          /\ open'.evs = open.evs \cup {e} /\ open'.lastAt = At(e) /\ At(e) >= open.lastAt
      BY <2>2, DriveFacts
    <3>2. open'.start <= open'.lastAt
      BY <1>1, <1>2, <3>1
    <3>3. \A f \in open'.evs :
             f \in Id /\ log[f].imei = dev /\ At(f) \in open'.start..open'.lastAt
      BY <1>1, <1>2, <3>1
    <3> QED
      BY <2>0, <3>1, <3>2, <3>3
  <2>3. CASE Begin(e)
    <3>1. PICK trip \in OpenTrip :
             /\ open' = trip /\ inserts' = inserts \cup {trip}
             /\ trip.start = At(e) /\ trip.lastAt = At(e) /\ trip.evs = {e}
             /\ ~Inserted(trip.id) /\ trip.id # cursor[dev].open
      BY <1>1, <2>3, BeginFacts
    <3>2. \A t : t = trip.id => \A s \in Starts(t)' : s = trip.start
      BY <1>1, <3>1 DEF Starts, Inserted
    <3> QED
      BY <1>1, <3>1, <3>2
  <2>4. CASE open' = None
    BY <2>4
  <2> QED
    BY <2>1, <2>2, <2>3, <2>4, DetectFrame, IgnitionClose
<1>9. \A t \in Trip : \A s \in Starts(t)' :
         /\ Live(t)' => s = open'.start
         /\ \A c \in closes' : c.id = t => s <= c.end /\ \A f \in c.evs : s <= At(f)
    BY <1>7, <1>8 DEF Live
<1>10. /\ Id' = Id /\ \A f : At(f)' = At(f)
       /\ \A t \in Trip : trips'[t].evs \subseteq Id /\ trips'[t].start <= trips'[t].end
    BY <1>1 DEF SpansOK, Id, At
<1> QED
    BY <1>1, <1>7, <1>8, <1>9, <1>10 DEF SpansOK


\* The transaction carries the spans over to the rows.
LEMMA CommitSpans ==
    ASSUME Consistent, Commit, SpansOK, EventsWithinTrip
    PROVE  SpansOK' /\ EventsWithinTrip'
<1>1. /\ pc = "detect" /\ pc' = "device" /\ dev \in Imei /\ log' = log
      /\ trips \in [Trip -> Row] /\ Id' = Id /\ \A f : At(f)' = At(f)
    BY DEF Commit, Consistent, TypeOK, LocalOK, store, Id, At
<1>2. ASSUME NEW t \in Trip
      PROVE  /\ trips'[t].start <= trips'[t].end
             /\ \A e \in trips'[t].evs : /\ e \in Id /\ log[e].imei = trips'[t].imei
                                       /\ At(e) \in trips'[t].start..trips'[t].end
  <2>1. CASE trips'[t] = trips[t]
    BY <1>1, <2>1 DEF SpansOK, EventsWithinTrip
  <2>2. ASSUME trips'[t].start \in Starts(t), trips'[t].imei = dev,
               NEW c \in closes, c.id = t, trips'[t].end = c.end, trips'[t].evs = c.evs
        PROVE  /\ trips'[t].start <= trips'[t].end
               /\ \A e \in trips'[t].evs : /\ e \in Id /\ log[e].imei = trips'[t].imei
                                         /\ At(e) \in trips'[t].start..trips'[t].end
    <3>1. trips'[t].start \in Nat /\ c.end \in Nat
      BY <1>1, <2>2, CommitFacts DEF Row, Consistent, TypeOK, CloseAction
    <3>2. trips'[t].start <= c.end /\ \A e \in c.evs : trips'[t].start <= At(e)
      BY <1>1, <2>2 DEF SpansOK
    <3>3. \A e \in c.evs : e \in Id /\ log[e].imei = dev /\ At(e) \in 0..c.end
      BY <1>1, <2>2 DEF SpansOK
    <3> QED
      BY <2>2, <3>1, <3>2, <3>3
  <2>3. ASSUME trips'[t].start \in Starts(t), trips'[t].imei = dev,
               Live(t), trips'[t].end = open.lastAt, trips'[t].evs = open.evs
        PROVE  /\ trips'[t].start <= trips'[t].end
               /\ \A e \in trips'[t].evs : /\ e \in Id /\ log[e].imei = trips'[t].imei
                                         /\ At(e) \in trips'[t].start..trips'[t].end
    <3>1. trips'[t].start = open.start /\ open # None
      BY <1>1, <2>3 DEF SpansOK, Live
    <3> QED
      BY <1>1, <2>3, <3>1 DEF SpansOK
  <2> QED
    BY <2>1, <2>2, <2>3, CommitRow
<1> QED
    BY <1>1, <1>2 DEF SpansOK, EventsWithinTrip

\* The spans are kept by every step.
LEMMA NextSpans ==
    ASSUME Consistent, [Next]_vars, SpansOK, EventsWithinTrip
    PROVE  SpansOK' /\ EventsWithinTrip'
<1>1. \A e \in Id : e \in Id' /\ At(e)' = At(e) /\ log'[e].imei = log[e].imei
    BY LogGrows DEF At
<1>2. ASSUME \A t \in Trip : /\ trips'[t].evs = trips[t].evs /\ trips'[t].imei = trips[t].imei
                             /\ trips'[t].start = trips[t].start /\ trips'[t].end = trips[t].end
      PROVE  /\ \A t \in Trip : trips'[t].evs \subseteq Id' /\ trips'[t].start <= trips'[t].end
             /\ EventsWithinTrip'
    BY <1>1, <1>2 DEF SpansOK, EventsWithinTrip
<1>3. CASE TimeoutClose
  <2>1. pc' = "list"
    BY <1>3 DEF TimeoutClose
  <2>2. \A t \in Trip : /\ trips'[t].evs = trips[t].evs /\ trips'[t].imei = trips[t].imei
                        /\ trips'[t].start = trips[t].start /\ trips'[t].end = trips[t].end
    BY <1>3 DEF TimeoutClose, Consistent, TypeOK, Row
  <2> QED
    BY <1>2, <2>1, <2>2 DEF SpansOK
<1>4. CASE \E i \in Imei : LoadDevice(i)
  <2>1. PICK i \in Imei : LoadDevice(i)
    BY <1>4
  <2>2. /\ dev' = i /\ inserts' = {} /\ closes' = {} /\ open' = Restored(i)
        /\ UNCHANGED <<log, cursor, trips>>
    BY <2>1 DEF LoadDevice, Consistent, LocalOK, store, tables
  <2>3. open' # None =>
          /\ cursor[i].open \in Trip /\ open'.id = cursor[i].open
          /\ trips[cursor[i].open].imei = i
          /\ open'.start = trips[cursor[i].open].start
          /\ open'.lastAt = trips[cursor[i].open].end
          /\ open'.evs = trips[cursor[i].open].evs
    BY <2>2 DEF Restored, Consistent, TypeOK, OneOpenTrip
  <2>4. open' # None =>
          /\ open'.start <= open'.lastAt
          /\ \A e \in open'.evs :
                e \in Id' /\ log'[e].imei = dev' /\ At(e)' \in open'.start..open'.lastAt
    BY <1>1, <2>2, <2>3 DEF SpansOK, EventsWithinTrip
  <2>5. \A t \in Trip : \A s \in Starts(t)' : Live(t)' => s = open'.start
    BY <2>2, <2>3 DEF Starts, Live
  <2>6. /\ \A t \in Trip : trips'[t].evs \subseteq Id' /\ trips'[t].start <= trips'[t].end
        /\ EventsWithinTrip'
    BY <1>2, <2>2
  <2> QED
    BY <2>2, <2>4, <2>5, <2>6 DEF SpansOK
<1>5. CASE \E e \in Id : DetectEvent(e)
  <2>1. SpansOK' /\ UNCHANGED <<log, trips>>
    BY <1>5, DetectSpans, DetectFrame, IterateFacts
  <2> QED
    BY <1>2, <2>1
<1>6. CASE Commit
    BY <1>6, CommitSpans
<1>7. ASSUME trips' = trips, cursor' = cursor,
             \/ pc' \notin {"fetch", "detect"}
             \/ pc \in {"fetch", "detect"} /\ UNCHANGED <<dev, open, inserts, closes>>
      PROVE  SpansOK' /\ EventsWithinTrip'
  <2>1. /\ \A t \in Trip : trips'[t].evs \subseteq Id' /\ trips'[t].start <= trips'[t].end
        /\ EventsWithinTrip'
    BY <1>2, <1>7
  <2>2. CASE pc' \notin {"fetch", "detect"}
    BY <2>1, <2>2 DEF SpansOK
  <2>3. CASE pc \in {"fetch", "detect"} /\ UNCHANGED <<dev, open, inserts, closes>>
    <3>1. \A t : (Starts(t)' = Starts(t)) /\ (Live(t)' <=> Live(t))
      BY <1>7, <2>3 DEF Starts, Live
    <3> QED
      BY <1>1, <2>1, <2>3, <3>1 DEF SpansOK
  <2> QED
    BY <1>7, <2>2, <2>3
<1>8. CASE FetchEvents
    BY <1>7, <1>8 DEF FetchEvents, tables
<1> QED
    BY <1>3, <1>4, <1>5, <1>6, <1>7, <1>8, StepKinds


-----------------------------------------------------------------------------
(* Each event is counted once *)

\* Absorbing an event that is not yet among a trip's keeps the count.
LEMMA CountAbsorbed ==
    ASSUME NEW r, NEW q, NEW e, Counted(r), e \notin r.evs,
           q.evs = r.evs \cup {e}, q.hits = r.hits + 1
    PROVE  Counted(q)
<1>1. IsFiniteSet(r.evs \cup {e}) /\ Cardinality(r.evs \cup {e}) = Cardinality(r.evs) + 1
    BY FS_AddElement DEF Counted
<1> QED
    BY <1>1 DEF Counted

\* The event a branch absorbs is new to the trip: those the cursor may deliver again
\* are older than the live trip's last event.
LEMMA AbsorbedIsNew ==
    ASSUME NEW e, Consistent, Iterate(e), SpansOK, OrderOK, open # None, At(e) >= open.lastAt
    PROVE  e \notin open.evs
<1>1. /\ e \in rest /\ e \in Nat /\ e > after /\ after \in Nat /\ At(e) \in Nat
      /\ pc = "detect" /\ open \in OpenTrip /\ open.lastAt \in Nat
    BY NextEventFacts, IterateFacts DEF Consistent, TypeOK, OpenTrip
<1>2. \A f \in open.evs : f <= after \/ At(f) < open.lastAt \/ f \in events \ rest
    BY <1>1 DEF OrderOK
<1> QED
    BY <1>1, <1>2

\* The counts are kept by every step.
LEMMA NextCounts ==
    ASSUME Consistent, [Next]_vars, SpansOK, OrderOK, CountsOK
    PROVE  CountsOK'
<1>1. CASE TimeoutClose
  <2>1. \A t \in Trip : trips'[t].evs = trips[t].evs /\ trips'[t].hits = trips[t].hits
    BY <1>1 DEF TimeoutClose, Consistent, TypeOK, Row
  <2> QED
    BY <1>1, <2>1 DEF TimeoutClose, local, CountsOK, Counted
<1>2. CASE \E i \in Imei : LoadDevice(i)
  <2>1. PICK i \in Imei : LoadDevice(i)
    BY <1>2
  <2>2. trips' = trips /\ closes' = {} /\ open' = Restored(i)
    BY <2>1 DEF LoadDevice, Consistent, LocalOK, tables
  <2>3. open' # None => /\ cursor[i].open \in Trip
                        /\ open'.evs = trips[cursor[i].open].evs
                        /\ open'.hits = trips[cursor[i].open].hits
    BY <2>2 DEF Restored, Consistent, TypeOK
  <2> QED
    BY <2>2, <2>3 DEF CountsOK, Counted
<1>3. ASSUME NEW e \in Id, DetectEvent(e)
      PROVE  CountsOK'
  <2>1. Iterate(e) /\ trips' = trips
    BY <1>3, DetectFrame, IterateFacts
  <2>2. CASE UNCHANGED <<open, inserts, closes>>
    BY <2>1, <2>2 DEF CountsOK, Counted
  <2>3. CASE Drive(e)
    <3>1. /\ open # None /\ open'.evs = open.evs \cup {e} /\ open'.hits = open.hits + 1
          /\ At(e) >= open.lastAt /\ closes' = closes
      BY <2>3, DriveFacts
    <3>2. Counted(open')
      BY <2>1, <3>1, AbsorbedIsNew, CountAbsorbed DEF CountsOK
    <3> QED
      BY <2>1, <3>1, <3>2 DEF CountsOK, Counted
  <2>4. CASE CloseOnIgnitionOff(e)
    <3>1. PICK c \in CloseAction : /\ c.evs = open.evs \cup {e} /\ c.hits = open.hits + 1
                                   /\ closes' = closes \cup {c} /\ open' = None
                                   /\ open # None /\ At(e) >= open.lastAt
      BY <2>4, IgnitionClose
    <3>2. Counted(c)
      BY <2>1, <3>1, AbsorbedIsNew, CountAbsorbed DEF CountsOK
    <3> QED
      BY <2>1, <3>1, <3>2 DEF CountsOK, Counted
  <2>5. CloseOnGap(e) => \A c \in closes' : Counted(c)
    <3>1. SUFFICES ASSUME CloseOnGap(e) PROVE \A c \in closes' : Counted(c)
      OBVIOUS
    <3>2. PICK c \in CloseAction : /\ c.evs = open.evs /\ c.hits = open.hits
                                   /\ closes' = closes \cup {c} /\ open # None
      BY <3>1, GapClose
    <3> QED
      BY <3>2 DEF CountsOK, Counted
  <2>6. Begin(e) => Counted(open)'
    <3>1. SUFFICES ASSUME Begin(e) PROVE Counted(open)'
      OBVIOUS
    <3>2. open'.evs = {e} /\ open'.hits = 1
      BY <2>1, <3>1, BeginFacts
    <3> QED
      BY <3>2, FS_Singleton DEF Counted
  <2> QED
    BY <1>3, <2>1, <2>2, <2>3, <2>4, <2>5, <2>6, DetectFrame DEF CountsOK, Counted
<1>4. CASE Commit
  <2>1. open' = None /\ closes' = {}
    BY <1>4 DEF Commit, Idle
  <2>2. ASSUME NEW t \in Trip
        PROVE  Counted(trips'[t])
    BY <1>4, CommitRow DEF CountsOK, Counted, Live
  <2> QED
    BY <2>1, <2>2 DEF CountsOK, Counted
<1>5. CASE FetchEvents
    BY <1>5 DEF FetchEvents, tables, CountsOK, Counted
<1>6. ASSUME UNCHANGED <<cursor, trips>>,
             \/ UNCHANGED <<open, closes>>
             \/ open' = None /\ closes' = {}
      PROVE  CountsOK'
    BY <1>6 DEF CountsOK, Counted
<1> QED
    BY <1>1, <1>2, <1>3, <1>4, <1>5, <1>6, StepKinds

\* Accounted holds at the start.
LEMMA InitAccounted == Init => Accounted
<1> SUFFICES ASSUME Init PROVE Accounted
    OBVIOUS
<1>1. /\ pc = "timeout" /\ open = None /\ closes = {}
      /\ \A i \in Imei : cursor[i].open = None
      /\ \A t \in Trip : /\ trips[t].evs = {} /\ trips[t].hits = 0
                         /\ trips[t].start = 0 /\ trips[t].end = 0
    BY DEF Init, Absent
<1>2. IsFiniteSet({}) /\ Cardinality({}) = 0
    BY FS_EmptySet
<1>3. CountsOK
    BY <1>1, <1>2 DEF CountsOK, Counted
<1>4. SpansOK /\ OrderOK /\ EventsWithinTrip
    BY <1>1 DEF SpansOK, OrderOK, EventsWithinTrip
<1> QED
    BY <1>3, <1>4 DEF Accounted

\* The worker accounts for every event of every trip.
THEOREM AccountedAlways == Spec => [](Consistent /\ Accounted)
<1>1. Init => Consistent /\ Accounted
    BY InitConsistent, InitAccounted
<1>2. Consistent /\ Accounted /\ [Next]_vars => Consistent' /\ Accounted'
    BY NextConsistent, NextSpans, NextCounts, NextOrder DEF Accounted
<1> QED
    BY <1>1, <1>2, PTL DEF Spec

\* A trip lies around its events, all of them from its own device.
THEOREM EventsLieWithinTrips == Spec => []EventsWithinTrip
<1>1. Accounted => EventsWithinTrip
    BY DEF Accounted
<1> QED
    BY <1>1, AccountedAlways, PTL

\* A trip counts each of its events once, although the cursor stops at the latest event
\* by time and events behind it are fetched again.
THEOREM EventsCountedOnce == Spec => []CountedOnce
<1>1. Accounted => CountedOnce
    BY DEF Accounted, CountsOK, Counted, CountedOnce
<1> QED
    BY <1>1, AccountedAlways, PTL

=============================================================================
