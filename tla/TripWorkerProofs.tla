-------------------------- MODULE TripWorkerProofs --------------------------
(***************************************************************************)
(* Proofs about TripWorker for any devices, trips, bounds and delivery.    *)
(* Consistent is inductive; OneOpenTrip is one of its conjuncts and the    *)
(* two action properties follow from it.  Then the refinement of TripLog.  *)
(***************************************************************************)
EXTENDS TripWorker, TLAPS

USE DEF Open

\* The initial tables and the idle worker are consistent.
LEMMA InitConsistent == Init => Consistent
<1> SUFFICES ASSUME Init PROVE Consistent
    OBVIOUS
<1>1. TypeOK
    BY BoundAssumption DEF Init, TypeOK, Row, Absent, Id
<1>2. LocalOK /\ BatchOK /\ ActionsOK
    BY DEF Init, LocalOK, BatchOK, ActionsOK
<1>3. OneOpenTrip
    BY BoundAssumption, NoneAssumption DEF Init, OneOpenTrip, Absent
<1> QED
    BY <1>1, <1>2, <1>3 DEF Consistent

\* An insert that draws its id changes no row that is read.
LEMMA StoreEventConsistent ==
    ASSUME NEW i \in Imei, Consistent, StoreEvent(i)
    PROVE  Consistent'
<1> USE DEF Consistent
<1>1. PICK g \in Gps \cup {None}, ign \in {"on", "off", "null"} :
         log' = Append(log, [imei |-> i, gps |-> g, ignition |-> ign])
    BY DEF StoreEvent
<1>2. [imei |-> i, gps |-> g, ignition |-> ign] \in Event
    BY DEF Event
<1>3. /\ log' \in Seq(Event)
      /\ Id' = 1..Len(log) + 1
      /\ \A e \in Id : e \in Id' /\ log'[e] = log[e]
    BY <1>1, <1>2 DEF TypeOK, Id
<1>4. TypeOK'
    BY <1>3 DEF StoreEvent, TypeOK, tables, local
<1>5. BatchOK'
    BY <1>3 DEF StoreEvent, TypeOK, BatchOK, local, At
<1>6. LocalOK' /\ ActionsOK' /\ OneOpenTrip'
    BY DEF StoreEvent, LocalOK, ActionsOK, OneOpenTrip, tables, local, Inserted, Closed, Live
<1> QED
    BY <1>4, <1>5, <1>6

\* A row that becomes visible is not in the batch the worker holds.
LEMMA CommitEventConsistent ==
    ASSUME NEW e \in Id, Consistent, CommitEvent(e)
    PROVE  Consistent'
<1> USE DEF Consistent
<1>1. TypeOK'
    BY DEF CommitEvent, TypeOK, tables, local, Id
<1>2. BatchOK'
    BY DEF CommitEvent, BatchOK, local, At
<1>3. LocalOK' /\ ActionsOK' /\ OneOpenTrip'
    BY DEF CommitEvent, LocalOK, ActionsOK, OneOpenTrip, tables, local, Inserted, Closed, Live
<1> QED
    BY <1>1, <1>2, <1>3

\* Ages play no part in consistency.
LEMMA TickConsistent ==
    ASSUME Consistent, Tick
    PROVE  Consistent'
<1> USE DEF Consistent
<1>1. TypeOK'
  <2>1. age' \in [Trip -> 0..StaleAge + 1]
    BY BoundAssumption DEF Tick, TypeOK, Older
  <2> QED
    BY <2>1 DEF Tick, TypeOK, store, local, Id
<1>2. BatchOK'
    BY DEF Tick, BatchOK, store, local, At
<1>3. LocalOK' /\ ActionsOK' /\ OneOpenTrip'
    BY DEF Tick, LocalOK, ActionsOK, OneOpenTrip, local, Inserted, Closed, Live
<1> QED
    BY <1>1, <1>2, <1>3

\* The timeout closes rows and clears the cursors that name them, in one step.
LEMMA TimeoutCloseConsistent ==
    ASSUME Consistent, TimeoutClose
    PROVE  Consistent'
<1> USE DEF Consistent
<1>1. TypeOK'
  <2>1. trips' \in [Trip -> Row]
    <3>1. \A t \in Trip : trips[t] \in Row
      BY DEF TypeOK
    <3>2. \A r \in Row : [r EXCEPT !.status = "closed"] \in Row
      BY DEF Row
    <3> QED
      BY <3>1, <3>2 DEF TimeoutClose
  <2>2. cursor' \in [Imei -> [last : Nat, open : Trip \cup {None}]]
    BY DEF TimeoutClose, TypeOK, ClearedCursor
  <2>3. age' \in [Trip -> 0..StaleAge + 1]
    BY BoundAssumption DEF TimeoutClose, TypeOK
  <2> QED
    BY <2>1, <2>2, <2>3 DEF TimeoutClose, TypeOK, store, local, Id
<1>2. LocalOK' /\ BatchOK' /\ ActionsOK'
    BY DEF TimeoutClose, LocalOK, BatchOK, ActionsOK, local
<1>3. OneOpenTrip'
  <2> SUFFICES ASSUME NEW i \in Imei, NEW t \in Trip
               PROVE  (Open(t)' /\ trips'[t].imei = i) <=> cursor'[i].open = t
    BY DEF OneOpenTrip
  <2>1. (Open(t) /\ trips[t].imei = i) <=> cursor[i].open = t
    BY DEF OneOpenTrip
  <2>2. /\ Open(t)' <=> Open(t) /\ ~Stale(t)
        /\ trips'[t].imei = trips[t].imei
    BY DEF TimeoutClose, TypeOK, Row, Stale
  <2>3. cursor'[i].open = IF \E u \in Trip : Stale(u) /\ cursor[i].open = u
                          THEN None ELSE cursor[i].open
    BY DEF TimeoutClose, TypeOK, ClearedCursor
  <2>4. t # None
    BY BoundAssumption, NoneAssumption
  <2> QED
    BY <2>1, <2>2, <2>3, <2>4
<1> QED
    BY <1>1, <1>2, <1>3

\* Between two devices: the list is read, a pass ends.
LEMMA PassConsistent ==
    ASSUME Consistent, FetchDevices \/ EndPass
    PROVE  Consistent'
<1> USE DEF Consistent
<1>1. TypeOK'
    BY DEF FetchDevices, EndPass, TypeOK, store, tables, local, Id
<1>2. LocalOK' /\ BatchOK' /\ ActionsOK' /\ OneOpenTrip'
    BY DEF FetchDevices, EndPass, LocalOK, BatchOK, ActionsOK, OneOpenTrip, tables, local
<1> QED
    BY <1>1, <1>2

\* The restored trip is the one the cursor names.
LEMMA LoadDeviceConsistent ==
    ASSUME NEW i \in Imei, Consistent, LoadDevice(i)
    PROVE  Consistent'
<1> USE DEF Consistent
<1>1. cursor[i].open # None =>
        /\ cursor[i].open \in Trip
        /\ trips[cursor[i].open] \in Row
    BY DEF TypeOK
<1>2. Restored(i) \in OpenTrip \cup {None}
    BY <1>1 DEF Restored, TypeOK, Row, OpenTrip
<1>3. TypeOK'
    BY <1>2 DEF LoadDevice, TypeOK, store, tables, Id
<1>4. LocalOK' /\ BatchOK' /\ OneOpenTrip'
    BY DEF LoadDevice, LocalOK, BatchOK, OneOpenTrip, tables
<1>5. ActionsOK'
  <2>1. inserts = {} /\ closes = {}
    BY DEF LoadDevice, LocalOK
  <2>2. \A t \in Trip : Live(t)' <=> t = cursor[i].open
    <3>1. None \notin Trip /\ None \notin OpenTrip
      BY BoundAssumption, NoneAssumption
    <3>2. CASE cursor[i].open = None
      BY <3>1, <3>2 DEF LoadDevice, Live, Restored
    <3>3. CASE cursor[i].open # None
      <4>1. Restored(i) # None /\ Restored(i).id = cursor[i].open
        BY <1>1, <3>1, <3>3 DEF Restored, TypeOK, Row, OpenTrip
      <4> QED
        BY <4>1 DEF LoadDevice, Live
    <3> QED
      BY <3>2, <3>3
  <2> QED
    BY <2>1, <2>2 DEF LoadDevice, ActionsOK, tables, Inserted, Closed
<1> QED
    BY <1>3, <1>4, <1>5

\* The batch holds visible events of the device behind its cursor.
LEMMA FetchEventsConsistent ==
    ASSUME Consistent, FetchEvents
    PROVE  Consistent'
<1> USE DEF Consistent
<1>1. \A e \in Fetched : e \in visible /\ e > after /\ At(e) # None /\ log[e].imei = dev
    BY DEF Fetched
<1>2. TypeOK'
    BY <1>1 DEF FetchEvents, TypeOK, store, tables, Id
<1>3. LocalOK'
    BY DEF FetchEvents, LocalOK, tables
<1>4. BatchOK'
    BY <1>1 DEF FetchEvents, BatchOK, store, At
<1>5. ActionsOK' /\ OneOpenTrip'
    BY DEF FetchEvents, ActionsOK, OneOpenTrip, tables, Inserted, Closed, Live
<1> QED
    BY <1>2, <1>3, <1>4, <1>5

\* Giving up a device leaves the tables as they are and the worker idle.
LEMMA AbandonConsistent ==
    ASSUME Consistent, NothingFetched \/ SkipDevice \/ Restart
    PROVE  Consistent'
<1> USE DEF Consistent
<1>1. Idle /\ UNCHANGED <<store, tables>> /\ pc' \in {"device", "timeout"}
    BY DEF NothingFetched, SkipDevice, Restart
<1>2. todo' \subseteq Imei /\ faults' \in 0..MaxFaults
    BY BoundAssumption DEF NothingFetched, SkipDevice, Restart, TypeOK
<1>3. TypeOK'
    BY <1>1, <1>2 DEF TypeOK, store, tables, Idle, Id
<1>4. LocalOK' /\ BatchOK' /\ ActionsOK' /\ OneOpenTrip'
    BY <1>1 DEF LocalOK, BatchOK, ActionsOK, OneOpenTrip, tables, Idle
<1> QED
    BY <1>3, <1>4

\* What one iteration of the loop leaves alone, and what the next event is.
LEMMA IterateFacts ==
    ASSUME NEW e, Consistent, Iterate(e)
    PROVE  /\ e \in Nat /\ At(e) \in Nat /\ dev \in Imei
           /\ rest' \subseteq events /\ last' \in events /\ events # {}
           /\ pc' = pc /\ pc = "detect"
           /\ UNCHANGED <<log, visible, cursor, trips, age, seen, todo, dev, after, events, faults>>
<1>1. e \in events /\ e \in Id /\ At(e) # None /\ log[e] \in Event
    BY DEF Iterate, IsNext, Consistent, TypeOK, BatchOK, Id
<1>2. e \in Nat
    BY <1>1 DEF Consistent, TypeOK, Id
<1>3. At(e) \in Nat
    BY <1>1, BoundAssumption DEF Event, At
<1> QED
    BY <1>1, <1>2, <1>3 DEF Iterate, IsNext, store, tables, Consistent, TypeOK, LocalOK

\* A trip begun at e is well typed and its id is unused.
LEMMA NewTripFacts ==
    ASSUME NEW e, Consistent, Iterate(e), NEW t \in Trip, Fresh(t)
    PROVE  /\ NewTrip(t, e) \in OpenTrip
           /\ NewTrip(t, e).id = t
           /\ ~Closed(t) /\ ~Live(t) /\ t # cursor[dev].open
<1>1. NewTrip(t, e) \in OpenTrip /\ NewTrip(t, e).id = t
    BY IterateFacts DEF NewTrip, OpenTrip
<1>2. t # cursor[dev].open
    BY IterateFacts DEF Consistent, OneOpenTrip, Fresh
<1>3. ~Closed(t) /\ ~Live(t)
    BY <1>2, IterateFacts DEF Consistent, ActionsOK, Fresh
<1> QED
    BY <1>1, <1>2, <1>3

\* Beginning a trip inserts one new row under an unused id.
LEMMA BeginActions ==
    ASSUME NEW e, Consistent, Iterate(e), Begin(e)
    PROVE  \E trip \in OpenTrip :
             /\ open' = trip /\ open' # None
             /\ inserts' = inserts \cup {trip}
             /\ trips[trip.id].status = "absent"
             /\ ~Inserted(trip.id) /\ ~Closed(trip.id) /\ ~Live(trip.id)
             /\ trip.id # cursor[dev].open
<1>1. PICK t \in Trip : /\ Fresh(t)
                       /\ open' = NewTrip(t, e)
                       /\ inserts' = inserts \cup {NewTrip(t, e)}
    BY DEF Begin, IsFresh
<1> QED
    BY <1>1, NewTripFacts, NoneAssumption DEF Fresh

\* Absorbing an event keeps the trip's type and identity; so does closing it.
LEMMA AbsorbFacts ==
    ASSUME NEW trip \in OpenTrip, NEW e \in Nat, NEW at \in Nat
    PROVE  /\ Absorb(trip, e) \in OpenTrip
           /\ Absorb(trip, e).id = trip.id
           /\ CloseAt(trip, e, at) \in CloseAction
           /\ CloseAt(trip, e, at).id = trip.id
<1>1. trip.evs \cup {e} \in SUBSET Nat /\ trip.hits + 1 \in Nat
    BY DEF OpenTrip
<1>2. Absorb(trip, e) \in OpenTrip /\ Absorb(trip, e).id = trip.id
    BY <1>1 DEF OpenTrip, Absorb
<1> QED
    BY <1>2 DEF OpenTrip, CloseAt, CloseAction

\* Every branch of the loop body accounts for the trip it ends and the trip it begins.
LEMMA DetectEventConsistent ==
    ASSUME NEW e, Consistent, DetectEvent(e)
    PROVE  Consistent'
<1> USE DEF Consistent
<1>1. Iterate(e)
    BY DEF DetectEvent, DropReversed, CloseOnGap, CloseOnIgnitionOff, Drive, StartTrip, SkipParked
<1>2. /\ open' \in OpenTrip \cup {None}
      /\ inserts' \subseteq OpenTrip
      /\ closes' \subseteq CloseAction
      /\ ActionsOK'
  <2> USE <1>1
  <2>0. /\ open # None => open \in OpenTrip
        /\ inserts \subseteq OpenTrip /\ closes \subseteq CloseAction
        /\ pc = "detect" /\ pc' = pc /\ UNCHANGED <<trips, cursor, dev>>
        /\ \A t \in Trip :
             /\ Inserted(t) => trips[t].status = "absent"
             /\ (Closed(t) \/ Live(t)) <=> (Inserted(t) \/ t = cursor[dev].open)
             /\ ~(Closed(t) /\ Live(t))
    BY IterateFacts DEF TypeOK, ActionsOK
  <2>1. CASE DropReversed(e) \/ SkipParked(e)
    BY <2>0, <2>1 DEF DropReversed, SkipParked, ActionsOK, Inserted, Closed, Live
  <2>2. CASE Drive(e)
    <3>1. open' \in OpenTrip /\ open'.id = open.id /\ open' # None
      <4>1. e \in Nat /\ At(e) \in Nat /\ open \in OpenTrip
        BY <2>0, <2>2, IterateFacts DEF Drive
      <4>2. Absorb(open, e) \in OpenTrip /\ Absorb(open, e).id = open.id
        BY <4>1, AbsorbFacts
      <4>3. \A r \in OpenTrip : /\ [r EXCEPT !.lastId = e, !.lastAt = At(e)] \in OpenTrip
                                /\ [r EXCEPT !.lastId = e, !.lastAt = At(e)].id = r.id
        BY <4>1 DEF OpenTrip
      <4>4. open' = [Absorb(open, e) EXCEPT !.lastId = e, !.lastAt = At(e)]
        BY <2>2 DEF Drive
      <4>5. open' \in OpenTrip /\ open'.id = open.id
        BY <4>2, <4>3, <4>4
      <4> QED
        BY <4>5, NoneAssumption
    <3> QED
      BY <2>0, <2>2, <3>1 DEF Drive, ActionsOK, Inserted, Closed, Live
  <2>3. CASE StartTrip(e)
    <3>1. Begin(e) /\ open = None /\ closes' = closes
      BY <2>3 DEF StartTrip
    <3> QED
      BY <2>0, <3>1, BeginActions DEF ActionsOK, Inserted, Closed, Live
  <2>4. CASE CloseOnIgnitionOff(e)
    <3>1. PICK c \in CloseAction : /\ c.id = open.id
                                  /\ closes' = closes \cup {c}
                                  /\ open # None /\ open' = None /\ inserts' = inserts
      <4>1. e \in Nat /\ At(e) \in Nat /\ open \in OpenTrip
        BY <2>0, <2>4, IterateFacts DEF CloseOnIgnitionOff
      <4>2. /\ CloseAt(Absorb(open, e), e, At(e)) \in CloseAction
            /\ CloseAt(Absorb(open, e), e, At(e)).id = open.id
        <5>1. Absorb(open, e) \in OpenTrip /\ Absorb(open, e).id = open.id
          BY <4>1, AbsorbFacts
        <5> QED
          BY <4>1, <5>1, AbsorbFacts
      <4> QED
        BY <2>4, <4>2 DEF CloseOnIgnitionOff
    <3> QED
      BY <2>0, <3>1 DEF ActionsOK, Inserted, Closed, Live
  <2>5. CASE CloseOnGap(e)
    <3>1. PICK c \in CloseAction : /\ c.id = open.id
                                  /\ closes' = closes \cup {c}
                                  /\ open # None
      BY <2>0, <2>5 DEF CloseOnGap, CloseAt, OpenTrip, CloseAction
    <3>2. CASE open' = None /\ inserts' = inserts
      BY <2>0, <3>1, <3>2 DEF ActionsOK, Inserted, Closed, Live
    <3>3. CASE Begin(e)
      BY <2>0, <3>1, <3>3, BeginActions DEF ActionsOK, Inserted, Closed, Live
    <3> QED
      BY <2>5, <3>2, <3>3 DEF CloseOnGap
  <2> QED
    BY <2>1, <2>2, <2>3, <2>4, <2>5 DEF DetectEvent
<1>3. TypeOK'
  <2>1. /\ UNCHANGED <<log, visible, cursor, trips, age, seen, todo, dev, after, events, faults>>
        /\ pc' = pc /\ rest' \subseteq events /\ last' \in events
    BY <1>1, IterateFacts
  <2>2. last' \in Nat /\ rest' \subseteq events'
    BY <2>1 DEF TypeOK, Id
  <2> QED
    BY <1>2, <2>1, <2>2 DEF TypeOK, Id
<1>4. LocalOK' /\ OneOpenTrip'
    BY <1>1, IterateFacts DEF LocalOK, OneOpenTrip
<1>5. BatchOK'
    BY <1>1, IterateFacts DEF BatchOK, At
<1> QED
    BY <1>2, <1>3, <1>4, <1>5

\* The transaction writes the rows of this run and nothing else: a row that it closes
\* or leaves open was absent, or was the one the cursor named.
LEMMA CommitFacts ==
    ASSUME Consistent, Commit, NEW t \in Trip
    PROVE  /\ trips'[t] \in Row
           /\ trips'[t] # trips[t] =>
                \/ trips[t].status = "absent"
                \/ trips[t].status = "open" /\ t = cursor[dev].open
           /\ ~Inserted(t) /\ t # cursor[dev].open => trips'[t] = trips[t]
           /\ Inserted(t) \/ t = cursor[dev].open => trips'[t].imei = dev
           /\ Inserted(t) \/ t = cursor[dev].open => (trips'[t].status = "open" <=> Live(t))
<1> USE DEF Consistent
<1>1. /\ pc = "detect" /\ dev \in Imei /\ trips[t] \in Row
      /\ Inserted(t) => trips[t].status = "absent"
      /\ (Closed(t) \/ Live(t)) <=> (Inserted(t) \/ t = cursor[dev].open)
      /\ ~(Closed(t) /\ Live(t))
      /\ trips'[t] = NewRow(t)
    BY DEF Commit, TypeOK, LocalOK, ActionsOK
<1>2. t = cursor[dev].open <=> trips[t].status = "open" /\ trips[t].imei = dev
    BY <1>1 DEF OneOpenTrip
<1>3. Inserted(t) =>
        InsertRow(t) \in Row /\ InsertRow(t).status = "open" /\ InsertRow(t).imei = dev
  <2>1. SUFFICES ASSUME Inserted(t)
                 PROVE  InsertRow(t) \in Row /\ InsertRow(t).status = "open" /\ InsertRow(t).imei = dev
    OBVIOUS
  <2>2. (CHOOSE a \in inserts : a.id = t) \in OpenTrip
    BY <2>1 DEF Inserted, TypeOK
  <2> QED
    BY <1>1, <2>2 DEF InsertRow, Row, OpenTrip
<1>4. ASSUME Closed(t), NEW r \in Row
      PROVE  /\ CloseRow(r, t) \in Row
             /\ CloseRow(r, t).status = "closed" /\ CloseRow(r, t).imei = r.imei
  <2>1. (CHOOSE c \in closes : c.id = t) \in CloseAction
    BY <1>4 DEF Closed, TypeOK
  <2> QED
    BY <1>4, <2>1 DEF CloseRow, Row, CloseAction
<1>5. ASSUME Live(t), NEW r \in Row
      PROVE  /\ UpdateRow(r) \in Row
             /\ UpdateRow(r).status = r.status /\ UpdateRow(r).imei = r.imei
  <2>1. open \in OpenTrip
    BY <1>5 DEF Live, TypeOK
  <2> QED
    BY <1>5, <2>1 DEF UpdateRow, Row, OpenTrip
<1>6. CASE Inserted(t)
    BY <1>1, <1>3, <1>4, <1>5, <1>6 DEF NewRow
<1>7. CASE ~Inserted(t)
    BY <1>1, <1>2, <1>4, <1>5, <1>7 DEF NewRow
<1> QED
    BY <1>6, <1>7

\* One transaction moves the trips and the cursor together.
LEMMA CommitConsistent ==
    ASSUME Consistent, Commit
    PROVE  Consistent'
<1> USE DEF Consistent
<1>1. /\ pc = "detect" /\ dev \in Imei /\ last \in events
      /\ cursor' = [cursor EXCEPT ![dev] = NewCursor]
    BY DEF Commit, TypeOK, LocalOK, BatchOK
<1>2. NewCursor \in [last : Nat, open : Trip \cup {None}]
    BY DEF NewCursor, TypeOK, OpenTrip
<1>3. TypeOK'
  <2>1. trips' \in [Trip -> Row]
    BY CommitFacts DEF Commit
  <2>2. age' \in [Trip -> 0..StaleAge + 1]
    BY BoundAssumption DEF Commit, TypeOK
  <2>3. cursor' \in [Imei -> [last : Nat, open : Trip \cup {None}]]
    BY <1>1, <1>2 DEF TypeOK
  <2> QED
    BY <2>1, <2>2, <2>3 DEF Commit, TypeOK, Idle, store, Id
<1>4. LocalOK' /\ BatchOK' /\ ActionsOK'
    BY DEF Commit, LocalOK, BatchOK, ActionsOK, Idle
<1>5. OneOpenTrip'
  <2> SUFFICES ASSUME NEW i \in Imei, NEW t \in Trip
               PROVE  (Open(t)' /\ trips'[t].imei = i) <=> cursor'[i].open = t
    BY DEF OneOpenTrip
  <2>1. /\ (Open(t) /\ trips[t].imei = i) <=> cursor[i].open = t
        /\ (Open(t) /\ trips[t].imei = dev) <=> cursor[dev].open = t
    BY <1>1 DEF OneOpenTrip
  <2>2. cursor'[dev].open = t <=> Live(t)
    BY <1>1, <1>2, BoundAssumption, NoneAssumption DEF TypeOK, NewCursor, Live
  <2>3. i # dev => cursor'[i] = cursor[i]
    BY <1>1 DEF TypeOK
  <2>4. Live(t) => Inserted(t) \/ t = cursor[dev].open
    BY <1>1 DEF ActionsOK
  <2>5. Inserted(t) => ~Open(t)
    BY <1>1 DEF ActionsOK
  <2> QED
    BY <1>1, <2>1, <2>2, <2>3, <2>4, <2>5, CommitFacts
<1> QED
    BY <1>3, <1>4, <1>5

\* Consistent is inductive.
LEMMA NextConsistent == Consistent /\ [Next]_vars => Consistent'
<1> SUFFICES ASSUME Consistent, [Next]_vars PROVE Consistent'
    OBVIOUS
<1>1. CASE \E i \in Imei : StoreEvent(i)
    BY <1>1, StoreEventConsistent
<1>2. CASE \E e \in Id : CommitEvent(e)
    BY <1>2, CommitEventConsistent
<1>3. CASE Work
    BY <1>3, TimeoutCloseConsistent, PassConsistent, LoadDeviceConsistent,
       FetchEventsConsistent, AbandonConsistent, DetectEventConsistent, CommitConsistent
    DEF Work
<1>4. CASE SkipDevice \/ Restart
    BY <1>4, AbandonConsistent
<1>5. CASE Tick
    BY <1>5, TickConsistent
<1>6. CASE UNCHANGED vars
  <2>1. TypeOK' /\ LocalOK' /\ BatchOK'
    BY <1>6 DEF Consistent, TypeOK, LocalOK, BatchOK, vars, Id, At
  <2>2. ActionsOK' /\ OneOpenTrip'
    BY <1>6 DEF Consistent, ActionsOK, OneOpenTrip, vars, Inserted, Closed, Live
  <2> QED
    BY <2>1, <2>2 DEF Consistent
<1> QED
    BY <1>1, <1>2, <1>3, <1>4, <1>5, <1>6 DEF Next

\* The worker and its tables stay consistent, whatever the delivery and the faults.
THEOREM ConsistentAlways == Spec => []Consistent
<1> QED
    BY InitConsistent, NextConsistent, PTL DEF Spec

\* Type correctness.
THEOREM TypeCorrect == Spec => []TypeOK
<1>1. Consistent => TypeOK
    BY DEF Consistent
<1> QED
    BY <1>1, ConsistentAlways, PTL

\* Every device has at most one open trip, the one its cursor names.
THEOREM AtMostOneOpenTrip == Spec => []OneOpenTrip
<1>1. Consistent => OneOpenTrip
    BY DEF Consistent
<1> QED
    BY <1>1, ConsistentAlways, PTL

\* Steps that leave the cursor table and the trips alone.
LEMMA QuietSteps ==
    ASSUME [Next]_vars, ~TimeoutClose, ~Commit
    PROVE  UNCHANGED <<cursor, trips>>
<1>1. CASE \E e \in Id : DetectEvent(e)
    BY <1>1 DEF DetectEvent, DropReversed, CloseOnGap, CloseOnIgnitionOff, Drive,
                StartTrip, SkipParked, Iterate, tables
<1>2. CASE Work /\ ~(\E e \in Id : DetectEvent(e))
    BY <1>2 DEF Work, FetchDevices, LoadDevice, EndPass, FetchEvents, NothingFetched, tables
<1>3. CASE ~Work
    BY <1>3 DEF Next, StoreEvent, CommitEvent, SkipDevice, Restart, Tick, tables, vars
<1> QED
    BY <1>1, <1>2, <1>3

\* A cursor moves forward or, in a timeout, only forgets its trip.
THEOREM CursorNeverMovesBack == Spec => CursorAdvances
<1>1. ASSUME Consistent, [Next]_vars, NEW i \in Imei
      PROVE  \/ cursor'[i].last > cursor[i].last
             \/ /\ cursor'[i].last = cursor[i].last
                /\ cursor'[i].open \in {cursor[i].open, None}
  <2> USE <1>1 DEF Consistent
  <2>1. CASE TimeoutClose
    BY <2>1 DEF TimeoutClose, ClearedCursor, TypeOK
  <2>2. CASE Commit
    <3>1. cursor' = [cursor EXCEPT ![dev] = NewCursor] /\ dev \in Imei
      BY <2>2 DEF Commit, TypeOK, LocalOK
    <3>2. last \in events /\ last > after /\ after = cursor[dev].last
      BY <2>2 DEF Commit, BatchOK, LocalOK
    <3> QED
      BY <3>1, <3>2 DEF NewCursor, TypeOK
  <2>3. CASE UNCHANGED <<cursor, trips>>
    BY <2>3
  <2> QED
    BY <2>1, <2>2, <2>3, QuietSteps
<1>2. Consistent /\ [Next]_vars =>
        [\A i \in Imei : \/ cursor'[i].last > cursor[i].last
                         \/ /\ cursor'[i].last = cursor[i].last
                            /\ cursor'[i].open \in {cursor[i].open, None}]_vars
    BY <1>1
<1> QED
    BY <1>2, ConsistentAlways, PTL DEF Spec, CursorAdvances

\* A closed row never changes again.
THEOREM ClosedNeverChanges == Spec => ClosedIsFinal
<1>1. ASSUME Consistent, [Next]_vars, NEW t \in Trip, trips[t].status = "closed"
      PROVE  trips'[t] = trips[t]
  <2>1. CASE TimeoutClose
    BY <1>1, <2>1 DEF TimeoutClose, Stale
  <2>2. CASE Commit
    BY <1>1, <2>2, CommitFacts
  <2>3. CASE UNCHANGED <<cursor, trips>>
    BY <2>3
  <2> QED
    BY <1>1, <2>1, <2>2, <2>3, QuietSteps
<1>2. Consistent /\ [Next]_vars =>
        [\A t \in Trip : trips[t].status = "closed" => trips'[t] = trips[t]]_vars
    BY <1>1
<1> QED
    BY <1>2, ConsistentAlways, PTL DEF Spec, ClosedIsFinal

-----------------------------------------------------------------------------
(***************************************************************************)
(* TripWorker implements TripLog for any devices, trips, bounds and        *)
(* delivery: a Commit maps to Advance, a TimeoutClose to Expire, and every *)
(* other step leaves the cursor and the rows alone.                        *)
(***************************************************************************)

\* A closing action ends its trip no earlier than the trip in memory was.
LEMMA CloseTimes ==
    ASSUME NEW e, Consistent, Iterate(e), open # None,
           CloseOnGap(e) \/ CloseOnIgnitionOff(e)
    PROVE  \E c \in CloseAction : /\ c.id = open.id
                                 /\ closes' = closes \cup {c}
                                 /\ open.lastAt <= c.end
<1>1. e \in Nat /\ At(e) \in Nat /\ open \in OpenTrip /\ open.lastAt \in Nat
    BY IterateFacts DEF Consistent, TypeOK, OpenTrip
<1>2. CASE CloseOnGap(e)
  <2>1. /\ CloseAt(open, open.lastId, open.lastAt) \in CloseAction
        /\ CloseAt(open, open.lastId, open.lastAt).id = open.id
        /\ CloseAt(open, open.lastId, open.lastAt).end = open.lastAt
    BY <1>1 DEF CloseAt, OpenTrip, CloseAction
  <2> QED
    BY <1>1, <1>2, <2>1 DEF CloseOnGap
<1>3. CASE CloseOnIgnitionOff(e)
  <2>1. Absorb(open, e) \in OpenTrip /\ Absorb(open, e).id = open.id
    BY <1>1, AbsorbFacts
  <2>2. /\ CloseAt(Absorb(open, e), e, At(e)) \in CloseAction
        /\ CloseAt(Absorb(open, e), e, At(e)).id = open.id
        /\ CloseAt(Absorb(open, e), e, At(e)).end = At(e)
    BY <1>1, <2>1, AbsorbFacts DEF CloseAt
  <2>3. At(e) >= open.lastAt
    BY <1>1, <1>3, BoundAssumption DEF CloseOnIgnitionOff, Gap
  <2> QED
    BY <1>3, <2>2, <2>3 DEF CloseOnIgnitionOff
<1> QED
    BY <1>2, <1>3

\* Beginning a trip at e: the new row starts where the live trip stands.
LEMMA BeginTimes ==
    ASSUME NEW e, Consistent, Iterate(e), Begin(e)
    PROVE  \E trip \in OpenTrip :
             /\ open' = trip /\ open' # None
             /\ inserts' = inserts \cup {trip}
             /\ trip.start = trip.lastAt
             /\ ~Inserted(trip.id) /\ ~Closed(trip.id) /\ ~Live(trip.id)
             /\ trip.id # cursor[dev].open
<1>1. PICK t \in Trip : /\ Fresh(t)
                       /\ open' = NewTrip(t, e)
                       /\ inserts' = inserts \cup {NewTrip(t, e)}
    BY DEF Begin, IsFresh
<1>2. NewTrip(t, e).start = NewTrip(t, e).lastAt
    BY DEF NewTrip
<1> QED
    BY <1>1, <1>2, NewTripFacts, NoneAssumption DEF Fresh

\* Every branch of the loop body keeps the times in order.
LEMMA DetectEventTimes ==
    ASSUME NEW e, Consistent, TimesOK, DetectEvent(e)
    PROVE  TimesOK'
<1>1. Iterate(e)
    BY DEF DetectEvent, DropReversed, CloseOnGap, CloseOnIgnitionOff, Drive, StartTrip, SkipParked
<1>2. /\ open # None => open \in OpenTrip /\ open.lastAt \in Nat
      /\ \A a \in inserts : a \in OpenTrip /\ a.start \in Nat /\ a.id \in Trip
      /\ \A c \in closes : c \in CloseAction /\ c.end \in Nat /\ c.id \in Trip
      /\ pc = "detect" /\ pc' = pc /\ UNCHANGED <<trips, cursor, dev>>
      /\ e \in Nat /\ At(e) \in Nat /\ dev \in Imei
    BY <1>1, IterateFacts DEF Consistent, TypeOK, OpenTrip, CloseAction
<1>3. /\ \A a \in inserts, c \in closes : a.id = c.id => a.start <= c.end
      /\ \A a \in inserts : Live(a.id) => a.start <= open.lastAt
      /\ \A c \in closes : c.id = cursor[dev].open => trips[c.id].end <= c.end
      /\ Live(cursor[dev].open) => trips[cursor[dev].open].end <= open.lastAt
    BY <1>2 DEF TimesOK
<1>4. \A t \in Trip : trips[t].end \in Nat
    BY DEF Consistent, TypeOK, Row
<1>5. cursor[dev].open \in Trip \cup {None}
    BY <1>2 DEF Consistent, TypeOK
<1>6. CASE DropReversed(e) \/ SkipParked(e)
    BY <1>2, <1>3, <1>6 DEF DropReversed, SkipParked, TimesOK, Live
<1>7. CASE Drive(e)
  <2>1. /\ open # None /\ open' # None
        /\ open'.id = open.id /\ open'.lastAt = At(e) /\ At(e) >= open.lastAt
        /\ UNCHANGED <<inserts, closes>>
    <3>1. Absorb(open, e) \in OpenTrip /\ Absorb(open, e).id = open.id
      BY <1>2, <1>7, AbsorbFacts DEF Drive
    <3>2. \A r \in OpenTrip :
            /\ [r EXCEPT !.lastId = e, !.lastAt = At(e)] \in OpenTrip
            /\ [r EXCEPT !.lastId = e, !.lastAt = At(e)].id = r.id
            /\ [r EXCEPT !.lastId = e, !.lastAt = At(e)].lastAt = At(e)
      BY <1>2 DEF OpenTrip
    <3>3. /\ open # None /\ Gap(e) \in 0..GapThreshold
          /\ open' = [Absorb(open, e) EXCEPT !.lastId = e, !.lastAt = At(e)]
          /\ UNCHANGED <<inserts, closes>>
      BY <1>7 DEF Drive
    <3>4. At(e) >= open.lastAt
      BY <1>2, <3>3, BoundAssumption DEF Gap
    <3> QED
      BY <3>1, <3>2, <3>3, <3>4, NoneAssumption
  <2>2. \A t : Live(t)' <=> Live(t)
    BY <2>1 DEF Live
  <2>3. \A a \in inserts : Live(a.id) => a.start <= At(e)
    BY <1>2, <1>3, <2>1
  <2>4. Live(cursor[dev].open) => trips[cursor[dev].open].end <= At(e)
    <3>1. Live(cursor[dev].open) => cursor[dev].open \in Trip
      BY <1>2 DEF Live, OpenTrip
    <3> QED
      BY <1>2, <1>3, <1>4, <2>1, <3>1 DEF Live
  <2> QED
    BY <1>2, <1>3, <2>1, <2>2, <2>3, <2>4 DEF TimesOK
<1>8. CASE StartTrip(e)
  <2>1. Begin(e) /\ open = None /\ closes' = closes
    BY <1>8 DEF StartTrip
  <2> QED
    BY <1>1, <1>2, <1>3, <2>1, BeginTimes DEF TimesOK, Live, Inserted, Closed, OpenTrip
<1>9. CASE CloseOnIgnitionOff(e)
  <2>1. open # None /\ open' = None /\ inserts' = inserts
    BY <1>9 DEF CloseOnIgnitionOff
  <2>2. PICK c \in CloseAction : /\ c.id = open.id
                                /\ closes' = closes \cup {c}
                                /\ open.lastAt <= c.end
    BY <1>1, <1>9, <2>1, CloseTimes
  <2> QED
    BY <1>2, <1>3, <1>4, <2>1, <2>2 DEF TimesOK, Live, CloseAction
<1>10. CASE CloseOnGap(e)
  <2>1. open # None
    BY <1>10 DEF CloseOnGap
  <2>2. PICK c \in CloseAction : /\ c.id = open.id
                                /\ closes' = closes \cup {c}
                                /\ open.lastAt <= c.end
    BY <1>1, <1>10, <2>1, CloseTimes
  <2>3. /\ \A a \in inserts, d \in closes' : a.id = d.id => a.start <= d.end
        /\ \A d \in closes' : d.id = cursor[dev].open => trips[d.id].end <= d.end
    BY <1>2, <1>3, <1>4, <2>1, <2>2 DEF Live, CloseAction
  <2>4. CASE open' = None /\ inserts' = inserts
    BY <1>2, <2>3, <2>4 DEF TimesOK, Live
  <2>5. CASE Begin(e)
    <3>1. PICK trip \in OpenTrip :
             /\ open' = trip /\ open' # None
             /\ inserts' = inserts \cup {trip}
             /\ trip.start = trip.lastAt
             /\ ~Inserted(trip.id) /\ ~Closed(trip.id) /\ ~Live(trip.id)
             /\ trip.id # cursor[dev].open
      BY <1>1, <2>5, BeginTimes
    <3> QED
      BY <1>2, <2>1, <2>2, <2>3, <3>1 DEF TimesOK, Live, Inserted, Closed, OpenTrip
  <2> QED
    BY <1>10, <2>4, <2>5 DEF CloseOnGap
<1> QED
    BY <1>6, <1>7, <1>8, <1>9, <1>10 DEF DetectEvent

\* Consistent and TimesOK together are inductive.
LEMMA NextTimes == Consistent /\ TimesOK /\ [Next]_vars => TimesOK'
<1> SUFFICES ASSUME Consistent, TimesOK, [Next]_vars PROVE TimesOK'
    OBVIOUS
<1>1. CASE \E i \in Imei : LoadDevice(i)
  <2>1. PICK i \in Imei : LoadDevice(i)
    BY <1>1
  <2>2. /\ inserts' = {} /\ closes' = {} /\ dev' = i /\ open' = Restored(i)
        /\ UNCHANGED <<cursor, trips>>
    BY <2>1 DEF LoadDevice, Consistent, LocalOK, tables
  <2>3. open' # None => trips[cursor[i].open].end <= open'.lastAt
    <3>1. open' # None => /\ cursor[i].open \in Trip
                          /\ open'.lastAt = trips[cursor[i].open].end
      BY <2>2 DEF Restored, Consistent, TypeOK
    <3> QED
      BY <3>1 DEF Consistent, TypeOK, Row
  <2> QED
    BY <2>2, <2>3 DEF TimesOK, Live
<1>2. CASE FetchEvents
    BY <1>2 DEF FetchEvents, TimesOK, Live, tables
<1>3. CASE \E e \in Id : DetectEvent(e)
    BY <1>3, DetectEventTimes
<1>4. CASE UNCHANGED <<pc, cursor, trips, dev, open, inserts, closes>>
    BY <1>4 DEF TimesOK, Live
<1>5. CASE \E i \in Imei : StoreEvent(i)
    BY <1>4, <1>5 DEF StoreEvent, tables, local
<1>6. CASE \E e \in Id : CommitEvent(e)
    BY <1>4, <1>6 DEF CommitEvent, tables, local
<1>7. CASE Tick
    BY <1>4, <1>7 DEF Tick, local
<1>8. CASE pc' \notin {"fetch", "detect"}
    BY <1>8 DEF TimesOK
<1>9. CASE Work /\ ~FetchEvents /\ ~(\E i \in Imei : LoadDevice(i)) /\ ~(\E e \in Id : DetectEvent(e))
    BY <1>8, <1>9 DEF Work, TimeoutClose, FetchDevices, EndPass, NothingFetched, Commit
<1>10. CASE SkipDevice \/ Restart
    BY <1>8, <1>10 DEF SkipDevice, Restart
<1>11. CASE UNCHANGED vars
    BY <1>4, <1>11 DEF vars
<1> QED
    BY <1>1, <1>2, <1>3, <1>5, <1>6, <1>7, <1>9, <1>10, <1>11 DEF Next

\* What the transaction does to one row, as the readers see it.
LEMMA CommitMoves ==
    ASSUME Consistent, TimesOK, Commit, NEW t \in Trip
    PROVE  Readers!Moves(ReaderRow(t), ReaderRow(t)', dev)
<1> USE DEF Consistent
<1>1. /\ pc = "detect" /\ dev \in Imei /\ trips[t] \in Row /\ trips'[t] = NewRow(t)
      /\ Inserted(t) => trips[t].status = "absent"
      /\ (Closed(t) \/ Live(t)) <=> (Inserted(t) \/ t = cursor[dev].open)
      /\ ~(Closed(t) /\ Live(t))
      /\ t = cursor[dev].open <=> (trips[t].status = "open" /\ trips[t].imei = dev)
  <2>1. pc = "detect" /\ dev \in Imei /\ trips[t] \in Row /\ trips'[t] = NewRow(t)
    BY DEF Commit, TypeOK, LocalOK
  <2> QED
    BY <2>1 DEF ActionsOK, OneOpenTrip
<1>2. /\ \A a \in inserts, c \in closes : a.id = c.id => a.start <= c.end
      /\ \A a \in inserts : Live(a.id) => a.start <= open.lastAt
      /\ \A c \in closes : c.id = cursor[dev].open => trips[c.id].end <= c.end
      /\ Live(cursor[dev].open) => trips[cursor[dev].open].end <= open.lastAt
    BY <1>1 DEF TimesOK
<1>3. ReaderRow(t)' = [status |-> NewRow(t).status, device |-> NewRow(t).imei,
                       start |-> NewRow(t).start, end |-> NewRow(t).end]
    BY <1>1 DEF ReaderRow
<1>4. CASE Inserted(t)
  <2> DEFINE a == CHOOSE a \in inserts : a.id = t
             r == InsertRow(t)
  <2>1. a \in inserts /\ a.id = t /\ a \in OpenTrip
    BY <1>4 DEF Inserted, TypeOK
  <2>2. /\ r.status = "open" /\ r.imei = dev /\ r.start = a.start /\ r \in Row
        /\ a.start \in Nat
    BY <1>1, <2>1 DEF InsertRow, Row, OpenTrip
  <2>3. CASE Closed(t)
    <3> DEFINE c == CHOOSE c \in closes : c.id = t
    <3>1. c \in closes /\ c.id = t /\ c \in CloseAction
      BY <2>3 DEF Closed, TypeOK
    <3>2. NewRow(t) = CloseRow(r, t)
      BY <1>4, <2>2, <2>3 DEF NewRow
    <3>3. /\ NewRow(t).status = "closed" /\ NewRow(t).imei = dev
          /\ NewRow(t).start = a.start /\ NewRow(t).end = c.end
      BY <2>2, <3>1, <3>2 DEF CloseRow, Row
    <3>4. a.start <= c.end
      BY <1>2, <2>1, <3>1
    <3> QED
      BY <1>1, <1>3, <1>4, <3>3, <3>4 DEF Readers!Moves, ReaderRow
  <2>4. CASE Live(t)
    <3>1. NewRow(t) = UpdateRow(r)
      BY <1>1, <1>4, <2>2, <2>4 DEF NewRow
    <3>2. /\ NewRow(t).status = "open" /\ NewRow(t).imei = dev
          /\ NewRow(t).start = a.start /\ NewRow(t).end = open.lastAt
      BY <2>2, <3>1 DEF UpdateRow, Row
    <3>3. a.start <= open.lastAt
      BY <1>2, <2>1, <2>4
    <3> QED
      BY <1>1, <1>3, <1>4, <3>2, <3>3 DEF Readers!Moves, ReaderRow
  <2> QED
    BY <1>1, <1>4, <2>3, <2>4
<1>5. CASE ~Inserted(t) /\ t = cursor[dev].open
  <2>1. trips[t].status = "open" /\ trips[t].imei = dev
    BY <1>1, <1>5
  <2>2. CASE Closed(t)
    <3> DEFINE c == CHOOSE c \in closes : c.id = t
    <3>1. c \in closes /\ c.id = t /\ c \in CloseAction
      BY <2>2 DEF Closed, TypeOK
    <3>2. NewRow(t) = CloseRow(trips[t], t)
      BY <1>5, <2>1, <2>2 DEF NewRow
    <3>3. /\ NewRow(t).status = "closed" /\ NewRow(t).imei = dev
          /\ NewRow(t).start = trips[t].start /\ NewRow(t).end = c.end
      BY <1>1, <2>1, <3>1, <3>2 DEF CloseRow, Row
    <3>4. trips[t].end <= c.end /\ trips[t].end \in Nat /\ c.end \in Nat
      BY <1>1, <1>2, <1>5, <3>1 DEF Row, CloseAction
    <3> QED
      BY <1>1, <1>3, <2>1, <3>3, <3>4 DEF Readers!Moves, ReaderRow
  <2>3. CASE Live(t)
    <3>1. NewRow(t) = UpdateRow(trips[t])
      BY <1>1, <1>5, <2>1, <2>3 DEF NewRow
    <3>2. /\ NewRow(t).status = "open" /\ NewRow(t).imei = dev
          /\ NewRow(t).start = trips[t].start /\ NewRow(t).end = open.lastAt
      BY <1>1, <2>1, <3>1 DEF UpdateRow, Row
    <3>3. trips[t].end <= open.lastAt /\ trips[t].end \in Nat /\ open.lastAt \in Nat
      BY <1>1, <1>2, <1>5, <2>3 DEF Row, Live, TypeOK, OpenTrip
    <3> QED
      BY <1>1, <1>3, <2>1, <3>2, <3>3 DEF Readers!Moves, ReaderRow
  <2> QED
    BY <1>1, <1>5, <2>2, <2>3
<1>6. CASE ~Inserted(t) /\ t # cursor[dev].open
    BY <1>1, <1>3, <1>6 DEF NewRow, Readers!Moves, ReaderRow
<1> QED
    BY <1>4, <1>5, <1>6

\* The initial tables are an empty log.
LEMMA InitMaps == Init => Readers!Init
<1> QED
    BY DEF Init, Readers!Init, ReaderRow, Absent, Readers!Unwritten

\* A detector run is one step of the log.
LEMMA CommitMaps ==
    ASSUME Consistent, Consistent', TimesOK, Commit
    PROVE  Readers!Advance(dev)
<1>1. /\ dev \in Imei /\ last \in events /\ last > after /\ after = cursor[dev].last
      /\ cursor' = [cursor EXCEPT ![dev] = NewCursor]
      /\ cursor \in [Imei -> [last : Nat, open : Trip \cup {None}]]
    BY DEF Consistent, Commit, TypeOK, LocalOK, BatchOK
<1>2. /\ cursor'[dev] = NewCursor
      /\ \A i \in Imei : i # dev => cursor'[i] = cursor[i]
    BY <1>1
<1>3. cursor'[dev].last > cursor[dev].last
    BY <1>1, <1>2 DEF NewCursor
<1>4. \A t \in Trip : Readers!Moves(ReaderRow(t), ReaderRow(t)', dev)
    BY CommitMoves
<1>5. \A t \in Trip, i \in Imei :
        (ReaderRow(t)'.status = "open" /\ ReaderRow(t)'.device = i) <=> cursor'[i].open = t
    BY DEF Consistent, OneOpenTrip, ReaderRow
<1> QED
    BY <1>1, <1>2, <1>3, <1>4, <1>5 DEF Readers!Advance, Readers!OnlyCurrent

\* The timeout is one step of the log, or none if nothing is stale.
LEMMA TimeoutCloseMaps ==
    ASSUME Consistent, TimeoutClose
    PROVE  Readers!Expire
<1> DEFINE S == {t \in Trip : Stale(t)}
<1>1. S \subseteq {t \in Trip : ReaderRow(t).status = "open"}
    BY DEF Stale, ReaderRow
<1>2. \A t \in Trip : ReaderRow(t)' = IF t \in S THEN [ReaderRow(t) EXCEPT !.status = "closed"]
                                                 ELSE ReaderRow(t)
  <2> SUFFICES ASSUME NEW t \in Trip
               PROVE  ReaderRow(t)' = IF t \in S THEN [ReaderRow(t) EXCEPT !.status = "closed"]
                                                  ELSE ReaderRow(t)
    OBVIOUS
  <2>1. trips[t] \in Row
    BY DEF Consistent, TypeOK
  <2>2. trips'[t] = IF Stale(t) THEN [trips[t] EXCEPT !.status = "closed"] ELSE trips[t]
    BY DEF TimeoutClose
  <2> QED
    BY <2>1, <2>2 DEF ReaderRow, Row
<1>3. \A i \in Imei : /\ cursor'[i].last = cursor[i].last
                      /\ cursor'[i].open = IF cursor[i].open \in S THEN None ELSE cursor[i].open
    BY DEF TimeoutClose, ClearedCursor, Consistent, TypeOK
<1> QED
    BY <1>1, <1>2, <1>3 DEF Readers!Expire

\* Every step of the worker is a step of the log or leaves it alone.
LEMMA StepMaps ==
    ASSUME Consistent, Consistent', TimesOK, [Next]_vars
    PROVE  [Readers!Next]_Readers!vars
<1>1. CASE TimeoutClose
    BY <1>1, TimeoutCloseMaps DEF Readers!Next
<1>2. CASE Commit
  <2>1. dev \in Imei
    BY <1>2 DEF Consistent, Commit, TypeOK, LocalOK
  <2>2. Readers!Advance(dev)
    BY <1>2, CommitMaps
  <2>3. \E i \in Imei : Readers!Advance(i)
    BY <2>1, <2>2, Zenon DEF Readers!Advance
  <2> QED
    BY <2>3 DEF Readers!Next
<1>3. CASE ~TimeoutClose /\ ~Commit
    BY <1>3, QuietSteps DEF Readers!vars, ReaderRow
<1> QED
    BY <1>1, <1>2, <1>3

\* The trip detector implements the log of trips promised to its readers.
THEOREM DetectorImplementsLog == Spec => KeepsPromise
<1>1. Init => TimesOK
    BY DEF Init, TimesOK
<1>2. Consistent /\ Consistent' /\ TimesOK /\ [Next]_vars => [Readers!Next]_Readers!vars
    BY StepMaps
<1> QED
    BY <1>1, <1>2, InitMaps, NextTimes, ConsistentAlways, PTL DEF Spec, KeepsPromise, Readers!Spec

=============================================================================
