------------------------- MODULE TripOrderedProofs -------------------------
(***************************************************************************)
(* The trips of devices whose rows become visible in id order, or that     *)
(* report in the order of their clocks: what is true of them then that     *)
(* other deliveries break, for any devices, trips, bounds and faults.      *)
(***************************************************************************)
EXTENDS TripEventsProofs

USE DEF Open

Inv == Consistent /\ Accounted /\ InOrder

-----------------------------------------------------------------------------
(* Ids and times *)

\* An event that can be compared by time has a number for a time.
LEMMA AtNat ==
    ASSUME Consistent, NEW e \in Id, At(e) # None
    PROVE  e \in Nat /\ At(e) \in Nat /\ log[e] \in Event
<1>1. e \in Nat /\ log[e] \in Event
    BY DEF Consistent, TypeOK, Id
<1> QED
    BY <1>1, BoundAssumption DEF Event, At

\* What is known of an event stays so.
LEMMA EventKept ==
    ASSUME Consistent, [Next]_vars, NEW e \in Id
    PROVE  e \in Id' /\ At(e)' = At(e) /\ log'[e].imei = log[e].imei
    BY LogGrows DEF At

\* Of two ids in the log one may be added by the step; it is the greatest.
LEMMA NewestId ==
    ASSUME Consistent, NEW i \in Imei, StoreEvent(i), NEW e \in Id', e \notin Id
    PROVE  \A f \in Id' : f <= e
<1>1. PICK g \in Gps \cup {None}, ign \in {"on", "off", "null"} :
         log' = Append(log, [imei |-> i, gps |-> g, ignition |-> ign])
    BY DEF StoreEvent
<1>2. Id = 1..Len(log) /\ Id' = 1..Len(log) + 1 /\ Len(log) \in Nat
    BY <1>1 DEF Consistent, TypeOK, Id
<1> QED
    BY <1>2

\* The clock of a device never runs back in its log.
LEMMA LogStaysInOrder ==
    ASSUME TimeOrdered, Consistent, [Next]_vars, LogInOrder
    PROVE  LogInOrder'
<1>1. CASE log' = log
    BY <1>1 DEF LogInOrder, Id, At
<1>2. ASSUME NEW i \in Imei, StoreEvent(i)
      PROVE  LogInOrder'
  <2>1. PICK g \in Gps \cup {None}, ign \in {"on", "off", "null"} :
           /\ \A e \in Id : (log[e].imei = i /\ At(e) # None /\ g # None) => At(e) <= g
           /\ log' = Append(log, [imei |-> i, gps |-> g, ignition |-> ign])
    BY <1>2 DEF StoreEvent
  <2>2. Id = 1..Len(log) /\ Id' = 1..Len(log) + 1 /\ Len(log) \in Nat
    BY <2>1 DEF Consistent, TypeOK, Id
  <2>3. /\ log'[Len(log) + 1].imei = i /\ log'[Len(log) + 1].gps = g
        /\ \A e \in Id : log'[e] = log[e] /\ At(e)' = At(e)
    <3>1. log \in Seq(Event)
      BY DEF Consistent, TypeOK
    <3>2. log'[Len(log) + 1] = [imei |-> i, gps |-> g, ignition |-> ign]
      BY <2>1, <3>1
    <3>3. \A e \in Id : log'[e] = log[e]
      BY <2>1, <2>2, <3>1
    <3> QED
      BY <3>2, <3>3 DEF At
  <2> SUFFICES ASSUME NEW e \in Id', NEW f \in Id', e < f, log'[e].imei = log'[f].imei,
                      At(e)' # None, At(f)' # None
               PROVE  At(e)' <= At(f)'
    BY DEF LogInOrder
  <2>4. e \in Id
    BY <2>2
  <2>5. CASE f \in Id
    BY <2>3, <2>4, <2>5 DEF LogInOrder
  <2>6. CASE f = Len(log) + 1
    <3>1. log[e].imei = i /\ At(f)' = g /\ At(e)' = At(e)
      BY <2>3, <2>4, <2>6 DEF At
    <3> QED
      BY <2>1, <2>4, <3>1
  <2> QED
    BY <2>2, <2>5, <2>6
<1>3. ASSUME NEW e \in Id, CommitEvent(e)
      PROVE  log' = log
    BY <1>3 DEF CommitEvent
<1> QED
    BY <1>1, <1>2, <1>3, StoreSteps

\* The transaction sets the cursor to the event the detector has reached last.
LEMMA CommitCursor ==
    ASSUME Consistent, Commit
    PROVE  /\ pc = "detect" /\ dev \in Imei /\ rest = {} /\ log' = log
           /\ last \in events /\ last \in visible /\ last \in Id /\ last \in Nat
           /\ after \in Nat /\ after < last /\ after = cursor[dev].last
           /\ log[last].imei = dev /\ At(last) # None /\ At(last) \in Nat
           /\ cursor'[dev].last = last
           /\ \A t \in Trip : cursor'[dev].open = t <=> Live(t)
           /\ \A i \in Imei : i # dev => cursor'[i] = cursor[i]
           /\ visible' = visible /\ seen' = seen \cup events
           /\ pc' \notin {"fetch", "detect"}
<1>1. /\ pc = "detect" /\ rest = {} /\ dev \in Imei /\ events # {} /\ last \in events
      /\ last \in Nat /\ last > after /\ after \in Nat /\ after = cursor[dev].last
      /\ At(last) # None /\ last \in visible /\ log[last].imei = dev
      /\ last \in Id
    BY DEF Commit, Consistent, TypeOK, LocalOK, BatchOK
<1>2. /\ cursor' = [cursor EXCEPT ![dev] = NewCursor] /\ log' = log /\ visible' = visible
      /\ seen' = seen \cup events /\ pc' = "device"
    BY DEF Commit, store
<1>3. /\ cursor'[dev] = NewCursor
      /\ \A i \in Imei : i # dev => cursor'[i] = cursor[i]
    BY <1>1, <1>2 DEF Consistent, TypeOK
<1>4. \A t \in Trip : cursor'[dev].open = t <=> Live(t)
    BY <1>3, BoundAssumption, NoneAssumption DEF NewCursor, Live
<1>5. At(last) \in Nat
    BY <1>1, AtNat
<1> QED
    BY <1>1, <1>2, <1>3, <1>4, <1>5 DEF NewCursor

\* The cursor stands on a visible event of its device.
LEMMA CursorStaysOK ==
    ASSUME Consistent, [Next]_vars, CursorOK
    PROVE  CursorOK'
<1> SUFFICES ASSUME NEW i \in Imei, cursor'[i].last # 0
             PROVE  /\ cursor'[i].last \in visible' /\ log'[cursor'[i].last].imei = i
                    /\ At(cursor[i].last)' # None
    BY DEF CursorOK
<1>1. visible \subseteq visible' /\ visible \subseteq Id
    BY LogGrows DEF Consistent, TypeOK
<1>2. CASE cursor'[i].last = cursor[i].last
  <2>1. /\ cursor[i].last \in visible /\ log[cursor[i].last].imei = i
        /\ At(cursor[i].last) # None
    BY <1>2 DEF CursorOK
  <2>2. cursor[i].last \in Id
    BY <1>1, <2>1
  <2>3. log'[cursor[i].last] = log[cursor[i].last]
    BY <2>2, LogGrows
  <2> QED
    BY <1>1, <1>2, <2>1, <2>3 DEF At
<1>3. CASE Commit /\ i = dev
    BY <1>1, <1>3, CommitCursor DEF At
<1>4. CASE Commit /\ i # dev
    BY <1>2, <1>4, CommitCursor
<1>5. CASE TimeoutClose
    BY <1>2, <1>5 DEF TimeoutClose, ClearedCursor, Consistent, TypeOK
<1>6. CASE UNCHANGED <<cursor, trips>>
    BY <1>2, <1>6
<1> QED
    BY <1>3, <1>4, <1>5, <1>6, QuietSteps

-----------------------------------------------------------------------------
(* Rows that become visible in id order: nothing is skipped *)

\* The limit cuts the batch off at its end: whatever lies before one of its events is in it.
LEMMA FetchedPrefix ==
    ASSUME Consistent, NEW e \in Fetched, NEW f \in visible,
           after < f, f < e, log[f].imei = dev, At(f) # None
    PROVE  f \in Fetched
<1> DEFINE new == {g \in visible : log[g].imei = dev /\ At(g) # None /\ g > after}
           below(x) == {g \in new : g < x}
<1>1. visible \subseteq Id /\ Id = 1..Len(log) /\ Len(log) \in Nat
    BY DEF Consistent, TypeOK, Id
<1>2. IsFiniteSet(Id)
    BY <1>1, FS_Interval
<1>3. IsFiniteSet(below(e))
    BY <1>1, <1>2, FS_Subset
<1>4. e \in Nat /\ f \in Nat /\ after \in Nat
    BY <1>1 DEF Fetched, Consistent, TypeOK
<1>5. below(f) \subseteq below(e)
  <2>1. \A g \in new : g \in Nat
    BY <1>1
  <2>2. \A g \in new : g < f => g < e
    BY <1>4, <2>1
  <2> QED
    BY <2>2
<1>6. /\ IsFiniteSet(below(f)) /\ Cardinality(below(f)) <= Cardinality(below(e))
    BY <1>3, <1>5, FS_Subset
<1>7. Cardinality(below(e)) < FetchLimit
    BY DEF Fetched
<1>8. Cardinality(below(f)) \in Nat /\ Cardinality(below(e)) \in Nat
    BY <1>3, <1>6, FS_CardinalityType
<1>9. Cardinality(below(f)) < FetchLimit
    BY <1>6, <1>7, <1>8, BoundAssumption
<1>10. f \in new
    BY <1>4
<1> QED
    BY <1>9, <1>10 DEF Fetched

\* A row becomes visible behind the visible rows of its device only.
LEMMA VisibleStaysInOrder ==
    ASSUME CommitOrdered, Consistent, [Next]_vars, VisibleInOrder
    PROVE  VisibleInOrder'
<1>0. visible \subseteq Id /\ events \subseteq visible
    BY DEF Consistent, TypeOK
<1>1. \A e \in visible', f \in Id' :
         f < e /\ log'[f].imei = log'[e].imei => f \in visible'
  <2>1. CASE log' = log /\ visible' = visible
    BY <2>1 DEF VisibleInOrder, Id
  <2>2. ASSUME NEW i \in Imei, StoreEvent(i), NEW e \in visible', NEW f \in Id', f < e,
               log'[f].imei = log'[e].imei
        PROVE  f \in visible'
    <3>1. visible' = visible
      BY <2>2 DEF StoreEvent
    <3>2. e \in Id /\ e \in Id' /\ Id' \subseteq Nat
      <4>1. e \in Id
        BY <1>0, <2>2, <3>1
      <4>2. e \in Id'
        BY <4>1, LogGrows
      <4>3. Id' \subseteq Nat
        BY NextConsistent DEF Consistent, TypeOK, Id
      <4> QED
        BY <4>1, <4>2, <4>3
    <3>3. f \in Id
      BY <2>2, <3>2, NewestId
    <3>4. log[f].imei = log[e].imei
      BY <2>2, <3>2, <3>3, LogGrows
    <3> QED
      BY <2>2, <3>1, <3>3, <3>4 DEF VisibleInOrder
  <2>3. ASSUME NEW g \in Id, CommitEvent(g)
        PROVE  \A e \in visible', f \in Id' :
                 f < e /\ log'[f].imei = log'[e].imei => f \in visible'
    BY <2>3 DEF CommitEvent, VisibleInOrder, Id
  <2> QED
    BY <2>1, <2>2, <2>3, StoreSteps
<1>2. ASSUME pc' = "detect", NEW e \in events', NEW f \in visible', after' < f, f < e,
             log'[f].imei = dev', At(f)' # None
      PROVE  f \in events'
  <2>1. CASE FetchEvents
    <3>1. /\ UNCHANGED <<log, visible, dev, after>> /\ events' = Fetched
      BY <2>1 DEF FetchEvents, store
    <3> QED
      BY <1>2, <3>1, FetchedPrefix DEF At
  <2>2. ASSUME UNCHANGED <<pc, dev, after, events>>
        PROVE  f \in events'
    <3>1. e \in events /\ e \in visible /\ e \in Id
      BY <1>0, <1>2, <2>2
    <3>2. pc = "detect" /\ log[e].imei = dev
      BY <1>2, <2>2, <3>1 DEF Consistent, BatchOK
    <3>3. f \in visible
      <4>1. CASE visible' = visible
        BY <1>2, <4>1
      <4>2. ASSUME NEW g \in Id, CommitEvent(g)
            PROVE  f \in visible
        <5>1. log' = log /\ visible' = visible \cup {g}
          BY <4>2 DEF CommitEvent
        <5>2. f \in Id
          BY <1>0, <1>2, <5>1
        <5> QED
          BY <1>2, <2>2, <3>1, <3>2, <5>1, <5>2 DEF VisibleInOrder
      <4>3. \A i \in Imei : StoreEvent(i) => visible' = visible
        BY DEF StoreEvent
      <4> QED
        BY <4>1, <4>2, <4>3, StoreSteps
    <3>4. log[f].imei = dev /\ At(f) # None
      BY <1>0, <1>2, <2>2, <3>3, EventKept
    <3> QED
      BY <1>2, <2>2, <3>1, <3>2, <3>3, <3>4 DEF VisibleInOrder
  <2>3. CASE \E x \in Id : DetectEvent(x)
    BY <2>2, <2>3, DetectFrame, IterateFacts
  <2>4. CASE TimeoutClose \/ Commit \/ \E i \in Imei : LoadDevice(i)
    BY <1>2, <2>4 DEF TimeoutClose, Commit, LoadDevice
  <2> QED
    BY <1>2, <2>1, <2>2, <2>3, <2>4, StepKinds
<1> QED
    BY <1>1, <1>2 DEF VisibleInOrder

\* The cursor skips nothing that is visible, and nothing becomes visible behind it.
LEMMA NothingSkippedKept ==
    ASSUME CommitOrdered, Consistent, [Next]_vars, Passed
    PROVE  NothingSkipped'
<1>0. /\ visible \subseteq Id /\ visible \subseteq visible' /\ seen \subseteq visible
      /\ \A e \in Id : log[e].imei \in Imei /\ e \in Nat /\ e # 0
  <2>1. \A e \in Id : log[e] \in Event /\ e \in Nat /\ e # 0
    BY DEF Consistent, TypeOK, Id
  <2> QED
    BY <2>1, LogGrows DEF Consistent, TypeOK, Event
<1> SUFFICES ASSUME NEW e \in visible', At(e)' # None, e <= cursor'[log'[e].imei].last
             PROVE  e \in seen'
    BY DEF NothingSkipped
<1>1. ASSUME e \in visible, UNCHANGED seen,
             cursor'[log[e].imei].last = cursor[log[e].imei].last
      PROVE  e \in seen'
    BY <1>0, <1>1, EventKept DEF Passed, NothingSkipped
<1>2. CASE Commit
  <2>1. e \in visible /\ e \in Id /\ log'[e] = log[e] /\ At(e) # None /\ e \in Nat
        /\ log[e].imei \in Imei
    BY <1>0, <1>2, CommitCursor DEF At
  <2>2. CASE log[e].imei # dev
    <3>1. e \in seen
      BY <2>1, <2>2, <1>2, CommitCursor DEF Passed, NothingSkipped
    <3> QED
      BY <1>2, <3>1, CommitCursor
  <2>3. CASE log[e].imei = dev /\ e <= after
    <3>1. e \in seen
      BY <2>1, <2>3, <1>2, CommitCursor DEF Passed, NothingSkipped
    <3> QED
      BY <1>2, <3>1, CommitCursor
  <2>4. CASE log[e].imei = dev /\ e > after
    <3>1. e <= last /\ last \in events /\ pc = "detect" /\ last \in Nat
      BY <1>2, <2>1, <2>4, CommitCursor
    <3>2. e \in events
      BY <2>1, <2>4, <3>1 DEF Passed, VisibleInOrder
    <3> QED
      BY <1>2, <3>2, CommitCursor
  <2>5. after \in Nat
    BY <1>2, CommitCursor
  <2> QED
    BY <2>1, <2>2, <2>3, <2>4, <2>5
<1>3. CASE \E g \in Id : CommitEvent(g)
  <2>1. PICK g \in Id : /\ g \notin visible /\ visible' = visible \cup {g}
                        /\ UNCHANGED <<log, cursor, seen>>
    BY <1>3 DEF CommitEvent, tables
  <2>2. CASE e \in visible
    BY <1>1, <2>1, <2>2
  <2>3. CASE e = g
    <3>1. /\ log[e].imei \in Imei /\ e <= cursor[log[e].imei].last /\ e # 0 /\ e \in Nat
          /\ cursor[log[e].imei].last \in Nat
      BY <1>0, <2>1, <2>3 DEF Consistent, TypeOK
    <3>2. /\ cursor[log[e].imei].last # 0
          /\ cursor[log[e].imei].last \in visible
          /\ log[cursor[log[e].imei].last].imei = log[e].imei
      BY <3>1 DEF Passed, CursorOK
    <3>3. e # cursor[log[e].imei].last
      BY <2>1, <2>3, <3>2
    <3> QED
      BY <2>1, <2>3, <3>1, <3>2, <3>3 DEF Passed, VisibleInOrder
  <2> QED
    BY <2>1, <2>2, <2>3
<1>4. CASE TimeoutClose
  <2>1. UNCHANGED <<log, visible, seen>>
    BY <1>4 DEF TimeoutClose, store
  <2>2. \A i \in Imei : cursor'[i].last = cursor[i].last
    BY <1>4 DEF TimeoutClose, ClearedCursor, Consistent, TypeOK
  <2> QED
    BY <1>0, <1>1, <2>1, <2>2
<1>5. CASE ~Commit /\ ~TimeoutClose /\ ~(\E g \in Id : CommitEvent(g))
  <2>1. cursor' = cursor /\ visible' = visible
    BY <1>5, QuietSteps, StoreSteps DEF StoreEvent
  <2>2. seen' = seen
    <3>1. CASE \E x \in Id : DetectEvent(x)
      BY <3>1, DetectFrame, IterateFacts
    <3>2. CASE Work /\ ~(\E x \in Id : DetectEvent(x))
      BY <1>5, <3>2 DEF Work, FetchDevices, LoadDevice, EndPass, FetchEvents,
                  NothingFetched, tables
    <3>3. CASE ~Work
      BY <1>5, <3>3 DEF Next, StoreEvent, SkipDevice, Restart, Tick, tables, vars
    <3> QED
      BY <3>1, <3>2, <3>3
  <2> QED
    BY <1>1, <2>1, <2>2
<1> QED
    BY <1>2, <1>3, <1>4, <1>5

\* If the rows of a device become visible in id order, its cursor passes no visible event
\* that the detector has not examined, although a batch is cut off at the limit and the
\* cursor need not stop at the last id of the batch.
THEOREM CursorSkipsNothing == CommitOrdered /\ Spec => []NothingSkipped
<1> SUFFICES ASSUME CommitOrdered PROVE Spec => []NothingSkipped
    OBVIOUS
<1>1. Init => Consistent /\ Passed
  <2>1. Init => Passed
    BY DEF Init, Passed, CursorOK, VisibleInOrder, NothingSkipped
  <2> QED
    BY <2>1, InitConsistent
<1>2. Consistent /\ Passed /\ [Next]_vars => Consistent' /\ Passed'
    BY NextConsistent, CursorStaysOK, VisibleStaysInOrder, NothingSkippedKept DEF Passed
<1>3. Passed => NothingSkipped
    BY DEF Passed
<1> QED
    BY <1>1, <1>2, <1>3, PTL DEF Spec

-----------------------------------------------------------------------------
(* Devices that report in the order of their clocks: one iteration of the loop *)

\* What is known of the event the run has got to.
LEMMA ReachedFacts ==
    ASSUME Inv, pc \in {"fetch", "detect"}
    PROVE  /\ dev \in Imei /\ after = cursor[dev].last /\ after \in Nat
           /\ Reached \in Nat /\ after <= Reached
           /\ Reached # 0 => /\ Reached \in Id /\ log[Reached].imei = dev
                             /\ At(Reached) # None /\ At(Reached) \in Nat
           /\ after # 0 => /\ after \in Id /\ log[after].imei = dev
                           /\ At(after) # None /\ At(after) \in Nat
           /\ after # 0 => Reached # 0 /\ At(after) <= At(Reached)
<1>1. /\ dev \in Imei /\ after = cursor[dev].last /\ after \in Nat
      /\ Reached \in Nat /\ after <= Reached
    BY DEF Inv, InOrder, RunReached, Reached, Consistent, TypeOK, LocalOK
<1>2. visible \subseteq Id
    BY DEF Inv, Consistent, TypeOK
<1>3. Reached # 0 => /\ Reached \in Id /\ log[Reached].imei = dev
                     /\ At(Reached) # None /\ At(Reached) \in Nat
    BY <1>2, AtNat DEF Inv, InOrder, RunReached
<1>4. after # 0 => /\ after \in Id /\ log[after].imei = dev
                   /\ At(after) # None /\ At(after) \in Nat
    BY <1>1, <1>2, AtNat DEF Inv, InOrder, CursorOK
<1>5. after # 0 => Reached # 0
    BY <1>1
<1>6. after # 0 => At(after) <= At(Reached)
  <2>1. CASE after = Reached
    BY <1>3, <1>5, <2>1
  <2>2. CASE after < Reached
    BY <1>3, <1>4, <1>5, <2>2 DEF Inv, InOrder, LogInOrder
  <2> QED
    BY <1>1, <2>1, <2>2
<1> QED
    BY <1>1, <1>3, <1>4, <1>5, <1>6

\* The next event is later than all that the run has gathered, by id and by time.
LEMMA NextIsLater ==
    ASSUME Inv, NEW e, Iterate(e)
    PROVE  /\ e \in Id /\ e \in Nat /\ At(e) \in Nat /\ log[e].imei = dev /\ At(e) # None
           /\ Reached < e /\ after < e
           /\ Reached # 0 => At(Reached) <= At(e)
           /\ Reached' = e /\ At(Reached)' = At(e)
           /\ e \in visible
           /\ \A f \in rest' : e < f
<1>1. /\ e \in rest /\ e \in events /\ e \in Id /\ e \in Nat /\ e > after /\ log[e].imei = dev
      /\ At(e) \in Nat /\ \A f \in rest : Before(e, f)
      /\ rest' = rest \ {e} /\ last' = e
    BY NextEventFacts DEF Inv
<1>2. /\ pc = "detect" /\ pc' = "detect" /\ dev \in Imei
      /\ UNCHANGED <<log, visible, dev, after, events>>
    BY IterateFacts DEF Inv
<1>3. At(e) # None
    BY <1>1, <1>2 DEF Inv, Consistent, BatchOK
<1>4. Reached < e
    BY <1>1, <1>2 DEF Inv, InOrder, RunReached
<1>5. Reached # 0 => At(Reached) <= At(e)
    BY <1>1, <1>2, <1>3, <1>4, ReachedFacts DEF Inv, InOrder, LogInOrder
<1>6. Reached' = e
    BY <1>1, <1>2 DEF Reached
<1>7. At(Reached)' = At(e)
    BY <1>2, <1>6 DEF At
<1>8. e \in visible
    BY <1>1 DEF Inv, Consistent, TypeOK
<1>9. ASSUME NEW f \in rest'
      PROVE  e < f
  <2>1. /\ f \in rest /\ f # e /\ f \in Id /\ At(f) # None /\ log[f].imei = dev
        /\ Before(e, f)
    BY <1>1, <1>2, <1>9 DEF Inv, Consistent, TypeOK, BatchOK
  <2>2. f \in Nat /\ At(f) \in Nat
    BY <2>1, AtNat DEF Inv
  <2>3. f < e => At(f) <= At(e)
    BY <1>1, <1>3, <2>1 DEF Inv, InOrder, LogInOrder
  <2> QED
    BY <1>1, <2>1, <2>2, <2>3 DEF Before
<1> QED
    BY <1>1, <1>3, <1>4, <1>5, <1>6, <1>7, <1>8, <1>9

\* The next event is in no trip yet, and no row of the device ends after it.
LEMMA NextIsNew ==
    ASSUME Inv, NEW e, Iterate(e)
    PROVE  /\ \A t \in Trip : e \notin trips[t].evs
           /\ \A c \in closes : e \notin c.evs /\ c.end <= At(e)
           /\ open # None => e \notin open.evs /\ open.lastAt <= At(e)
           /\ \A t \in Trip : Present(t) /\ trips[t].imei = dev => trips[t].end <= At(e)
<1>1. /\ e \in Id /\ e \in Nat /\ At(e) \in Nat /\ log[e].imei = dev
      /\ Reached < e /\ after < e
      /\ Reached # 0 => At(Reached) <= At(e)
    BY NextIsLater
<1>2. pc = "detect" /\ dev \in Imei
    BY IterateFacts DEF Inv
<1>3. /\ after = cursor[dev].last /\ after \in Nat /\ Reached \in Nat
      /\ Reached # 0 => At(Reached) \in Nat
      /\ after # 0 => At(after) \in Nat /\ Reached # 0 /\ At(after) <= At(Reached)
    BY <1>2, ReachedFacts
<1>4. \A c \in closes : e \notin c.evs /\ c.end <= At(e)
  <2> SUFFICES ASSUME NEW c \in closes PROVE e \notin c.evs /\ c.end <= At(e)
    OBVIOUS
  <2>1. Reached # 0 /\ c.end <= At(Reached) /\ \A f \in c.evs : f <= Reached
    BY <1>2 DEF Inv, InOrder, RunReached
  <2>2. c.end \in Nat
    BY DEF Inv, Consistent, TypeOK, CloseAction
  <2> QED
    BY <1>1, <1>3, <2>1, <2>2
<1>5. open # None => e \notin open.evs /\ open.lastAt <= At(e)
  <2> SUFFICES ASSUME open # None PROVE e \notin open.evs /\ open.lastAt <= At(e)
    OBVIOUS
  <2>1. Reached # 0 /\ open.lastAt = At(Reached) /\ \A f \in open.evs : f <= Reached
    BY <1>2 DEF Inv, InOrder, RunReached
  <2> QED
    BY <1>1, <1>3, <2>1
<1>6. ASSUME NEW t \in Trip, Present(t), trips[t].imei = dev
      PROVE  trips[t].end <= At(e) /\ e \notin trips[t].evs
  <2>1. after # 0 /\ trips[t].end <= At(after) /\ \A f \in trips[t].evs : f <= after
    BY <1>3, <1>6 DEF Inv, InOrder, RowsBehindCursor
  <2>2. trips[t].end \in Nat
    BY DEF Inv, Consistent, TypeOK, Row
  <2> QED
    BY <1>1, <1>3, <2>1, <2>2
<1>7. ASSUME NEW t \in Trip
      PROVE  e \notin trips[t].evs
  <2>1. CASE Present(t) /\ trips[t].imei = dev
    BY <1>6, <2>1
  <2>2. CASE trips[t].imei # dev
    BY <1>1, <2>2 DEF Inv, Accounted, EventsWithinTrip
  <2>3. CASE ~Present(t)
    BY <2>3 DEF Inv, InOrder, RowsBehindCursor, Absent
  <2> QED
    BY <2>1, <2>2, <2>3
<1> QED
    BY <1>4, <1>5, <1>6, <1>7

\* Every branch of the loop body ends at the next event.
LEMMA DetectReached ==
    ASSUME Inv, NEW e, DetectEvent(e)
    PROVE  RunReached'
<1>1. Iterate(e)
    BY DetectFrame DEF Inv
<1>2. /\ pc = "detect" /\ UNCHANGED <<log, visible, dev, after, events>>
    BY <1>1, IterateFacts DEF Inv
<1>3. /\ e \in Id /\ e \in Nat /\ At(e) \in Nat /\ log[e].imei = dev /\ At(e) # None
      /\ Reached < e /\ after < e /\ e \in visible
      /\ Reached # 0 => At(Reached) <= At(e)
      /\ Reached' = e /\ At(Reached)' = At(e)
      /\ \A f \in rest' : e < f
    BY <1>1, NextIsLater
<1>4. /\ \A c \in closes : c.end <= At(e)
      /\ open # None => open.lastAt <= At(e)
    BY <1>1, NextIsNew
<1>5. /\ e # 0 /\ after \in Nat /\ Reached \in Nat
      /\ Reached # 0 => Reached \in Id
    BY <1>2, <1>3, ReachedFacts
<1>6. open # None => /\ open.lastId = Reached /\ Reached # 0 /\ open.lastAt = At(Reached)
                     /\ open.lastAt \in Nat /\ open.evs \subseteq Nat
                     /\ \A f \in open.evs : f <= e
  <2> SUFFICES ASSUME open # None
               PROVE  /\ open.lastId = Reached /\ Reached # 0 /\ open.lastAt = At(Reached)
                      /\ open.lastAt \in Nat /\ open.evs \subseteq Nat
                      /\ \A f \in open.evs : f <= e
    OBVIOUS
  <2>1. /\ open.lastId = Reached /\ Reached # 0 /\ open.lastAt = At(Reached)
        /\ \A f \in open.evs : f <= Reached
    BY <1>2 DEF Inv, InOrder, RunReached
  <2>2. open.lastAt \in Nat /\ open.evs \subseteq Nat
    BY DEF Inv, Consistent, TypeOK, OpenTrip
  <2>3. \A f \in open.evs : f <= e
    BY <1>3, <1>5, <2>1, <2>2
  <2> QED
    BY <2>1, <2>2, <2>3
<1>7. \A c \in closes : /\ c.endId \in Id /\ c.end = At(c.endId) /\ c.end <= At(e)
                       /\ \A f \in c.evs : f <= e
  <2> SUFFICES ASSUME NEW c \in closes
               PROVE  /\ c.endId \in Id /\ c.end = At(c.endId)
                      /\ \A f \in c.evs : f <= e
    BY <1>4
  <2>1. /\ c.endId \in Id /\ c.end = At(c.endId) /\ \A f \in c.evs : f <= Reached
    BY <1>2 DEF Inv, InOrder, RunReached
  <2>2. c.evs \subseteq Nat
    BY DEF Inv, Consistent, TypeOK, CloseAction
  <2> QED
    BY <1>3, <1>5, <2>1, <2>2
<1>8. open' # None => /\ open'.lastId = e /\ open'.lastAt = At(e)
                      /\ \A f \in open'.evs : f <= e
  <2>1. CASE UNCHANGED <<open, inserts, closes>> /\ (open # None => At(e) < open.lastAt)
    BY <1>3, <1>4, <1>6, <2>1
  <2>2. CASE Drive(e)
    BY <1>3, <1>6, <2>2, DriveFacts DEF Inv
  <2>3. CASE Begin(e)
    BY <1>1, <1>3, <2>3, BeginFacts DEF Inv
  <2>4. CASE CloseOnIgnitionOff(e)
    BY <2>4, IgnitionClose DEF Inv
  <2> QED
    BY <2>1, <2>2, <2>3, <2>4, DetectFrame DEF Inv
<1>9. \A c \in closes' : /\ c.endId \in Id /\ c.end = At(c.endId) /\ c.end <= At(e)
                        /\ \A f \in c.evs : f <= e
  <2>1. CASE closes' = closes
    BY <1>7, <2>1
  <2>2. CASE CloseOnGap(e)
    <3>1. PICK c \in CloseAction :
             /\ c.endId = open.lastId /\ c.end = open.lastAt
             /\ c.evs = open.evs /\ closes' = closes \cup {c} /\ open # None
      BY <2>2, GapClose DEF Inv
    <3>2. c.endId = Reached /\ c.endId \in Id /\ c.end = At(c.endId)
      BY <1>5, <1>6, <3>1
    <3>3. c.end <= At(e) /\ \A f \in c.evs : f <= e
      BY <1>4, <1>6, <3>1
    <3> QED
      BY <1>7, <3>1, <3>2, <3>3
  <2>3. CASE CloseOnIgnitionOff(e)
    <3>1. PICK c \in CloseAction :
             /\ c.endId = e /\ c.end = At(e) /\ c.evs = open.evs \cup {e}
             /\ closes' = closes \cup {c} /\ open # None
      BY <2>3, IgnitionClose DEF Inv
    <3>2. \A f \in c.evs : f <= e
      BY <1>3, <1>6, <3>1
    <3> QED
      BY <1>3, <1>7, <3>1, <3>2
  <2> QED
    BY <2>1, <2>2, <2>3, DetectFrame, DriveFacts DEF Inv
<1>10. \A f : At(f)' = At(f) /\ Id' = Id
    BY <1>2 DEF At, Id
<1>11. /\ Reached' \in visible' /\ log'[Reached'].imei = dev' /\ At(Reached)' # None
       /\ after' <= Reached' /\ Reached' # 0 /\ \A f \in rest' : Reached' < f
    BY <1>2, <1>3, <1>5
<1>12. open' # None => /\ open'.lastId = Reached' /\ open'.lastAt = At(Reached)'
                       /\ \A f \in open'.evs : f <= Reached'
    BY <1>3, <1>8
<1>13. \A c \in closes' : /\ c.endId \in Id' /\ c.end = At(c.endId)'
                         /\ c.end <= At(Reached)' /\ \A f \in c.evs : f <= Reached'
    BY <1>3, <1>9, <1>10
<1> QED
    BY <1>11, <1>12, <1>13 DEF RunReached

\* Where the trips of a run start, after the next event.
LEMMA NextStarts ==
    ASSUME Inv, NEW e, DetectEvent(e), NEW t \in Trip, NEW s \in Starts(t)'
    PROVE  \/ s \in Starts(t)
           \/ s = At(e) /\ Begin(e) /\ ~Inserted(t) /\ ~Closed(t) /\ open' # None /\ open'.id = t
<1>1. Iterate(e) /\ UNCHANGED <<cursor, trips, dev>>
    BY DetectFrame, IterateFacts DEF Inv
<1>2. CASE inserts' = inserts
    BY <1>1, <1>2 DEF Starts
<1>3. CASE Begin(e)
  <2>1. PICK trip \in OpenTrip :
           /\ open' = trip /\ open' # None /\ inserts' = inserts \cup {trip}
           /\ trip.start = At(e)
           /\ ~Inserted(trip.id) /\ ~Closed(trip.id)
    BY <1>1, <1>3, BeginFacts DEF Inv
  <2>2. CASE t = trip.id
    BY <1>1, <1>3, <2>1, <2>2 DEF Starts, Inserted
  <2>3. CASE t # trip.id
    BY <1>1, <2>1, <2>3 DEF Starts
  <2> QED
    BY <2>2, <2>3
<1> QED
    BY <1>2, <1>3, DetectFrame, DriveFacts, IgnitionClose DEF Inv

\* A trip that is closed holds what it held while it was live, and the next event at most.
LEMMA NextClose ==
    ASSUME Inv, NEW e, DetectEvent(e), NEW c \in closes', c \notin closes
    PROVE  /\ open # None /\ c.id = open.id
           /\ c.evs \subseteq open.evs \cup {e}
           /\ \/ CloseOnGap(e) /\ c.evs = open.evs /\ c.end = open.lastAt
              \/ open' = None
<1>1. CASE CloseOnGap(e)
    BY <1>1, GapClose DEF Inv
<1>2. CASE CloseOnIgnitionOff(e)
    BY <1>2, IgnitionClose DEF Inv
<1> QED
    BY <1>1, <1>2, DetectFrame, DriveFacts DEF Inv

\* A trip that lives on holds what it held, or it begins with the next event.
LEMMA NextLive ==
    ASSUME Inv, NEW e, DetectEvent(e), open' # None
    PROVE  \/ /\ open # None /\ open'.id = open.id /\ open'.start = open.start
              /\ open'.evs \subseteq open.evs \cup {e} /\ closes' = closes
           \/ Begin(e) /\ open'.start = At(e) /\ open'.evs = {e}
<1>1. Iterate(e)
    BY DetectFrame DEF Inv
<1>2. CASE Drive(e)
    BY <1>2, DriveFacts DEF Inv
<1>3. CASE Begin(e)
    BY <1>1, <1>3, BeginFacts DEF Inv
<1>4. CASE CloseOnIgnitionOff(e)
    BY <1>4, IgnitionClose DEF Inv
<1>5. CASE UNCHANGED <<open, inserts, closes>>
    BY <1>5
<1> QED
    BY <1>2, <1>3, <1>4, <1>5, DetectFrame DEF Inv

\* The trip that ends, the trip that begins and the rest share no event and no time.
LEMMA DetectDisjoint ==
    ASSUME Inv, NEW e, DetectEvent(e)
    PROVE  RunDisjoint'
<1>1. Iterate(e) /\ e \in Nat /\ At(e) \in Nat
    BY DetectFrame, NextIsLater DEF Inv
<1>2. /\ pc = "detect" /\ UNCHANGED <<log, trips, cursor, dev>>
    BY <1>1, IterateFacts DEF Inv
<1>3. /\ \A t \in Trip : e \notin trips[t].evs
      /\ \A c \in closes : e \notin c.evs /\ c.end <= At(e)
      /\ open # None => e \notin open.evs /\ open.lastAt <= At(e)
      /\ \A t \in Trip : Present(t) /\ trips[t].imei = dev => trips[t].end <= At(e)
    BY <1>1, NextIsNew
<1>4. /\ \A c \in closes :
           /\ \A d \in closes : c.id # d.id =>
                /\ c.evs \cap d.evs = {}
                /\ \A s \in Starts(c.id), v \in Starts(d.id) : c.end <= v \/ d.end <= s
           /\ \A t \in Trip : t # c.id => c.evs \cap trips[t].evs = {}
           /\ open # None => c.evs \cap open.evs = {} /\ c.end <= open.start
      /\ open # None => \A t \in Trip : t # open.id => open.evs \cap trips[t].evs = {}
      /\ \A t \in Trip : (Present(t) /\ trips[t].imei = dev /\ t # cursor[dev].open) =>
           \A u \in Trip : \A s \in Starts(u) : trips[t].end <= s
    BY <1>2 DEF Inv, InOrder, RunDisjoint, ClosesApart, RowsApart
<1>5. closes \subseteq CloseAction /\ \A c \in CloseAction : c.id \in Trip
    BY DEF Inv, Consistent, TypeOK, CloseAction
<1>6. open # None => open.id \in Trip /\ \A s \in Starts(open.id) : s = open.start
  <2>1. open # None => open.id \in Trip
    BY DEF Inv, Consistent, TypeOK, OpenTrip
  <2> QED
    BY <1>2, <2>1 DEF Inv, Accounted, SpansOK, Live
<1>7. \A c \in closes : \A s \in Starts(c.id)' : s \in Starts(c.id)
    BY <1>5, NextStarts DEF Closed
<1>8. \A t \in Trip : open # None /\ t = open.id => \A s \in Starts(t)' : s = open.start
  <2>1. \A t \in Trip : open # None /\ t = open.id => Starts(t)' = Starts(t)
    BY StartsKept DEF Inv, Live
  <2> QED
    BY <1>6, <2>1
<1>9. ASSUME NEW c \in closes', c \notin closes
      PROVE  /\ open # None /\ c.id = open.id /\ c.id \in Trip
             /\ c.evs \subseteq open.evs \cup {e}
             /\ \A d \in closes : /\ c.evs \cap d.evs = {}
                                  /\ \A s \in Starts(c.id)' : d.end <= s
             /\ \A t \in Trip : t # c.id => c.evs \cap trips[t].evs = {}
  <2>1. open # None /\ c.id = open.id /\ c.evs \subseteq open.evs \cup {e}
    BY <1>9, NextClose
  <2>2. \A d \in closes : d.evs \cap open.evs = {} /\ d.end <= open.start /\ e \notin d.evs
    BY <1>3, <1>4, <2>1
  <2>3. \A s \in Starts(c.id)' : s = open.start
    BY <1>6, <1>8, <2>1
  <2>4. \A t \in Trip : t # c.id => open.evs \cap trips[t].evs = {} /\ e \notin trips[t].evs
    BY <1>3, <1>4, <2>1
  <2> QED
    BY <1>6, <2>1, <2>2, <2>3, <2>4
<1>10. ASSUME NEW c \in closes', NEW d \in closes', c.id # d.id
       PROVE  /\ c.evs \cap d.evs = {}
              /\ \A s \in Starts(c.id)', v \in Starts(d.id)' : c.end <= v \/ d.end <= s
  <2>1. CASE c \in closes /\ d \in closes
    BY <1>4, <1>7, <1>10, <2>1
  <2>2. CASE c \notin closes /\ d \in closes
    BY <1>9, <2>2
  <2>3. CASE c \in closes /\ d \notin closes
    BY <1>9, <2>3
  <2>4. CASE c \notin closes /\ d \notin closes
    BY <1>9, <1>10, <2>4
  <2> QED
    BY <2>1, <2>2, <2>3, <2>4
<1>11. ASSUME NEW c \in closes', NEW t \in Trip, t # c.id
       PROVE  c.evs \cap trips[t].evs = {}
    BY <1>4, <1>9, <1>11
<1>12. ASSUME NEW c \in closes', open' # None
       PROVE  c.evs \cap open'.evs = {} /\ c.end <= open'.start
  <2>1. CASE c \in closes
    <3>1. e \notin c.evs /\ c.end <= At(e)
      BY <1>3, <2>1
    <3>2. open # None => c.evs \cap open.evs = {} /\ c.end <= open.start
      BY <1>4, <2>1
    <3> QED
      BY <1>12, <3>1, <3>2, NextLive
  <2>2. CASE c \notin closes
    <3>1. open # None /\ CloseOnGap(e) /\ c.evs = open.evs /\ c.end = open.lastAt
      BY <1>12, <2>2, NextClose
    <3>2. open'.start = At(e) /\ open'.evs = {e}
      BY <1>12, <2>2, NextLive
    <3> QED
      BY <1>3, <3>1, <3>2
  <2> QED
    BY <2>1, <2>2
<1>13. ASSUME open' # None, NEW t \in Trip, t # open'.id
       PROVE  open'.evs \cap trips[t].evs = {}
  <2>1. e \notin trips[t].evs
    BY <1>3
  <2>2. open # None /\ t # open.id => open.evs \cap trips[t].evs = {}
    BY <1>4
  <2> QED
    BY <1>13, <2>1, <2>2, NextLive
<1>14. ASSUME NEW t \in Trip, Present(t), trips[t].imei = dev, t # cursor[dev].open,
              NEW u \in Trip, NEW s \in Starts(u)'
       PROVE  trips[t].end <= s
  <2>1. trips[t].end <= At(e)
    BY <1>3, <1>14
  <2>2. \A v \in Starts(u) : trips[t].end <= v
    BY <1>4, <1>14
  <2> QED
    BY <2>1, <2>2, NextStarts
<1>15. \A t \in Trip : (Present(t)' <=> Present(t)) /\ trips'[t] = trips[t]
    BY <1>2 DEF Present
<1>16. ClosesApart'
    BY <1>10, <1>12 DEF ClosesApart
<1>17. \A t \in Trip :
         /\ \A c \in closes' : t # c.id => c.evs \cap trips'[t].evs = {}
         /\ open' # None /\ t # open'.id => open'.evs \cap trips'[t].evs = {}
    BY <1>11, <1>13, <1>15
<1>18. \A t \in Trip : (Present(t)' /\ trips'[t].imei = dev' /\ t # cursor'[dev'].open) =>
          \A u \in Trip : \A s \in Starts(u)' : trips'[t].end <= s
    BY <1>2, <1>14, <1>15
<1>19. RowsApart'
    BY <1>17, <1>18 DEF RowsApart
<1> QED
    BY <1>16, <1>19 DEF RunDisjoint

-----------------------------------------------------------------------------
(* The transaction *)

\* A row that a commit writes: its times and its events are those of the run's trip.
Wrote(t) ==
    /\ trips'[t].imei = dev /\ trips'[t].status # "absent" /\ trips'[t].start \in Starts(t)
    /\ \/ \E c \in closes : /\ c.id = t /\ trips'[t].status # "open"
                            /\ trips'[t].endId = c.endId /\ trips'[t].end = c.end
                            /\ trips'[t].evs = c.evs
       \/ /\ open # None /\ open.id = t /\ trips'[t].endId = None
          /\ trips'[t].end = open.lastAt /\ trips'[t].start = open.start
          /\ trips'[t].evs = open.evs
Kept(t) == trips'[t] = trips[t] /\ t # cursor[dev].open /\ ~Live(t) /\ ~Inserted(t)

LEMMA CommitWrites ==
    ASSUME Inv, Commit, NEW t \in Trip
    PROVE  Kept(t) \/ Wrote(t)
<1>1. pc = "detect" /\ dev \in Imei
    BY CommitCursor DEF Inv
<1>2. /\ (Closed(t) \/ Live(t)) <=> (Inserted(t) \/ t = cursor[dev].open)
      /\ ~(Closed(t) /\ Live(t))
    BY <1>1 DEF Inv, Consistent, ActionsOK
<1>3. Inserted(t) \/ t = cursor[dev].open => (trips'[t].status = "open" <=> Live(t))
    BY CommitFacts DEF Inv
<1>4. CASE trips'[t] = trips[t] /\ t # cursor[dev].open /\ ~Inserted(t)
    BY <1>2, <1>4 DEF Kept
<1>5. ASSUME trips'[t].start \in Starts(t), trips'[t].imei = dev, trips'[t].status # "absent",
             NEW c \in closes, c.id = t, trips'[t].endId = c.endId, trips'[t].end = c.end,
             trips'[t].evs = c.evs
      PROVE  Wrote(t)
  <2>1. Closed(t) /\ trips'[t].status # "open"
    BY <1>2, <1>3, <1>5 DEF Closed
  <2> QED
    BY <1>5, <2>1 DEF Wrote
<1>6. ASSUME trips'[t].start \in Starts(t), trips'[t].imei = dev, trips'[t].status # "absent",
             Live(t), trips'[t].end = open.lastAt, trips'[t].evs = open.evs,
             trips'[t].endId = IF Inserted(t) THEN None ELSE trips[t].endId
      PROVE  Wrote(t)
  <2>1. trips'[t].start = open.start
    BY <1>1, <1>6 DEF Inv, Accounted, SpansOK
  <2>2. ~Inserted(t) => trips[t].endId = None
    <3>1. ~Inserted(t) => Open(t)
      BY <1>1, <1>2, <1>6 DEF Inv, Consistent, OneOpenTrip
    <3> QED
      BY <3>1 DEF Inv, InOrder, RowsBehindCursor
  <2> QED
    BY <1>6, <2>1, <2>2 DEF Wrote, Live
<1> QED
    BY <1>4, <1>5, <1>6, CommitRow DEF Inv

\* A row that is written ends at or before the event the cursor will stand on.
LEMMA WroteFacts ==
    ASSUME Inv, Commit, NEW t \in Trip, Wrote(t)
    PROVE  /\ trips'[t].end <= At(last) /\ trips'[t].end \in Nat
           /\ \A f \in trips'[t].evs : f <= last
           /\ trips'[t].endId \in Id \cup {None}
           /\ trips'[t].endId # None => At(trips'[t].endId) = trips'[t].end
           /\ trips'[t].status = "open" => trips'[t].endId = None
           /\ Live(t) => trips'[t].end = At(last)
           /\ open # None /\ ~Live(t) => trips'[t].end <= open.start
           /\ trips[t].status = "absent" \/ (Present(t) /\ trips[t].imei = dev)
<1>1. pc = "detect" /\ Reached = last /\ dev \in Imei /\ At(last) \in Nat
  <2>1. rest # events
    BY CommitCursor DEF Inv, Consistent, BatchOK
  <2> QED
    BY <2>1, CommitCursor DEF Inv, Reached
<1>2. trips[t].status = "absent" \/ (Present(t) /\ trips[t].imei = dev)
  <2>1. Inserted(t) \/ cursor[dev].open = t
    BY DEF Wrote, Starts, Inserted
  <2> QED
    BY <1>1, <2>1 DEF Inv, Consistent, ActionsOK, OneOpenTrip, Present
<1>3. CASE \E c \in closes : /\ c.id = t /\ trips'[t].status # "open"
                             /\ trips'[t].endId = c.endId /\ trips'[t].end = c.end
                             /\ trips'[t].evs = c.evs
  <2>1. PICK c \in closes : /\ c.id = t /\ trips'[t].status # "open"
                            /\ trips'[t].endId = c.endId /\ trips'[t].end = c.end
                            /\ trips'[t].evs = c.evs
    BY <1>3
  <2>2. /\ c.endId \in Id /\ c.end = At(c.endId) /\ c.end <= At(last)
        /\ \A f \in c.evs : f <= last
    BY <1>1 DEF Inv, InOrder, RunReached
  <2>3. open # None => c.end <= open.start
    BY <1>1 DEF Inv, InOrder, RunDisjoint, ClosesApart, RowsApart
  <2>4. ~Live(t)
    BY <1>1, <2>1 DEF Inv, Consistent, ActionsOK, Closed
  <2>5. c.end \in Nat
    BY DEF Inv, Consistent, TypeOK, CloseAction
  <2> QED
    BY <1>2, <2>1, <2>2, <2>3, <2>4, <2>5
<1>4. CASE /\ open # None /\ open.id = t /\ trips'[t].endId = None
           /\ trips'[t].end = open.lastAt /\ trips'[t].evs = open.evs
  <2>1. open.lastAt = At(last) /\ \A f \in open.evs : f <= last
    BY <1>1, <1>4 DEF Inv, InOrder, RunReached
  <2>2. Live(t)
    BY <1>4 DEF Live
  <2> QED
    BY <1>1, <1>2, <1>4, <2>1, <2>2
<1> QED
    BY <1>3, <1>4 DEF Wrote

\* Two rows that one commit writes.
LEMMA WrittenApart ==
    ASSUME Inv, Commit, NEW t \in Trip, NEW u \in Trip, t # u, Wrote(t), Wrote(u)
    PROVE  /\ trips'[t].evs \cap trips'[u].evs = {}
           /\ trips'[t].end <= trips'[u].start \/ trips'[u].end <= trips'[t].start
<1> DEFINE ByClose(v, c) == /\ c.id = v /\ trips'[v].end = c.end /\ trips'[v].evs = c.evs
           ByLive(v) == /\ open # None /\ open.id = v /\ trips'[v].start = open.start
                        /\ trips'[v].evs = open.evs
<1>1. pc = "detect"
    BY CommitCursor DEF Inv
<1>2. /\ trips'[t].start \in Starts(t) /\ trips'[u].start \in Starts(u)
      /\ ByLive(t) \/ \E c \in closes : ByClose(t, c)
      /\ ByLive(u) \/ \E c \in closes : ByClose(u, c)
    BY DEF Wrote
<1>3. ASSUME NEW c \in closes, NEW d \in closes, ByClose(t, c), ByClose(u, d)
      PROVE  /\ trips'[t].evs \cap trips'[u].evs = {}
             /\ trips'[t].end <= trips'[u].start \/ trips'[u].end <= trips'[t].start
  <2>1. c.evs \cap d.evs = {}
        /\ \A s \in Starts(c.id), v \in Starts(d.id) : c.end <= v \/ d.end <= s
    BY <1>1, <1>3 DEF Inv, InOrder, RunDisjoint, ClosesApart, RowsApart
  <2> QED
    BY <1>2, <1>3, <2>1
<1>4. \A c \in closes : open # None => c.evs \cap open.evs = {} /\ c.end <= open.start
    BY <1>1 DEF Inv, InOrder, RunDisjoint, ClosesApart, RowsApart
<1> QED
    BY <1>2, <1>3, <1>4

\* A row that a commit keeps and one that it writes.
LEMMA KeptApart ==
    ASSUME Inv, Commit, NEW t \in Trip, NEW u \in Trip, t # u, Kept(t), Wrote(u)
    PROVE  /\ trips'[t].evs \cap trips'[u].evs = {}
           /\ Present(t) /\ trips[t].imei = dev => trips'[t].end <= trips'[u].start
<1>1. pc = "detect"
    BY CommitCursor DEF Inv
<1>2. Present(t) /\ trips[t].imei = dev => trips'[t].end <= trips'[u].start
    BY <1>1 DEF Inv, InOrder, RunDisjoint, ClosesApart, RowsApart, Kept, Wrote
<1>3. CASE \E c \in closes : c.id = u /\ trips'[u].evs = c.evs
    BY <1>1, <1>2, <1>3 DEF Inv, InOrder, RunDisjoint, ClosesApart, RowsApart, Kept
<1>4. CASE open # None /\ open.id = u /\ trips'[u].evs = open.evs
    BY <1>1, <1>2, <1>4 DEF Inv, InOrder, RunDisjoint, ClosesApart, RowsApart, Kept
<1> QED
    BY <1>3, <1>4 DEF Wrote

\* The transaction leaves every row of the device at or before the cursor it sets.
LEMMA CommitRows ==
    ASSUME Inv, Commit
    PROVE  RowsBehindCursor'
<1>1. /\ pc = "detect" /\ dev \in Imei /\ log' = log /\ Id' = Id /\ \A f : At(f)' = At(f)
      /\ last # 0 /\ last \in Nat /\ At(last) \in Nat
      /\ cursor'[dev].last = last /\ after = cursor[dev].last /\ after < last /\ after \in Nat
      /\ \A t \in Trip : cursor'[dev].open = t <=> Live(t)
      /\ \A i \in Imei : i # dev => cursor'[i] = cursor[i]
    BY CommitCursor DEF Inv, Id, At
<1>2. \A i \in Imei : cursor[i].open \in Trip \cup {None} /\ cursor'[i].open \in Trip \cup {None}
    BY NextConsistent DEF Inv, Consistent, TypeOK, Next, Work
<1>3. ASSUME NEW t \in Trip, Wrote(t)
      PROVE  /\ trips'[t].status # "absent"
             /\ trips'[t].status = "open" => trips'[t].endId = None
             /\ trips'[t].endId \in Id \cup {None}
             /\ trips'[t].imei = dev
             /\ trips'[t].end <= At(last)
             /\ \A f \in trips'[t].evs : f <= last
             /\ cursor'[dev].open = t => trips'[t].end = At(last)
             /\ cursor'[dev].open \notin {t, None} =>
                  trips'[t].end <= trips'[cursor'[dev].open].start
  <2>1. ASSUME NEW u \in Trip, cursor'[dev].open = u, u # t
        PROVE  trips'[t].end <= trips'[u].start
    <3>1. Live(u) /\ ~Live(t)
      BY <1>1, <2>1
    <3>2. Wrote(u)
      BY <3>1, CommitWrites DEF Kept
    <3>3. trips'[u].start = open.start
      <4>1. ~Closed(u)
        BY <1>1, <3>1 DEF Inv, Consistent, ActionsOK
      <4> QED
        BY <3>2, <4>1 DEF Wrote, Closed
    <3> QED
      BY <1>3, <3>1, <3>3, WroteFacts DEF Live
  <2> QED
    BY <1>1, <1>2, <1>3, <2>1, WroteFacts DEF Wrote
<1>4. ASSUME NEW t \in Trip, Kept(t), Present(t)
      PROVE  LET i == trips'[t].imei
                 e == cursor'[i].last
             IN  /\ i \in Imei /\ e # 0
                 /\ trips'[t].end <= At(e)
                 /\ \A f \in trips'[t].evs : f <= e
                 /\ cursor'[i].open = t => trips'[t].end = At(e)
                 /\ cursor'[i].open \notin {t, None} =>
                      trips'[t].end <= trips'[cursor'[i].open].start
  <2> DEFINE i == trips[t].imei
             e == cursor[i].last
  <2>1. trips'[t] = trips[t] /\ t # cursor[dev].open /\ ~Live(t)
    BY <1>4 DEF Kept
  <2>2. /\ i \in Imei /\ e # 0 /\ trips[t].end <= At(e) /\ \A f \in trips[t].evs : f <= e
        /\ cursor[i].open = t => trips[t].end = At(e)
        /\ cursor[i].open \notin {t, None} => trips[t].end <= trips[cursor[i].open].start
    BY <1>4 DEF Inv, InOrder, RowsBehindCursor
  <2>3. CASE i # dev
    <3>1. ASSUME NEW u \in Trip, cursor[i].open = u
          PROVE  trips'[u] = trips[u]
      <4>1. Present(u) /\ trips[u].imei = i
        BY <2>2, <3>1 DEF Inv, Consistent, OneOpenTrip, Present
      <4>2. ~Wrote(u)
        BY <2>3, <4>1, WroteFacts DEF Present
      <4> QED
        BY <4>2, CommitWrites DEF Kept
    <3>2. cursor'[i] = cursor[i]
      BY <1>1, <2>2, <2>3
    <3> HIDE DEF i
    <3>3. cursor[i].open \notin {t, None} => trips[t].end <= trips'[cursor[i].open].start
      BY <1>2, <2>2, <3>1
    <3>4. trips'[t].imei = i
      BY <2>1 DEF i
    <3> QED
      BY <2>1, <2>2, <3>2, <3>3, <3>4
  <2>4. CASE i = dev
    <3>1. e = after /\ after # 0
      BY <1>1, <2>2, <2>4
    <3>2. At(after) \in Nat /\ At(after) <= At(last)
      <4>1. rest # events /\ Reached = last
        BY CommitCursor DEF Inv, Consistent, BatchOK, Reached
      <4> QED
        BY <1>1, <3>1, <4>1, ReachedFacts
    <3>3. trips[t].end \in Nat /\ trips[t].evs \subseteq Nat
      BY DEF Inv, Consistent, TypeOK, Row
    <3>4. trips[t].end <= At(last)
      BY <1>1, <2>2, <3>1, <3>2, <3>3
    <3>5. \A f \in trips[t].evs : f <= last
      BY <1>1, <2>2, <3>1, <3>3
    <3>6. cursor'[dev].open # t
      BY <1>1, <2>1
    <3>7. ASSUME NEW u \in Trip, cursor'[dev].open = u
          PROVE  trips'[t].end <= trips'[u].start
      <4>1. Wrote(u) /\ t # u
        BY <1>1, <2>1, <3>7, CommitWrites DEF Kept
      <4> QED
        BY <1>4, <2>4, <4>1, KeptApart
    <3> QED
      BY <1>1, <1>2, <2>1, <2>4, <3>4, <3>5, <3>6, <3>7
  <2> QED
    BY <2>3, <2>4
<1>5. ASSUME NEW t \in Trip, Kept(t)
      PROVE  /\ trips'[t].status = "absent" => trips'[t] = Absent
             /\ trips'[t].status = "open" => trips'[t].endId = None
             /\ trips'[t].endId \in Id \cup {None}
    BY <1>5 DEF Inv, InOrder, RowsBehindCursor, Kept, Present
<1> SUFFICES ASSUME NEW t \in Trip
             PROVE  /\ trips'[t].status = "absent" => trips'[t] = Absent
                    /\ trips'[t].status = "open" => trips'[t].endId = None
                    /\ trips'[t].endId \in Id \cup {None}
                    /\ trips'[t].status # "absent" =>
                         LET i == trips'[t].imei
                             e == cursor'[i].last
                         IN  /\ i \in Imei /\ e # 0
                             /\ trips'[t].end <= At(e)
                             /\ \A f \in trips'[t].evs : f <= e
                             /\ cursor'[i].open = t => trips'[t].end = At(e)
                             /\ cursor'[i].open \notin {t, None} =>
                                  trips'[t].end <= trips'[cursor'[i].open].start
    BY <1>1 DEF RowsBehindCursor, Present, At, Id
<1>6. CASE Wrote(t)
    BY <1>1, <1>3, <1>6
<1>7. CASE Kept(t)
    BY <1>4, <1>5, <1>7 DEF Kept, Present
<1> QED
    BY <1>6, <1>7, CommitWrites

\* The rows after the transaction share no event and, on one device, no time.
LEMMA CommitApart ==
    ASSUME Inv, Commit
    PROVE  TripsDisjoint' /\ CountedInOneTrip' /\ EndEventMatches'
<1>1. ASSUME NEW t \in Trip, NEW u \in Trip, t # u
      PROVE  /\ trips'[t].evs \cap trips'[u].evs = {}
             /\ (trips'[t].status # "absent" /\ trips'[u].status # "absent"
                   /\ trips'[t].imei = trips'[u].imei) =>
                  trips'[t].end <= trips'[u].start \/ trips'[u].end <= trips'[t].start
  <2>1. CASE Kept(t) /\ Kept(u)
    BY <1>1, <2>1 DEF Inv, InOrder, TripsDisjoint, CountedInOneTrip, Kept, Present
  <2>2. CASE Kept(t) /\ Wrote(u)
    BY <1>1, <2>2, KeptApart DEF Kept, Wrote, Present
  <2>3. CASE Wrote(t) /\ Kept(u)
    BY <1>1, <2>3, KeptApart DEF Kept, Wrote, Present
  <2>4. CASE Wrote(t) /\ Wrote(u)
    BY <1>1, <2>4, WrittenApart
  <2> QED
    BY <2>1, <2>2, <2>3, <2>4, CommitWrites
<1>2. TripsDisjoint'
    BY <1>1 DEF TripsDisjoint, Present
<1>3. CountedInOneTrip'
    BY <1>1 DEF CountedInOneTrip
<1>4. ASSUME NEW t \in Trip, trips'[t].endId # None
      PROVE  At(trips'[t].endId) = trips'[t].end
  <2>1. CASE Kept(t)
    BY <1>4, <2>1 DEF Inv, InOrder, EndEventMatches, Kept
  <2>2. CASE Wrote(t)
    BY <1>4, <2>2, WroteFacts
  <2> QED
    BY <2>1, <2>2, CommitWrites
<1>5. EndEventMatches'
  <2>1. log' = log
    BY CommitCursor DEF Inv
  <2> QED
    BY <1>4, <2>1 DEF EndEventMatches, At
<1> QED
    BY <1>2, <1>3, <1>5

-----------------------------------------------------------------------------
(* The other steps *)

\* Rows of which at most the status changes, and cursors that at most forget their trip.
LEMMA RowsKept ==
    ASSUME Inv, [Next]_vars,
           \A t \in Trip :
              /\ trips'[t].status = "open" => trips[t].status = "open"
              /\ trips[t].status = "absent" => trips'[t] = trips[t]
              /\ trips'[t].status = "absent" => trips[t].status = "absent"
              /\ trips'[t].imei = trips[t].imei /\ trips'[t].evs = trips[t].evs
              /\ trips'[t].start = trips[t].start /\ trips'[t].end = trips[t].end
              /\ trips'[t].endId = trips[t].endId,
           \A i \in Imei : /\ cursor'[i].last = cursor[i].last
                           /\ cursor'[i].open \in {cursor[i].open, None}
    PROVE  RowsBehindCursor' /\ TripsDisjoint' /\ CountedInOneTrip' /\ EndEventMatches'
<1>1. visible \subseteq Id /\ \A e \in Id : e \in Id' /\ At(e)' = At(e)
    BY EventKept DEF Inv, Consistent, TypeOK
<1>2. ASSUME NEW t \in Trip
      PROVE  /\ trips'[t].endId \in Id' \cup {None}
             /\ trips'[t].endId # None => At(trips[t].endId)' = trips'[t].end
  <2>1. trips[t].endId \in Id \cup {None}
    BY DEF Inv, InOrder, RowsBehindCursor
  <2>2. trips[t].endId # None => At(trips[t].endId) = trips[t].end
    BY DEF Inv, InOrder, EndEventMatches
  <2> QED
    BY <1>1, <2>1, <2>2
<1>3. EndEventMatches'
    BY <1>2 DEF EndEventMatches, At
<1>4. TripsDisjoint' /\ CountedInOneTrip'
    BY DEF Inv, InOrder, TripsDisjoint, CountedInOneTrip, Present
<1>5. ASSUME NEW t \in Trip, Present(t), NEW i, i = trips[t].imei
      PROVE  /\ i \in Imei /\ cursor'[i].last # 0
             /\ trips'[t].end <= At(cursor[i].last)'
             /\ \A f \in trips'[t].evs : f <= cursor'[i].last
             /\ cursor'[i].open = t => trips'[t].end = At(cursor[i].last)'
             /\ cursor'[i].open \notin {t, None} =>
                  trips'[t].end <= trips'[cursor'[i].open].start
  <2>1. /\ i \in Imei /\ cursor[i].last # 0
        /\ trips[t].end <= At(cursor[i].last)
        /\ \A f \in trips[t].evs : f <= cursor[i].last
        /\ cursor[i].open = t => trips[t].end = At(cursor[i].last)
        /\ cursor[i].open \notin {t, None} => trips[t].end <= trips[cursor[i].open].start
    BY <1>5 DEF Inv, InOrder, RowsBehindCursor
  <2>2. cursor[i].last \in Id /\ cursor[i].open \in Trip \cup {None}
    BY <1>1, <2>1 DEF Inv, InOrder, CursorOK, Consistent, TypeOK
  <2>3. At(cursor[i].last)' = At(cursor[i].last)
    <3>1. \A e \in Id : e = cursor[i].last => At(e)' = At(e)
      BY <1>1
    <3>2. cursor'[i].last = cursor[i].last
      BY <2>1
    <3> QED
      BY <2>2, <3>1, <3>2 DEF At
  <2>4. cursor'[i].open = t => cursor[i].open = t
    BY <2>1, BoundAssumption, NoneAssumption
  <2> QED
    BY <2>1, <2>2, <2>3, <2>4
<1>6. RowsBehindCursor'
  <2> SUFFICES ASSUME NEW t \in Trip
               PROVE  /\ ~Present(t)' => trips'[t] = Absent
                      /\ trips'[t].status = "open" => trips'[t].endId = None
                      /\ trips'[t].endId \in Id' \cup {None}
                      /\ Present(t)' =>
                           LET i == trips'[t].imei
                               e == cursor'[i].last
                           IN  /\ i \in Imei /\ e # 0
                               /\ trips'[t].end <= log'[e].gps
                               /\ \A f \in trips'[t].evs : f <= e
                               /\ cursor'[i].open = t => trips'[t].end = log'[e].gps
                               /\ cursor'[i].open \notin {t, None} =>
                                    trips'[t].end <= trips'[cursor'[i].open].start
    BY DEF RowsBehindCursor, At
  <2>1. ~Present(t)' => trips'[t] = Absent
    BY DEF Inv, InOrder, RowsBehindCursor, Present
  <2>2. trips'[t].status = "open" => trips'[t].endId = None
    BY DEF Inv, InOrder, RowsBehindCursor
  <2>3. Present(t)' => Present(t)
    BY DEF Present
  <2> QED
    BY <1>2, <1>5, <2>1, <2>2, <2>3 DEF At
<1> QED
    BY <1>3, <1>4, <1>6

\* The timeout changes the status of rows and forgets the trips it closes.
LEMMA TimeoutRows ==
    ASSUME Inv, TimeoutClose
    PROVE  RowsBehindCursor' /\ TripsDisjoint' /\ CountedInOneTrip' /\ EndEventMatches'
<1>1. [Next]_vars
    BY DEF Next, Work
<1>2. /\ trips' = [t \in Trip |-> IF Stale(t) THEN [trips[t] EXCEPT !.status = "closed"]
                                              ELSE trips[t]]
      /\ cursor' = [i \in Imei |-> ClearedCursor(i)]
    BY DEF TimeoutClose
<1>3. \A t \in Trip : trips[t] \in Row
    BY DEF Inv, Consistent, TypeOK
<1>4. \A t \in Trip :
         /\ trips'[t].status = "open" => trips[t].status = "open"
         /\ trips[t].status = "absent" => trips'[t] = trips[t]
         /\ trips'[t].status = "absent" => trips[t].status = "absent"
         /\ trips'[t].imei = trips[t].imei /\ trips'[t].evs = trips[t].evs
         /\ trips'[t].start = trips[t].start /\ trips'[t].end = trips[t].end
         /\ trips'[t].endId = trips[t].endId
    BY <1>2, <1>3 DEF Stale, Row
<1>5. \A i \in Imei : /\ cursor'[i].last = cursor[i].last
                      /\ cursor'[i].open \in {cursor[i].open, None}
    BY <1>2 DEF ClearedCursor, Inv, Consistent, TypeOK
<1> QED
    BY <1>1, <1>4, <1>5, RowsKept

\* A run takes up the trip its cursor names, where the cursor stands.
LEMMA LoadInOrder ==
    ASSUME Inv, NEW i \in Imei, LoadDevice(i)
    PROVE  RunReached' /\ RunDisjoint'
<1>1. /\ pc = "device" /\ pc' = "fetch" /\ dev' = i /\ after' = cursor[i].last
      /\ open' = Restored(i)
      /\ UNCHANGED <<log, visible, cursor, trips, events, rest, last, inserts, closes>>
    BY DEF LoadDevice, store, tables
<1>2. inserts = {} /\ closes = {} /\ rest = {}
    BY <1>1 DEF Inv, Consistent, LocalOK, TypeOK
<1>3. cursor[i].open \in Trip \cup {None} /\ cursor[i].last \in Nat
    BY DEF Inv, Consistent, TypeOK
<1>4. Reached' = cursor[i].last
    BY <1>1 DEF Reached
<1>5. cursor[i].last # 0 => /\ cursor[i].last \in visible /\ log[cursor[i].last].imei = i
                            /\ At(cursor[i].last) # None
    BY DEF Inv, InOrder, CursorOK
<1>6. ASSUME open' # None
      PROVE  \E t \in Trip :
               /\ t = cursor[i].open /\ Present(t) /\ trips[t].imei = i
               /\ open'.id = t /\ open'.lastId = cursor[i].last /\ open'.start = trips[t].start
               /\ open'.lastAt = At(cursor[i].last) /\ open'.evs = trips[t].evs
               /\ cursor[i].last # 0 /\ \A e \in open'.evs : e <= cursor[i].last
  <2>1. cursor[i].open # None
    BY <1>1, <1>6 DEF Restored
  <2>2. PICK t \in Trip : t = cursor[i].open
    BY <1>3, <2>1
  <2>3. Present(t) /\ trips[t].imei = i
    BY <2>2 DEF Inv, Consistent, OneOpenTrip, Present
  <2>4. /\ open'.id = t /\ open'.lastId = cursor[i].last /\ open'.start = trips[t].start
        /\ open'.lastAt = trips[t].end /\ open'.evs = trips[t].evs
    BY <1>1, <2>1, <2>2 DEF Restored
  <2>5. /\ cursor[i].last # 0 /\ trips[t].end = At(cursor[i].last)
        /\ \A e \in trips[t].evs : e <= cursor[i].last
    BY <2>2, <2>3 DEF Inv, InOrder, RowsBehindCursor
  <2> QED
    BY <2>2, <2>3, <2>4, <2>5
<1>7. RunReached'
  <2>1. Reached' # 0 => /\ Reached' \in visible' /\ log'[Reached'].imei = dev'
                        /\ At(Reached)' # None
    BY <1>1, <1>4, <1>5 DEF At
  <2>2. open' # None => /\ open'.lastId = Reached' /\ Reached' # 0
                        /\ open'.lastAt = At(Reached)'
                        /\ \A e \in open'.evs : e <= Reached'
    BY <1>1, <1>4, <1>6 DEF At
  <2>3. after' <= Reached' /\ rest' = {} /\ closes' = {}
    BY <1>1, <1>2, <1>3, <1>4
  <2> QED
    BY <2>1, <2>2, <2>3 DEF RunReached
<1>8. ClosesApart'
    BY <1>1, <1>2 DEF ClosesApart
<1>9. \A u \in Trip : \A s \in Starts(u)' : u = cursor[i].open /\ s = trips[u].start
    BY <1>1, <1>2 DEF Starts
<1>10. \A t \in Trip : (Present(t) /\ trips[t].imei = i /\ t # cursor[i].open) =>
          \A u \in Trip : \A s \in Starts(u)' : trips[t].end <= s
  <2> SUFFICES ASSUME NEW t \in Trip, Present(t), trips[t].imei = i, t # cursor[i].open,
                      NEW u \in Trip, NEW s \in Starts(u)'
               PROVE  trips[t].end <= s
    OBVIOUS
  <2>1. cursor[i].open = u /\ s = trips[u].start /\ cursor[i].open # None
    BY <1>9, BoundAssumption, NoneAssumption
  <2> QED
    BY <2>1 DEF Inv, InOrder, RowsBehindCursor
<1>11. \A t \in Trip : open' # None /\ t # open'.id => open'.evs \cap trips[t].evs = {}
    BY <1>6 DEF Inv, InOrder, CountedInOneTrip
<1>12. \A t \in Trip : (Present(t)' <=> Present(t)) /\ trips'[t] = trips[t]
    BY <1>1 DEF Present
<1>13. \A t \in Trip :
         /\ \A c \in closes' : t # c.id => c.evs \cap trips'[t].evs = {}
         /\ open' # None /\ t # open'.id => open'.evs \cap trips'[t].evs = {}
    BY <1>1, <1>2, <1>11
<1>14. \A t \in Trip : (Present(t)' /\ trips'[t].imei = dev' /\ t # cursor'[dev'].open) =>
          \A u \in Trip : \A s \in Starts(u)' : trips'[t].end <= s
    BY <1>1, <1>10, <1>12
<1>15. RowsApart'
    BY <1>13, <1>14 DEF RowsApart
<1> QED
    BY <1>7, <1>8, <1>15 DEF RunDisjoint

\* Steps that leave a run's trips where they are: the event it has got to stays known.
LEMMA RunKept ==
    ASSUME Inv, [Next]_vars, pc \in {"fetch", "detect"},
           UNCHANGED <<cursor, trips, dev, after, open, inserts, closes>>,
           Reached' = Reached, \A e \in rest' : Reached < e
    PROVE  RunReached' /\ RunDisjoint'
<1>1. visible \subseteq Id /\ visible \subseteq visible'
    BY LogGrows DEF Inv, Consistent, TypeOK
<1>2. \A e \in Id : e \in Id' /\ At(e)' = At(e) /\ log'[e].imei = log[e].imei
    BY EventKept DEF Inv
<1>3. /\ Reached # 0 => Reached \in visible /\ log[Reached].imei = dev /\ At(Reached) # None
      /\ after <= Reached
      /\ open # None => /\ open.lastId = Reached /\ Reached # 0 /\ open.lastAt = At(Reached)
                        /\ \A e \in open.evs : e <= Reached
      /\ \A c \in closes : /\ Reached # 0
                           /\ c.endId \in Id /\ c.end = At(c.endId)
                           /\ c.end <= At(Reached)
                           /\ \A e \in c.evs : e <= Reached
    BY DEF Inv, InOrder, RunReached
<1>4. Reached # 0 => At(Reached)' = At(Reached) /\ log'[Reached].imei = log[Reached].imei
  <2>1. \A e \in Id : e = Reached => At(e)' = At(e) /\ log'[e].imei = log[e].imei
    BY <1>2
  <2> QED
    BY <1>1, <1>3, <2>1 DEF At
<1>5. \A c \in closes : c.endId \in Id' /\ c.end = At(c.endId)'
    BY <1>2, <1>3
<1>6. RunReached'
  <2>1. Reached' # 0 => /\ Reached' \in visible' /\ log'[Reached'].imei = dev'
                        /\ At(Reached)' # None
    BY <1>1, <1>3, <1>4
  <2>2. open' # None => /\ open'.lastId = Reached' /\ Reached' # 0
                        /\ open'.lastAt = At(Reached)'
                        /\ \A e \in open'.evs : e <= Reached'
    BY <1>3, <1>4
  <2>3. \A c \in closes' : /\ Reached' # 0
                           /\ c.endId \in Id' /\ c.end = At(c.endId)'
                           /\ c.end <= At(Reached)'
                           /\ \A e \in c.evs : e <= Reached'
    BY <1>3, <1>4, <1>5
  <2> QED
    BY <1>3, <2>1, <2>2, <2>3 DEF RunReached
<1>7. RunDisjoint'
  <2>1. ClosesApart /\ RowsApart
    BY DEF Inv, InOrder, RunDisjoint
  <2>2. ClosesApart'
    BY <2>1 DEF ClosesApart, Starts
  <2>3. RowsApart'
    BY <2>1 DEF RowsApart, Starts, Present
  <2> QED
    BY <2>2, <2>3 DEF RunDisjoint
<1> QED
    BY <1>6, <1>7

\* What a device's rows and its run promise is kept by every step.
LEMMA NextInOrder ==
    ASSUME TimeOrdered, Inv, [Next]_vars
    PROVE  InOrder'
<1>1. CursorOK' /\ LogInOrder'
    BY CursorStaysOK, LogStaysInOrder DEF Inv, InOrder
<1> DEFINE Rows == RowsBehindCursor' /\ TripsDisjoint' /\ CountedInOneTrip' /\ EndEventMatches'
           Run == RunReached' /\ RunDisjoint'
<1>2. UNCHANGED <<cursor, trips>> => Rows
    BY RowsKept
<1>3. pc' \notin {"fetch", "detect"} => Run
    BY DEF RunReached, RunDisjoint
<1>4. CASE TimeoutClose
  <2>1. pc' = "list"
    BY <1>4 DEF TimeoutClose
  <2> QED
    BY <1>1, <1>3, <1>4, <2>1, TimeoutRows DEF InOrder
<1>5. ASSUME NEW i \in Imei, LoadDevice(i)
      PROVE  InOrder'
  <2>1. UNCHANGED <<cursor, trips>>
    BY <1>5 DEF LoadDevice, tables
  <2> QED
    BY <1>1, <1>2, <1>5, <2>1, LoadInOrder DEF InOrder
<1>6. CASE FetchEvents
  <2>1. /\ pc = "fetch" /\ events' = Fetched /\ rest' = Fetched /\ pc' = "detect"
        /\ UNCHANGED <<cursor, trips, dev, after, open, inserts, closes>>
    BY <1>6 DEF FetchEvents, tables
  <2>2. Reached = after /\ Reached' = after
    BY <2>1 DEF Reached
  <2>3. \A e \in Fetched : after < e
    <3>1. \A e \in Fetched : e \in visible /\ e > after
      BY DEF Fetched
    <3>2. visible \subseteq Nat /\ after \in Nat
      BY DEF Inv, Consistent, TypeOK, Id
    <3> QED
      BY <3>1, <3>2
  <2>4. Run
    BY <2>1, <2>2, <2>3, RunKept
  <2> QED
    BY <1>1, <1>2, <2>1, <2>4 DEF InOrder
<1>7. ASSUME NEW e \in Id, DetectEvent(e)
      PROVE  InOrder'
  <2>1. UNCHANGED <<cursor, trips>>
    BY <1>7, DetectFrame, IterateFacts DEF Inv
  <2> QED
    BY <1>1, <1>2, <1>7, <2>1, DetectReached, DetectDisjoint DEF InOrder
<1>8. CASE Commit
  <2>1. pc' \notin {"fetch", "detect"}
    BY <1>8, CommitCursor DEF Inv
  <2> QED
    BY <1>1, <1>3, <1>8, <2>1, CommitRows, CommitApart DEF InOrder
<1>9. CASE /\ UNCHANGED <<cursor, trips>>
           /\ UNCHANGED <<pc, dev, after, events, rest, last, open, inserts, closes>>
  <2>1. CASE pc \in {"fetch", "detect"}
    <3>1. Reached' = Reached
      BY <1>9 DEF Reached
    <3>2. \A e \in rest' : Reached < e
      BY <1>9, <2>1 DEF Inv, InOrder, RunReached
    <3>3. Run
      BY <1>9, <2>1, <3>1, <3>2, RunKept
    <3> QED
      BY <1>1, <1>2, <1>9, <3>3 DEF InOrder
  <2>2. CASE pc \notin {"fetch", "detect"}
    BY <1>1, <1>2, <1>3, <1>9, <2>2 DEF InOrder
  <2> QED
    BY <2>1, <2>2
<1>10. CASE UNCHANGED <<cursor, trips>> /\ pc' \notin {"fetch", "detect"}
    BY <1>1, <1>2, <1>3, <1>10 DEF InOrder
<1> QED
    BY <1>4, <1>5, <1>6, <1>7, <1>8, <1>9, <1>10, StepKinds DEF Inv

\* At the start there is nothing to be out of order.
LEMMA InitInOrder == Init => InOrder
    BY BoundAssumption, NoneAssumption
    DEF Init, InOrder, CursorOK, LogInOrder, RowsBehindCursor, RunReached, RunDisjoint,
        TripsDisjoint, CountedInOneTrip, EndEventMatches, Present, Absent, Id

-----------------------------------------------------------------------------
(* Devices that report in the order of their clocks: the theorems *)

\* The invariant that the three properties below need.
THEOREM TripsStayInOrder == TimeOrdered /\ Spec => []Inv
<1> SUFFICES ASSUME TimeOrdered PROVE Spec => []Inv
    OBVIOUS
<1>1. Init => Inv
    BY InitConsistent, InitAccounted, InitInOrder DEF Inv
<1>2. Inv /\ [Next]_vars => Inv'
    BY NextConsistent, NextSpans, NextCounts, NextOrder, NextInOrder DEF Inv, Accounted
<1> QED
    BY <1>1, <1>2, PTL DEF Spec

\* Two trips of a device that reports in the order of its clock never overlap in time,
\* whatever is lost, delayed or repeated between the worker and its tables.
THEOREM TripsNeverOverlap == TimeOrdered /\ Spec => []TripsDisjoint
<1> SUFFICES ASSUME TimeOrdered PROVE Spec => []TripsDisjoint
    OBVIOUS
<1>1. Inv => TripsDisjoint
    BY DEF Inv, InOrder
<1> QED
    BY <1>1, TripsStayInOrder, PTL

\* No event of such a device is absorbed by two trips.
THEOREM EventInOneTrip == TimeOrdered /\ Spec => []CountedInOneTrip
<1> SUFFICES ASSUME TimeOrdered PROVE Spec => []CountedInOneTrip
    OBVIOUS
<1>1. Inv => CountedInOneTrip
    BY DEF Inv, InOrder
<1> QED
    BY <1>1, TripsStayInOrder, PTL

\* The end event recorded with a trip of such a device is the one whose time ends it.
THEOREM EndEventEndsTrip == TimeOrdered /\ Spec => []EndEventMatches
<1> SUFFICES ASSUME TimeOrdered PROVE Spec => []EndEventMatches
    OBVIOUS
<1>1. Inv => EndEventMatches
    BY DEF Inv, InOrder
<1> QED
    BY <1>1, TripsStayInOrder, PTL

=============================================================================
