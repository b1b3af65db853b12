--------------------------- MODULE ServersProofs ----------------------------
(***************************************************************************)
(* The packet store, the device server in front of it and the connection   *)
(* pool of the backend, each by itself and where TLC explores them.        *)
(***************************************************************************)
EXTENDS MCServers, FoldProofs, SequenceTheorems

-----------------------------------------------------------------------------
(***************************************************************************)
(* The packet store                                                        *)
(*                                                                         *)
(* What the retries of the packet store leave in the tables, for any       *)
(* packets, devices and number of attempts.                                *)
(*                                                                         *)
(* The properties speak of packets that were stored; the invariant follows *)
(* a packet through its statements: while its insert is tried its rows are *)
(* those whose answers were lost (Tracked), and only a packet with a row   *)
(* gets to the update.                                                     *)
(***************************************************************************)
HistoryOK == lostReplies \in [Packet -> Nat] /\ seenBy \in [Imei -> SUBSET Packet]

Before == {"new", "rejected", "resolve", "unknown"}

\* A packet's rows follow from where it is.
Tracked ==
    \A p \in Packet :
        /\ rows[p] <= lostReplies[p] + 1
        /\ pc[p] \in Before => rows[p] = 0
        /\ pc[p] = "insert" => rows[p] <= lostReplies[p] /\ rows[p] <= attempts[p]
        /\ pc[p] \in {"update", "stored"} => rows[p] > 0
        /\ pc[p] \in {"insert", "update"} => p.imei \in Imei

\* A data packet that ended as stored has marked its device.
Marked == \A p \in Packet : pc[p] = "stored" /\ p.kind = "DP" => p \in seenBy[p.imei]

Inv == TypeOK /\ HistoryOK /\ Tracked /\ Marked /\ LastSeenStored

LEMMA Initially == ASSUME Init PROVE Inv
  BY AttemptsAssumption
     DEF Init, Inv, TypeOK, HistoryOK, Tracked, Marked, LastSeenStored, Running, Ended

LEMMA Stutters == Inv /\ UNCHANGED vars => Inv'
  BY DEF Inv, vars, TypeOK, HistoryOK, Tracked, Marked, LastSeenStored

\* A packet that moves without touching the tables: what remains is its place.
LEMMA MovesKeep ==
    ASSUME Inv, NEW p \in Packet, NEW place \in Running \cup Ended,
           Goto(p, place), UNCHANGED <<rows, lostReplies, lastSeen, seenBy>>,
           registered' \subseteq Imei,
           place \in Before => rows[p] = 0,
           place = "insert" => rows[p] = 0 /\ p.imei \in Imei,
           place \notin {"update", "stored"}
    PROVE  Inv'
  <1>1. TypeOK' /\ HistoryOK'
    BY AttemptsAssumption DEF Goto, Inv, TypeOK, HistoryOK
  <1>2. Tracked'
    BY DEF Goto, Inv, TypeOK, HistoryOK, Tracked
  <1>3. Marked' /\ LastSeenStored'
    BY DEF Goto, Inv, TypeOK, Marked, LastSeenStored
  <1> QED
    BY <1>1, <1>2, <1>3 DEF Inv

LEMMA ReceiveKeeps == ASSUME NEW p \in Packet, Inv, Receive(p) PROVE Inv'
  BY MovesKeep DEF Receive, Inv, TypeOK, Tracked, Running, Ended, Before

LEMMA ResolveKeeps == ASSUME NEW p \in Packet, Inv, Resolve(p) PROVE Inv'
  BY MovesKeep DEF Resolve, Resolved, Inv, TypeOK, Tracked, Running, Ended, Before

LEMMA ShortKeeps == ASSUME NEW p \in Packet, Inv, Short(p) PROVE Inv'
  BY MovesKeep DEF Short, Inv, TypeOK, Running, Ended, Before

LEMMA RefusedKeeps == ASSUME NEW p \in Packet, Inv, Refused(p) PROVE Inv'
  BY MovesKeep DEF Refused, Inv, TypeOK, Running, Ended, Before

LEMMA TransientKeeps == ASSUME NEW p \in Packet, Inv, Transient(p) PROVE Inv'
  <1>1. TypeOK' /\ HistoryOK'
    BY AttemptsAssumption DEF Transient, Retry, Goto, Running, Ended, Inv, TypeOK, HistoryOK
  <1>2. Tracked'
    BY AttemptsAssumption
       DEF Transient, Retry, Goto, Running, Before, Inv, TypeOK, HistoryOK, Tracked
  <1>3. Marked' /\ LastSeenStored'
    BY DEF Transient, Retry, Goto, Inv, TypeOK, HistoryOK, Marked, LastSeenStored
  <1> QED
    BY <1>1, <1>2, <1>3 DEF Inv

LEMMA InsertKeeps == ASSUME NEW p \in Packet, Inv, Insert(p) PROVE Inv'
  <1>1. TypeOK' /\ HistoryOK'
    BY AttemptsAssumption
       DEF Insert, AfterInsert, Goto, Running, Ended, Inv, TypeOK, HistoryOK, Tracked
  <1>2. Tracked'
    BY AttemptsAssumption
       DEF Insert, AfterInsert, Goto, Running, Before, Inv, TypeOK, HistoryOK, Tracked
  <1>3. Marked' /\ LastSeenStored'
    BY DEF Insert, AfterInsert, Goto, Inv, TypeOK, HistoryOK, Marked, LastSeenStored
  <1> QED
    BY <1>1, <1>2, <1>3 DEF Inv

\* Each row beyond the first is one whose answer was lost.
LEMMA InsertLateKeeps == ASSUME NEW p \in Packet, Inv, InsertLate(p) PROVE Inv'
  <1>1. TypeOK' /\ HistoryOK'
    BY AttemptsAssumption
       DEF InsertLate, Retry, Goto, Running, Ended, Inv, TypeOK, HistoryOK, Tracked
  <1>2. Tracked'
    BY AttemptsAssumption
       DEF InsertLate, Retry, Goto, Running, Before, Inv, TypeOK, HistoryOK, Tracked
  <1>3. Marked' /\ LastSeenStored'
    BY DEF InsertLate, Retry, Goto, Inv, TypeOK, HistoryOK, Marked, LastSeenStored
  <1> QED
    BY <1>1, <1>2, <1>3 DEF Inv

LEMMA UpdateKeeps == ASSUME NEW p \in Packet, Inv, Update(p) PROVE Inv'
  <1>1. TypeOK' /\ HistoryOK'
    BY AttemptsAssumption
       DEF Update, SetLastSeen, Goto, Running, Ended, Inv, TypeOK, HistoryOK, Tracked
  <1>2. Tracked'
    BY AttemptsAssumption
       DEF Update, SetLastSeen, Goto, Running, Before, Inv, TypeOK, HistoryOK, Tracked
  <1>3. Marked' /\ LastSeenStored'
    BY DEF Update, SetLastSeen, Goto, Inv, TypeOK, HistoryOK, Marked, LastSeenStored, Tracked
  <1> QED
    BY <1>1, <1>2, <1>3 DEF Inv

LEMMA UpdateLateKeeps == ASSUME NEW p \in Packet, Inv, UpdateLate(p) PROVE Inv'
  <1>1. TypeOK' /\ HistoryOK'
    BY AttemptsAssumption
       DEF UpdateLate, SetLastSeen, Retry, Goto, Running, Ended, Inv, TypeOK, HistoryOK, Tracked
  <1>2. Tracked'
    BY AttemptsAssumption
       DEF UpdateLate, SetLastSeen, Retry, Goto, Running, Before, Inv, TypeOK, HistoryOK, Tracked
  <1>3. Marked' /\ LastSeenStored'
    BY DEF UpdateLate, SetLastSeen, Retry, Goto, Inv, TypeOK, HistoryOK, Marked, LastSeenStored,
           Tracked
  <1> QED
    BY <1>1, <1>2, <1>3 DEF Inv

\* A cancelled statement is applied or not; nothing is tried again.
LEMMA CutKeeps == ASSUME NEW p \in Packet, Inv, Cut(p) PROVE Inv'
  <1>1. pc[p] \in Running /\ Goto(p, "cut") /\ UNCHANGED registered
    BY DEF Cut
  <1>2. CASE UNCHANGED <<rows, lostReplies, lastSeen, seenBy>>
    BY <1>1, <1>2, MovesKeep DEF Inv, TypeOK, Ended, Before
  <1>3. CASE /\ pc[p] = "insert"
             /\ rows' = [rows EXCEPT ![p] = @ + 1]
             /\ UNCHANGED <<lostReplies, lastSeen, seenBy>>
    <2>1. TypeOK' /\ HistoryOK'
      BY <1>1, <1>3, AttemptsAssumption DEF Goto, Ended, Inv, TypeOK, HistoryOK, Tracked
    <2>2. Tracked' /\ Marked'
      BY <1>1, <1>3 DEF Goto, Before, Inv, TypeOK, HistoryOK, Tracked, Marked
    <2>3. LastSeenStored'
      BY <1>3 DEF Inv, TypeOK, LastSeenStored
    <2> QED
      BY <2>1, <2>2, <2>3 DEF Inv
  <1>4. CASE pc[p] = "update" /\ SetLastSeen(p) /\ UNCHANGED <<rows, lostReplies>>
    <2>1. TypeOK' /\ HistoryOK'
      BY <1>1, <1>4, AttemptsAssumption
         DEF Goto, SetLastSeen, Ended, Inv, TypeOK, HistoryOK, Tracked
    <2>2. Tracked' /\ Marked'
      BY <1>1, <1>4 DEF Goto, SetLastSeen, Before, Inv, TypeOK, HistoryOK, Tracked, Marked
    <2>3. LastSeenStored'
      BY <1>4 DEF SetLastSeen, Inv, TypeOK, Tracked, LastSeenStored
    <2> QED
      BY <2>1, <2>2, <2>3 DEF Inv
  <1> QED
    BY <1>2, <1>3, <1>4 DEF Cut

LEMMA DeactivateKeeps == ASSUME NEW d \in Imei, Inv, Deactivate(d) PROVE Inv'
  BY DEF Deactivate, Inv, TypeOK, HistoryOK, Tracked, Marked, LastSeenStored

LEMMA StepKeeps == ASSUME Inv, [Next]_vars PROVE Inv'
  BY Stutters, ReceiveKeeps, ResolveKeeps, ShortKeeps, RefusedKeeps, TransientKeeps, InsertKeeps,
     InsertLateKeeps, UpdateKeeps, UpdateLateKeeps, CutKeeps, DeactivateKeeps DEF Next, Process

\* Packets, rows, lost answers and devices agree at every step.
THEOREM StoreConsistent == Spec => []Inv
  BY Initially, StepKeeps, PTL DEF Spec

\* Every variable of the store keeps its type; a packet has no more rows than attempts.
THEOREM StoreTyped == Spec => []TypeOK
  <1>1. Inv => TypeOK
    BY DEF Inv
  <1> QED
    BY <1>1, StoreConsistent, PTL

\* However statements fail, time out and are cut off, a packet logged as stored has its
\* row, and its device was marked as seen by it.
THEOREM StoredMeansStored == Spec => []StoredIsComplete
  <1>1. Inv => StoredIsComplete
    BY DEF Inv, Tracked, Marked, StoredIsComplete
  <1> QED
    BY <1>1, StoreConsistent, PTL

\* A packet gets a second row only through an insert whose answer came too late.
THEOREM DuplicatesAreLostReplies == Spec => []DuplicatesFromLateReplies
  <1>1. Inv => DuplicatesFromLateReplies
    BY DEF Inv, TypeOK, HistoryOK, Tracked, DuplicatesFromLateReplies
  <1> QED
    BY <1>1, StoreConsistent, PTL

\* A device is never marked as seen by a packet that has no row.
THEOREM SeenMeansStored == Spec => []LastSeenStored
  <1>1. Inv => LastSeenStored
    BY DEF Inv
  <1> QED
    BY <1>1, StoreConsistent, PTL

-----------------------------------------------------------------------------
(***************************************************************************)
(* The device server                                                       *)
(*                                                                         *)
(* Slots, tasks and the order of the shutdown, for any connections, any    *)
(* streams and any limits.                                                 *)
(*                                                                         *)
(* SlotsTracked speaks of the tasks only; ActiveTracked ties them to where *)
(* the handlers are, so that no handler gives a slot back twice.  That the *)
(* shutdown is clean follows from its order: Closed, HealthClosed and      *)
(* DrainedAll say what each of its phases leaves behind.                   *)
(***************************************************************************)

\* The tasks are the handlers between admission and their end, a finite number of them.
ActiveTracked ==
    /\ active = {c \in Conn : handlerPc[c] \notin {"away", "done"}}
    /\ IsFiniteSet(active)

\* Outside its loop a handler has no open transport.
Closed == \A c \in Conn : handlerPc[c] \in {"away", "leaving", "done"} => transport[c] = "closed"

\* From the closing of the health endpoint on no transport is open, nothing was cut off
\* before, and nobody is admitted.
ListenerClosed ==
    /\ phase \notin {"serving", "closing"} => \A c \in Conn : transport[c] # "open"
    /\ phase \in {"serving", "closing"} => cut = {}

\* From the drain on the health endpoint is closed, and the drain has every task.
DrainedAll ==
    /\ phase \in {"draining", "cancelling", "stopped"} => health = "none" /\ active \subseteq drain
    /\ phase = "stopped" => active = {}

ServerInv ==
    /\ ServerTypeOK /\ ActiveTracked /\ SlotsTracked
    /\ Closed /\ ListenerClosed /\ DrainedAll


LEMMA Limits == MaxConnections \in Nat /\ MaxDenials \in Nat
  BY ServerAssumption

LEMMA StreamsAreFinite == ASSUME NEW s \in Streams, NEW c \in Conn PROVE Len(s[c]) \in Nat
  BY ServerAssumption

LEMMA ServerInitially == ServerInit => ServerInv
  <1> SUFFICES ASSUME ServerInit PROVE ServerInv
    OBVIOUS
  <1>1. ServerTypeOK
    <2>1. slots \in 0..MaxConnections /\ denials \in [Conn -> 0..MaxDenials]
      BY Limits DEF ServerInit
    <2>2. stream \in Streams /\ read = [c \in Conn |-> 0] /\ read \in [Conn -> Nat]
      BY DEF ServerInit
    <2>3. \A c \in Conn : read[c] <= Len(stream[c])
      BY <2>2, StreamsAreFinite
    <2>4. /\ handlerPc \in [Conn -> {"away", "loop", "reading", "packets", "service",
                                   "closing", "leaving", "done"}]
          /\ transport \in [Conn -> {"open", "lost", "closed"}]
      BY DEF ServerInit
    <2>5. /\ active \subseteq Conn /\ drain \subseteq Conn /\ cut \subseteq Conn
          /\ shutdown \in BOOLEAN /\ phase = "serving" /\ health = "none"
      BY DEF ServerInit
    <2> QED
      BY <2>1, <2>2, <2>3, <2>4, <2>5 DEF ServerTypeOK
  <1>2. ActiveTracked /\ SlotsTracked
    BY Limits, FS_EmptySet DEF ServerInit, ActiveTracked, SlotsTracked
  <1>3. Closed /\ ListenerClosed /\ DrainedAll
    BY DEF ServerInit, Closed, ListenerClosed, DrainedAll
  <1> QED
    BY <1>1, <1>2, <1>3 DEF ServerInv

LEMMA ServerStutters == ServerInv /\ UNCHANGED serverVars => ServerInv'
  BY DEF ServerInv, serverVars, handler, server, ServerTypeOK, ActiveTracked, SlotsTracked, Closed,
         ListenerClosed, DrainedAll

\* A handler that stays in its loop changes nothing the server counts on.
LEMMA LoopKeeps ==
    ASSUME ServerInv, NEW c \in Conn, handlerPc[c] \notin {"away", "done"},
           NEW place \in {"loop", "reading", "packets", "service", "closing"}, Moves(c, place),
           UNCHANGED <<transport, stream, slots, active, server, health>>,
           read' \in [Conn -> Nat], \A d \in Conn : read'[d] <= Len(stream[d]),
           denials' \in [Conn -> 0..MaxDenials]
    PROVE  ServerInv'
  <1>1. handlerPc' = [handlerPc EXCEPT ![c] = place] /\ DOMAIN handlerPc = Conn
    BY DEF Moves, ServerInv, ServerTypeOK
  <1>2. ServerTypeOK'
    BY DEF Moves, server, ServerInv, ServerTypeOK
  <1>3. ActiveTracked' /\ SlotsTracked'
    BY <1>1 DEF ServerInv, ActiveTracked, SlotsTracked
  <1>4. Closed' /\ ListenerClosed' /\ DrainedAll'
    BY <1>1 DEF server, ServerInv, Closed, ListenerClosed, DrainedAll
  <1> QED
    BY <1>2, <1>3, <1>4 DEF ServerInv

LEMMA LoopHeadKeeps == ASSUME ServerInv, NEW c \in Conn, LoopHead(c) PROVE ServerInv'
  BY LoopKeeps DEF LoopHead, ServerInv, ServerTypeOK

LEMMA ReadKeeps == ASSUME ServerInv, NEW c \in Conn, Read(c) PROVE ServerInv'
  <1>1. PICK n \in read[c] + 1 .. Len(stream[c]) : read' = [read EXCEPT ![c] = n]
    BY DEF Read
  <1>2. n \in Nat /\ n <= Len(stream[c])
    <2>1. read[c] \in Nat /\ stream \in Streams
      BY DEF ServerInv, ServerTypeOK
    <2> QED
      BY <2>1, StreamsAreFinite
  <1>3. read' \in [Conn -> Nat] /\ \A d \in Conn : read'[d] <= Len(stream[d])
    BY <1>1, <1>2 DEF ServerInv, ServerTypeOK
  <1> QED
    BY <1>3, LoopKeeps DEF Read, ServerInv, ServerTypeOK

LEMMA ReadEndsKeeps == ASSUME ServerInv, NEW c \in Conn, ReadEnds(c) PROVE ServerInv'
  BY LoopKeeps DEF ReadEnds, ServerInv, ServerTypeOK

LEMMA UnfinishedKeeps == ASSUME ServerInv, NEW c \in Conn, Unfinished(c) PROVE ServerInv'
  BY LoopKeeps DEF Unfinished, ServerInv, ServerTypeOK

LEMMA RejectKeeps == ASSUME ServerInv, NEW c \in Conn, Reject(c) PROVE ServerInv'
  BY LoopKeeps DEF Reject, ServerInv, ServerTypeOK

LEMMA DenyKeeps == ASSUME ServerInv, NEW c \in Conn, Deny(c) PROVE ServerInv'
  <1>1. denials' \in [Conn -> 0..MaxDenials]
    <2>1. denials \in [Conn -> 0..MaxDenials] /\ MaxDenials \in Nat
      BY Limits DEF ServerInv, ServerTypeOK
    <2> QED
      BY <2>1 DEF Deny
  <1>2. Moves(c, "packets")
    BY DEF Deny, Moves, ServerInv, ServerTypeOK
  <1> QED
    BY <1>1, <1>2, LoopKeeps DEF Deny, ServerInv, ServerTypeOK

LEMMA ServeKeeps == ASSUME ServerInv, NEW c \in Conn, Serve(c) PROVE ServerInv'
  BY LoopKeeps DEF Serve, ServerInv, ServerTypeOK

LEMMA ServedKeeps == ASSUME ServerInv, NEW c \in Conn, Served(c) PROVE ServerInv'
  BY LoopKeeps DEF Served, ServerInv, ServerTypeOK

LEMMA RefuseKeeps == ASSUME ServerInv, NEW c \in Conn, Refuse(c) PROVE ServerInv'
  <1>1. ServerTypeOK'
    BY DEF Refuse, Moves, server, ServerInv, ServerTypeOK
  <1>2. ActiveTracked' /\ SlotsTracked'
    BY DEF Refuse, Moves, ServerInv, ServerTypeOK, ActiveTracked, SlotsTracked
  <1>3. Closed' /\ ListenerClosed' /\ DrainedAll'
    BY DEF Refuse, Moves, server, ServerInv, ServerTypeOK, Closed, ListenerClosed, DrainedAll
  <1> QED
    BY <1>1, <1>2, <1>3 DEF ServerInv

LEMMA AdmitKeeps == ASSUME ServerInv, NEW c \in Conn, Admit(c) PROVE ServerInv'
  <1>1. /\ handlerPc' = [handlerPc EXCEPT ![c] = "loop"]
        /\ transport' = [transport EXCEPT ![c] = "open"]
        /\ slots' = slots - 1 /\ active' = active \cup {c}
        /\ handlerPc[c] = "away" /\ phase = "serving" /\ slots > 0
    BY DEF Admit, Moves
  <1>2. ServerTypeOK'
    BY <1>1, Limits DEF Admit, server, ServerInv, ServerTypeOK
  <1>3. ActiveTracked'
    <2>1. IsFiniteSet(active')
      BY <1>1, FS_AddElement DEF ServerInv, ActiveTracked
    <2> QED
      BY <1>1, <2>1 DEF ServerInv, ServerTypeOK, ActiveTracked
  <1>4. c \notin active
    BY <1>1 DEF ServerInv, ActiveTracked
  <1>5. Cardinality(active') = Cardinality(active) + 1
    BY <1>1, <1>4, FS_AddElement DEF ServerInv, ActiveTracked
  <1>6. Cardinality(active) \in Nat
    BY FS_CardinalityType DEF ServerInv, ActiveTracked
  <1>7. SlotsTracked'
    BY <1>1, <1>5, <1>6, Limits DEF ServerInv, SlotsTracked
  <1>8. Closed' /\ ListenerClosed' /\ DrainedAll'
    BY <1>1 DEF Admit, server, ServerInv, ServerTypeOK, Closed, ListenerClosed, DrainedAll
  <1> QED
    BY <1>2, <1>3, <1>7, <1>8 DEF ServerInv

LEMMA LoseKeeps == ASSUME ServerInv, NEW c \in Conn, Lose(c) PROVE ServerInv'
  <1>1. ServerTypeOK' /\ ActiveTracked' /\ SlotsTracked'
    BY DEF Lose, server, ServerInv, ServerTypeOK, ActiveTracked, SlotsTracked
  <1>2. Closed' /\ ListenerClosed' /\ DrainedAll'
    BY DEF Lose, server, ServerInv, ServerTypeOK, Closed, ListenerClosed, DrainedAll
  <1> QED
    BY <1>1, <1>2 DEF ServerInv

LEMMA CloseTransportKeeps == ASSUME ServerInv, NEW c \in Conn, CloseTransport(c) PROVE ServerInv'
  <1>1. ServerTypeOK'
    BY DEF CloseTransport, Moves, server, ServerInv, ServerTypeOK
  <1>2. ActiveTracked' /\ SlotsTracked'
    BY DEF CloseTransport, Moves, ServerInv, ServerTypeOK, ActiveTracked, SlotsTracked
  <1>3. Closed' /\ ListenerClosed' /\ DrainedAll'
    BY DEF CloseTransport, Moves, server, ServerInv, ServerTypeOK, Closed, ListenerClosed,
           DrainedAll
  <1> QED
    BY <1>1, <1>2, <1>3 DEF ServerInv

\* A handler that leaves is tracked, so its slot was taken.
LEMMA LeaveKeeps == ASSUME ServerInv, NEW c \in Conn, Leave(c) PROVE ServerInv'
  <1>1. /\ handlerPc' = [handlerPc EXCEPT ![c] = "done"] /\ handlerPc[c] = "leaving"
        /\ slots' = slots + 1 /\ active' = active \ {c}
    BY DEF Leave, Released, Moves
  <1>2. c \in active /\ IsFiniteSet(active)
    BY <1>1 DEF ServerInv, ActiveTracked
  <1>3. Cardinality(active') = Cardinality(active) - 1 /\ IsFiniteSet(active')
    BY <1>1, <1>2, FS_RemoveElement
  <1>4. Cardinality(active) \in Nat /\ Cardinality(active') \in Nat
    BY <1>2, <1>3, FS_CardinalityType
  <1>5. SlotsTracked'
    BY <1>1, <1>3, <1>4, Limits DEF ServerInv, SlotsTracked
  <1>6. slots' \in 0..MaxConnections
    <2>1. slots \in 0..MaxConnections /\ MaxConnections \in Nat
      BY Limits DEF ServerInv, ServerTypeOK
    <2>2. slots' = MaxConnections - Cardinality(active')
      BY <1>5 DEF SlotsTracked
    <2> QED
      BY <1>1, <1>4, <2>1, <2>2
  <1>7. ServerTypeOK'
    BY <1>1, <1>6 DEF Leave, server, ServerInv, ServerTypeOK
  <1>8. ActiveTracked'
    BY <1>1, <1>3 DEF ServerInv, ServerTypeOK, ActiveTracked
  <1>9. Closed' /\ ListenerClosed' /\ DrainedAll'
    BY <1>1 DEF Leave, server, ServerInv, ServerTypeOK, Closed, ListenerClosed, DrainedAll
  <1> QED
    BY <1>5, <1>7, <1>8, <1>9 DEF ServerInv

LEMMA HealthKeeps ==
    ASSUME ServerInv, HealthConnect \/ HealthRequest \/ HealthAnswer PROVE ServerInv'
  <1>1. UNCHANGED <<handler, stream, server>> /\ health' \in {"none", "reading", "probing"}
    BY DEF HealthConnect, HealthRequest, HealthAnswer
  <1>2. phase \in {"draining", "cancelling", "stopped"} => health' = "none"
    BY DEF HealthConnect, HealthRequest, HealthAnswer, ServerInv, DrainedAll
  <1>3. ServerTypeOK' /\ ActiveTracked' /\ SlotsTracked'
    BY <1>1 DEF handler, server, ServerInv, ServerTypeOK, ActiveTracked, SlotsTracked
  <1>4. Closed' /\ ListenerClosed' /\ DrainedAll'
    BY <1>1, <1>2 DEF handler, server, ServerInv, Closed, ListenerClosed, DrainedAll
  <1> QED
    BY <1>3, <1>4 DEF ServerInv

LEMMA SignalKeeps == ASSUME ServerInv, Signal PROVE ServerInv'
  BY DEF Signal, handler, ServerInv, ServerTypeOK, ActiveTracked, SlotsTracked, Closed,
         ListenerClosed, DrainedAll

\* The listener closes, then its connections end, then the health endpoint closes.
LEMMA ShutdownKeeps == ASSUME ServerInv, Shutdown PROVE ServerInv'
  <1>1. ServerTypeOK' /\ ActiveTracked' /\ SlotsTracked' /\ Closed'
    BY DEF Shutdown, handler, ServerInv, ServerTypeOK, ActiveTracked, SlotsTracked, Closed
  <1>2. ListenerClosed' /\ DrainedAll'
    BY DEF Shutdown, Disconnected, handler, ServerInv, ServerTypeOK, ListenerClosed, DrainedAll
  <1> QED
    BY <1>1, <1>2 DEF ServerInv

LEMMA DrainTimeoutKeeps == ASSUME ServerInv, DrainTimeout PROVE ServerInv'
  <1>1. \A c \in Conn : /\ handlerPc'[c] \in {handlerPc[c], "closing"}
                        /\ handlerPc[c] \in {"away", "leaving", "done"} => handlerPc'[c] = handlerPc[c]
    BY DEF DrainTimeout, ServerInv, ActiveTracked
  <1>2. ServerTypeOK'
    BY <1>1 DEF DrainTimeout, ServerInv, ServerTypeOK
  <1>3. ActiveTracked' /\ SlotsTracked'
    BY <1>1 DEF DrainTimeout, ServerInv, ActiveTracked, SlotsTracked
  <1>4. Closed' /\ ListenerClosed' /\ DrainedAll'
    BY <1>1 DEF DrainTimeout, ServerInv, ServerTypeOK, Closed, ListenerClosed, DrainedAll
  <1> QED
    BY <1>2, <1>3, <1>4 DEF ServerInv

LEMMA StopKeeps == ASSUME ServerInv, Stop PROVE ServerInv'
  BY DEF Stop, Drained, handler, ServerInv, ServerTypeOK, ActiveTracked, SlotsTracked, Closed,
         ListenerClosed, DrainedAll

LEMMA ServerStepKeeps == ServerInv /\ [ServerNext]_serverVars => ServerInv'
  <1> SUFFICES ASSUME ServerInv, [ServerNext]_serverVars PROVE ServerInv'
    OBVIOUS
  <1>1. ASSUME NEW c \in Conn, Refuse(c) \/ Admit(c) \/ Lose(c) PROVE ServerInv'
    BY <1>1, RefuseKeeps, AdmitKeeps, LoseKeeps
  <1>2. ASSUME NEW c \in Conn, Handler(c) PROVE ServerInv'
    BY <1>2, LoopHeadKeeps, ReadKeeps, ReadEndsKeeps, UnfinishedKeeps, RejectKeeps, DenyKeeps,
       ServeKeeps, ServedKeeps, CloseTransportKeeps, LeaveKeeps DEF Handler
  <1>3. CASE Server
    BY <1>3, ShutdownKeeps, DrainTimeoutKeeps, StopKeeps DEF Server
  <1> QED
    BY <1>1, <1>2, <1>3, HealthKeeps, SignalKeeps, ServerStutters DEF ServerNext

\* Handlers, tasks, slots and the phases of the shutdown agree at every step.
THEOREM ServerConsistent == ServerSpec => []ServerInv
  BY ServerInitially, ServerStepKeeps, PTL DEF ServerSpec

\* Every variable of the server keeps its type.
THEOREM ServerTyped == ServerSpec => []ServerTypeOK
  <1>1. ServerInv => ServerTypeOK
    BY DEF ServerInv
  <1> QED
    BY <1>1, ServerConsistent, PTL

\* For any limit a slot is taken by exactly the tracked handlers, whatever ends them.
THEOREM SlotsAreTracked == ServerSpec => []SlotsTracked
  <1>1. ServerInv => SlotsTracked
    BY DEF ServerInv
  <1> QED
    BY <1>1, ServerConsistent, PTL

\* A shutdown, with or without a drain timeout, leaves no handler and no health request on
\* the closed pool, and cuts off only packets of devices that were gone.
THEOREM ShutdownStaysClean == ServerSpec => []ShutdownIsClean
  <1>1. ASSUME ServerInv PROVE ShutdownIsClean
    <2>1. PoolOutlivesHandlers
      BY <1>1 DEF ServerInv, ActiveTracked, DrainedAll, PoolOutlivesHandlers
    <2>2. CutOnlyLost
      BY <1>1 DEF ServerInv, ServerTypeOK, ListenerClosed, CutOnlyLost
    <2> QED
      BY <2>1, <2>2 DEF ShutdownIsClean
  <1> QED
    BY <1>1, ServerConsistent, PTL

(* What a handler makes of the chunks it reads.  Frames goes through a stream symbol by
   symbol; the lemmas say what that comes to for a text that is garbage, a begun packet or
   a whole one, and Kept that the buffer of a handler is the rest of such a reading. *)

Symbol == STRING
Text == Seq(Symbol)

\* Find names the first of the positions of a symbol.
LEMMA FindIs ==
    ASSUME NEW s \in Text, NEW x
    PROVE  /\ Find(s, x) \in 0..Len(s)
           /\ Find(s, x) = 0 => \A i \in 1..Len(s) : s[i] # x
           /\ Find(s, x) # 0 => /\ s[Find(s, x)] = x
                                /\ \A i \in 1..Find(s, x) - 1 : s[i] # x
  <1> DEFINE I == {i \in 1..Len(s) : s[i] = x}
  <1>1. Find(s, x) = IF I # {} THEN Min(I) ELSE 0
    BY DEF Find, SelectInSeq
  <1>2. Len(s) \in Nat
    BY DEF Text
  <1>3. ASSUME I # {} PROVE Min(I) \in I /\ \A i \in I : Min(I) <= i
    <2>1. I \subseteq Nat
      OBVIOUS
    <2> HIDE DEF I
    <2>2. \E i \in I : \A j \in I : i <= j
      BY <1>3, <2>1, LeastNumber
    <2> QED
      BY <2>2 DEF Min
  <1>4. I = {} => Find(s, x) = 0 /\ \A i \in 1..Len(s) : s[i] # x
    BY <1>1
  <1>5. ASSUME I # {}
        PROVE  /\ Find(s, x) \in 1..Len(s) /\ s[Find(s, x)] = x
               /\ \A i \in 1..Find(s, x) - 1 : s[i] # x
    <2>1. Find(s, x) \in I /\ \A i \in I : Find(s, x) <= i
      BY <1>1, <1>3, <1>5
    <2>2. ASSUME NEW i \in 1..Find(s, x) - 1 PROVE s[i] # x
      <3>1. i \in 1..Len(s) /\ ~(Find(s, x) <= i)
        BY <1>2, <2>1
      <3> QED
        BY <2>1, <3>1
    <2> QED
      BY <2>1, <2>2
  <1> QED
    BY <1>2, <1>4, <1>5

\* g goes through the first n symbols of s, from f.
Goes(g, f, s, n) == /\ DOMAIN g = 0..n /\ g[0] = f
                    /\ \A i \in 1..n : g[i] = Frame(g[i - 1], s[i])

LEMMA GoesThrough ==
    ASSUME NEW f, NEW s, NEW n \in Nat
    PROVE  \E g : Goes(g, f, s, n)
  <1> DEFINE S == {k \in Nat : \E g : Goes(g, f, s, k)}
  <1>1. 0 \in S
    <2>1. Goes([i \in 0..0 |-> f], f, s, 0)
      BY DEF Goes
    <2> QED
      BY <2>1
  <1>2. ASSUME NEW k \in Nat, k \in S PROVE k + 1 \in S
    <2>1. PICK g : Goes(g, f, s, k)
      BY <1>2
    <2> DEFINE h == [i \in 0..k + 1 |-> IF i = k + 1 THEN Frame(g[k], s[i]) ELSE g[i]]
    <2>2. h[0] = f /\ h[k + 1] = Frame(h[k], s[k + 1])
      BY <2>1 DEF Goes
    <2>3. \A i \in 1..k : h[i] = Frame(h[i - 1], s[i])
      BY <2>1 DEF Goes
    <2>4. \A i \in 1..k + 1 : h[i] = Frame(h[i - 1], s[i])
      <3> TAKE i \in 1..k + 1
      <3>1. i \in 1..k \/ i = k + 1
        OBVIOUS
      <3>2. (k + 1) - 1 = k
        OBVIOUS
      <3> HIDE DEF h
      <3> QED
        BY <2>2, <2>3, <3>1, <3>2
    <2>5. Goes(h, f, s, k + 1)
      <3>1. DOMAIN h = 0..k + 1
        OBVIOUS
      <3> HIDE DEF h
      <3> QED
        BY <2>2, <2>4, <3>1 DEF Goes
    <2> QED
      BY <2>5
  <1>3. n \in S
    <2> HIDE DEF S
    <2> QED
      BY <1>1, <1>2, NumbersRise
  <1> QED
    BY <1>3

\* What is framed at the end is where whatever goes through the symbols arrives.
LEMMA FramedIs ==
    ASSUME NEW f, NEW s, Len(s) \in Nat, NEW g, Goes(g, f, s, Len(s))
    PROVE  Framed(f, s) = g[Len(s)]
  <1> DEFINE Recurs(h) == h = [n \in 0..Len(s) |-> IF n = 0 THEN f ELSE Frame(h[n - 1], s[n])]
             u == CHOOSE h : Recurs(h)
             gg == [n \in 0..Len(s) |-> g[n]]
  <1>1. Framed(f, s) = u[Len(s)]
    BY DEF Framed
  <1>2. \A n \in 0..Len(s) : gg[n] = IF n = 0 THEN f ELSE Frame(gg[n - 1], s[n])
    BY DEF Goes
  <1>3. Recurs(gg)
    BY <1>2
  <1>4. Recurs(u)
    <2> HIDE DEF Recurs
    <2> QED
      BY <1>3
  <1> HIDE DEF u
  <1> DEFINE S == {n \in Nat : n <= Len(s) => u[n] = g[n]}
  <1>5. 0 \in S
    BY <1>4 DEF Goes
  <1>6. ASSUME NEW n \in Nat, n \in S PROVE n + 1 \in S
    <2>1. CASE n + 1 <= Len(s)
      <3>1. n + 1 \in 0..Len(s) /\ n + 1 \in 1..Len(s) /\ n + 1 # 0 /\ (n + 1) - 1 = n
        BY <2>1
      <3>2. u[n + 1] = Frame(u[n], s[n + 1])
        BY <1>4, <3>1
      <3>3. g[n + 1] = Frame(g[n], s[n + 1])
        BY <3>1 DEF Goes
      <3> QED
        BY <1>6, <2>1, <3>2, <3>3
    <2> QED
      BY <2>1
  <1>7. Len(s) \in S
    <2> HIDE DEF S
    <2> QED
      BY <1>5, <1>6, NumbersRise
  <1> QED
    BY <1>1, <1>7

LEMMA FramedNothing == ASSUME NEW f PROVE Framed(f, <<>>) = f
  <1>1. Goes([i \in 0..0 |-> f], f, <<>>, 0)
    BY DEF Goes
  <1>2. Len(<<>>) = 0
    OBVIOUS
  <1> QED
    BY <1>1, <1>2, FramedIs

\* One symbol more is one step of the framing more.
LEMMA FramedOneMore ==
    ASSUME NEW f, NEW s \in Text, NEW x \in Symbol
    PROVE  Framed(f, Append(s, x)) = Frame(Framed(f, s), x)
  <1> DEFINE t == Append(s, x)
             n == Len(s)
  <1>1. /\ n \in Nat /\ t \in Text /\ Len(t) = n + 1 /\ t[n + 1] = x
        /\ \A i \in 1..n : t[i] = s[i]
    <2>1. s \in Seq(Symbol)
      BY DEF Text
    <2> QED
      BY <2>1, AppendProperties DEF Text
  <1> HIDE DEF t, n
  <1>2. PICK g : Goes(g, f, t, n + 1)
    BY <1>1, GoesThrough
  <1> DEFINE h == [i \in 0..n |-> g[i]]
  <1>3. Goes(h, f, s, n)
    BY <1>1, <1>2 DEF Goes
  <1>4. h[n] = g[n]
    BY <1>1
  <1> HIDE DEF h
  <1>5. Framed(f, s) = g[n]
    BY <1>1, <1>3, <1>4, FramedIs DEF n
  <1>6. Framed(f, t) = g[n + 1]
    BY <1>1, <1>2, FramedIs
  <1>7. g[n + 1] = Frame(g[n], t[n + 1])
    <2>1. n + 1 \in 1..n + 1 /\ (n + 1) - 1 = n
      BY <1>1
    <2> QED
      BY <1>2, <2>1 DEF Goes
  <1> QED
    BY <1>1, <1>5, <1>6, <1>7 DEF t

\* The first symbols of a text, one more, and all of them.
LEMMA TextParts ==
    ASSUME NEW s \in Text
    PROVE  /\ Len(s) \in Nat
           /\ SubSeq(s, 1, 0) = <<>> /\ SubSeq(s, 1, Len(s)) = s
           /\ \A k \in 0..Len(s) : /\ SubSeq(s, 1, k) \in Text /\ Len(SubSeq(s, 1, k)) = k
                                   /\ \A i \in 1..k : SubSeq(s, 1, k)[i] = s[i]
           /\ \A k \in Nat : k + 1 <= Len(s) =>
                 /\ SubSeq(s, 1, k + 1) = Append(SubSeq(s, 1, k), s[k + 1])
                 /\ s[k + 1] \in Symbol
  <1>1. s \in Seq(Symbol) /\ Len(s) \in Nat /\ \A i \in 1..Len(s) : s[i] \in Symbol
    <2>1. s \in Seq(Symbol)
      BY DEF Text
    <2> QED
      BY <2>1, LenProperties, ElementOfSeq
  <1>2. SubSeq(s, 1, 0) = <<>> /\ SubSeq(s, 1, Len(s)) = s
    BY <1>1, SubSeqEmpty, SubSeqFull
  <1>3. ASSUME NEW k \in 0..Len(s)
        PROVE  /\ SubSeq(s, 1, k) \in Text /\ Len(SubSeq(s, 1, k)) = k
               /\ \A i \in 1..k : SubSeq(s, 1, k)[i] = s[i]
    <2>1. \A i \in 1..k : s[i] \in Symbol
      BY <1>1
    <2>2. /\ SubSeq(s, 1, k) \in Seq(Symbol)
          /\ Len(SubSeq(s, 1, k)) = IF 1 <= k THEN k - 1 + 1 ELSE 0
          /\ \A i \in 1..k - 1 + 1 : SubSeq(s, 1, k)[i] = s[1 + i - 1]
      BY <1>1, <2>1, SubSeqProperties
    <2> QED
      BY <2>2 DEF Text
  <1>4. ASSUME NEW k \in Nat, k + 1 <= Len(s)
        PROVE  SubSeq(s, 1, k + 1) = Append(SubSeq(s, 1, k), s[k + 1]) /\ s[k + 1] \in Symbol
    <2>1. /\ k + 1 \in 1..Len(s) /\ 1 \in 1..Len(s) /\ (k + 1) - 1 = k /\ k \in 0..Len(s)
          /\ s[k + 1] \in Symbol
      BY <1>1, <1>4
    <2>2. SubSeq(s, 1, k + 1) = SubSeq(s, 1, k) \o <<s[k + 1]>>
      BY <1>1, <2>1, SubSeqRecursiveSecond
    <2>3. SubSeq(s, 1, k) \in Seq(Symbol)
      BY <1>3, <2>1 DEF Text
    <2>4. Append(SubSeq(s, 1, k), s[k + 1]) = SubSeq(s, 1, k) \o <<s[k + 1]>>
      BY <2>1, <2>3, AppendIsConcat
    <2> QED
      BY <2>1, <2>2, <2>4
  <1> QED
    BY <1>1, <1>2, <1>3, <1>4

\* A text and another with a symbol more.
LEMMA OneMoreText ==
    ASSUME NEW s \in Text, NEW t \in Text, NEW x \in Symbol
    PROVE  /\ s \o t \in Text /\ s \o Append(t, x) = Append(s \o t, x)
           /\ s \o <<>> = s /\ <<>> \o s = s
  <1>1. s \in Seq(Symbol) /\ t \in Seq(Symbol)
    BY DEF Text
  <1>2. s \o t \in Seq(Symbol) /\ s \o <<>> = s /\ <<>> \o s = s
    BY <1>1, ConcatProperties, ConcatEmptySeq
  <1>3. <<x>> \in Seq(Symbol)
    OBVIOUS
  <1>4. Append(t, x) = t \o <<x>> /\ Append(s \o t, x) = (s \o t) \o <<x>>
    BY <1>1, <1>2, AppendIsConcat
  <1>5. s \o (t \o <<x>>) = (s \o t) \o <<x>>
    BY <1>1, <1>3, ConcatAssociative
  <1> QED
    BY <1>2, <1>4, <1>5 DEF Text

\* Two texts are framed one after the other.
LEMMA FramedBoth ==
    ASSUME NEW f, NEW s \in Text, NEW t \in Text
    PROVE  Framed(f, s \o t) = Framed(Framed(f, s), t)
  <1> DEFINE b(k) == SubSeq(t, 1, k)
             S == {k \in Nat : k <= Len(t) => Framed(f, s \o b(k)) = Framed(Framed(f, s), b(k))}
  <1>1. /\ Len(t) \in Nat /\ b(0) = <<>> /\ b(Len(t)) = t
        /\ \A k \in Nat : k + 1 <= Len(t) =>
              b(k) \in Text /\ b(k + 1) = Append(b(k), t[k + 1]) /\ t[k + 1] \in Symbol
    <2>1. Len(t) \in Nat /\ b(0) = <<>> /\ b(Len(t)) = t
      BY TextParts
    <2>2. ASSUME NEW k \in Nat, k + 1 <= Len(t)
          PROVE  b(k) \in Text /\ b(k + 1) = Append(b(k), t[k + 1]) /\ t[k + 1] \in Symbol
      <3>1. k \in 0..Len(t)
        BY <2>1, <2>2
      <3> QED
        BY <2>2, <3>1, TextParts
    <2> QED
      BY <2>1, <2>2
  <1> HIDE DEF b
  <1>2. 0 \in S
    <2>1. s \o <<>> = s
      BY ConcatEmptySeq DEF Text
    <2> QED
      BY <1>1, <2>1, FramedNothing
  <1>3. ASSUME NEW k \in Nat, k \in S PROVE k + 1 \in S
    <2>1. CASE k + 1 <= Len(t)
      <3>1. b(k + 1) = Append(b(k), t[k + 1]) /\ t[k + 1] \in Symbol /\ b(k) \in Text /\ k <= Len(t)
        BY <1>1, <2>1
      <3>2. s \o b(k + 1) = Append(s \o b(k), t[k + 1]) /\ s \o b(k) \in Text
        <4>1. /\ s \o b(k) \in Text
              /\ s \o Append(b(k), t[k + 1]) = Append(s \o b(k), t[k + 1])
          BY <3>1, OneMoreText
        <4> QED
          BY <3>1, <4>1
      <3>3. Framed(f, s \o b(k + 1)) = Frame(Framed(f, s \o b(k)), t[k + 1])
        <4>1. Framed(f, Append(s \o b(k), t[k + 1])) = Frame(Framed(f, s \o b(k)), t[k + 1])
          BY <3>1, <3>2, FramedOneMore
        <4> QED
          BY <3>2, <4>1
      <3>4. Framed(Framed(f, s), b(k + 1)) = Frame(Framed(Framed(f, s), b(k)), t[k + 1])
        <4>1. Framed(Framed(f, s), Append(b(k), t[k + 1])) = Frame(Framed(Framed(f, s), b(k)), t[k + 1])
          BY <3>1, FramedOneMore
        <4> QED
          BY <3>1, <4>1
      <3>5. Framed(f, s \o b(k)) = Framed(Framed(f, s), b(k))
        BY <1>3, <3>1
      <3>6. Framed(f, s \o b(k + 1)) = Framed(Framed(f, s), b(k + 1))
        BY <3>3, <3>4, <3>5
      <3> QED
        BY <3>6
    <2> QED
      BY <2>1
  <1>4. Len(t) \in S
    <2> HIDE DEF S
    <2> QED
      BY <1>1, <1>2, <1>3, NumbersRise
  <1> QED
    BY <1>1, <1>4

\* What was handed over so far, outside of packets; inside of one, p is what there is of it.
Handed(packets) == [open |-> <<>>, out |-> packets]
Inside(packets, p) == [open |-> p, out |-> packets]

LEMMA FrameOutside ==
    ASSUME NEW packets, NEW x, x # "$"
    PROVE  Frame(Handed(packets), x) = Handed(packets)
  BY DEF Frame, Handed

LEMMA FrameBegins ==
    ASSUME NEW packets
    PROVE  Frame(Handed(packets), "$") = Inside(packets, Append(<<>>, "$"))
  <1>1. Handed(packets).open = <<>> /\ "$" # "*"
    BY DEF Handed
  <1>2. \A q : [Handed(packets) EXCEPT !.open = q] = Inside(packets, q)
    BY DEF Inside, Handed
  <1> QED
    BY <1>1, <1>2 DEF Frame

LEMMA FrameGoesOn ==
    ASSUME NEW packets, NEW p, p # <<>>, NEW x, x # "*"
    PROVE  Frame(Inside(packets, p), x) = Inside(packets, Append(p, x))
  <1>1. Inside(packets, p).open = p
    BY DEF Inside
  <1>2. \A q : [Inside(packets, p) EXCEPT !.open = q] = Inside(packets, q)
    BY DEF Inside
  <1> QED
    BY <1>1, <1>2 DEF Frame

LEMMA FrameEnds ==
    ASSUME NEW packets, NEW p, p # <<>>
    PROVE  Frame(Inside(packets, p), "*") = Handed(Append(packets, Append(p, "*")))
  <1>1. Inside(packets, p).open = p /\ Inside(packets, p).out = packets
    BY DEF Inside
  <1> QED
    BY <1>1 DEF Frame, Handed

\* Garbage outside of packets is ignored.
LEMMA FramedGarbage ==
    ASSUME NEW packets, NEW s \in Text, \A i \in 1..Len(s) : s[i] # "$"
    PROVE  Framed(Handed(packets), s) = Handed(packets)
  <1> DEFINE b(k) == SubSeq(s, 1, k)
             S == {k \in Nat : k <= Len(s) => Framed(Handed(packets), b(k)) = Handed(packets)}
  <1>1. Len(s) \in Nat /\ b(0) = <<>> /\ b(Len(s)) = s
    BY TextParts
  <1>2. 0 \in S
    BY <1>1, FramedNothing
  <1>3. ASSUME NEW k \in Nat, k \in S PROVE k + 1 \in S
    <2>1. CASE k + 1 <= Len(s)
      <3>1. k \in 0..Len(s) /\ k + 1 \in 1..Len(s) /\ k <= Len(s)
        BY <1>1, <2>1
      <3>2. b(k) \in Text /\ b(k + 1) = Append(b(k), s[k + 1]) /\ s[k + 1] \in Symbol
        BY <2>1, <3>1, TextParts
      <3> HIDE DEF b
      <3>3. Framed(Handed(packets), b(k + 1)) = Frame(Handed(packets), s[k + 1])
        <4>1. Framed(Handed(packets), Append(b(k), s[k + 1])) = Frame(Framed(Handed(packets), b(k)), s[k + 1])
          BY <3>2, FramedOneMore
        <4>2. Framed(Handed(packets), b(k)) = Handed(packets)
          BY <1>3, <3>1
        <4> QED
          BY <3>2, <4>1, <4>2
      <3>4. s[k + 1] # "$"
        BY <3>1
      <3> QED
        BY <3>3, <3>4, FrameOutside
    <2> QED
      BY <2>1
  <1>4. Len(s) \in S
    <2> HIDE DEF S
    <2> QED
      BY <1>1, <1>2, <1>3, NumbersRise
  <1>5. Framed(Handed(packets), b(Len(s))) = Handed(packets)
    <2> HIDE DEF b
    <2> QED
      BY <1>1, <1>4
  <1> QED
    BY <1>1, <1>5

\* A text that begins a packet and has no end of one is inside of it.
LEMMA FramedOpen ==
    ASSUME NEW packets, NEW s \in Text, Len(s) > 0, s[1] = "$", \A i \in 1..Len(s) : s[i] # "*"
    PROVE  Framed(Handed(packets), s) = Inside(packets, s)
  <1> DEFINE b(k) == SubSeq(s, 1, k)
             S == {k \in Nat : k + 1 <= Len(s) => Framed(Handed(packets), b(k + 1)) = Inside(packets, b(k + 1))}
  <1>1. Len(s) \in Nat /\ b(0) = <<>> /\ b(Len(s)) = s
    BY TextParts
  <1>2. ASSUME NEW k \in Nat, k + 1 <= Len(s)
        PROVE  /\ b(k) \in Text /\ b(k + 1) = Append(b(k), s[k + 1]) /\ s[k + 1] \in Symbol
               /\ k # 0 => b(k) # <<>>
    <2>1. k \in 0..Len(s)
      BY <1>1, <1>2
    <2>2. Len(b(k)) = k /\ Len(<<>>) = 0
      BY <2>1, TextParts
    <2> QED
      BY <1>2, <2>1, <2>2, TextParts
  <1> HIDE DEF b
  <1>3. 0 \in S
    <2>1. b(0 + 1) = Append(b(0), s[0 + 1]) /\ s[0 + 1] \in Symbol /\ b(0) \in Text
      BY <1>1, <1>2
    <2>2. Framed(Handed(packets), Append(b(0), s[0 + 1])) = Frame(Framed(Handed(packets), b(0)), s[0 + 1])
      BY <2>1, FramedOneMore
    <2>3. Framed(Handed(packets), b(0)) = Handed(packets)
      BY <1>1, FramedNothing
    <2>4. Frame(Handed(packets), s[1]) = Inside(packets, Append(<<>>, s[1]))
      BY FrameBegins
    <2>5. 0 + 1 = 1
      OBVIOUS
    <2> QED
      BY <1>1, <2>1, <2>2, <2>3, <2>4, <2>5
  <1>4. ASSUME NEW k \in Nat, k \in S PROVE k + 1 \in S
    <2>1. CASE (k + 1) + 1 <= Len(s)
      <3>1. k + 1 \in Nat /\ k + 1 <= Len(s) /\ (k + 1) + 1 \in 1..Len(s)
        BY <1>1, <2>1
      <3>2. /\ b(k + 1) \in Text /\ b((k + 1) + 1) = Append(b(k + 1), s[(k + 1) + 1])
            /\ s[(k + 1) + 1] \in Symbol /\ b(k + 1) # <<>>
        BY <1>2, <2>1, <3>1
      <3>3. Framed(Handed(packets), b((k + 1) + 1)) = Frame(Inside(packets, b(k + 1)), s[(k + 1) + 1])
        <4> DEFINE x == s[(k + 1) + 1]
                   p == b(k + 1)
        <4>1. p \in Text /\ x \in Symbol /\ b((k + 1) + 1) = Append(p, x)
          BY <3>2
        <4>2. Framed(Handed(packets), p) = Inside(packets, p)
          BY <1>4, <3>1
        <4> HIDE DEF x, p
        <4>3. Framed(Handed(packets), Append(p, x)) = Frame(Framed(Handed(packets), p), x)
          BY <4>1, FramedOneMore
        <4>4. Framed(Handed(packets), b((k + 1) + 1)) = Frame(Inside(packets, p), x)
          BY <4>1, <4>2, <4>3
        <4> QED
          BY <4>4 DEF x, p
      <3>4. s[(k + 1) + 1] # "*"
        BY <3>1
      <3>5. Frame(Inside(packets, b(k + 1)), s[(k + 1) + 1]) = Inside(packets, b((k + 1) + 1))
        <4> DEFINE x == s[(k + 1) + 1]
                   p == b(k + 1)
        <4>1. x # "*" /\ p # <<>> /\ b((k + 1) + 1) = Append(p, x)
          BY <3>2, <3>4
        <4> HIDE DEF x, p
        <4>2. Frame(Inside(packets, p), x) = Inside(packets, Append(p, x))
          BY <4>1, FrameGoesOn
        <4> QED
          BY <4>1, <4>2 DEF x, p
      <3> QED
        BY <3>3, <3>5
    <2> QED
      BY <2>1
  <1>5. Len(s) - 1 \in S /\ (Len(s) - 1) + 1 = Len(s)
    <2>1. Len(s) - 1 \in Nat
      BY <1>1
    <2> HIDE DEF S
    <2> QED
      BY <1>1, <1>3, <1>4, <2>1, NumbersRise
  <1> QED
    BY <1>1, <1>5

\* A text that begins a packet hands the packet over at its end.
LEMMA FramedPacket ==
    ASSUME NEW packets, NEW s \in Text, Len(s) > 0, s[1] = "$", Find(s, "*") # 0
    PROVE  Framed(Handed(packets), SubSeq(s, 1, Find(s, "*")))
             = Handed(Append(packets, SubSeq(s, 1, Find(s, "*"))))
  <1> DEFINE n == Find(s, "*") - 1
             p == SubSeq(s, 1, n)
  <1>1. /\ Len(s) \in Nat /\ n \in Int /\ n + 1 = Find(s, "*") /\ n + 1 \in 1..Len(s)
        /\ s[n + 1] = "*" /\ \A i \in 1..n : s[i] # "*"
    <2>1. Len(s) \in Nat
      BY TextParts
    <2>2. /\ Find(s, "*") \in 0..Len(s) /\ s[Find(s, "*")] = "*"
          /\ \A i \in 1..Find(s, "*") - 1 : s[i] # "*"
      BY FindIs
    <2>3. n \in Int /\ n + 1 = Find(s, "*") /\ n + 1 \in 1..Len(s)
      BY <2>1, <2>2
    <2> QED
      BY <2>1, <2>2, <2>3
  <1>2. "$" # "*"
    OBVIOUS
  <1> HIDE DEF n
  <1>3. n \in Nat /\ n # 0 /\ n \in 0..Len(s) /\ n + 1 <= Len(s)
    <2>1. n # 0
      BY <1>1, <1>2
    <2> QED
      BY <1>1, <2>1
  <1>4. p \in Text /\ Len(p) = n /\ \A i \in 1..n : p[i] = s[i]
    BY <1>3, TextParts
  <1>5. SubSeq(s, 1, n + 1) = Append(p, s[n + 1]) /\ s[n + 1] \in Symbol
    BY <1>3, TextParts
  <1> HIDE DEF p
  <1>6. Framed(Handed(packets), p) = Inside(packets, p)
    BY <1>1, <1>3, <1>4, FramedOpen
  <1>7. p # <<>>
    BY <1>3, <1>4
  <1>8. Framed(Handed(packets), Append(p, s[n + 1])) = Frame(Inside(packets, p), s[n + 1])
    BY <1>4, <1>5, <1>6, FramedOneMore
  <1>9. Frame(Inside(packets, p), "*") = Handed(Append(packets, Append(p, "*")))
    BY <1>7, FrameEnds
  <1> QED
    BY <1>1, <1>5, <1>8, <1>9

\* A text is its beginning and the rest.
LEMMA BeginAndRest ==
    ASSUME NEW s \in Text, NEW k \in 0..Len(s)
    PROVE  /\ From(s, k + 1) \in Text /\ SubSeq(s, 1, k) \o From(s, k + 1) = s
           /\ k < Len(s) => From(s, k + 1) # <<>> /\ From(s, k + 1)[1] = s[k + 1]
  <1>1. s \in Seq(Symbol) /\ Len(s) \in Nat /\ \A i \in 1..Len(s) : s[i] \in Symbol
    BY LenProperties, ElementOfSeq DEF Text
  <1>2. From(s, k + 1) = SubSeq(s, k + 1, Len(s))
    BY DEF From
  <1>3. \A i \in k + 1..Len(s) : s[i] \in Symbol
    BY <1>1
  <1>4. /\ From(s, k + 1) \in Seq(Symbol)
        /\ Len(From(s, k + 1)) = IF k + 1 <= Len(s) THEN Len(s) - (k + 1) + 1 ELSE 0
        /\ \A i \in 1..Len(s) - (k + 1) + 1 : From(s, k + 1)[i] = s[(k + 1) + i - 1]
    <2> DEFINE m == k + 1
               n == Len(s)
    <2>1. m \in Int /\ n \in Int /\ \A i \in m..n : s[i] \in Symbol
      BY <1>1, <1>3
    <2> HIDE DEF m, n
    <2>2. /\ SubSeq(s, m, n) \in Seq(Symbol)
          /\ Len(SubSeq(s, m, n)) = IF m <= n THEN n - m + 1 ELSE 0
          /\ \A i \in 1..n - m + 1 : SubSeq(s, m, n)[i] = s[m + i - 1]
      BY <1>1, <2>1, SubSeqProperties
    <2> QED
      BY <1>2, <2>2 DEF m, n
  <1>5. SubSeq(s, 1, k) \o SubSeq(s, k + 1, Len(s)) = SubSeq(s, 1, Len(s))
    <2>1. 1 \in 1..Len(s) + 1 /\ k \in (1 - 1)..Len(s) /\ Len(s) \in k..Len(s)
      BY <1>1
    <2> QED
      BY <1>1, <2>1, ConcatAdjacentSubSeq
  <1>6. SubSeq(s, 1, Len(s)) = s
    BY TextParts
  <1>7. ASSUME k < Len(s) PROVE From(s, k + 1) # <<>> /\ From(s, k + 1)[1] = s[k + 1]
    <2>1. Len(From(s, k + 1)) > 0 /\ 1 \in 1..Len(s) - (k + 1) + 1 /\ (k + 1) + 1 - 1 = k + 1
      BY <1>1, <1>4, <1>7
    <2> QED
      BY <1>4, <2>1
  <1> QED
    BY <1>2, <1>4, <1>5, <1>6, <1>7 DEF Text

\* Trimming drops only garbage.
LEMMA TrimIs ==
    ASSUME NEW packets, NEW s \in Text
    PROVE  /\ Trim(s) \in Text
           /\ Trim(s) # <<>> => Trim(s)[1] = "$"
           /\ Framed(Handed(packets), Trim(s)) = Framed(Handed(packets), s)
  <1> DEFINE k == Find(s, "$")
  <1>1. k \in 0..Len(s) /\ Len(s) \in Nat
    BY FindIs, TextParts
  <1>2. CASE k = 0
    <2>1. Trim(s) = <<>>
      BY <1>2 DEF Trim
    <2>2. \A i \in 1..Len(s) : s[i] # "$"
      BY <1>2, FindIs
    <2>3. <<>> \in Text
      BY DEF Text
    <2> QED
      BY <2>1, <2>2, <2>3, FramedGarbage, FramedNothing
  <1>3. CASE k # 0
    <2> DEFINE n == k - 1
    <2>1. Trim(s) = From(s, k)
      BY <1>3 DEF Trim
    <2>2. s[k] = "$" /\ \A i \in 1..k - 1 : s[i] # "$"
      BY <1>3, FindIs
    <2>3. n \in 0..Len(s) /\ n < Len(s) /\ n + 1 = k
      BY <1>1, <1>3
    <2> HIDE DEF k, n
    <2>4. /\ From(s, n + 1) \in Text /\ SubSeq(s, 1, n) \o From(s, n + 1) = s
          /\ From(s, n + 1)[1] = s[n + 1]
      BY <2>3, BeginAndRest
    <2>5. SubSeq(s, 1, n) \in Text /\ Len(SubSeq(s, 1, n)) = n /\ \A i \in 1..n : SubSeq(s, 1, n)[i] = s[i]
      BY <2>3, TextParts
    <2>6. Framed(Handed(packets), SubSeq(s, 1, n)) = Handed(packets)
      <3>1. \A i \in 1..n : s[i] # "$"
        BY <2>2 DEF n
      <3> QED
        BY <2>5, <3>1, FramedGarbage
    <2>7. Framed(Handed(packets), s) = Framed(Handed(packets), From(s, n + 1))
      <3>1. Framed(Handed(packets), SubSeq(s, 1, n) \o From(s, n + 1))
              = Framed(Framed(Handed(packets), SubSeq(s, 1, n)), From(s, n + 1))
        BY <2>4, <2>5, FramedBoth
      <3> QED
        BY <2>4, <2>6, <3>1
    <2> QED
      BY <2>1, <2>2, <2>3, <2>4, <2>7
  <1> QED
    BY <1>2, <1>3

Looping == {"loop", "reading", "packets", "service"}

\* What was read from a device is what was handed over and what is in the buffer; until the
\* buffer is trimmed after a packet, it begins with a packet, and before a read it ends none.
Kept(c) ==
    /\ handlerPc[c] = "away" => buf[c] = <<>> /\ taken[c] = <<>> /\ read[c] = 0
    /\ handlerPc[c] \in Looping /\ denials[c] = 0 =>
          /\ Framed(Handed(taken[c]), buf[c]) = Framed(Outside, SubSeq(stream[c], 1, read[c]))
          /\ handlerPc[c] # "service" /\ buf[c] # <<>> => buf[c][1] = "$"
          /\ handlerPc[c] \in {"loop", "reading"} => Find(buf[c], "*") = 0
FramingTyped == buf \in [Conn -> Text] /\ taken \in [Conn -> Seq(Text)]
FramingInv == FramingTyped /\ \A c \in Conn : Kept(c)

LEMMA FramingInitially == ServerInit => FramingInv
  <1> SUFFICES ASSUME ServerInit PROVE FramingInv
    OBVIOUS
  <1>1. FramingTyped
    BY DEF ServerInit, FramingTyped, Text
  <1>2. ASSUME NEW c \in Conn PROVE Kept(c)
    BY DEF ServerInit, Kept, Looping
  <1> QED
    BY <1>1, <1>2 DEF FramingInv

\* A connection that a step leaves alone, and one whose handler ends.
LEMMA SameKept ==
    ASSUME NEW d \in Conn, Kept(d), handlerPc'[d] = handlerPc[d], stream'[d] = stream[d],
           read'[d] = read[d], buf'[d] = buf[d], taken'[d] = taken[d], denials'[d] = denials[d]
    PROVE  Kept(d)'
  BY DEF Kept

LEMMA EndedKept ==
    ASSUME NEW d \in Conn, handlerPc'[d] \in {"closing", "leaving", "done"}
    PROVE  Kept(d)'
  BY DEF Kept, Looping

LEMMA StreamsAreTexts ==
    ASSUME ServerInv, NEW c \in Conn
    PROVE  stream[c] \in Text /\ Len(stream[c]) \in Nat /\ read[c] \in 0..Len(stream[c])
  <1>1. stream[c] \in Text
    BY ServerAssumption DEF ServerInv, ServerTypeOK, Text, Symbol
  <1>2. Len(stream[c]) \in Nat
    BY <1>1, TextParts
  <1>3. read[c] \in Nat /\ read[c] <= Len(stream[c])
    BY DEF ServerInv, ServerTypeOK
  <1> QED
    BY <1>1, <1>2, <1>3

LEMMA BuffersStay ==
    ASSUME FramingInv, UNCHANGED <<buf, taken>>
    PROVE  FramingTyped'
  BY DEF FramingInv, FramingTyped

LEMMA ReadKept ==
    ASSUME ServerInv, FramingInv, NEW c \in Conn, Read(c)
    PROVE  FramingTyped' /\ Kept(c)'
  <1>1. PICK n \in read[c] + 1 .. Len(stream[c]) :
            /\ buf' = [buf EXCEPT ![c] = Collect(c, SubSeq(stream[c], read[c] + 1, n))]
            /\ read' = [read EXCEPT ![c] = n]
    BY DEF Read
  <1> DEFINE s == stream[c]
             r == read[c]
             chunk == SubSeq(s, r + 1, n)
             t == buf[c] \o chunk
  <1>2. s \in Text /\ Len(s) \in Nat /\ r \in 0..Len(s) /\ n \in r + 1 .. Len(s)
    BY StreamsAreTexts
  <1>3. buf[c] \in Text /\ buf \in [Conn -> Text] /\ taken \in [Conn -> Seq(Text)] /\ Kept(c)
    BY DEF FramingInv, FramingTyped
  <1>4. /\ taken' = taken /\ denials' = denials /\ stream' = stream
        /\ buf'[c] = Trim(t) /\ read'[c] = n /\ handlerPc[c] = "reading"
        /\ handlerPc'[c] = IF Trim(t) = <<>> THEN "loop" ELSE "packets"
    BY <1>1, <1>3 DEF Read, Moves, Collect, ServerInv, ServerTypeOK
  <1> HIDE DEF s, r, chunk
  <1>5. chunk \in Text /\ SubSeq(s, 1, r) \in Text /\ SubSeq(s, 1, r) \o chunk = SubSeq(s, 1, n)
    <2>1. s \in Seq(Symbol) /\ \A i \in 1..Len(s) : s[i] \in Symbol
      BY <1>2, ElementOfSeq DEF Text
    <2>2. \A i \in r + 1 .. n : s[i] \in Symbol
      BY <1>2, <2>1
    <2>3. r + 1 \in Int /\ n \in Int
      BY <1>2
    <2>4. chunk \in Seq(Symbol)
      BY <2>2, <2>3, SubSeqProperties DEF chunk
    <2>5. 1 \in 1..Len(s) + 1 /\ r \in (1 - 1)..Len(s) /\ n \in r..Len(s)
      BY <1>2
    <2>6. SubSeq(s, 1, r) \o SubSeq(s, r + 1, n) = SubSeq(s, 1, n)
      BY <2>1, <2>5, ConcatAdjacentSubSeq
    <2>7. SubSeq(s, 1, r) \in Text
      BY <1>2, TextParts
    <2> QED
      BY <2>4, <2>6, <2>7 DEF Text, chunk
  <1>6. t \in Text
    BY <1>3, <1>5, OneMoreText, ConcatProperties DEF Text
  <1> HIDE DEF t
  <1>7. Trim(t) \in Text /\ (Trim(t) # <<>> => Trim(t)[1] = "$")
    BY <1>6, TrimIs
  <1>8. FramingTyped'
    BY <1>1, <1>3, <1>4, <1>7 DEF FramingTyped, Collect, t, chunk, s, r
  <1>9. ASSUME denials[c] = 0
        PROVE  Framed(Handed(taken[c]), Trim(t)) = Framed(Outside, SubSeq(s, 1, n))
    <2>1. Framed(Handed(taken[c]), Trim(t)) = Framed(Handed(taken[c]), t)
      BY <1>6, TrimIs
    <2>2. Framed(Handed(taken[c]), t) = Framed(Framed(Handed(taken[c]), buf[c]), chunk)
      BY <1>3, <1>5, FramedBoth DEF t
    <2>3. Framed(Handed(taken[c]), buf[c]) = Framed(Outside, SubSeq(s, 1, r))
      BY <1>3, <1>4, <1>9 DEF Kept, Looping, s, r
    <2>4. Framed(Outside, SubSeq(s, 1, n)) = Framed(Framed(Outside, SubSeq(s, 1, r)), chunk)
      <3>1. Framed(Outside, SubSeq(s, 1, r) \o chunk) = Framed(Framed(Outside, SubSeq(s, 1, r)), chunk)
        BY <1>5, FramedBoth
      <3> QED
        BY <1>5, <3>1
    <2> QED
      BY <2>1, <2>2, <2>3, <2>4
  <1>10. Trim(t) = <<>> => Find(Trim(t), "*") = 0
    <2>1. <<>> \in Text /\ Len(<<>>) = 0
      BY DEF Text
    <2>2. Find(<<>>, "*") \in 0..0
      BY <2>1, FindIs
    <2> QED
      BY <2>2
  <1> QED
    BY <1>4, <1>7, <1>8, <1>9, <1>10 DEF Kept, s

LEMMA ServeKept ==
    ASSUME ServerInv, FramingInv, NEW c \in Conn, Serve(c)
    PROVE  FramingTyped' /\ Kept(c)'
  <1> DEFINE b == buf[c]
             k == Find(b, "*")
             p == SubSeq(b, 1, k)
             rest == From(b, k + 1)
  <1>1. b \in Text /\ buf \in [Conn -> Text] /\ taken \in [Conn -> Seq(Text)] /\ Kept(c)
    BY DEF FramingInv, FramingTyped
  <1>2. /\ handlerPc[c] = "packets" /\ handlerPc'[c] = "service" /\ k # 0
        /\ buf' = [buf EXCEPT ![c] = rest] /\ taken' = [taken EXCEPT ![c] = Append(@, p)]
        /\ denials' = denials /\ stream' = stream /\ read' = read
    BY DEF Serve, Moves, NextPacket, Rest, ServerInv, ServerTypeOK
  <1>3. Len(b) \in Nat /\ k \in 1..Len(b)
    BY <1>1, <1>2, FindIs, TextParts
  <1> HIDE DEF b
  <1>4. Len(b) > 0 /\ b # <<>>
    BY <1>3
  <1>5. p \in Text
    BY <1>1, <1>3, TextParts
  <1>6. rest \in Text /\ p \o rest = b
    <2>1. k \in 0..Len(b)
      BY <1>3
    <2> HIDE DEF k
    <2> QED
      BY <1>1, <2>1, BeginAndRest
  <1>7. FramingTyped'
    <2>1. taken[c] \in Seq(Text) /\ Append(taken[c], p) \in Seq(Text)
      <3> HIDE DEF p
      <3> QED
        BY <1>1, <1>5
    <2> HIDE DEF p, rest
    <2> QED
      BY <1>1, <1>2, <1>6, <2>1 DEF FramingTyped
  <1>8. ASSUME denials[c] = 0
        PROVE  Framed(Handed(Append(taken[c], p)), rest) = Framed(Outside, SubSeq(stream[c], 1, read[c]))
    <2>1. /\ Framed(Handed(taken[c]), b) = Framed(Outside, SubSeq(stream[c], 1, read[c]))
          /\ b[1] = "$"
      BY <1>1, <1>2, <1>4, <1>8 DEF Kept, Looping, b
    <2>2. Framed(Handed(taken[c]), p) = Handed(Append(taken[c], p))
      BY <1>1, <1>2, <1>4, <2>1, FramedPacket
    <2> HIDE DEF p, rest
    <2>3. Framed(Handed(taken[c]), p \o rest) = Framed(Framed(Handed(taken[c]), p), rest)
      BY <1>5, <1>6, FramedBoth
    <2> QED
      BY <1>6, <2>1, <2>2, <2>3
  <1>9. buf'[c] = rest /\ taken'[c] = Append(taken[c], p)
    BY <1>1, <1>2
  <1> HIDE DEF p, rest
  <1> QED
    BY <1>2, <1>7, <1>8, <1>9 DEF Kept

LEMMA ServedKept ==
    ASSUME ServerInv, FramingInv, NEW c \in Conn, Served(c)
    PROVE  FramingTyped' /\ Kept(c)'
  <1>1. buf[c] \in Text /\ buf \in [Conn -> Text] /\ taken \in [Conn -> Seq(Text)] /\ Kept(c)
    BY DEF FramingInv, FramingTyped
  <1>2. /\ handlerPc[c] = "service" /\ buf' = [buf EXCEPT ![c] = Trim(buf[c])]
        /\ buf'[c] = Trim(buf[c])
        /\ handlerPc'[c] = IF Trim(buf[c]) = <<>> THEN "loop" ELSE "packets"
        /\ denials' = denials /\ stream' = stream /\ read' = read /\ taken' = taken
    BY <1>1 DEF Served, Moves, ServerInv, ServerTypeOK
  <1>3. /\ Trim(buf[c]) \in Text /\ (Trim(buf[c]) # <<>> => Trim(buf[c])[1] = "$")
        /\ Framed(Handed(taken[c]), Trim(buf[c])) = Framed(Handed(taken[c]), buf[c])
    BY <1>1, TrimIs
  <1>4. FramingTyped'
    BY <1>1, <1>2, <1>3 DEF FramingTyped
  <1>5. Trim(buf[c]) = <<>> => Find(Trim(buf[c]), "*") = 0
    <2>1. <<>> \in Text /\ Len(<<>>) = 0
      BY DEF Text
    <2>2. Find(<<>>, "*") \in 0..0
      BY <2>1, FindIs
    <2> QED
      BY <2>2
  <1>6. denials[c] = 0 => Framed(Handed(taken[c]), Trim(buf[c])) = Framed(Outside, SubSeq(stream[c], 1, read[c]))
    BY <1>1, <1>2, <1>3 DEF Kept, Looping
  <1> QED
    BY <1>2, <1>3, <1>4, <1>5, <1>6 DEF Kept

\* A packet that is not accepted, or is rate-limited, leaves the rest of the buffer.
LEMMA RestTyped ==
    ASSUME FramingInv, NEW c \in Conn, buf' = [buf EXCEPT ![c] = Rest(c)], taken' = taken
    PROVE  FramingTyped'
  <1>1. buf[c] \in Text
    BY DEF FramingInv, FramingTyped
  <1>2. Find(buf[c], "*") \in 0..Len(buf[c])
    BY <1>1, FindIs
  <1>3. Rest(c) \in Text
    BY <1>1, <1>2, BeginAndRest DEF Rest
  <1> QED
    BY <1>3 DEF FramingInv, FramingTyped

\* A step of the handler of one connection keeps what it does not move.
LEMMA OthersKept ==
    ASSUME ServerInv, FramingInv, NEW c \in Conn, Refuse(c) \/ Admit(c) \/ Lose(c) \/ Handler(c),
           NEW d \in Conn, d # c
    PROVE  Kept(d)'
  <1>1. Kept(d) /\ buf \in [Conn -> Text] /\ taken \in [Conn -> Seq(Text)]
    BY DEF FramingInv, FramingTyped
  <1>2. handlerPc'[d] = handlerPc[d] /\ stream'[d] = stream[d]
    <2>1. CASE Refuse(c) \/ Admit(c) \/ Lose(c)
      BY <2>1 DEF Refuse, Admit, Lose, Moves, ServerInv, ServerTypeOK
    <2>2. CASE LoopHead(c) \/ Read(c) \/ ReadEnds(c) \/ Unfinished(c) \/ Reject(c)
      BY <2>2 DEF LoopHead, Read, ReadEnds, Unfinished, Reject, Moves, ServerInv, ServerTypeOK
    <2>3. CASE Deny(c) \/ Serve(c) \/ Served(c) \/ CloseTransport(c) \/ Leave(c)
      BY <2>3 DEF Deny, Serve, Served, CloseTransport, Leave, Moves, ServerInv, ServerTypeOK
    <2> QED
      BY <2>1, <2>2, <2>3 DEF Handler
  <1>3. read'[d] = read[d] /\ denials'[d] = denials[d]
    <2>1. CASE Refuse(c) \/ Admit(c) \/ Lose(c)
      BY <2>1 DEF Refuse, Admit, Lose
    <2>2. CASE LoopHead(c) \/ Read(c) \/ ReadEnds(c) \/ Unfinished(c) \/ Reject(c)
      BY <2>2 DEF LoopHead, Read, ReadEnds, Unfinished, Reject, ServerInv, ServerTypeOK
    <2>3. CASE Deny(c) \/ Serve(c) \/ Served(c) \/ CloseTransport(c) \/ Leave(c)
      BY <2>3 DEF Deny, Serve, Served, CloseTransport, Leave, ServerInv, ServerTypeOK
    <2> QED
      BY <2>1, <2>2, <2>3 DEF Handler
  <1>4. buf'[d] = buf[d] /\ taken'[d] = taken[d]
    <2>1. CASE Refuse(c) \/ Admit(c) \/ Lose(c)
      BY <2>1 DEF Refuse, Admit, Lose
    <2>2. CASE LoopHead(c) \/ Read(c) \/ ReadEnds(c) \/ Unfinished(c) \/ Reject(c)
      BY <1>1, <2>2 DEF LoopHead, Read, ReadEnds, Unfinished, Reject
    <2>3. CASE Deny(c) \/ Serve(c) \/ Served(c) \/ CloseTransport(c) \/ Leave(c)
      BY <1>1, <2>3 DEF Deny, Serve, Served, CloseTransport, Leave
    <2> QED
      BY <2>1, <2>2, <2>3 DEF Handler
  <1> QED
    BY <1>1, <1>2, <1>3, <1>4, SameKept

LEMMA HandlerKept ==
    ASSUME ServerInv, FramingInv, NEW c \in Conn, Refuse(c) \/ Admit(c) \/ Lose(c) \/ Handler(c)
    PROVE  FramingTyped' /\ Kept(c)'
  <1>1. Kept(c) /\ handlerPc = [d \in Conn |-> handlerPc[d]] /\ denials \in [Conn -> Nat]
    <2>1. handlerPc = [d \in Conn |-> handlerPc[d]]
      BY DEF ServerInv, ServerTypeOK
    <2>2. denials \in [Conn -> 0..MaxDenials]
      BY DEF ServerInv, ServerTypeOK
    <2>3. 0..MaxDenials \subseteq Nat
      BY Limits
    <2>4. denials \in [Conn -> Nat]
      BY <2>2, <2>3
    <2> QED
      BY <2>1, <2>4 DEF FramingInv
  <1>2. CASE Refuse(c) \/ ReadEnds(c) \/ CloseTransport(c) \/ Leave(c)
    <2>1. handlerPc'[c] \in {"closing", "leaving", "done"} /\ UNCHANGED <<buf, taken>>
      BY <1>1, <1>2 DEF Refuse, ReadEnds, CloseTransport, Leave, Moves
    <2> QED
      BY <2>1, EndedKept, BuffersStay
  <1>3. CASE Admit(c)
    <2>1. /\ handlerPc[c] = "away" /\ handlerPc'[c] = "loop"
          /\ UNCHANGED <<stream, read, buf, taken, denials>>
      BY <1>1, <1>3 DEF Admit, Moves
    <2>2. buf[c] = <<>> /\ taken[c] = <<>> /\ read[c] = 0
      BY <1>1, <2>1 DEF Kept
    <2>3. SubSeq(stream[c], 1, 0) = <<>>
      BY StreamsAreTexts, TextParts
    <2>4. Framed(Handed(<<>>), <<>>) = Framed(Outside, <<>>)
      BY DEF Handed, Outside
    <2>5. Find(<<>>, "*") = 0
      <3>1. <<>> \in Text /\ Len(<<>>) = 0
        BY DEF Text
      <3>2. Find(<<>>, "*") \in 0..0
        BY <3>1, FindIs
      <3> QED
        BY <3>2
    <2>6. Kept(c)'
      BY <2>1, <2>2, <2>3, <2>4, <2>5 DEF Kept
    <2> QED
      BY <2>1, <2>6, BuffersStay
  <1>4. CASE Lose(c)
    <2>1. UNCHANGED <<handlerPc, stream, read, buf, taken, denials>>
      BY <1>4 DEF Lose
    <2> QED
      BY <1>1, <2>1, SameKept, BuffersStay
  <1>5. CASE LoopHead(c)
    <2>1. /\ handlerPc[c] = "loop" /\ handlerPc'[c] \in {"reading", "closing"}
          /\ UNCHANGED <<stream, read, buf, taken, denials>>
      BY <1>1, <1>5 DEF LoopHead, Moves
    <2>2. Kept(c)'
      BY <1>1, <2>1 DEF Kept, Looping
    <2> QED
      BY <2>1, <2>2, BuffersStay
  <1>6. CASE Unfinished(c)
    <2>1. /\ handlerPc[c] = "packets" /\ Find(buf[c], "*") = 0
          /\ handlerPc'[c] \in {"loop", "closing"}
          /\ UNCHANGED <<stream, read, buf, taken, denials>>
      BY <1>1, <1>6 DEF Unfinished, Moves
    <2>2. Kept(c)'
      BY <1>1, <2>1 DEF Kept, Looping
    <2> QED
      BY <2>1, <2>2, BuffersStay
  <1>7. CASE Reject(c)
    <2>1. /\ handlerPc'[c] = "closing" /\ buf' = [buf EXCEPT ![c] = Rest(c)] /\ taken' = taken
      BY <1>1, <1>7 DEF Reject, Moves
    <2> QED
      BY <2>1, EndedKept, RestTyped
  <1>8. CASE Deny(c)
    <2>1. /\ handlerPc'[c] = "packets" /\ denials'[c] # 0
          /\ buf' = [buf EXCEPT ![c] = Rest(c)] /\ taken' = taken
      BY <1>1, <1>8 DEF Deny
    <2>2. Kept(c)'
      BY <2>1 DEF Kept
    <2> QED
      BY <2>1, <2>2, RestTyped
  <1> QED
    BY <1>2, <1>3, <1>4, <1>5, <1>6, <1>7, <1>8, ReadKept, ServeKept, ServedKept DEF Handler

LEMMA FramingStepKeeps ==
    ASSUME ServerInv, FramingInv, [ServerNext]_serverVars
    PROVE  FramingInv'
  <1>1. ASSUME NEW c \in Conn, Refuse(c) \/ Admit(c) \/ Lose(c) \/ Handler(c)
        PROVE  FramingInv'
    <2>1. FramingTyped' /\ Kept(c)'
      BY <1>1, HandlerKept
    <2>2. \A d \in Conn : d # c => Kept(d)'
      BY <1>1, OthersKept
    <2> QED
      BY <2>1, <2>2 DEF FramingInv
  <1>2. CASE DrainTimeout
    <2>1. /\ UNCHANGED <<stream, read, buf, taken, denials>>
          /\ \A c \in Conn : handlerPc'[c] = handlerPc[c] \/ handlerPc'[c] \in {"closing", "leaving"}
      BY <1>2 DEF DrainTimeout
    <2>2. ASSUME NEW c \in Conn PROVE Kept(c)'
      <3>1. Kept(c)
        BY DEF FramingInv
      <3> QED
        BY <2>1, <3>1, SameKept, EndedKept
    <2> QED
      BY <2>1, <2>2, BuffersStay DEF FramingInv
  <1>3. CASE UNCHANGED <<handler, stream>>
    <2>1. UNCHANGED <<handlerPc, stream, read, buf, taken, denials>>
      BY <1>3 DEF handler
    <2>2. ASSUME NEW c \in Conn PROVE Kept(c)'
      <3>1. Kept(c)
        BY DEF FramingInv
      <3> QED
        BY <2>1, <3>1, SameKept
    <2> QED
      BY <2>1, <2>2, BuffersStay DEF FramingInv
  <1>4. CASE HealthConnect \/ HealthRequest \/ HealthAnswer \/ Signal \/ Shutdown \/ Stop
    BY <1>3, <1>4 DEF HealthConnect, HealthRequest, HealthAnswer, Signal, Shutdown, Stop
  <1> QED
    BY <1>1, <1>2, <1>3, <1>4 DEF ServerNext, Server, serverVars

\* The packets handed over are those of the stream, whatever chunks it arrived in, as long
\* as none was rate-limited (the buffer of handle_client, telematics/main.py).
THEOREM ChunksDoNotShow == ServerSpec => []FramingIgnoresChunks
  <1>1. ServerInv /\ ServerInv' /\ FramingInv /\ [ServerNext]_serverVars => FramingInv'
    BY FramingStepKeeps
  <1>2. ServerInv /\ FramingInv => FramingIgnoresChunks
    <2> SUFFICES ASSUME ServerInv, FramingInv,
                        NEW c \in Conn, handlerPc[c] = "reading", denials[c] = 0
                 PROVE  taken[c] = Frames(SubSeq(stream[c], 1, read[c]))
      BY DEF FramingIgnoresChunks
    <2>1. /\ Framed(Handed(taken[c]), buf[c]) = Framed(Outside, SubSeq(stream[c], 1, read[c]))
          /\ buf[c] # <<>> => buf[c][1] = "$"
          /\ Find(buf[c], "*") = 0
      BY DEF FramingInv, Kept, Looping
    <2>2. buf[c] \in Text
      BY DEF FramingInv, FramingTyped
    <2>3. Framed(Handed(taken[c]), buf[c]).out = taken[c]
      <3>1. CASE buf[c] = <<>>
        <4>1. Framed(Handed(taken[c]), buf[c]) = Handed(taken[c])
          BY <3>1, FramedNothing
        <4> QED
          BY <4>1 DEF Handed
      <3>2. CASE buf[c] # <<>>
        <4>1. Len(buf[c]) > 0
          BY <2>2, <3>2, EmptySeq, LenProperties DEF Text
        <4>2. \A i \in 1..Len(buf[c]) : buf[c][i] # "*"
          BY <2>1, <2>2, FindIs
        <4>3. Framed(Handed(taken[c]), buf[c]) = Inside(taken[c], buf[c])
          BY <2>1, <2>2, <3>2, <4>1, <4>2, FramedOpen
        <4> QED
          BY <4>3 DEF Inside
      <3> QED
        BY <3>1, <3>2
    <2> QED
      BY <2>1, <2>3 DEF Frames
  <1> QED
    BY <1>1, <1>2, FramingInitially, ServerConsistent, PTL DEF ServerSpec

-----------------------------------------------------------------------------
(***************************************************************************)
(* The connection pool of the batch lookups                                *)
(*                                                                         *)
(* No connection outlives its batch, for any batches, items, pool and      *)
(* limit of concurrency.                                                   *)
(*                                                                         *)
(* A connection can only be lost by a task that nobody waits for: a        *)
(* request that timed out above its items, or an item that was granted a   *)
(* connection after its end.  RequestTracked and ItemTracked say that a    *)
(* task waits or holds only where it is going on, and a request times out  *)
(* only before its first item.                                             *)
(***************************************************************************)
PoolTyped ==
    /\ batchPc \in [Batch -> {"new", "open", "answered", "failed"}]
    /\ item \in [Batch -> [Item -> {"queued", "done", "failed"} \cup Stages]]
    /\ held \in [Task -> 0..1]
    /\ queue \in Seq(Task)

\* A task asks for one connection at a time.
AsksOnce == \A i, j \in DOMAIN queue : queue[i] = queue[j] => i = j

RequestTracked ==
    \A b \in Batch :
        /\ batchPc[b] # "open" => held[<<b, 0>>] = 0 /\ ~Waiting(<<b, 0>>)
        /\ Waiting(<<b, 0>>) => held[<<b, 0>>] = 0 /\ \A i \in Item : item[b][i] = "queued"
        /\ batchPc[b] = "new" => \A i \in Item : item[b][i] = "queued"

ItemTracked ==
    \A b \in Batch : \A i \in Item :
        /\ item[b][i] \in Stages => batchPc[b] = "open"
        /\ item[b][i] \notin Stages => held[<<b, i>>] = 0 /\ ~Waiting(<<b, i>>)
        /\ Waiting(<<b, i>>) => held[<<b, i>>] = 0

PoolInv == PoolTyped /\ AsksOnce /\ RequestTracked /\ ItemTracked


LEMMA TasksOf == \A b \in Batch : <<b, 0>> \in Task /\ \A i \in Item : <<b, i>> \in Task /\ i # 0
  BY PoolAssumption DEF Task, Item

\* What asking, being served and giving up do to the tasks that wait.
LEMMA AskQueues ==
    ASSUME PoolTyped, AsksOnce, NEW t \in Task, ~Waiting(t), Ask(t)
    PROVE  /\ queue' \in Seq(Task) /\ AsksOnce'
           /\ \A u : Waiting(u)' <=> Waiting(u) \/ u = t
  <1>1. queue \in Seq(Task) /\ queue' = Append(queue, t)
    BY DEF PoolTyped, Ask
  <1>2. /\ queue' \in Seq(Task) /\ Len(queue') = Len(queue) + 1 /\ Len(queue) \in Nat
        /\ DOMAIN queue = 1..Len(queue) /\ DOMAIN queue' = 1..Len(queue')
        /\ queue'[Len(queue) + 1] = t /\ \A i \in 1..Len(queue) : queue'[i] = queue[i]
    BY <1>1, AppendProperties, LenProperties
  <1>3. AsksOnce'
    BY <1>2 DEF AsksOnce, Waiting, ToSet
  <1>4. \A u : Waiting(u)' <=> Waiting(u) \/ u = t
    BY <1>2 DEF Waiting, ToSet
  <1> QED
    BY <1>2, <1>3, <1>4

LEMMA HeadLeaves ==
    ASSUME PoolTyped, AsksOnce, queue # <<>>, queue' = Tail(queue)
    PROVE  /\ Head(queue) \in Task /\ Waiting(Head(queue))
           /\ queue' \in Seq(Task) /\ AsksOnce'
           /\ \A u : Waiting(u)' <=> Waiting(u) /\ u # Head(queue)
  <1>1. queue \in Seq(Task) /\ DOMAIN queue = 1..Len(queue) /\ Len(queue) \in Nat
    BY LenProperties DEF PoolTyped
  <1>2. /\ Head(queue) \in Task /\ Head(queue) = queue[1] /\ Len(queue) > 0
        /\ queue' \in Seq(Task) /\ Len(queue') = Len(queue) - 1
        /\ \A i \in 1..Len(queue') : queue'[i] = queue[i + 1]
    BY <1>1, HeadTailProperties, EmptySeq
  <1>3. DOMAIN queue' = 1..Len(queue')
    BY <1>2, LenProperties
  <1>4. AsksOnce'
    BY <1>1, <1>2, <1>3 DEF AsksOnce
  <1>5. \A i \in 1..Len(queue) : i = 1 \/ (i - 1 \in 1..Len(queue') /\ queue'[i - 1] = queue[i])
    BY <1>1, <1>2
  <1>6. \A u : Waiting(u)' <=> Waiting(u) /\ u # Head(queue)
    <2> SUFFICES ASSUME NEW u PROVE Waiting(u)' <=> Waiting(u) /\ u # queue[1]
      BY <1>2
    <2>1. ASSUME Waiting(u)' PROVE Waiting(u) /\ u # queue[1]
      <3>1. PICK i \in 1..Len(queue') : u = queue'[i]
        BY <1>3, <2>1 DEF Waiting, ToSet
      <3>2. i + 1 \in 1..Len(queue) /\ i + 1 # 1 /\ u = queue[i + 1] /\ 1 \in 1..Len(queue)
        BY <1>1, <1>2, <3>1
      <3> QED
        BY <1>1, <3>2 DEF AsksOnce, Waiting, ToSet
    <2>2. ASSUME Waiting(u), u # queue[1] PROVE Waiting(u)'
      <3>1. PICK i \in 1..Len(queue) : u = queue[i]
        BY <1>1, <2>2 DEF Waiting, ToSet
      <3>2. i - 1 \in 1..Len(queue') /\ queue'[i - 1] = u
        BY <1>5, <2>2, <3>1
      <3> QED
        BY <1>3, <3>2 DEF Waiting, ToSet
    <2> QED
      BY <2>1, <2>2
  <1>7. Waiting(Head(queue))
    BY <1>1, <1>2 DEF Waiting, ToSet
  <1> QED
    BY <1>2, <1>4, <1>6, <1>7

LEMMA GivesUpLeaves ==
    ASSUME PoolTyped, AsksOnce, NEW t \in Task, GivesUp(t)
    PROVE  /\ Waiting(t) /\ queue' \in Seq(Task) /\ AsksOnce'
           /\ \A u : Waiting(u)' => Waiting(u) /\ u # t
  <1>1. queue \in Seq(Task) /\ DOMAIN queue = 1..Len(queue) /\ Len(queue) \in Nat
    BY LenProperties DEF PoolTyped
  <1>2. PICK k \in 1..Len(queue) : queue[k] = t /\ queue' = RemoveAt(queue, k)
    BY <1>1 DEF GivesUp
  <1> DEFINE before == SubSeq(queue, 1, k - 1)
             after == SubSeq(queue, k + 1, Len(queue))
  <1>3. /\ before \in Seq(Task) /\ Len(before) = k - 1
        /\ \A i \in 1..k - 1 : before[i] = queue[i]
    <2>1. 1 \in 1..Len(queue) + 1 /\ k - 1 \in 0..Len(queue)
      BY <1>1
    <2> QED
      BY <1>1, <2>1, SubSeqProperties
  <1>4. /\ after \in Seq(Task) /\ Len(after) = Len(queue) - k
        /\ \A i \in 1..Len(queue) - k : after[i] = queue[k + i]
    <2>1. k + 1 \in 1..Len(queue) + 1 /\ Len(queue) \in k..Len(queue)
      BY <1>1
    <2>2. /\ after \in Seq(Task)
          /\ Len(after) = IF k + 1 <= Len(queue) THEN Len(queue) - (k + 1) + 1 ELSE 0
          /\ \A i \in 1..Len(queue) - (k + 1) + 1 : after[i] = queue[(k + 1) + i - 1]
      BY <1>1, <2>1, SubSeqProperties
    <2>3. \A i \in 1..Len(queue) - k : i \in 1..Len(queue) - (k + 1) + 1 /\ (k + 1) + i - 1 = k + i
      BY <1>1
    <2>4. \A i \in 1..Len(queue) - k : after[i] = queue[k + i]
      BY <2>2, <2>3, Zenon
    <2> HIDE DEF after
    <2>5. Len(after) = Len(queue) - k
      <3>1. /\ k + 1 <= Len(queue) => Len(after) = Len(queue) - (k + 1) + 1
            /\ ~(k + 1 <= Len(queue)) => Len(after) = 0
        BY <2>2
      <3>2. k \in Nat /\ Len(queue) \in Nat /\ k <= Len(queue)
        BY <1>1
      <3> QED
        BY <3>1, <3>2
    <2> QED
      BY <2>2, <2>4, <2>5
  <1>5. queue' = before \o after
    BY <1>2 DEF RemoveAt
  <1> HIDE DEF before, after
  <1>6. /\ queue' \in Seq(Task) /\ Len(queue') = Len(queue) - 1
        /\ \A i \in 1..Len(queue') :
              queue'[i] = IF i <= k - 1 THEN before[i] ELSE after[i - (k - 1)]
    <2>1. /\ queue' \in Seq(Task) /\ Len(queue') = Len(before) + Len(after)
          /\ \A i \in 1..Len(before) + Len(after) :
                queue'[i] = IF i <= Len(before) THEN before[i] ELSE after[i - Len(before)]
      BY <1>3, <1>4, <1>5, ConcatProperties
    <2> QED
      BY <1>1, <1>3, <1>4, <2>1
  <1>7. DOMAIN queue' = 1..Len(queue')
    BY <1>6, LenProperties
  <1>8. \A i \in 1..Len(queue') : queue'[i] = IF i < k THEN queue[i] ELSE queue[i + 1]
    BY <1>1, <1>2, <1>3, <1>4, <1>6
  <1> DEFINE at(i) == IF i < k THEN i ELSE i + 1
  <1>9. \A i \in 1..Len(queue') : at(i) \in 1..Len(queue) /\ at(i) # k /\ queue'[i] = queue[at(i)]
    BY <1>1, <1>2, <1>6, <1>8
  <1>10. AsksOnce'
    <2> SUFFICES ASSUME NEW i \in 1..Len(queue'), NEW j \in 1..Len(queue'), queue'[i] = queue'[j]
                 PROVE  i = j
      BY <1>7 DEF AsksOnce
    <2>1. at(i) = at(j)
      BY <1>1, <1>9 DEF AsksOnce
    <2> QED
      BY <1>6, <2>1
  <1>12. \A u : Waiting(u)' => Waiting(u) /\ u # t
    <2> SUFFICES ASSUME NEW i \in 1..Len(queue') PROVE Waiting(queue'[i]) /\ queue'[i] # t
      BY <1>7 DEF Waiting, ToSet
    <2> QED
      BY <1>1, <1>2, <1>9 DEF AsksOnce, Waiting, ToSet
  <1>11. Waiting(t)
    BY <1>1, <1>2 DEF Waiting, ToSet
  <1> QED
    BY <1>6, <1>10, <1>11, <1>12

LEMMA PoolInitially == PoolInit => PoolInv
  <1> SUFFICES ASSUME PoolInit PROVE PoolInv
    OBVIOUS
  <1>1. \A u : ~Waiting(u)
    BY DEF PoolInit, Waiting, ToSet
  <1>2. PoolTyped /\ AsksOnce
    BY EmptySeq DEF PoolInit, PoolTyped, AsksOnce
  <1>3. RequestTracked /\ ItemTracked
    BY <1>1, TasksOf DEF PoolInit, RequestTracked, ItemTracked, Stages
  <1> QED
    BY <1>2, <1>3 DEF PoolInv

LEMMA PoolStutters == PoolInv /\ UNCHANGED poolVars => PoolInv'
  BY DEF PoolInv, poolVars, PoolTyped, AsksOnce, RequestTracked, ItemTracked, Waiting

LEMMA GrantKeeps == ASSUME PoolInv, Grant PROVE PoolInv'
  <1> DEFINE t == Head(queue)
  <1>1. /\ t \in Task /\ Waiting(t) /\ queue' \in Seq(Task) /\ AsksOnce'
        /\ \A u : Waiting(u)' <=> Waiting(u) /\ u # t
    BY HeadLeaves DEF PoolInv, Grant
  <1>2. held' = [held EXCEPT ![t] = @ + 1] /\ UNCHANGED <<batchPc, item>>
    BY DEF Grant
  <1> HIDE DEF t
  <1>3. held[t] = 0
    BY <1>1 DEF PoolInv, RequestTracked, ItemTracked, Task, Item
  <1>4. PoolTyped'
    BY <1>1, <1>2, <1>3 DEF PoolInv, PoolTyped
  <1>5. \A u \in Task : /\ Waiting(u)' => Waiting(u) /\ held'[u] = held[u]
                        /\ ~Waiting(u) => held'[u] = held[u]
    BY <1>1, <1>2 DEF PoolInv, PoolTyped
  <1>6. RequestTracked' /\ ItemTracked'
    BY <1>1, <1>2, <1>5, TasksOf DEF PoolInv, RequestTracked, ItemTracked
  <1> QED
    BY <1>1, <1>4, <1>6 DEF PoolInv

\* One item moves; the tasks beside it keep what they hold and wait for.
LEMMA ItemMoves ==
    ASSUME PoolInv, NEW b \in Batch, NEW i \in Item,
           NEW place \in Stages \cup {"done", "failed"},
           item' = [item EXCEPT ![b][i] = place], UNCHANGED batchPc,
           batchPc[b] = "open", ~Waiting(<<b, 0>>),
           held' \in [Task -> 0..1], queue' \in Seq(Task), AsksOnce',
           \A u \in Task : u # <<b, i>> => held'[u] = held[u] /\ (Waiting(u)' => Waiting(u)),
           Waiting(<<b, i>>)' => held'[<<b, i>>] = 0,
           place \in {"done", "failed"} => held'[<<b, i>>] = 0 /\ ~Waiting(<<b, i>>)'
    PROVE  PoolInv'
  <1>1. /\ item'[b][i] = place
        /\ \A c \in Batch : \A j \in Item : <<c, j>> # <<b, i>> => item'[c][j] = item[c][j]
    BY DEF PoolInv, PoolTyped
  <1>2. PoolTyped'
    BY DEF PoolInv, PoolTyped
  <1>3. RequestTracked'
    <2> SUFFICES ASSUME NEW c \in Batch
                 PROVE  /\ batchPc'[c] # "open" => held'[<<c, 0>>] = 0 /\ ~Waiting(<<c, 0>>)'
                        /\ Waiting(<<c, 0>>)' => /\ held'[<<c, 0>>] = 0
                                                 /\ \A j \in Item : item'[c][j] = "queued"
                        /\ batchPc'[c] = "new" => \A j \in Item : item'[c][j] = "queued"
      BY DEF RequestTracked
    <2>1. <<c, 0>> \in Task /\ <<c, 0>> # <<b, i>>
      BY TasksOf
    <2>2. held'[<<c, 0>>] = held[<<c, 0>>] /\ (Waiting(<<c, 0>>)' => Waiting(<<c, 0>>))
      BY <2>1
    <2>3. c # b => \A j \in Item : item'[c][j] = item[c][j]
      BY <1>1
    <2> QED
      BY <2>2, <2>3 DEF PoolInv, RequestTracked
  <1>4. ItemTracked'
    <2> SUFFICES ASSUME NEW c \in Batch, NEW j \in Item
                 PROVE  /\ item'[c][j] \in Stages => batchPc'[c] = "open"
                        /\ item'[c][j] \notin Stages =>
                              held'[<<c, j>>] = 0 /\ ~Waiting(<<c, j>>)'
                        /\ Waiting(<<c, j>>)' => held'[<<c, j>>] = 0
      BY DEF ItemTracked
    <2>1. CASE <<c, j>> = <<b, i>>
      BY <1>1, <2>1
    <2>2. CASE <<c, j>> # <<b, i>>
      <3>1. held'[<<c, j>>] = held[<<c, j>>] /\ (Waiting(<<c, j>>)' => Waiting(<<c, j>>))
        BY <2>2, TasksOf
      <3> QED
        BY <1>1, <2>2, <3>1 DEF PoolInv, ItemTracked
    <2> QED
      BY <2>1, <2>2
  <1> QED
    BY <1>2, <1>3, <1>4 DEF PoolInv

\* A request moves while none of its items goes on.
LEMMA RequestMoves ==
    ASSUME PoolInv, NEW b \in Batch, NEW place \in {"open", "answered", "failed"},
           batchPc' = [batchPc EXCEPT ![b] = place], UNCHANGED item,
           \A i \in Item : item[b][i] \notin Stages,
           held' \in [Task -> 0..1], queue' \in Seq(Task), AsksOnce',
           \A u \in Task : u # <<b, 0>> => held'[u] = held[u] /\ (Waiting(u)' => Waiting(u)),
           Waiting(<<b, 0>>)' => held'[<<b, 0>>] = 0 /\ \A i \in Item : item[b][i] = "queued",
           place # "open" => held'[<<b, 0>>] = 0 /\ ~Waiting(<<b, 0>>)'
    PROVE  PoolInv'
  <1>1. batchPc'[b] = place /\ \A c \in Batch : c # b => batchPc'[c] = batchPc[c]
    BY DEF PoolInv, PoolTyped
  <1>2. PoolTyped'
    BY DEF PoolInv, PoolTyped
  <1>3. RequestTracked'
    <2> SUFFICES ASSUME NEW c \in Batch
                 PROVE  /\ batchPc'[c] # "open" => held'[<<c, 0>>] = 0 /\ ~Waiting(<<c, 0>>)'
                        /\ Waiting(<<c, 0>>)' => /\ held'[<<c, 0>>] = 0
                                                 /\ \A j \in Item : item'[c][j] = "queued"
                        /\ batchPc'[c] = "new" => \A j \in Item : item'[c][j] = "queued"
      BY DEF RequestTracked
    <2>1. CASE c = b
      BY <1>1, <2>1
    <2>2. CASE c # b
      <3>1. held'[<<c, 0>>] = held[<<c, 0>>] /\ (Waiting(<<c, 0>>)' => Waiting(<<c, 0>>))
        BY <2>2, TasksOf
      <3> QED
        BY <1>1, <2>2, <3>1 DEF PoolInv, RequestTracked
    <2> QED
      BY <2>1, <2>2
  <1>4. ItemTracked'
    <2> SUFFICES ASSUME NEW c \in Batch, NEW j \in Item
                 PROVE  /\ item'[c][j] \in Stages => batchPc'[c] = "open"
                        /\ item'[c][j] \notin Stages =>
                              held'[<<c, j>>] = 0 /\ ~Waiting(<<c, j>>)'
                        /\ Waiting(<<c, j>>)' => held'[<<c, j>>] = 0
      BY DEF ItemTracked
    <2>1. held'[<<c, j>>] = held[<<c, j>>] /\ (Waiting(<<c, j>>)' => Waiting(<<c, j>>))
      BY TasksOf
    <2> QED
      BY <1>1, <2>1 DEF PoolInv, ItemTracked
  <1> QED
    BY <1>2, <1>3, <1>4 DEF PoolInv

\* What one task returns leaves the others alone.
LEMMA Returns ==
    ASSUME PoolTyped, NEW t \in Task, held' = [held EXCEPT ![t] = 0]
    PROVE  /\ held' \in [Task -> 0..1] /\ held'[t] = 0
           /\ \A u \in Task : u # t => held'[u] = held[u]
  BY DEF PoolTyped

\* A request times out only before its first item.
LEMMA TimeOutKeeps == ASSUME PoolInv, NEW t \in Task, TimeOut(t) PROVE PoolInv'
  <1>1. /\ Waiting(t) /\ queue' \in Seq(Task) /\ AsksOnce'
        /\ \A u : Waiting(u)' => Waiting(u) /\ u # t
    BY GivesUpLeaves DEF PoolInv, TimeOut
  <1>2. /\ held' \in [Task -> 0..1] /\ held'[t] = 0
        /\ \A u \in Task : u # t => held'[u] = held[u]
    BY Returns DEF TimeOut, PoolInv
  <1>3. CASE t[2] = 0
    <2>1. PICK b \in Batch : t = <<b, 0>>
      BY <1>3 DEF Task
    <2>2. batchPc' = [batchPc EXCEPT ![b] = "failed"] /\ UNCHANGED item
      BY <1>3, <2>1 DEF TimeOut, Becomes
    <2>3. \A i \in Item : item[b][i] = "queued"
      BY <1>1, <2>1 DEF PoolInv, RequestTracked
    <2> QED
      BY <1>1, <1>2, <2>1, <2>2, <2>3, RequestMoves DEF Stages
  <1>4. CASE t[2] # 0
    <2>1. PICK b \in Batch, i \in Item : t = <<b, i>>
      BY <1>4, PoolAssumption DEF Task, Item
    <2>2. item' = [item EXCEPT ![b][i] = "failed"] /\ UNCHANGED batchPc
      BY <1>4, <2>1 DEF TimeOut, ItemBecomes
    <2>3. item[b][i] \in Stages /\ batchPc[b] = "open"
      BY <1>1, <2>1 DEF PoolInv, ItemTracked
    <2>4. ~Waiting(<<b, 0>>)
      BY <2>3 DEF PoolInv, RequestTracked, Stages
    <2> QED
      BY <1>1, <1>2, <2>1, <2>2, <2>3, <2>4, ItemMoves
  <1> QED
    BY <1>3, <1>4

LEMMA ArriveKeeps == ASSUME PoolInv, NEW b \in Batch, Arrive(b) PROVE PoolInv'
  <1>1. ~Waiting(<<b, 0>>) /\ held[<<b, 0>>] = 0 /\ \A i \in Item : item[b][i] = "queued"
    BY DEF Arrive, PoolInv, RequestTracked
  <1>2. /\ queue' \in Seq(Task) /\ AsksOnce'
        /\ \A u : Waiting(u)' <=> Waiting(u) \/ u = <<b, 0>>
    BY <1>1, TasksOf, AskQueues DEF Arrive, PoolInv
  <1>3. batchPc' = [batchPc EXCEPT ![b] = "open"] /\ UNCHANGED <<item, held>>
    BY DEF Arrive, Becomes
  <1>4. held \in [Task -> 0..1]
    BY DEF PoolInv, PoolTyped
  <1> QED
    BY <1>1, <1>2, <1>3, <1>4, RequestMoves DEF Stages

LEMMA StartItemKeeps ==
    ASSUME PoolInv, NEW b \in Batch, NEW i \in Item, StartItem(b, i) PROVE PoolInv'
  <1>1. ~Waiting(<<b, i>>) /\ held[<<b, i>>] = 0
    BY DEF StartItem, PoolInv, ItemTracked, Stages
  <1>2. /\ queue' \in Seq(Task) /\ AsksOnce'
        /\ \A u : Waiting(u)' <=> Waiting(u) \/ u = <<b, i>>
    BY <1>1, TasksOf, AskQueues DEF StartItem, PoolInv
  <1>3. /\ batchPc[b] = "open" /\ held[<<b, 0>>] > 0
        /\ item' = [item EXCEPT ![b][i] = "refresh"] /\ UNCHANGED <<batchPc, held>>
    BY DEF StartItem, ItemBecomes
  <1>4. held \in [Task -> 0..1] /\ ~Waiting(<<b, 0>>)
    BY <1>3 DEF PoolInv, PoolTyped, RequestTracked
  <1> QED
    BY <1>1, <1>2, <1>3, <1>4, ItemMoves DEF Stages

\* An item that has its connection is part of an open request and waits for no other.
LEMMA AtIsOpen ==
    ASSUME PoolInv, NEW b \in Batch, NEW i \in Item, NEW stage \in Stages, At(b, i, stage)
    PROVE  /\ item[b][i] \in Stages /\ batchPc[b] = "open"
           /\ ~Waiting(<<b, i>>) /\ ~Waiting(<<b, 0>>)
  <1>1. item[b][i] \in Stages /\ held[<<b, i>>] # 0
    BY DEF At
  <1>2. batchPc[b] = "open" /\ ~Waiting(<<b, i>>)
    BY <1>1 DEF PoolInv, ItemTracked
  <1>3. ~Waiting(<<b, 0>>)
    BY <1>1 DEF PoolInv, RequestTracked, Stages
  <1> QED
    BY <1>1, <1>2, <1>3

\* Between two transactions an item holds nothing, within one it keeps its connection.
LEMMA ProceedKeeps ==
    ASSUME PoolInv, NEW b \in Batch, NEW i \in Item, Refresh(b, i) \/ Score(b, i)
    PROVE  PoolInv'
  <1>1. PICK from \in Stages, to \in Stages : At(b, i, from) /\ Proceeds(b, i, to)
    BY DEF Refresh, Score, Stages
  <1>2. batchPc[b] = "open" /\ ~Waiting(<<b, i>>) /\ ~Waiting(<<b, 0>>)
    BY <1>1, AtIsOpen
  <1>3. item' = [item EXCEPT ![b][i] = to] /\ UNCHANGED batchPc
    BY <1>1 DEF Proceeds, ItemBecomes
  <1>4. CASE Releases(b, i) /\ Ask(<<b, i>>)
    <2>1. /\ queue' \in Seq(Task) /\ AsksOnce'
          /\ \A u : Waiting(u)' <=> Waiting(u) \/ u = <<b, i>>
      BY <1>2, <1>4, TasksOf, AskQueues DEF PoolInv
    <2>2. /\ held' \in [Task -> 0..1] /\ held'[<<b, i>>] = 0
          /\ \A u \in Task : u # <<b, i>> => held'[u] = held[u]
      BY <1>4, Returns, TasksOf DEF Releases, PoolInv
    <2> QED
      BY <1>2, <1>3, <2>1, <2>2, ItemMoves DEF Stages
  <1>5. CASE UNCHANGED <<held, queue>>
    <2>1. queue' \in Seq(Task) /\ AsksOnce' /\ \A u : Waiting(u)' <=> Waiting(u)
      BY <1>5 DEF PoolInv, PoolTyped, AsksOnce, Waiting
    <2>2. held' \in [Task -> 0..1]
      BY <1>5 DEF PoolInv, PoolTyped
    <2> QED
      BY <1>2, <1>3, <1>5, <2>1, <2>2, ItemMoves DEF Stages
  <1> QED
    BY <1>1, <1>4, <1>5 DEF Proceeds

\* An item that is done or has failed holds nothing and waits for nothing.
LEMMA EndItemKeeps ==
    ASSUME PoolInv, NEW b \in Batch, NEW i \in Item, Finish(b, i) \/ Fail(b, i) PROVE PoolInv'
  <1>1. PICK end \in {"done", "failed"} : item' = [item EXCEPT ![b][i] = end]
    BY DEF Finish, Fail, ItemBecomes
  <1>2. /\ \E stage \in Stages : At(b, i, stage)
        /\ held' = [held EXCEPT ![<<b, i>>] = 0] /\ UNCHANGED <<batchPc, queue>>
    BY DEF Finish, Fail, Releases, Stages
  <1>3. queue' \in Seq(Task) /\ AsksOnce' /\ \A u : Waiting(u)' <=> Waiting(u)
    BY <1>2 DEF PoolInv, PoolTyped, AsksOnce, Waiting
  <1>4. /\ held' \in [Task -> 0..1] /\ held'[<<b, i>>] = 0
        /\ \A u \in Task : u # <<b, i>> => held'[u] = held[u]
    BY <1>2, Returns, TasksOf DEF PoolInv
  <1>5. batchPc[b] = "open" /\ ~Waiting(<<b, 0>>) /\ ~Waiting(<<b, i>>)
    BY <1>2, AtIsOpen
  <1> QED
    BY <1>1, <1>2, <1>3, <1>4, <1>5, ItemMoves

LEMMA AnswerKeeps == ASSUME PoolInv, NEW b \in Batch, Answer(b) PROVE PoolInv'
  <1>1. /\ batchPc[b] = "open" /\ held[<<b, 0>>] > 0
        /\ \A i \in Item : item[b][i] \in {"done", "failed"}
        /\ batchPc' = [batchPc EXCEPT ![b] = "answered"]
        /\ held' = [held EXCEPT ![<<b, 0>>] = 0] /\ UNCHANGED <<item, queue>>
    BY DEF Answer, Becomes
  <1>2. queue' \in Seq(Task) /\ AsksOnce' /\ \A u : Waiting(u)' <=> Waiting(u)
    BY <1>1 DEF PoolInv, PoolTyped, AsksOnce, Waiting
  <1>3. /\ held' \in [Task -> 0..1] /\ held'[<<b, 0>>] = 0
        /\ \A u \in Task : u # <<b, 0>> => held'[u] = held[u]
    BY <1>1, Returns, TasksOf DEF PoolInv
  <1>4. ~Waiting(<<b, 0>>)
    BY <1>1 DEF PoolInv, RequestTracked
  <1> QED
    BY <1>1, <1>2, <1>3, <1>4, RequestMoves DEF Stages

LEMMA PoolStepKeeps == PoolInv /\ [PoolNext]_poolVars => PoolInv'
  BY PoolStutters, GrantKeeps, TimeOutKeeps, ArriveKeeps, StartItemKeeps, ProceedKeeps,
     EndItemKeeps, AnswerKeeps DEF PoolNext, Steps

\* Requests, items, connections and the queue agree at every step.
THEOREM PoolConsistent == PoolSpec => []PoolInv
  BY PoolInitially, PoolStepKeeps, PTL DEF PoolSpec

\* Whatever fails or times out, no connection is held once no batch is open.
THEOREM ConnectionsComeBack == PoolSpec => []ConnectionsReturned
  <1>1. ASSUME PoolInv PROVE ConnectionsReturned
    <2> SUFFICES ASSUME Open = {}, NEW t \in Task PROVE held[t] = 0
      BY DEF ConnectionsReturned
    <2>1. PICK b \in Batch, k \in 0..Items : t = <<b, k>>
      BY DEF Task
    <2>2. batchPc[b] # "open"
      BY DEF Open
    <2>3. k = 0 \/ k \in Item
      BY PoolAssumption DEF Item
    <2> QED
      BY <1>1, <2>1, <2>2, <2>3 DEF PoolInv, RequestTracked, ItemTracked
  <1> QED
    BY <1>1, PoolConsistent, PTL

(* No more connections are out than the pool has *)

Holders == {t \in Task : held[t] = 1}
Fits == Cardinality(Holders) <= PoolSize

LEMMA TasksAreFinite ==
    /\ IsFiniteSet(Task)
    /\ \A T \in SUBSET Task : IsFiniteSet(T) /\ Cardinality(T) \in Nat
  <1>1. IsFiniteSet(0..Items)
    BY FS_Interval, PoolAssumption
  <1>2. IsFiniteSet(Task)
    BY <1>1, FS_Product, PoolAssumption DEF Task
  <1> QED
    BY <1>2, FS_Subset, FS_CardinalityType

\* The sum of what the tasks hold is the number of those that hold one.
LEMMA HeldCounts ==
    ASSUME held \in [Task -> 0..1]
    PROVE  Free = PoolSize - Cardinality(Holders)
  <1> DEFINE g == [T \in SUBSET Task |-> Cardinality(T \cap Holders)]
  <1>1. g \in [SUBSET Task -> Int]
    BY TasksAreFinite
  <1>2. g[{}] = 0
    BY FS_EmptySet
  <1>3. ASSUME NEW T \in SUBSET Task, NEW t \in T PROVE g[T] = held[t] + g[T \ {t}]
    <2>1. IsFiniteSet(T \cap Holders) /\ Cardinality(T \cap Holders) \in Nat
      BY TasksAreFinite
    <2>2. (T \ {t}) \cap Holders = (T \cap Holders) \ {t}
      OBVIOUS
    <2>3. Cardinality((T \cap Holders) \ {t})
            = IF t \in Holders THEN Cardinality(T \cap Holders) - 1 ELSE Cardinality(T \cap Holders)
      BY <2>1, FS_RemoveElement
    <2>4. held[t] = IF t \in Holders THEN 1 ELSE 0
      BY DEF Holders
    <2>5. g[T] = Cardinality(T \cap Holders) /\ g[T \ {t}] = Cardinality((T \cap Holders) \ {t})
      BY <2>2
    <2> HIDE DEF g
    <2> QED
      BY <2>1, <2>3, <2>4, <2>5
  <1>4. g[Task] = Cardinality(Holders)
    <2>1. Task \cap Holders = Holders
      BY DEF Holders
    <2> QED
      BY <2>1
  <1> HIDE DEF g
  <1>5. Summed(held, Task) = Cardinality(Holders)
    <2>1. IsFiniteSet(Task)
      BY TasksAreFinite
    <2>2. Adds(g, held, Task)
      BY <1>1, <1>2, <1>3 DEF Adds
    <2>3. Summed(held, Task) = g[Task]
      BY <2>1, <2>2, SummedIs
    <2> QED
      BY <1>4, <2>3
  <1>6. DOMAIN held = Task
    OBVIOUS
  <1>7. Free = PoolSize - Summed(held, DOMAIN held)
    BY DEF Free, FoldFunction, Summed
  <1> QED
    BY <1>5, <1>6, <1>7

LEMMA FitsStep == ASSUME PoolInv, PoolInv', Fits, [PoolNext]_poolVars PROVE Fits'
  <1>1. /\ held \in [Task -> 0..1] /\ held' \in [Task -> 0..1]
        /\ Holders \in SUBSET Task /\ IsFiniteSet(Holders) /\ Cardinality(Holders) \in Nat
        /\ PoolSize \in Nat
    BY TasksAreFinite, PoolAssumption DEF PoolInv, PoolTyped, Holders
  <1>2. CASE Grant
    <2>1. Free > 0 /\ held' = [held EXCEPT ![Head(queue)] = @ + 1]
      BY <1>2 DEF Grant
    <2>2. Cardinality(Holders) < PoolSize
      BY <1>1, <2>1, HeldCounts
    <2>3. Holders' \subseteq Holders \cup {Head(queue)}
      BY <1>1, <2>1 DEF Holders
    <2>4. /\ IsFiniteSet(Holders \cup {Head(queue)})
          /\ Cardinality(Holders \cup {Head(queue)}) <= Cardinality(Holders) + 1
      <3> DEFINE t == Head(queue)
      <3> HIDE DEF t
      <3>1. /\ IsFiniteSet(Holders \cup {t})
            /\ Cardinality(Holders \cup {t}) = IF t \in Holders THEN Cardinality(Holders)
                                                 ELSE Cardinality(Holders) + 1
        BY <1>1, FS_AddElement
      <3> QED
        BY <1>1, <3>1 DEF t
    <2>5. Cardinality(Holders') <= Cardinality(Holders \cup {Head(queue)})
      BY <2>3, <2>4, FS_Subset
    <2>6. Holders' \in SUBSET Task
      BY <1>1 DEF Holders
    <2>7. /\ Cardinality(Holders') \in Nat
          /\ Cardinality(Holders \cup {Head(queue)}) \in Nat
      BY <2>4, <2>6, TasksAreFinite, FS_CardinalityType
    <2> QED
      BY <1>1, <2>2, <2>4, <2>5, <2>7 DEF Fits
  <1>3. CASE \E t \in Task : held' = held \/ held' = [held EXCEPT ![t] = 0]
    <2>1. Holders' \subseteq Holders
      BY <1>1, <1>3 DEF Holders
    <2>2. Cardinality(Holders') <= Cardinality(Holders) /\ Cardinality(Holders') \in Nat
      BY <1>1, <2>1, FS_Subset, TasksAreFinite
    <2> QED
      BY <1>1, <2>2 DEF Fits
  <1>4. CASE \E t \in Task : TimeOut(t)
    BY <1>3, <1>4 DEF TimeOut
  <1>5. CASE held' = held
    BY <1>1, <1>5 DEF Fits, Holders
  <1>6. CASE \E b \in Batch : Arrive(b) \/ Steps(b) \/ \E i \in Item : Fail(b, i)
    <2>1. PICK b \in Batch : Arrive(b) \/ Steps(b) \/ \E i \in Item : Fail(b, i)
      BY <1>6
    <2>2. held' = held \/ \E i \in 0..Items : held' = [held EXCEPT ![<<b, i>>] = 0]
      BY <2>1, PoolAssumption DEF Arrive, Steps, Fail, Answer, StartItem, Refresh, Score,
             Proceeds, Releases, Finish, Item
    <2>3. \A i \in 0..Items : <<b, i>> \in Task
      BY DEF Task
    <2> QED
      BY <1>3, <1>5, <2>2, <2>3
  <1> QED
    BY <1>2, <1>4, <1>5, <1>6 DEF PoolNext, poolVars

\* The pool never lends more connections than it has, for any size, batches and items.
THEOREM PoolIsTyped == PoolSpec => []PoolTypeOK
  <1>1. PoolInit => Fits
    <2>1. ASSUME PoolInit PROVE Holders = {}
      BY <2>1 DEF PoolInit, Holders
    <2> QED
      BY <2>1, FS_EmptySet, PoolAssumption DEF Fits
  <1>2. PoolInv /\ PoolInv' /\ Fits /\ [PoolNext]_poolVars => Fits'
    BY FitsStep
  <1>3. PoolInv /\ Fits => PoolTypeOK
    <2>1. ASSUME PoolInv, Fits PROVE Free >= 0
      <3>1. Cardinality(Holders) \in Nat
        BY TasksAreFinite DEF Holders
      <3> QED
        BY <2>1, <3>1, HeldCounts, PoolAssumption DEF PoolInv, PoolTyped, Fits
    <2> QED
      BY <2>1 DEF PoolInv, PoolTyped, PoolTypeOK
  <1> QED
    BY <1>1, <1>2, <1>3, PoolConsistent, PTL DEF PoolSpec


-----------------------------------------------------------------------------
(***************************************************************************)
(* The instances TLC explores: their steps are steps of the parts, so what *)
(* is proved of a part holds of it there.                                  *)
(***************************************************************************)
\* The store, the server and the pool explored together behave as each does by itself.
THEOREM ServersRunParts == MCSpec => Spec /\ ServerSpec /\ PoolSpec
<1>1. MCInit => Init /\ ServerInit /\ PoolInit
  BY DEF MCInit
<1>2. [MCNext]_<<vars, serverVars, poolVars, focus>>
          => [Next]_vars /\ [ServerNext]_serverVars /\ [PoolNext]_poolVars
  BY DEF MCNext
<1> QED
  BY <1>1, <1>2, PTL DEF MCSpec, Spec, ServerSpec, PoolSpec

\* Every variable of the packet store, the device server and the connection pool has its
\* type, where they are explored together.
THEOREM ServersTyped == MCSpec => []TypesOK
<1>1. TypeOK /\ ServerTypeOK /\ PoolTypeOK => TypesOK
  BY DEF TypesOK
<1> QED
  BY <1>1, ServersRunParts, StoreTyped, ServerTyped, PoolIsTyped, PTL
=============================================================================
