---------------------------- MODULE PacketStore ----------------------------
(***************************************************************************)
(* TelematicsService.process_packet (telematics/service.py): validation,   *)
(* the lookup of the device, and the statements that store a packet, each  *)
(* retried after a transient error.                                        *)
(*                                                                         *)
(* A packet is a record: its kind ("invalid"; "LI", for every header but   *)
(* DP; "DP"; "short", a DP with fewer fields than store_data_packet reads),*)
(* its device and its gps time.  Packets of several connections are        *)
(* processed at the same time, those of one connection in turn.            *)
(***************************************************************************)
EXTENDS Integers, FiniteSets

CONSTANTS
    Packet,       \* records [id, conn, kind, imei, gps]
    Loads,        \* sets of them: what the devices may send
    Imei,         \* devices
    None,
    MaxAttempts   \* max_retries

ASSUME AttemptsAssumption == MaxAttempts \in Nat \ {0}

VARIABLES
    sent,        \* the packets that are sent
    registered,  \* telematics_devices rows that are active
    pc,          \* where the processing of each packet is
    attempts,    \* failed attempts of its current statement
    rows,        \* how many rows of telematics_events it has
    lostReplies, \* history: inserts that were applied but timed out
    lastSeen,    \* last_seen_at of each device; None is NULL
    seenBy       \* history: the packets that set it

vars == <<sent, registered, pc, attempts, rows, lostReplies, lastSeen, seenBy>>

Running == {"resolve", "insert", "update"}
Ended == {"rejected", "unknown", "failed", "stored", "cut"}

Goto(p, place) ==
    /\ pc' = [pc EXCEPT ![p] = place]
    /\ attempts' = [attempts EXCEPT ![p] = 0]

\* validate_ais140_packet, before the first await.
Receive(p) ==
    /\ p \in sent /\ pc[p] = "new"
    /\ \A q \in Packet : q.conn = p.conn => pc[q] \notin Running
    /\ Goto(p, IF p.kind = "invalid" THEN "rejected" ELSE "resolve")
    /\ UNCHANGED <<sent, registered, rows, lostReplies, lastSeen, seenBy>>

\* Fault: the attempts are not counted.
RetryAlways(p) == UNCHANGED <<pc, attempts>>
\* Fault: the last error is logged and swallowed.
RetryGivesUp(p) ==
    IF attempts[p] + 1 = MaxAttempts THEN Goto(p, "stored")
    ELSE attempts' = [attempts EXCEPT ![p] = @ + 1] /\ UNCHANGED pc
\* A transient error: wait and try again, up to the limit, then raise.
Retry(p) ==
    IF attempts[p] + 1 = MaxAttempts THEN Goto(p, "failed")
    ELSE /\ attempts' = [attempts EXCEPT ![p] = @ + 1]
         /\ UNCHANGED pc

\* Also when no connection of the pool gets free within the timeout.
Transient(p) ==
    /\ pc[p] \in Running
    /\ ~(pc[p] = "insert" /\ p.kind = "short")
    /\ Retry(p)
    /\ UNCHANGED <<sent, registered, rows, lostReplies, lastSeen, seenBy>>

\* Fault: the device is marked as seen before its packet is stored.
ResolvedSeen(p) == IF p.kind = "DP" /\ lastSeen[p.imei] # p.gps THEN "update" ELSE "insert"
\* Fault: an unknown device is looked up again.
ResolvedAgain(p) == IF p.imei \in registered THEN "insert" ELSE "resolve"
Resolved(p) == IF p.imei \in registered THEN "insert" ELSE "unknown"

Resolve(p) ==
    /\ pc[p] = "resolve"
    /\ Goto(p, Resolved(p))
    /\ UNCHANGED <<sent, registered, rows, lostReplies, lastSeen, seenBy>>

\* fields[52] of a short packet raises before the statement.
Short(p) ==
    /\ pc[p] = "insert" /\ p.kind = "short"
    /\ Goto(p, "failed")
    /\ UNCHANGED <<sent, registered, rows, lostReplies, lastSeen, seenBy>>

\* Fault: an insert that went well is tried again.
AfterInsertAgain(p) == Retry(p)
AfterInsert(p) == Goto(p, IF p.kind = "DP" THEN "update" ELSE "stored")

Insert(p) ==
    /\ pc[p] = "insert" /\ p.kind # "short"
    /\ rows' = [rows EXCEPT ![p] = @ + 1]
    /\ AfterInsert(p)
    /\ UNCHANGED <<sent, registered, lostReplies, lastSeen, seenBy>>

\* The statement is committed, but its answer comes after the timeout.
InsertLate(p) ==
    /\ pc[p] = "insert" /\ p.kind # "short"
    /\ rows' = [rows EXCEPT ![p] = @ + 1]
    /\ lostReplies' = [lostReplies EXCEPT ![p] = @ + 1]
    /\ Retry(p)
    /\ UNCHANGED <<sent, registered, lastSeen, seenBy>>

\* An integrity or data error is not retried.
Refused(p) ==
    /\ pc[p] = "insert" /\ p.kind # "short"
    /\ Goto(p, "failed")
    /\ UNCHANGED <<sent, registered, rows, lostReplies, lastSeen, seenBy>>

SetLastSeen(p) ==
    /\ lastSeen' = [lastSeen EXCEPT ![p.imei] = p.gps]
    /\ seenBy' = [seenBy EXCEPT ![p.imei] = @ \cup {p}]

Update(p) ==
    /\ pc[p] = "update"
    /\ SetLastSeen(p)
    /\ Goto(p, "stored")
    /\ UNCHANGED <<sent, registered, rows, lostReplies>>

UpdateLate(p) ==
    /\ pc[p] = "update"
    /\ SetLastSeen(p)
    /\ Retry(p)
    /\ UNCHANGED <<sent, registered, rows, lostReplies>>

\* The handler is cancelled at shutdown; the statement may be applied all the same.
Cut(p) ==
    /\ pc[p] \in Running /\ ~(pc[p] = "insert" /\ p.kind = "short")
    /\ \/ UNCHANGED <<rows, lostReplies, lastSeen, seenBy>>
       \/ /\ pc[p] = "insert"
          /\ rows' = [rows EXCEPT ![p] = @ + 1]
          /\ UNCHANGED <<lostReplies, lastSeen, seenBy>>
       \/ /\ pc[p] = "update" /\ SetLastSeen(p)
          /\ UNCHANGED <<rows, lostReplies>>
    /\ Goto(p, "cut")
    /\ UNCHANGED <<sent, registered>>

Deactivate(d) ==
    /\ d \in registered
    /\ registered' = registered \ {d}
    /\ UNCHANGED <<sent, pc, attempts, rows, lostReplies, lastSeen, seenBy>>

Init ==
    /\ sent \in Loads
    /\ registered = Imei
    /\ pc = [p \in Packet |-> "new"]
    /\ attempts = [p \in Packet |-> 0]
    /\ rows = [p \in Packet |-> 0]
    /\ lostReplies = [p \in Packet |-> 0]
    /\ lastSeen = [d \in Imei |-> None]
    /\ seenBy = [d \in Imei |-> {}]

Process(p) ==
    \/ Transient(p) \/ Resolve(p) \/ Short(p) \/ Insert(p) \/ InsertLate(p)
    \/ Refused(p) \/ Update(p) \/ UpdateLate(p)

Next ==
    \/ \E p \in Packet : Receive(p) \/ Process(p) \/ Cut(p)
    \/ \E d \in Imei : Deactivate(d)

\* Every statement ends within its timeout, and so does the wait before a retry.
Fairness == \A k \in {p.conn : p \in Packet} :
                WF_vars(\E p \in Packet : p.conn = k /\ Process(p))
Spec == Init /\ [][Next]_vars /\ Fairness

-----------------------------------------------------------------------------
(* Properties *)

TypeOK ==
    /\ registered \subseteq Imei
    /\ pc \in [Packet -> {"new"} \cup Running \cup Ended]
    /\ attempts \in [Packet -> 0..MaxAttempts - 1]
    /\ rows \in [Packet -> 0..MaxAttempts]
    /\ lastSeen \in [Imei -> {None} \cup {p.gps : p \in Packet}]

\* A packet logged as stored is in the table, and its device was marked as seen by it.
StoredIsComplete ==
    \A p \in Packet : pc[p] = "stored" => /\ rows[p] > 0
                                          /\ p.kind = "DP" => p \in seenBy[p.imei]

\* A packet is stored twice only when the answer to an insert came too late.
DuplicatesFromLateReplies ==
    \A p \in Packet : rows[p] > 1 => lostReplies[p] >= rows[p] - 1

\* The time a device was last seen is the gps time of one of its stored packets.
LastSeenStored ==
    \A d \in Imei : lastSeen[d] # None =>
        \E p \in Packet : p.imei = d /\ p.gps = lastSeen[d] /\ rows[p] > 0

Busy(k) == \E p \in Packet : p.conn = k /\ pc[p] \in Running
\* Whatever the database does, the processing of a packet ends and its connection can
\* read on.
ConnectionReadsOn == \A k \in {p.conn : p \in Packet} : Busy(k) ~> ~Busy(k)

=============================================================================
