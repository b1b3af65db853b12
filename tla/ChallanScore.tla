---------------------------- MODULE ChallanScore ----------------------------
(***************************************************************************)
(* Score lookups of one vehicle: refresh the challans when the last fetch  *)
(* is older than the TTL, list them, and answer with a score that is       *)
(* recomputed only when the refresh reports a difference.                  *)
(*                                                                         *)
(* Requests run concurrently in the processes of the backend on one        *)
(* database at READ COMMITTED: each statement sees what is committed when  *)
(* it runs, now() is the time its transaction began.  The challans are     *)
(* committed in one transaction and the score in a later one.  The vendor  *)
(* is outside: its list changes at will and a call may fail.               *)
(*                                                                         *)
(* A score stands for the set of challans it was computed from.            *)
(***************************************************************************)
EXTENDS Integers, FiniteSets

CONSTANTS
    Challan,      \* challan numbers
    Request,      \* lookups, each made once
    None,
    MaxChanges,   \* bound: changes of the vendor's list
    MaxExpiries,  \* bound: times the TTL runs out
    MaxLosses     \* bound: challans leaving the scoring window, crashes

ASSUME BoundAssumption == /\ MaxChanges \in Nat
                          /\ MaxExpiries \in Nat
                          /\ MaxLosses \in Nat
ASSUME NoneAssumption == None \notin [at : Nat, of : SUBSET Challan]

VARIABLES
    vendor,    \* the list the vendor would return
    known,     \* challans with a row
    active,    \* rows with active = true
    expired,   \* challans older than the scoring window
    cached,    \* the newest fetch log is within the TTL
    record,    \* the newest score record, by computed_at
    clock,     \* transactions begun
    pc,        \* where each request is
    began,     \* when its open transaction began
    got,       \* the list it fetched
    inserts,   \* challans it is going to insert
    deletes,   \* challans it is going to soft-delete
    diff,      \* ChallanRefreshResult.diff
    listed,    \* active challans it listed
    reply,     \* the score it answered with
    lost,      \* history: a difference went unscored (crash, or a challan aged out)
    changes, expiries, losses

database == <<known, active, cached, record>>
outside == <<vendor, expired>>
request == <<pc, began, got, inserts, deletes, diff, listed, reply>>
bounds == <<changes, expiries, losses>>
vars == <<vendor, known, active, expired, cached, record, clock, pc, began, got, inserts,
          deletes, diff, listed, reply, lost, changes, expiries, losses>>

Listing == active \ expired

Goto(r, place) == pc' = [pc EXCEPT ![r] = place]

-----------------------------------------------------------------------------
(* refresh_challans_if_stale *)

\* The first statement after a commit begins a transaction.
Opened(r) ==
    IF began[r] = 0
    THEN clock' = clock + 1 /\ began' = [began EXCEPT ![r] = clock + 1]
    ELSE UNCHANGED <<clock, began>>

\* verify_api_key reads the key on the request's session, so the transaction begins
\* here, unless last_used_at is written and committed.
Authenticate(r) ==
    /\ pc[r] = "idle"
    /\ \/ UNCHANGED <<clock, began>>
       \/ Opened(r)
    /\ Goto(r, "check")
    /\ UNCHANGED <<database, outside, got, inserts, deletes, diff, listed, reply, lost, bounds>>

\* get_last_fetch and needs_fetch.
CheckCache(r) ==
    /\ pc[r] = "check"
    /\ Opened(r)
    /\ Goto(r, IF cached THEN "list" ELSE "fetch")
    /\ UNCHANGED <<database, outside, got, inserts, deletes, diff, listed, reply, lost, bounds>>

\* The vendor fails: no difference, and the transaction stays open.
FetchFails(r) ==
    /\ pc[r] = "fetch"
    /\ Goto(r, "list")
    /\ UNCHANGED <<database, outside, clock, began, got, inserts, deletes, diff, listed,
                   reply, lost, bounds>>

\* The answer has a challan that _map cannot read: the request fails, nothing is written.
FetchBreaks(r) ==
    /\ pc[r] = "fetch"
    /\ Goto(r, "done")
    /\ UNCHANGED <<database, outside, clock, began, got, inserts, deletes, diff, listed,
                   reply, lost, bounds>>

Fetch(r) ==
    /\ pc[r] = "fetch"
    /\ got' = [got EXCEPT ![r] = vendor]
    /\ Goto(r, "compare")
    /\ UNCHANGED <<database, outside, clock, began, inserts, deletes, diff, listed,
                   reply, lost, bounds>>

\* get_all_for_sync reads removed rows too; classification is awaited afterwards.
Compare(r) ==
    /\ pc[r] = "compare"
    /\ inserts' = [inserts EXCEPT ![r] = got[r] \ known]
    /\ deletes' = [deletes EXCEPT ![r] = known \ got[r]]
    /\ Goto(r, "sync")
    /\ UNCHANGED <<database, outside, clock, began, got, diff, listed, reply, lost, bounds>>

Diff(r) == deletes[r] # {} \/ inserts[r] # {}

\* insert is an upsert, soft_delete an update of the rows by their numbers: each takes the
\* rows as other refreshes have left them.
Inserted(r) == active \cup inserts[r]
SoftDeleted(r) == Inserted(r) \ deletes[r]

\* Upsert, soft-delete and fetch log in one transaction.
Sync(r) ==
    /\ pc[r] = "sync"
    /\ known' = known \cup inserts[r]
    /\ active' = SoftDeleted(r)
    /\ cached' = TRUE
    /\ diff' = [diff EXCEPT ![r] = Diff(r)]
    /\ began' = [began EXCEPT ![r] = 0]
    /\ Goto(r, "list")
    /\ UNCHANGED <<record, outside, clock, got, inserts, deletes, listed, reply, lost, bounds>>

-----------------------------------------------------------------------------
(* get_dbs_record *)

\* list_active_challans; after the commit it is the first statement of a new
\* transaction.
List(r) ==
    /\ pc[r] = "list"
    /\ listed' = [listed EXCEPT ![r] = Listing]
    /\ Opened(r)
    /\ Goto(r, IF diff[r] THEN "record" ELSE "latest")
    /\ UNCHANGED <<database, outside, got, inserts, deletes, diff, reply, lost, bounds>>

CacheHit(r) ==
    /\ pc[r] = "latest"
    /\ record # None
    /\ reply' = [reply EXCEPT ![r] = record.of]
    /\ Goto(r, "done")
    /\ UNCHANGED <<database, outside, clock, began, got, inserts, deletes, diff, listed,
                   lost, bounds>>

CacheMiss(r) ==
    /\ pc[r] = "latest"
    /\ record = None
    /\ Goto(r, "record")
    /\ UNCHANGED <<database, outside, clock, began, got, inserts, deletes, diff, listed,
                   reply, lost, bounds>>

\* Fault: computed_at is the time of the insert.
StampAtInsert(r) == clock
\* Fault: computed_at is taken from an application clock that runs ahead.
StampAhead(r) == clock + 1
\* computed_at defaults to now(), the start of the transaction.
Stamp(r) == began[r]

\* compute_and_add_score_record; get_latest orders by computed_at.
Record(r) ==
    LET new == [at |-> Stamp(r), of |-> listed[r]]
    IN  /\ pc[r] = "record"
        /\ record' = IF record # None /\ record.at > new.at THEN record ELSE new
        /\ reply' = [reply EXCEPT ![r] = listed[r]]
        /\ Goto(r, "done")
        /\ UNCHANGED <<known, active, cached, outside, clock, began, got, inserts, deletes,
                       diff, listed, lost, bounds>>

-----------------------------------------------------------------------------
(* The world around the requests *)

VendorChanges(c) ==
    /\ changes < MaxChanges
    /\ changes' = changes + 1
    /\ vendor' = IF c \in vendor THEN vendor \ {c} ELSE vendor \cup {c}
    /\ UNCHANGED <<database, expired, clock, request, lost, expiries, losses>>

TtlExpires ==
    /\ cached
    /\ expiries < MaxExpiries
    /\ expiries' = expiries + 1
    /\ cached' = FALSE
    /\ UNCHANGED <<known, active, record, outside, clock, request, lost, changes, losses>>

\* A challan leaves the scoring window; no refresh will notice.
AgesOut(c) ==
    /\ losses < MaxLosses
    /\ losses' = losses + 1
    /\ c \in Challan \ expired
    /\ expired' = expired \cup {c}
    /\ lost' = TRUE
    /\ UNCHANGED <<database, vendor, clock, request, changes, expiries>>

\* The process dies, or a statement fails: the open transaction rolls back.
Crash(r) ==
    /\ pc[r] \notin {"idle", "done"}
    /\ losses < MaxLosses
    /\ losses' = losses + 1
    /\ lost' = (lost \/ diff[r])
    /\ Goto(r, "done")
    /\ UNCHANGED <<database, outside, clock, began, got, inserts, deletes, diff, listed,
                   reply, changes, expiries>>

Init ==
    /\ vendor \in SUBSET Challan
    /\ known = {} /\ active = {} /\ expired = {}
    /\ cached = FALSE
    /\ record = None
    /\ clock = 0
    /\ pc = [r \in Request |-> "idle"]
    /\ began = [r \in Request |-> 0]
    /\ got = [r \in Request |-> {}]
    /\ inserts = [r \in Request |-> {}]
    /\ deletes = [r \in Request |-> {}]
    /\ diff = [r \in Request |-> FALSE]
    /\ listed = [r \in Request |-> {}]
    /\ reply = [r \in Request |-> None]
    /\ lost = FALSE
    /\ changes = 0 /\ expiries = 0 /\ losses = 0

Lookup(r) == \/ Authenticate(r)
             \/ CheckCache(r)
             \/ FetchFails(r)
             \/ FetchBreaks(r)
             \/ Fetch(r)
             \/ Compare(r)
             \/ Sync(r)
             \/ List(r)
             \/ CacheHit(r)
             \/ CacheMiss(r)
             \/ Record(r)

Next == \/ \E r \in Request : Lookup(r) \/ Crash(r)
        \/ \E c \in Challan : VendorChanges(c) \/ AgesOut(c)
        \/ TtlExpires

Spec == Init /\ [][Next]_vars

-----------------------------------------------------------------------------
(* Properties *)

Place == {"idle", "check", "fetch", "compare", "sync", "list", "latest", "record", "done"}

\* Every variable has its type, a challan is active only if it has a row, and neither a
\* transaction nor a score is dated in the future.
TypeOK ==
    /\ vendor \subseteq Challan
    /\ known \subseteq Challan
    /\ active \subseteq known
    /\ expired \subseteq Challan
    /\ cached \in BOOLEAN
    /\ record \in [at : 1..clock, of : SUBSET Challan] \cup {None}
    /\ clock \in Nat
    /\ pc \in [Request -> Place]
    /\ began \in [Request -> 0..clock]
    /\ got \in [Request -> SUBSET Challan]
    /\ inserts \in [Request -> SUBSET Challan]
    /\ deletes \in [Request -> SUBSET Challan]
    /\ diff \in [Request -> BOOLEAN]
    /\ listed \in [Request -> SUBSET Challan]
    /\ lost \in BOOLEAN
    /\ changes \in 0..MaxChanges /\ expiries \in 0..MaxExpiries /\ losses \in 0..MaxLosses

Quiet == \A r \in Request : pc[r] \in {"idle", "done"}

\* Between requests the newest score is the score of the listed challans, however the
\* refreshes, listings and inserts of concurrent lookups interleaved.  It fails only
\* after a crash between the two commits or a challan leaving the window.
ScoreCurrent == (Quiet /\ record # None /\ ~lost) => record.of = Listing

(* Why it holds: the inductive invariant of ScoreCurrent.                             *)

\* A request that scores has a transaction; a difference is reported once its rows are
\* committed, and listed in a transaction that is still to come.
StampsOK ==
    \A r \in Request :
        /\ pc[r] \in {"latest", "record"} => began[r] > 0
        /\ diff[r] => pc[r] \in {"list", "record", "done"}
        /\ diff[r] /\ pc[r] = "list" => began[r] = 0

\* A refresh has reported a difference and is going to list what it left.
Relisting == \E r \in Request : diff[r] /\ pc[r] = "list"

\* What is listed now is scored, or is about to be, by a transaction begun after t.
ScoredAfter(t) ==
    \/ record # None /\ record.of = Listing /\ record.at > t
    \/ \E r \in Request :
          diff[r] /\ pc[r] = "record" /\ listed[r] = Listing /\ began[r] > t

\* A score of what is no longer listed, stored or still to be inserted, is superseded:
\* by a listing to come, or by a newer score.
Superseded ==
    ~lost =>
        /\ expired = {}
        /\ \/ Relisting
           \/ /\ record # None /\ record.of # Listing => ScoredAfter(record.at)
              /\ \A r \in Request :
                    pc[r] \in {"latest", "record"} /\ listed[r] # Listing
                        => ScoredAfter(began[r])

\* A refresh that reports a difference because of removals removes a challan that is
\* active when it compares ("Returns True if anything changed").
DiffMeansChange ==
    [][\A r \in Request :
          Compare(r) /\ deletes'[r] # {} => deletes'[r] \cap active # {}]_vars

=============================================================================
