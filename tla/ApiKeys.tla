------------------------------- MODULE ApiKeys -------------------------------
(***************************************************************************)
(* The API keys of one dashboard user (src/auth, APIKeyService).           *)
(*                                                                         *)
(* Creating and rotating a key read first and write later, in requests     *)
(* that run concurrently at READ COMMITTED with no lock on what was read.  *)
(* Revoking writes whatever it read, so its read and write are one step.   *)
(***************************************************************************)
EXTENDS Integers, FiniteSets

CONSTANTS
    Key,      \* api_keys rows there can be; a bound on how many are issued
    Request,  \* requests in flight at one time
    None,
    MaxKeys   \* MAX_ACTIVE_KEYS_PER_USER

ASSUME LimitAssumption == MaxKeys \in Nat

VARIABLES
    issued,    \* keys with a row
    revoked,   \* is_active = false
    expiring,  \* expires_at is set
    expired,   \* expires_at has passed
    heirs,     \* history: the keys that rotations of a key have issued
    pc,        \* what each request is doing
    target,    \* the key it is rotating
    overlap    \* history: a request has begun or revoked inside another's read and write

vars == <<issued, revoked, expiring, expired, heirs, pc, target, overlap>>

\* count_active_by_user
Usable == issued \ (revoked \cup expiring)

InFlight == {r \in Request : pc[r] # "idle"}

\* The id of the next row.
Fresh == CHOOSE k \in Key : k \notin issued

\* Fault: the limit is refused only when exceeded.
BelowLimitByOne == Cardinality(Usable) <= MaxKeys
BelowLimit == Cardinality(Usable) < MaxKeys

\* create_key reads the count; at the limit it refuses and nothing changes.
CountKeys(r) ==
    /\ pc[r] = "idle"
    /\ BelowLimit
    /\ pc' = [pc EXCEPT ![r] = "create"]
    /\ overlap' = (overlap \/ InFlight # {})
    /\ UNCHANGED <<issued, revoked, expiring, expired, heirs, target>>

\* ... then inserts and commits.
CreateKey(r) ==
    /\ pc[r] = "create" /\ issued # Key
    /\ issued' = issued \cup {Fresh}
    /\ pc' = [pc EXCEPT ![r] = "idle"]
    /\ UNCHANGED <<revoked, expiring, expired, heirs, target, overlap>>

\* Fault: a key that does not exist is not refused.
RotatableUnknown(k) == k \notin revoked \cup expiring
\* Fault: a key already scheduled for expiration may be rotated again.
RotatableTwice(k) == k \in issued \ revoked
Rotatable(k) == k \in Usable

\* rotate_key reads the key: it must be active and not scheduled to expire.
ReadKey(r, k) ==
    /\ pc[r] = "idle"
    /\ Rotatable(k)
    /\ pc' = [pc EXCEPT ![r] = "rotate"]
    /\ target' = [target EXCEPT ![r] = k]
    /\ overlap' = (overlap \/ InFlight # {})
    /\ UNCHANGED <<issued, revoked, expiring, expired, heirs>>

\* ... then schedules its expiry and issues its heir in one transaction.
RotateKey(r) ==
    LET old == target[r]
    IN  /\ pc[r] = "rotate" /\ issued # Key
        /\ expiring' = expiring \cup {old}
        /\ expired' = expired \ {old}
        /\ issued' = issued \cup {Fresh}
        /\ heirs' = [heirs EXCEPT ![old] = @ \cup {Fresh}]
        /\ pc' = [pc EXCEPT ![r] = "idle"]
        /\ target' = [target EXCEPT ![r] = None]
        /\ UNCHANGED <<revoked, overlap>>

RevokeKey(k) ==
    /\ k \in issued
    /\ revoked' = revoked \cup {k}
    /\ overlap' = (overlap \/ InFlight # {})
    /\ UNCHANGED <<issued, expiring, expired, heirs, pc, target>>

GraceEnds(k) ==
    /\ k \in expiring \ expired
    /\ expired' = expired \cup {k}
    /\ UNCHANGED <<issued, revoked, expiring, heirs, pc, target, overlap>>

\* verify_api_key deactivates an expired key when it is presented.
UseExpired(k) ==
    /\ k \in expired \ revoked
    /\ revoked' = revoked \cup {k}
    /\ UNCHANGED <<issued, expiring, expired, heirs, pc, target, overlap>>

\* A request fails or its process dies: its transaction rolls back.
Abort(r) ==
    /\ pc[r] # "idle"
    /\ pc' = [pc EXCEPT ![r] = "idle"]
    /\ target' = [target EXCEPT ![r] = None]
    /\ UNCHANGED <<issued, revoked, expiring, expired, heirs, overlap>>

Init ==
    /\ issued = {} /\ revoked = {} /\ expiring = {} /\ expired = {}
    /\ heirs = [k \in Key |-> {}]
    /\ pc = [r \in Request |-> "idle"]
    /\ target = [r \in Request |-> None]
    /\ overlap = FALSE

Next ==
    \/ \E r \in Request : CountKeys(r) \/ CreateKey(r) \/ RotateKey(r) \/ Abort(r)
    \/ \E r \in Request, k \in Key : ReadKey(r, k)
    \/ \E k \in Key : RevokeKey(k) \/ GraceEnds(k) \/ UseExpired(k)

Spec == Init /\ [][Next]_vars

-----------------------------------------------------------------------------
(* Properties *)

\* Every variable has its type; only issued keys are revoked, scheduled or heirs, and
\* only scheduled keys expire.
TypeOK ==
    /\ issued \subseteq Key
    /\ revoked \subseteq issued
    /\ expiring \subseteq issued
    /\ expired \subseteq expiring
    /\ heirs \in [Key -> SUBSET issued]
    /\ pc \in [Request -> {"idle", "create", "rotate"}]
    /\ target \in [Request -> Key \cup {None}]
    /\ overlap \in BOOLEAN

\* As long as no two requests of the user have overlapped, the limit holds, through
\* creations, rotations, revocations and lazy expiry.
LimitHolds == ~overlap => Cardinality(Usable) <= MaxKeys

\* As long as no two requests have overlapped, a rotated key has one heir, and a key
\* awaits expiry exactly when it has one: no heir without a schedule, none twice.
OneHeir ==
    ~overlap => \A k \in issued : /\ Cardinality(heirs[k]) <= 1
                                  /\ k \in expiring <=> heirs[k] # {}

\* The limit as the error message of create_key states it.
AtMostMaxKeys == Cardinality(Usable) <= MaxKeys

=============================================================================
