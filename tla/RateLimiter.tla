---------------------------- MODULE RateLimiter ----------------------------
(***************************************************************************)
(* TokenBucketRateLimiter of the device server (telematics/main.py).       *)
(*                                                                         *)
(* Tokens are counted in clock ticks: one packet costs Cost ticks          *)
(* (1 / rate), a bucket holds Burst ticks (capacity / rate), and a tick    *)
(* that passes is worth one.  The clock is time.time(): it can be set      *)
(* back, here by MaxBack ticks in all.  Idle buckets are pruned.           *)
(***************************************************************************)
EXTENDS Integers, Sequences

CONSTANTS
    Key,        \* source addresses, or device identifiers
    Cost,       \* ticks a packet costs
    Burst,      \* ticks a full bucket holds
    Threshold,  \* idle time after which a bucket is pruned
    MaxBack,    \* bound on how far the clock is set back in all
    MaxNow      \* bound on the clock, for TLC

\* A bucket is forgotten only when it must be full again.
BucketAssumption ==
    /\ Cost \in Nat \ {0} /\ Burst \in Nat
    /\ MaxBack \in Nat /\ MaxNow \in Nat
    /\ Threshold \in Nat /\ Threshold >= Burst + 2 * MaxBack

VARIABLES
    now,       \* time.time()
    back,      \* history: how far the clock was set back so far
    buckets,   \* self.buckets, a partial function to what is left and since when
    admitted   \* history: when each packet of a key was allowed

vars == <<now, back, buckets, admitted>>

Known == DOMAIN buckets

Advance ==
    /\ now < MaxNow
    /\ now' = now + 1
    /\ UNCHANGED <<back, buckets, admitted>>

SetBack ==
    /\ back < MaxBack /\ now > 0
    /\ now' = now - 1
    /\ back' = back + 1
    /\ UNCHANGED <<buckets, admitted>>

\* Fault: the capacity does not limit what is refilled.
LevelUncapped(k) == IF k \in Known THEN buckets[k].left + (now - buckets[k].at) ELSE Burst
\* min(capacity, tokens + elapsed * rate); a key without a bucket has a full one.
Level(k) ==
    IF k \in Known
    THEN LET refilled == buckets[k].left + (now - buckets[k].at)
         IN  IF refilled < Burst THEN refilled ELSE Burst
    ELSE Burst

Store(k, left) ==
    buckets' = [x \in Known \cup {k} |->
                    IF x = k THEN [left |-> left, at |-> now] ELSE buckets[x]]

Allow(k) ==
    /\ Level(k) >= Cost
    /\ Store(k, Level(k) - Cost)
    /\ admitted' = [admitted EXCEPT ![k] = Append(@, now)]
    /\ UNCHANGED <<now, back>>

Deny(k) ==
    /\ Level(k) < Cost
    /\ Store(k, Level(k))
    /\ UNCHANGED <<now, back, admitted>>

\* Fault: a bucket is idle as soon as a packet's worth of time has passed.
IdleEarly(k) == now - buckets[k].at > Cost
Idle(k) == now - buckets[k].at > Threshold

Prune ==
    /\ buckets' = [k \in {x \in Known : ~Idle(x)} |-> buckets[k]]
    /\ UNCHANGED <<now, back, admitted>>

Init ==
    /\ now = 0 /\ back = 0
    /\ buckets = [k \in {} |-> [left |-> 0, at |-> 0]]
    /\ admitted = [k \in Key |-> <<>>]

Next ==
    \/ Advance \/ SetBack \/ Prune
    \/ \E k \in Key : Allow(k) \/ Deny(k)

Spec == Init /\ [][Next]_vars

-----------------------------------------------------------------------------
(* Properties *)

\* A bucket never holds more than its capacity, and never owes more than the clock
\* was set back.
TypeOK ==
    /\ now \in 0..MaxNow
    /\ back \in 0..MaxBack
    /\ Known \subseteq Key
    /\ \A k \in Known : /\ buckets[k].at \in Nat
                        /\ buckets[k].left \in -back..Burst
    /\ admitted \in [Key -> Seq(Nat)]

\* Whatever is pruned and however the clock is set, a key is allowed no more packets
\* from one of its packets to another than a full bucket and the time between pay for.
WindowBound ==
    \A k \in Key : \A j \in DOMAIN admitted[k] : \A i \in 1..j :
        (j - i + 1) * Cost <= Burst + (admitted[k][j] - admitted[k][i])

=============================================================================
