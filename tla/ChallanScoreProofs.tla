------------------------- MODULE ChallanScoreProofs -------------------------
(***************************************************************************)
(* Score lookups, for any challans, any number of concurrent requests and  *)
(* any bounds: the newest score catches up with what is listed, however    *)
(* refreshes, listings and inserts interleave.                             *)
(***************************************************************************)
EXTENDS ChallanScore, TLAPS

Inv == TypeOK /\ StampsOK /\ Superseded

USE DEF Goto

-----------------------------------------------------------------------------
(* Types *)

\* A transaction is opened once, and dated when it is.
LEMMA OpenedFacts ==
    ASSUME TypeOK, NEW r \in Request, Opened(r)
    PROVE  /\ clock' \in Nat /\ clock <= clock'
           /\ began' \in [Request -> 0..clock']
           /\ began'[r] > 0
           /\ \A q \in Request \ {r} : began'[q] = began[q]
           /\ began[r] # 0 => began'[r] = began[r]
           /\ began[r] = 0 => began'[r] = clock + 1
           /\ record \in [at : 1..clock', of : SUBSET Challan] \cup {None}
<1>1. clock \in Nat /\ began \in [Request -> 0..clock]
    BY DEF TypeOK
<1>4. record \in [at : 1..clock, of : SUBSET Challan] \cup {None}
    BY DEF TypeOK
<1>2. CASE began[r] = 0
  <2>1. /\ clock' = clock + 1
        /\ began' = [began EXCEPT ![r] = clock + 1]
    BY <1>2 DEF Opened
  <2>2. 1..clock \subseteq 1..clock' /\ 0..clock \subseteq 0..clock'
    BY <1>1, <2>1
  <2>3. clock + 1 \in 0..clock' /\ clock + 1 > 0 /\ clock <= clock'
    BY <1>1, <2>1
  <2>4. began' \in [Request -> 0..clock']
    BY <1>1, <2>1, <2>2, <2>3
  <2>5. record \in [at : 1..clock', of : SUBSET Challan] \cup {None}
    BY <1>4, <2>2
  <2> QED
    BY <1>1, <1>2, <2>1, <2>3, <2>4, <2>5
<1>3. CASE began[r] # 0
    BY <1>1, <1>3, <1>4 DEF Opened
<1> QED
    BY <1>2, <1>3

LEMMA InitTyped == Init => TypeOK
<1> SUFFICES ASSUME Init PROVE TypeOK
    OBVIOUS
<1>1. changes \in 0..MaxChanges /\ expiries \in 0..MaxExpiries /\ losses \in 0..MaxLosses
    BY BoundAssumption DEF Init
<1>2. pc \in [Request -> Place] /\ began \in [Request -> 0..clock] /\ clock \in Nat
    BY DEF Init, Place
<1>3. cached \in BOOLEAN /\ lost \in BOOLEAN /\ diff \in [Request -> BOOLEAN]
    BY DEF Init
<1> QED
    BY <1>1, <1>2, <1>3 DEF Init, TypeOK

\* A lookup keeps the types.
LEMMA LookupTyped ==
    ASSUME TypeOK, StampsOK, NEW r \in Request, Lookup(r)
    PROVE  TypeOK'
<1>1. CASE Authenticate(r) \/ CheckCache(r) \/ List(r)
  <2>1. /\ UNCHANGED <<database, outside, got, inserts, deletes, diff, reply, lost, bounds>>
        /\ pc' \in [Request -> Place]
    BY <1>1 DEF Authenticate, CheckCache, List, TypeOK, Place
  <2>2. listed' \in [Request -> SUBSET Challan]
    BY <1>1 DEF Authenticate, CheckCache, List, TypeOK, Listing
  <2>3. /\ clock' \in Nat
        /\ began' \in [Request -> 0..clock']
        /\ record \in [at : 1..clock', of : SUBSET Challan] \cup {None}
    <3>1. Opened(r) \/ UNCHANGED <<clock, began>>
        BY <1>1 DEF Authenticate, CheckCache, List
    <3> QED
        BY <3>1, OpenedFacts DEF TypeOK
  <2> QED
    BY <2>1, <2>2, <2>3 DEF TypeOK, database, outside, bounds
<1>2. CASE FetchFails(r) \/ FetchBreaks(r) \/ Fetch(r) \/ CacheHit(r) \/ CacheMiss(r)
  <2>1. /\ UNCHANGED <<database, outside, clock, began, inserts, deletes, diff, listed, lost,
                        bounds>>
        /\ pc' \in [Request -> Place]
        /\ got' \in [Request -> SUBSET Challan]
    BY <1>2 DEF FetchFails, FetchBreaks, Fetch, CacheHit, CacheMiss, TypeOK, Place
  <2> QED
    BY <2>1 DEF TypeOK, database, outside, bounds
<1>3. CASE Compare(r)
    BY <1>3 DEF Compare, TypeOK, Place, database, outside, bounds
<1>4. CASE Sync(r)
  <2>1. /\ UNCHANGED <<record, outside, clock, got, inserts, deletes, listed, lost, bounds>>
        /\ cached' = TRUE
        /\ pc' \in [Request -> Place]
        /\ diff' \in [Request -> BOOLEAN]
        /\ began' \in [Request -> 0..clock]
    BY <1>4 DEF Sync, Diff, TypeOK, Place
  <2>2. known' \subseteq Challan /\ active' \subseteq known'
    BY <1>4 DEF Sync, SoftDeleted, Inserted, TypeOK
  <2> QED
    BY <2>1, <2>2 DEF TypeOK, outside, bounds
<1>5. CASE Record(r)
  <2>1. /\ UNCHANGED <<known, active, cached, outside, clock, began, got, inserts, deletes,
                       diff, listed, lost, bounds>>
        /\ pc' \in [Request -> Place]
    BY <1>5 DEF Record, TypeOK, Place
  <2>2. began[r] \in 1..clock /\ listed[r] \in SUBSET Challan
    BY <1>5 DEF Record, StampsOK, TypeOK
  <2>3. record' \in {record, [at |-> began[r], of |-> listed[r]]}
    BY <1>5 DEF Record, Stamp
  <2>4. record' \in [at : 1..clock, of : SUBSET Challan] \cup {None}
    BY <2>2, <2>3 DEF TypeOK
  <2> QED
    BY <2>1, <2>4 DEF TypeOK, outside, bounds
<1> QED
    BY <1>1, <1>2, <1>3, <1>4, <1>5 DEF Lookup

\* So does everything else that happens.
LEMMA WorldTyped ==
    ASSUME TypeOK,
           \/ \E r \in Request : Crash(r)
           \/ \E c \in Challan : VendorChanges(c) \/ AgesOut(c)
           \/ TtlExpires
    PROVE  TypeOK'
<1> USE BoundAssumption DEF TypeOK, database, outside, bounds, request
<1>1. CASE \E r \in Request : Crash(r)
    BY <1>1 DEF Crash, Place
<1>2. CASE \E c \in Challan : VendorChanges(c)
    BY <1>2 DEF VendorChanges
<1>3. CASE \E c \in Challan : AgesOut(c)
    BY <1>3 DEF AgesOut
<1>4. CASE TtlExpires
  <2>1. cached' \in BOOLEAN /\ lost' \in BOOLEAN /\ diff' \in [Request -> BOOLEAN]
    BY <1>4 DEF TtlExpires
  <2>2. expiries' \in 0..MaxExpiries
    BY <1>4 DEF TtlExpires
  <2> QED
    BY <1>4, <2>1, <2>2 DEF TtlExpires
<1> QED
    BY <1>1, <1>2, <1>3, <1>4

LEMMA NextTyped == TypeOK /\ StampsOK /\ [Next]_vars => TypeOK'
<1> SUFFICES ASSUME TypeOK, StampsOK, [Next]_vars PROVE TypeOK'
    OBVIOUS
<1>1. CASE UNCHANGED vars
    BY <1>1 DEF vars, TypeOK
<1> QED
    BY <1>1, LookupTyped, WorldTyped DEF Next

-----------------------------------------------------------------------------
(* Stamps *)

\* Whoever is about to score has a transaction, and a refresh with a difference none yet.
LEMMA NextStamps == TypeOK /\ StampsOK /\ [Next]_vars => StampsOK'
<1> SUFFICES ASSUME TypeOK, StampsOK, [Next]_vars, NEW q \in Request
             PROVE  /\ pc'[q] \in {"latest", "record"} => began'[q] > 0
                    /\ diff'[q] => pc'[q] \in {"list", "record", "done"}
                    /\ diff'[q] /\ pc'[q] = "list" => began'[q] = 0
    BY DEF StampsOK
<1> USE DEF StampsOK
<1>0. /\ pc \in [Request -> Place] /\ began \in [Request -> 0..clock]
      /\ diff \in [Request -> BOOLEAN]
    BY DEF TypeOK
<1>1. ASSUME NEW r \in Request, Authenticate(r) \/ CheckCache(r) \/ List(r)
      PROVE  /\ pc'[q] \in {"latest", "record"} => began'[q] > 0
             /\ diff'[q] => pc'[q] \in {"list", "record", "done"}
             /\ diff'[q] /\ pc'[q] = "list" => began'[q] = 0
  <2>1. diff' = diff /\ (Opened(r) \/ UNCHANGED <<clock, began>>)
    BY <1>1 DEF Authenticate, CheckCache, List
  <2>2. q # r => began'[q] = began[q] /\ pc'[q] = pc[q]
    BY <1>0, <1>1, <2>1, OpenedFacts DEF Authenticate, CheckCache, List
  <2>3. CASE q = r /\ List(r)
    BY <1>0, <2>1, <2>3, OpenedFacts DEF List
  <2>4. CASE q = r /\ (Authenticate(r) \/ CheckCache(r))
    BY <1>0, <2>1, <2>4 DEF Authenticate, CheckCache
  <2> QED
    BY <1>1, <2>1, <2>2, <2>3, <2>4
<1>2. ASSUME NEW r \in Request, FetchFails(r) \/ FetchBreaks(r) \/ Fetch(r) \/ Compare(r)
                                  \/ CacheHit(r) \/ CacheMiss(r) \/ Record(r) \/ Crash(r)
      PROVE  /\ pc'[q] \in {"latest", "record"} => began'[q] > 0
             /\ diff'[q] => pc'[q] \in {"list", "record", "done"}
             /\ diff'[q] /\ pc'[q] = "list" => began'[q] = 0
    BY <1>0, <1>2 DEF FetchFails, FetchBreaks, Fetch, Compare, CacheHit, CacheMiss, Record, Crash
<1>3. ASSUME NEW r \in Request, Sync(r)
      PROVE  /\ pc'[q] \in {"latest", "record"} => began'[q] > 0
             /\ diff'[q] => pc'[q] \in {"list", "record", "done"}
             /\ diff'[q] /\ pc'[q] = "list" => began'[q] = 0
    BY <1>0, <1>3 DEF Sync
<1>4. CASE UNCHANGED request
    BY <1>4 DEF request
<1>5. ASSUME NEW c \in Challan, VendorChanges(c) \/ AgesOut(c)
      PROVE  UNCHANGED request
    BY <1>5 DEF VendorChanges, AgesOut
<1>6. ASSUME TtlExpires
      PROVE  UNCHANGED request
    BY <1>6 DEF TtlExpires
<1>7. ASSUME UNCHANGED vars
      PROVE  UNCHANGED request
    BY <1>7 DEF vars, request
<1> QED
    BY <1>1, <1>2, <1>3, <1>4, <1>5, <1>6, <1>7 DEF Next, Lookup

-----------------------------------------------------------------------------
(* Every outdated score is superseded *)

AtRisk(q) == pc[q] \in {"latest", "record"} /\ listed[q] # Listing

\* A step that writes neither challans nor a score, stops no refresh that has reported a
\* difference and brings nobody new to an outdated listing.
LEMMA QuietStep ==
    ASSUME Superseded, ~lost, UNCHANGED <<record, active, expired>>,
           \A q \in Request : diff[q] /\ pc[q] = "list" => diff'[q] /\ pc'[q] = "list",
           \A q \in Request : diff[q] /\ pc[q] = "record" =>
               /\ diff'[q] /\ pc'[q] = "record"
               /\ listed'[q] = listed[q] /\ began'[q] = began[q],
           \A q \in Request : AtRisk(q)' => AtRisk(q) /\ began'[q] = began[q]
    PROVE  Superseded'
<1>1. Listing' = Listing
    BY DEF Listing
<1>2. \A t : ScoredAfter(t) => ScoredAfter(t)'
    BY <1>1 DEF ScoredAfter
<1>3. Relisting => Relisting'
    BY DEF Relisting
<1>4. expired' = {}
    BY DEF Superseded
<1>5. CASE Relisting
    BY <1>3, <1>4, <1>5 DEF Superseded
<1>6. CASE ~Relisting
  <2>1. record # None /\ record.of # Listing => ScoredAfter(record.at)
    BY <1>6 DEF Superseded
  <2>2. \A q \in Request : AtRisk(q) => ScoredAfter(began[q])
    BY <1>6 DEF Superseded, AtRisk
  <2>3. record' # None /\ record'.of # Listing' => ScoredAfter(record.at)'
    BY <1>1, <1>2, <2>1
  <2>4. \A q \in Request : AtRisk(q)' => ScoredAfter(began[q])'
    BY <1>2, <2>2
  <2> QED
    BY <1>4, <2>3, <2>4 DEF Superseded, AtRisk
<1> QED
    BY <1>5, <1>6

\* The listing of a refresh that reported a difference is the newest, in the newest
\* transaction.
LEMMA RelistStep ==
    ASSUME Inv, ~lost, NEW r \in Request, List(r), diff[r]
    PROVE  Superseded'
<1>1. began[r] = 0 /\ pc[r] = "list"
    BY DEF Inv, StampsOK, List
<1>2. /\ began'[r] = clock + 1 /\ clock \in Nat
      /\ \A q \in Request \ {r} : began'[q] = began[q] /\ began[q] \in 0..clock
    BY <1>1, OpenedFacts DEF Inv, List, TypeOK
<1>3. /\ UNCHANGED <<record, active, expired, diff>> /\ expired = {}
      /\ listed' = [listed EXCEPT ![r] = Listing]
      /\ pc' = [pc EXCEPT ![r] = "record"]
    BY DEF Inv, Superseded, List, database, outside
<1>4. Listing' = Listing
    BY <1>3 DEF Listing
<1>5. pc'[r] = "record" /\ listed'[r] = Listing'
    BY <1>3, <1>4 DEF Inv, TypeOK
<1>6. \A t \in Nat : t <= clock => ScoredAfter(t)'
  <2> SUFFICES ASSUME NEW t \in Nat, t <= clock PROVE ScoredAfter(t)'
    OBVIOUS
  <2>1. clock + 1 > t
    BY <1>2
  <2> QED
    BY <1>2, <1>3, <1>5, <2>1 DEF ScoredAfter
<1>7. record' # None => ScoredAfter(record.at)'
    BY <1>2, <1>3, <1>6 DEF Inv, TypeOK
<1>8. ASSUME NEW q \in Request, AtRisk(q)'
      PROVE  ScoredAfter(began[q])'
  <2>1. q # r
    BY <1>5, <1>8 DEF AtRisk
  <2> QED
    BY <1>2, <1>6, <2>1
<1> QED
    BY <1>3, <1>7, <1>8 DEF Superseded, AtRisk

\* What an insert makes the newest score is no worse than what it replaces: either it is
\* of the challans listed now, or something newer is.
LEMMA RecordStep ==
    ASSUME Inv, ~lost, NEW r \in Request, Record(r)
    PROVE  Superseded'
<1> DEFINE new == [at |-> began[r], of |-> listed[r]]
<1>1. /\ UNCHANGED <<active, expired, began, diff, listed>>
      /\ pc[r] = "record" /\ pc' = [pc EXCEPT ![r] = "done"]
      /\ record' = IF record # None /\ record.at > new.at THEN record ELSE new
    BY DEF Record, Stamp, outside
<1>2. Listing' = Listing /\ expired = {} /\ expired' = {}
    BY <1>1 DEF Inv, Superseded, Listing
<1>3. /\ pc \in [Request -> Place]
      /\ \A q \in Request : began[q] \in Nat
      /\ record # None => record.at \in Nat
      /\ new # None
    BY NoneAssumption DEF Inv, TypeOK
<1>4. \A q \in Request \ {r} : pc'[q] = pc[q]
    BY <1>1, <1>3
<1>5. pc'[r] = "done"
    BY <1>1, <1>3
<1>6. CASE Relisting
  <2>1. Relisting'
    BY <1>1, <1>4, <1>6 DEF Relisting
  <2> QED
    BY <1>2, <2>1 DEF Superseded
<1>7. CASE ~Relisting
  <2>1. record # None /\ record.of # Listing => ScoredAfter(record.at)
    BY <1>7 DEF Inv, Superseded
  <2>2. \A q \in Request : AtRisk(q) => ScoredAfter(began[q])
    BY <1>7 DEF Inv, Superseded, AtRisk
  <2>3. ASSUME NEW t \in Nat, ScoredAfter(t)
        PROVE  ScoredAfter(t)'
    <3>1. ASSUME NEW q \in Request, diff[q], pc[q] = "record", listed[q] = Listing, began[q] > t,
                 q # r
          PROVE  ScoredAfter(t)'
        BY <1>1, <1>2, <1>4, <3>1 DEF ScoredAfter
    <3>2. CASE record' = record
      <4>1. CASE record # None /\ record.of = Listing /\ record.at > t
          BY <1>2, <3>2, <4>1 DEF ScoredAfter
      <4>2. CASE diff[r] /\ listed[r] = Listing /\ began[r] > t
        <5>1. record # None /\ record.at >= began[r]
            BY <1>1, <1>3, <3>2
        <5>2. record.at > t
            BY <1>3, <4>2, <5>1
        <5>3. CASE record.of = Listing
            BY <4>1, <5>1, <5>2, <5>3
        <5>4. CASE record.of # Listing
          <6>1. PICK q \in Request : /\ diff[q] /\ pc[q] = "record"
                                     /\ listed[q] = Listing /\ began[q] > record.at
              BY <2>1, <5>1, <5>4 DEF ScoredAfter
          <6>2. q # r /\ began[q] > t
              BY <1>3, <5>1, <5>2, <6>1
          <6> QED
              BY <3>1, <6>1, <6>2
        <5> QED
            BY <5>3, <5>4
      <4> QED
          BY <2>3, <3>1, <4>1, <4>2 DEF ScoredAfter
    <3>3. CASE record' = new /\ ~(record # None /\ record.at > began[r])
      <4>1. CASE listed[r] = Listing /\ began[r] > t
          BY <1>2, <1>3, <3>3, <4>1 DEF ScoredAfter
      <4>2. CASE record # None /\ record.of = Listing /\ record.at > t
        <5>1. began[r] > t
            BY <1>3, <3>3, <4>2
        <5>2. CASE AtRisk(r)
          <6>1. PICK q \in Request : /\ diff[q] /\ pc[q] = "record"
                                     /\ listed[q] = Listing /\ began[q] > began[r]
              BY <2>2, <3>3, <5>2 DEF ScoredAfter
          <6>2. q # r /\ began[q] > t
              BY <1>3, <5>1, <6>1
          <6> QED
              BY <3>1, <6>1, <6>2
        <5>3. CASE ~AtRisk(r)
            BY <1>1, <4>1, <5>1, <5>3 DEF AtRisk
        <5> QED
            BY <5>2, <5>3
      <4> QED
          BY <2>3, <3>1, <4>1, <4>2 DEF ScoredAfter
    <3> QED
        BY <1>1, <3>2, <3>3
  <2>4. record'.of # Listing' => ScoredAfter(record.at)'
    <3>1. CASE record' = record /\ record # None
        BY <1>2, <1>3, <2>1, <2>3, <3>1
    <3>2. CASE record' = new
      <4>1. listed[r] # Listing => ScoredAfter(began[r])
          BY <1>1, <2>2 DEF AtRisk
      <4>2. record'.of = listed[r] /\ record'.at = began[r] /\ began[r] \in Nat
          BY <1>3, <3>2
      <4> QED
          BY <1>2, <2>3, <4>1, <4>2
    <3> QED
        BY <1>1, <3>1, <3>2
  <2>5. ASSUME NEW q \in Request, AtRisk(q)'
        PROVE  ScoredAfter(began[q])'
    <3>1. AtRisk(q)
        BY <1>1, <1>2, <1>4, <1>5, <2>5 DEF AtRisk
    <3>2. began'[q] = began[q] /\ began[q] \in Nat
        BY <1>1, <1>3
    <3> QED
        BY <2>2, <2>3, <3>1, <3>2
  <2>6. record' # None /\ record'.of # Listing' => ScoredAfter(record.at)'
    BY <2>4
  <2> QED
    BY <1>2, <2>5, <2>6 DEF Superseded, AtRisk
<1> QED
    BY <1>6, <1>7

\* Every step of a lookup.
LEMMA LookupSuperseded ==
    ASSUME Inv, ~lost, ~lost', NEW r \in Request, Lookup(r) \/ Crash(r)
    PROVE  Superseded'
<1>0. /\ pc \in [Request -> Place] /\ Superseded
      /\ listed \in [Request -> SUBSET Challan]
      /\ began \in [Request -> 0..clock]
      /\ diff \in [Request -> BOOLEAN]
    BY DEF Inv, TypeOK
<1>1. CASE Authenticate(r) \/ CheckCache(r)
  <2>1. /\ UNCHANGED <<record, active, expired, diff, listed>>
        /\ pc[r] \notin {"list", "latest", "record"}
        /\ pc'[r] \notin {"latest", "record"}
        /\ \A q \in Request \ {r} : pc'[q] = pc[q]
    BY <1>0, <1>1 DEF Authenticate, CheckCache, database, outside
  <2>2. \A q \in Request \ {r} : began'[q] = began[q]
    BY <1>1, OpenedFacts DEF Inv, Authenticate, CheckCache
  <2>3. \A q \in Request : AtRisk(q)' => AtRisk(q) /\ began'[q] = began[q]
    BY <2>1, <2>2 DEF AtRisk, Listing
  <2> QED
    BY <1>0, <2>1, <2>2, <2>3, QuietStep
<1>2. CASE FetchFails(r) \/ FetchBreaks(r) \/ Fetch(r) \/ Compare(r) \/ CacheHit(r)
  <2>1. /\ UNCHANGED <<record, active, expired, diff, listed, began>>
        /\ pc[r] \notin {"list", "record"}
        /\ pc'[r] \notin {"latest", "record"}
        /\ \A q \in Request \ {r} : pc'[q] = pc[q]
    BY <1>0, <1>2 DEF FetchFails, FetchBreaks, Fetch, Compare, CacheHit, database, outside
  <2>2. \A q \in Request : AtRisk(q)' => AtRisk(q) /\ began'[q] = began[q]
    BY <2>1 DEF AtRisk, Listing
  <2> QED
    BY <1>0, <2>1, <2>2, QuietStep
<1>3. CASE CacheMiss(r)
  <2>1. /\ UNCHANGED <<record, active, expired, diff, listed, began>>
        /\ pc[r] = "latest"
        /\ \A q \in Request \ {r} : pc'[q] = pc[q]
    BY <1>0, <1>3 DEF CacheMiss, database, outside
  <2>2. \A q \in Request : AtRisk(q)' => AtRisk(q) /\ began'[q] = began[q]
    BY <2>1 DEF AtRisk, Listing
  <2> QED
    BY <1>0, <2>1, <2>2, QuietStep
<1>4. CASE Sync(r)
  <2>1. /\ UNCHANGED <<record, expired, listed>>
        /\ pc[r] = "sync" /\ pc'[r] = "list" /\ diff'[r] = Diff(r)
        /\ \A q \in Request \ {r} : /\ pc'[q] = pc[q]
                                     /\ diff'[q] = diff[q] /\ began'[q] = began[q]
        /\ active' = SoftDeleted(r)
    BY <1>0, <1>4 DEF Sync, outside
  <2>2. CASE Diff(r)
    BY <1>0, <2>1, <2>2 DEF Superseded, Relisting
  <2>3. CASE ~Diff(r)
    <3>1. active' = active
        BY <2>1, <2>3 DEF Diff, SoftDeleted, Inserted
    <3>2. \A q \in Request : AtRisk(q)' => AtRisk(q) /\ began'[q] = began[q]
        BY <2>1, <3>1 DEF AtRisk, Listing
    <3> QED
        BY <1>0, <2>1, <3>1, <3>2, QuietStep
  <2> QED
    BY <2>2, <2>3
<1>5. CASE List(r) /\ ~diff[r]
  <2>1. /\ UNCHANGED <<record, active, expired, diff>>
        /\ pc'[r] = "latest" /\ listed'[r] = Listing
        /\ \A q \in Request \ {r} : pc'[q] = pc[q] /\ listed'[q] = listed[q]
    BY <1>0, <1>5 DEF List, database, outside
  <2>2. \A q \in Request \ {r} : began'[q] = began[q]
    BY <1>5, OpenedFacts DEF Inv, List
  <2>3. \A q \in Request : AtRisk(q)' => AtRisk(q) /\ began'[q] = began[q]
    BY <2>1, <2>2 DEF AtRisk, Listing
  <2> QED
    BY <1>0, <1>5, <2>1, <2>2, <2>3, QuietStep
<1>6. CASE List(r) /\ diff[r]
    BY <1>6, RelistStep
<1>7. CASE Record(r)
    BY <1>7, RecordStep
<1>8. CASE Crash(r)
  <2>1. /\ UNCHANGED <<record, active, expired, diff, listed, began>>
        /\ pc'[r] = "done" /\ ~diff[r]
        /\ \A q \in Request \ {r} : pc'[q] = pc[q]
    BY <1>0, <1>8 DEF Crash, database, outside
  <2>2. \A q \in Request : AtRisk(q)' => AtRisk(q) /\ began'[q] = began[q]
    BY <2>1 DEF AtRisk, Listing
  <2> QED
    BY <1>0, <2>1, <2>2, QuietStep
<1> QED
    BY <1>1, <1>2, <1>3, <1>4, <1>5, <1>6, <1>7, <1>8 DEF Lookup

LEMMA NextSuperseded == Inv /\ [Next]_vars => Superseded'
<1> SUFFICES ASSUME Inv, [Next]_vars, ~lost' PROVE Superseded'
    BY DEF Superseded
<1>1. ~lost
  <2>1. \A r \in Request : Lookup(r) => lost' = lost
    BY DEF Lookup, Authenticate, CheckCache, FetchFails, FetchBreaks, Fetch, Compare, Sync,
           List, CacheHit, CacheMiss, Record
  <2>2. \A r \in Request : Crash(r) => lost' = (lost \/ diff[r])
    BY DEF Crash
  <2>3. \A c \in Challan : (VendorChanges(c) => lost' = lost) /\ (AgesOut(c) => lost' = TRUE)
    BY DEF VendorChanges, AgesOut
  <2>4. TtlExpires => lost' = lost
    BY DEF TtlExpires
  <2>5. UNCHANGED vars => lost' = lost
    BY DEF vars
  <2> QED
    BY <2>1, <2>2, <2>3, <2>4, <2>5 DEF Next
<1>2. ASSUME UNCHANGED <<record, active, expired, request>>
      PROVE  Superseded'
  <2>1. UNCHANGED <<pc, began, diff, listed>>
    BY <1>2 DEF request
  <2>2. \A q \in Request : AtRisk(q)' => AtRisk(q) /\ began'[q] = began[q]
    BY <1>2, <2>1 DEF AtRisk, Listing
  <2> QED
    BY <1>1, <1>2, <2>1, <2>2, QuietStep DEF Inv
<1>3. \A c \in Challan : /\ VendorChanges(c) => UNCHANGED <<record, active, expired, request>>
                         /\ AgesOut(c) => lost'
    BY DEF VendorChanges, AgesOut, database
<1>4. TtlExpires => UNCHANGED <<record, active, expired, request>>
    BY DEF TtlExpires, outside
<1>5. UNCHANGED vars => UNCHANGED <<record, active, expired, request>>
    BY DEF vars, request
<1> QED
    BY <1>1, <1>2, <1>3, <1>4, <1>5, LookupSuperseded DEF Next

-----------------------------------------------------------------------------
(* The theorems *)

\* The inductive invariant: types, stamps, and every outdated score superseded.
THEOREM LookupsReconcile == Spec => []Inv
<1>1. Init => Inv
  <2> SUFFICES ASSUME Init PROVE Inv
    OBVIOUS
  <2>1. TypeOK
    BY InitTyped
  <2>2. StampsOK
    BY DEF Init, StampsOK
  <2>3. Superseded
    BY DEF Init, Superseded
  <2> QED
    BY <2>1, <2>2, <2>3 DEF Inv
<1>2. Inv /\ [Next]_vars => Inv'
    BY NextTyped, NextStamps, NextSuperseded DEF Inv
<1> QED
    BY <1>1, <1>2, PTL DEF Spec

\* Every variable keeps its type, and neither a transaction nor a score is dated in the
\* future.
THEOREM ScoresTyped == Spec => []TypeOK
<1>1. Inv => TypeOK
    BY DEF Inv
<1> QED
    BY <1>1, LookupsReconcile, PTL

\* Once all lookups are done the newest score is the score of the challans listed, unless
\* a crash or a challan that aged out left a difference unscored.
THEOREM ScoreStaysCurrent == Spec => []ScoreCurrent
<1>1. Inv => ScoreCurrent
  <2> SUFFICES ASSUME Inv, Quiet, record # None, ~lost PROVE record.of = Listing
    BY DEF ScoreCurrent
  <2>1. ~Relisting /\ \A r \in Request : pc[r] # "record"
    BY DEF Quiet, Relisting
  <2> QED
    BY <2>1 DEF Inv, Superseded, ScoredAfter
<1> QED
    BY <1>1, LookupsReconcile, PTL

=============================================================================
