--------------------------- MODULE MeasuresProofs ---------------------------
(***************************************************************************)
(* The parts that measure and rate, and the rows of vehicles.              *)
(***************************************************************************)
EXTENDS MCMeasures, FoldProofs

-----------------------------------------------------------------------------
(***************************************************************************)
(* Rate limits                                                             *)
(*                                                                         *)
(* The window bound of the rate limiter, for any cost, capacity, number of *)
(* keys and clock that is set back, provided a bucket is kept long enough  *)
(* (BucketAssumption).                                                     *)
(*                                                                         *)
(* WindowBound speaks of packets already admitted.  What makes it last is  *)
(* that the bucket remembers them: what is left plus the debt of the       *)
(* packets since any of them is within the capacity and the refill         *)
(* (Remembered), and a bucket is forgotten only once all its debts are     *)
(* paid, whatever the clock may still lose (Paid).                         *)
(***************************************************************************)
\* What the packets of a key from the i-th on have cost.
Debt(k, i) == (Len(admitted[k]) - i + 1) * Cost

\* A bucket is not further below zero than the clock was set back.
Solvent(k) == buckets[k].left + (now - buckets[k].at) >= -back

Remembered(k) ==
    \A i \in DOMAIN admitted[k] :
        buckets[k].left + Debt(k, i) <= Burst + (buckets[k].at - admitted[k][i])

Paid(k) ==
    \A i \in DOMAIN admitted[k] :
        Debt(k, i) <= (now - admitted[k][i]) - (MaxBack - back)

Ledger == /\ \A k \in Known : Solvent(k) /\ Remembered(k)
          /\ \A k \in Key \ Known : Paid(k)

Inv == TypeOK /\ Ledger /\ WindowBound

-----------------------------------------------------------------------------
(* Arithmetic *)

LEMMA OneMore == ASSUME NEW a \in Int, NEW c \in Int PROVE (a + 1) * c = a * c + c
  OBVIOUS

LEMMA DebtType ==
    ASSUME BucketAssumption, TypeOK, NEW k \in Key, NEW i \in DOMAIN admitted[k]
    PROVE  Debt(k, i) \in Int /\ i \in Nat \ {0} /\ admitted[k][i] \in Nat
  BY DEF BucketAssumption, TypeOK, Debt

\* A key's level is between what the clock has taken and the capacity.
LEMMA LevelBound ==
    ASSUME BucketAssumption, TypeOK, Ledger, NEW k \in Key
    PROVE  /\ Level(k) \in Int /\ -back <= Level(k) /\ Level(k) <= Burst
           /\ k \in Known => Level(k) <= buckets[k].left + (now - buckets[k].at)
           /\ k \notin Known => Level(k) = Burst
  <1>1. now \in Int /\ back \in Nat /\ Burst \in Nat
    BY DEF BucketAssumption, TypeOK
  <1>2. CASE k \in Known
    <2> DEFINE refilled == buckets[k].left + (now - buckets[k].at)
    <2>1. refilled \in Int /\ -back <= refilled
      BY <1>1, <1>2 DEF TypeOK, Ledger, Solvent
    <2>2. Level(k) = IF refilled < Burst THEN refilled ELSE Burst
      BY <1>2 DEF Level
    <2> HIDE DEF refilled
    <2>3. Level(k) \in Int /\ -back <= Level(k) /\ Level(k) <= Burst /\ Level(k) <= refilled
      BY <1>1, <2>1, <2>2
    <2> QED
      BY <1>2, <2>3 DEF refilled
  <1>3. CASE k \notin Known
    BY <1>1, <1>3 DEF Level
  <1> QED
    BY <1>2, <1>3

\* What a key may spend now, with what it has spent, is within capacity and refill.
LEMMA LevelLedger ==
    ASSUME BucketAssumption, TypeOK, Ledger, NEW k \in Key, NEW i \in DOMAIN admitted[k]
    PROVE  Level(k) + Debt(k, i) <= Burst + (now - admitted[k][i])
  <1>1. /\ Debt(k, i) \in Int /\ admitted[k][i] \in Nat /\ Level(k) \in Int
        /\ now \in Int /\ back \in 0..MaxBack /\ Burst \in Nat /\ MaxBack \in Nat
    BY DebtType, LevelBound DEF TypeOK, BucketAssumption
  <1>2. CASE k \in Known
    <2>1. Level(k) <= buckets[k].left + (now - buckets[k].at)
      BY <1>2, LevelBound
    <2>2. buckets[k].left + Debt(k, i) <= Burst + (buckets[k].at - admitted[k][i])
      BY <1>2 DEF Ledger, Remembered
    <2>3. buckets[k].left \in Int /\ buckets[k].at \in Int
      BY <1>1, <1>2 DEF TypeOK
    <2> QED
      BY <1>1, <2>1, <2>2, <2>3
  <1>3. CASE k \notin Known
    <2>1. Level(k) = Burst
      BY <1>3, LevelBound
    <2>2. Debt(k, i) <= (now - admitted[k][i]) - (MaxBack - back)
      BY <1>3 DEF Ledger, Paid
    <2> QED
      BY <1>1, <2>1, <2>2
  <1> QED
    BY <1>2, <1>3

-----------------------------------------------------------------------------
(* Steps *)

LEMMA Initially == ASSUME BucketAssumption, Init PROVE Inv
  <1>1. TypeOK
    BY DEF Init, BucketAssumption, TypeOK, Known
  <1>2. Ledger /\ WindowBound
    BY DEF Init, Ledger, Known, Paid, WindowBound
  <1> QED
    BY <1>1, <1>2 DEF Inv

LEMMA Stutters == Inv /\ UNCHANGED vars => Inv'
  BY DEF Inv, vars, TypeOK, Ledger, WindowBound, Known, Solvent, Remembered, Paid, Debt

LEMMA AdvanceKeeps == ASSUME BucketAssumption, Inv, Advance PROVE Inv'
  <1>1. TypeOK'
    BY DEF Advance, BucketAssumption, Inv, TypeOK, Known
  <1>2. WindowBound'
    BY DEF Advance, Inv, WindowBound
  <1>3. ASSUME NEW k \in Known' PROVE Solvent(k)' /\ Remembered(k)'
    BY DEF Advance, Inv, TypeOK, Ledger, Known, Solvent, Remembered, Debt
  <1>4. ASSUME NEW k \in (Key \ Known)' PROVE Paid(k)'
    <2>1. k \in Key \ Known /\ Paid(k)
      BY DEF Advance, Known, Inv, Ledger
    <2>2. ASSUME NEW i \in DOMAIN admitted[k]
          PROVE  Debt(k, i)' <= (now' - admitted'[k][i]) - (MaxBack - back')
      <3>1. Debt(k, i)' = Debt(k, i)
        BY DEF Advance, Debt
      <3>2. Debt(k, i) \in Int /\ admitted[k][i] \in Nat
        BY <2>1, DebtType DEF Inv
      <3>3. now \in Int /\ back \in Int /\ MaxBack \in Int
        BY DEF Inv, TypeOK, BucketAssumption
      <3> QED
        BY <2>1, <2>2, <3>1, <3>2, <3>3 DEF Advance, Paid
    <2> QED
      BY <2>2 DEF Paid, Advance
  <1> QED
    BY <1>1, <1>2, <1>3, <1>4 DEF Inv, Ledger

LEMMA SetBackKeeps == ASSUME BucketAssumption, Inv, SetBack PROVE Inv'
  <1>1. TypeOK'
    BY DEF SetBack, BucketAssumption, Inv, TypeOK, Known
  <1>2. WindowBound'
    BY DEF SetBack, Inv, WindowBound
  <1>3. ASSUME NEW k \in Known' PROVE Solvent(k)' /\ Remembered(k)'
    <2>1. k \in Known /\ Solvent(k) /\ Remembered(k)
      BY DEF SetBack, Known, Inv, Ledger
    <2>2. Remembered(k)'
      BY <2>1 DEF SetBack, Remembered, Debt
    <2>3. /\ now \in Int /\ back \in Int
          /\ buckets[k].left \in Int /\ buckets[k].at \in Int
      BY <2>1, BucketAssumption DEF Inv, TypeOK, Known
    <2>4. Solvent(k)'
      BY <2>1, <2>3 DEF SetBack, Solvent
    <2> QED
      BY <2>2, <2>4
  <1>4. ASSUME NEW k \in (Key \ Known)' PROVE Paid(k)'
    <2>1. k \in Key \ Known /\ Paid(k)
      BY DEF SetBack, Known, Inv, Ledger
    <2>2. ASSUME NEW i \in DOMAIN admitted[k]
          PROVE  Debt(k, i)' <= (now' - admitted'[k][i]) - (MaxBack - back')
      <3>1. Debt(k, i)' = Debt(k, i)
        BY DEF SetBack, Debt
      <3>2. Debt(k, i) \in Int /\ admitted[k][i] \in Nat
        BY <2>1, DebtType DEF Inv
      <3>3. now \in Int /\ back \in Int /\ MaxBack \in Int
        BY DEF Inv, TypeOK, BucketAssumption
      <3> QED
        BY <2>1, <2>2, <3>1, <3>2, <3>3 DEF SetBack, Paid
    <2> QED
      BY <2>2 DEF Paid, SetBack
  <1> QED
    BY <1>1, <1>2, <1>3, <1>4 DEF Inv, Ledger

\* A bucket goes only when its debts are paid: the threshold covers a full bucket, what
\* the clock took from it and what the clock may still lose.
LEMMA PruneKeeps == ASSUME BucketAssumption, Inv, Prune PROVE Inv'
  <1>1. Known' = {k \in Known : ~Idle(k)} /\ \A k \in Known' : buckets'[k] = buckets[k]
    BY DEF Prune, Known
  <1>2. TypeOK'
    BY <1>1 DEF Prune, Inv, TypeOK
  <1>3. WindowBound'
    BY DEF Prune, Inv, WindowBound
  <1>4. ASSUME NEW k \in Known' PROVE Solvent(k)' /\ Remembered(k)'
    BY <1>1 DEF Prune, Inv, Ledger, Solvent, Remembered, Debt
  <1>5. ASSUME NEW k \in Key \ Known', NEW i \in DOMAIN admitted[k]
        PROVE  Debt(k, i) <= (now - admitted[k][i]) - (MaxBack - back)
    <2>1. CASE k \notin Known
      BY <2>1, <1>5 DEF Inv, Ledger, Paid
    <2>2. CASE k \in Known
      <3>1. now - buckets[k].at > Threshold
        BY <1>1, <1>5, <2>2 DEF Idle
      <3>2. buckets[k].left + Debt(k, i) <= Burst + (buckets[k].at - admitted[k][i])
        BY <2>2, <1>5 DEF Inv, Ledger, Remembered
      <3>3. Debt(k, i) \in Int /\ admitted[k][i] \in Nat
        BY <1>5, DebtType DEF Inv
      <3>4. /\ buckets[k].left \in Int /\ -back <= buckets[k].left /\ buckets[k].at \in Int
            /\ now \in Int /\ back \in 0..MaxBack
        BY <2>2 DEF Inv, TypeOK, BucketAssumption
      <3>5. Burst \in Nat /\ MaxBack \in Nat /\ Threshold \in Nat /\ Threshold >= Burst + 2 * MaxBack
        BY DEF BucketAssumption
      <3> QED
        BY <3>1, <3>2, <3>3, <3>4, <3>5
    <2> QED
      BY <2>1, <2>2
  <1>6. ASSUME NEW k \in (Key \ Known)' PROVE Paid(k)'
    BY <1>5 DEF Prune, Paid, Debt
  <1> QED
    BY <1>2, <1>3, <1>4, <1>6 DEF Inv, Ledger

\* What storing a level leaves as it is.
LEMMA StoreElsewhere ==
    ASSUME BucketAssumption, Inv, NEW k \in Key, NEW left \in Int, Store(k, left),
           UNCHANGED <<now, back>>
    PROVE  /\ Known' = Known \cup {k}
           /\ buckets'[k] = [left |-> left, at |-> now]
           /\ \A x \in Known \ {k} : buckets'[x] = buckets[x]
           /\ -back <= left /\ left <= Burst =>
                 \A x \in Known' : buckets'[x].at \in Nat /\ buckets'[x].left \in (-back)..Burst
  BY DEF Store, Known, Inv, TypeOK, BucketAssumption

LEMMA DenyKeeps == ASSUME BucketAssumption, NEW k \in Key, Inv, Deny(k) PROVE Inv'
  <1> DEFINE level == Level(k)
  <1>1. level \in Int /\ -back <= level /\ level <= Burst
    BY LevelBound DEF Inv
  <1>2. Store(k, level) /\ UNCHANGED <<now, back, admitted>>
    BY DEF Deny
  <1> HIDE DEF level
  <1>3. /\ Known' = Known \cup {k}
        /\ buckets'[k] = [left |-> level, at |-> now]
        /\ \A x \in Known \ {k} : buckets'[x] = buckets[x]
        /\ \A x \in Known' : buckets'[x].at \in Nat /\ buckets'[x].left \in (-back)..Burst
    BY <1>1, <1>2, StoreElsewhere
  <1>4. TypeOK'
    BY <1>2, <1>3 DEF Inv, TypeOK
  <1>5. WindowBound'
    BY <1>2 DEF Inv, WindowBound
  <1>6. Solvent(k)'
    BY <1>1, <1>2, <1>3 DEF Solvent, Inv, TypeOK
  <1>7. Remembered(k)'
    BY <1>2, <1>3, LevelLedger DEF Remembered, Debt, Inv, level
  <1>8. ASSUME NEW x \in Known \ {k} PROVE Solvent(x)' /\ Remembered(x)'
    BY <1>2, <1>3 DEF Inv, Ledger, Solvent, Remembered, Debt
  <1>9. ASSUME NEW x \in (Key \ Known)' PROVE Paid(x)'
    BY <1>2, <1>3 DEF Inv, Ledger, Paid, Debt
  <1> QED
    BY <1>3, <1>4, <1>5, <1>6, <1>7, <1>8, <1>9 DEF Inv, Ledger

\* The packet admitted now owes its own cost, and the earlier ones owe that much more.
LEMMA AllowAddsCost ==
    ASSUME BucketAssumption, TypeOK, NEW k \in Key,
           admitted' = [admitted EXCEPT ![k] = Append(@, now)]
    PROVE  LET n == Len(admitted[k]) IN
           /\ n \in Nat /\ Len(admitted'[k]) = n + 1
           /\ DOMAIN admitted[k] = 1..n /\ DOMAIN admitted'[k] = 1..(n + 1)
           /\ admitted'[k][n + 1] = now
           /\ ((n + 1) - (n + 1) + 1) * Cost = Cost
           /\ \A i \in 1..n : /\ admitted'[k][i] = admitted[k][i]
                              /\ ((n + 1) - i + 1) * Cost = Debt(k, i) + Cost
  <1> DEFINE n == Len(admitted[k])
  <1>1. admitted[k] \in Seq(Nat) /\ now \in Nat /\ Cost \in Int
    BY DEF TypeOK, BucketAssumption
  <1>2. admitted'[k] = Append(admitted[k], now)
    BY DEF TypeOK
  <1>3. /\ n \in Nat /\ Len(admitted'[k]) = n + 1
        /\ DOMAIN admitted[k] = 1..n /\ DOMAIN admitted'[k] = 1..(n + 1)
        /\ admitted'[k][n + 1] = now
        /\ \A i \in 1..n : admitted'[k][i] = admitted[k][i]
    BY <1>1, <1>2
  <1>4. ((n + 1) - (n + 1) + 1) * Cost = Cost
    <2>1. (n + 1) - (n + 1) + 1 = 1 /\ 1 * Cost = Cost
      BY <1>1, <1>3
    <2> QED
      BY <2>1
  <1>5. ASSUME NEW i \in 1..n PROVE ((n + 1) - i + 1) * Cost = Debt(k, i) + Cost
    <2>1. (n - i + 1) \in Int /\ (n + 1) - i + 1 = (n - i + 1) + 1
      BY <1>3
    <2>2. ((n - i + 1) + 1) * Cost = (n - i + 1) * Cost + Cost
      BY <1>1, <2>1, OneMore
    <2> QED
      BY <1>3, <2>1, <2>2 DEF Debt
  <1> QED
    BY <1>3, <1>4, <1>5

LEMMA AllowKeeps == ASSUME BucketAssumption, NEW k \in Key, Inv, Allow(k) PROVE Inv'
  <1> DEFINE level == Level(k)
             n == Len(admitted[k])
             owed(i) == ((n + 1) - i + 1) * Cost
  <1>1. level \in Int /\ level <= Burst /\ Cost <= level /\ Cost \in Nat
    BY LevelBound DEF Allow, Inv, BucketAssumption
  <1>2. /\ Store(k, level - Cost) /\ UNCHANGED <<now, back>>
        /\ admitted' = [admitted EXCEPT ![k] = Append(@, now)]
    BY DEF Allow
  <1>3. /\ n \in Nat /\ DOMAIN admitted[k] = 1..n /\ DOMAIN admitted'[k] = 1..(n + 1)
        /\ Len(admitted'[k]) = n + 1
        /\ admitted'[k][n + 1] = now /\ owed(n + 1) = Cost
        /\ \A i \in 1..n : /\ admitted'[k][i] = admitted[k][i]
                           /\ owed(i) = Debt(k, i) + Cost
    BY <1>2, AllowAddsCost DEF Inv
  <1>4. ASSUME NEW i \in 1..n PROVE level + Debt(k, i) <= Burst + (now - admitted[k][i])
    BY <1>3, LevelLedger DEF Inv
  <1> HIDE DEF level, n, owed
  <1>5. /\ now \in Nat /\ back \in Nat /\ Burst \in Nat
        /\ \A i \in 1..n : Debt(k, i) \in Int /\ admitted[k][i] \in Nat
    BY <1>3, DebtType DEF Inv, TypeOK, BucketAssumption
  <1>6. -back <= level - Cost /\ level - Cost <= Burst /\ level - Cost \in Int
    BY <1>1, <1>5
  <1>7. /\ Known' = Known \cup {k}
        /\ buckets'[k] = [left |-> level - Cost, at |-> now]
        /\ \A x \in Known \ {k} : buckets'[x] = buckets[x]
        /\ \A x \in Known' : buckets'[x].at \in Nat /\ buckets'[x].left \in (-back)..Burst
    BY <1>2, <1>6, StoreElsewhere
  <1>8. /\ admitted' \in [Key -> Seq(Nat)]
        /\ \A x \in Key \ {k} : admitted'[x] = admitted[x]
    BY <1>2, <1>5 DEF Inv, TypeOK
  <1>9. TypeOK'
    BY <1>2, <1>7, <1>8 DEF Inv, TypeOK
  <1>10. Solvent(k)'
    BY <1>2, <1>5, <1>6, <1>7 DEF Solvent
  <1>11. ASSUME NEW i \in 1..n
         PROVE  /\ owed(i) \in Int /\ admitted'[k][i] \in Nat
                /\ (level - Cost) + owed(i) <= Burst + (now - admitted'[k][i])
    <2>1. owed(i) = Debt(k, i) + Cost /\ admitted'[k][i] = admitted[k][i]
      BY <1>3
    <2>2. Debt(k, i) \in Int /\ admitted[k][i] \in Nat
      BY <1>5
    <2>3. level + Debt(k, i) <= Burst + (now - admitted[k][i])
      BY <1>4
    <2> QED
      BY <1>1, <1>5, <2>1, <2>2, <2>3
  <1>12. Remembered(k)'
    <2>1. (level - Cost) + owed(n + 1) <= Burst + (now - admitted'[k][n + 1])
      BY <1>1, <1>3, <1>5
    <2>2. \A i \in 1..(n + 1) : i \in 1..n \/ i = n + 1
      BY <1>3
    <2>3. \A i \in 1..(n + 1) : (level - Cost) + owed(i) <= Burst + (now - admitted'[k][i])
      BY <1>11, <2>1, <2>2
    <2>4. buckets'[k].left = level - Cost /\ buckets'[k].at = now
      BY <1>7
    <2>5. ASSUME NEW i \in DOMAIN admitted'[k]
          PROVE  buckets'[k].left + (Len(admitted'[k]) - i + 1) * Cost
                    <= Burst + (buckets'[k].at - admitted'[k][i])
      <3>1. (Len(admitted'[k]) - i + 1) * Cost = owed(i)
        BY <1>3 DEF owed
      <3>2. (level - Cost) + owed(i) <= Burst + (now - admitted'[k][i])
        BY <1>3, <2>3
      <3> QED
        BY <2>4, <3>1, <3>2
    <2> QED
      BY <2>5 DEF Remembered, Debt
  <1>13. ASSUME NEW x \in Known \ {k} PROVE Solvent(x)' /\ Remembered(x)'
    <2>1. x \in Key
      BY DEF Inv, TypeOK
    <2> QED
      BY <1>2, <1>7, <1>8, <2>1 DEF Inv, Ledger, Solvent, Remembered, Debt
  <1>14. ASSUME NEW x \in (Key \ Known)' PROVE Paid(x)'
    BY <1>2, <1>7, <1>8 DEF Inv, Ledger, Paid, Debt
  <1>15. WindowBound'
    <2>1. ASSUME NEW j \in 1..(n + 1), NEW i \in 1..j
          PROVE  (j - i + 1) * Cost <= Burst + (admitted'[k][j] - admitted'[k][i])
      <3>1. CASE j \in 1..n
        <4>1. i \in 1..n
          BY <1>3, <3>1
        <4>2. (j - i + 1) * Cost <= Burst + (admitted[k][j] - admitted[k][i])
          BY <1>3, <3>1 DEF Inv, WindowBound
        <4> QED
          BY <1>3, <3>1, <4>1, <4>2
      <3>2. CASE j = n + 1 /\ i \in 1..n
        <4>1. (j - i + 1) * Cost = owed(i)
          BY <3>2 DEF owed
        <4>2. /\ owed(i) \in Int /\ admitted'[k][i] \in Nat
              /\ (level - Cost) + owed(i) <= Burst + (now - admitted'[k][i])
          BY <1>11, <3>2
        <4>3. admitted'[k][j] = now
          BY <1>3, <3>2
        <4> QED
          BY <1>1, <1>5, <4>1, <4>2, <4>3
      <3>3. CASE j = n + 1 /\ i = n + 1
        <4>1. j - i + 1 = 1 /\ 1 * Cost = Cost
          BY <1>1, <1>3, <3>3
        <4>2. (j - i + 1) * Cost = Cost
          BY <4>1
        <4>3. admitted'[k][j] = now /\ admitted'[k][i] = now
          BY <1>3, <3>3
        <4>4. Cost <= Burst + (now - now)
          BY <1>1, <1>5
        <4> QED
          BY <4>2, <4>3, <4>4
      <3> QED
        BY <1>3, <3>1, <3>2, <3>3
    <2>2. ASSUME NEW x \in Key \ {k}, NEW j \in DOMAIN admitted'[x], NEW i \in 1..j
          PROVE  (j - i + 1) * Cost <= Burst + (admitted'[x][j] - admitted'[x][i])
      BY <1>8 DEF Inv, WindowBound
    <2> QED
      BY <1>3, <2>1, <2>2 DEF WindowBound
  <1> QED
    BY <1>7, <1>9, <1>10, <1>12, <1>13, <1>14, <1>15 DEF Inv, Ledger

LEMMA StepKeeps == ASSUME BucketAssumption, Inv, [Next]_vars PROVE Inv'
  BY Stutters, AdvanceKeeps, SetBackKeeps, PruneKeeps, AllowKeeps, DenyKeeps DEF Next

\* The buckets account for every packet admitted, at every step.
THEOREM LedgerKept == BucketAssumption /\ Spec => []Inv
  <1> SUFFICES ASSUME BucketAssumption PROVE Spec => []Inv
    OBVIOUS
  <1> QED
    BY Initially, StepKeeps, PTL DEF Spec

\* Every variable of the limiter keeps its type: no bucket exceeds its capacity.
THEOREM LimiterTyped == BucketAssumption /\ Spec => []TypeOK
  <1>1. Inv => TypeOK
    BY DEF Inv
  <1> QED
    BY <1>1, LedgerKept, PTL

\* Whatever is pruned and however the clock is set back, the packets admitted between any
\* two are paid for by a full bucket and the time between.
THEOREM WindowIsBounded == BucketAssumption /\ Spec => []WindowBound
  <1>1. Inv => WindowBound
    BY DEF Inv
  <1> QED
    BY <1>1, LedgerKept, PTL

-----------------------------------------------------------------------------
(***************************************************************************)
(* Vehicles                                                                *)
(*                                                                         *)
(* A vehicle's row has one author, for any number of lookups and any       *)
(* numbers the vendor answers with.                                        *)
(*                                                                         *)
(* InsertedOnce counts lookups that ended; Authored says of each stored    *)
(* row that a lookup that ended with "inserted" wrote it, and no other.    *)
(***************************************************************************)
\* Every variable has its type; a lookup that has an answer is done.
VehicleTypeOK ==
    /\ named \in [Number -> Number] /\ stored \subseteq Number
    /\ lookupPc \in [Request -> {"idle", "fetch", "insert", "done"}]
    /\ asked \in [Request -> Number]
    /\ answer \in [Request -> {"none", "row", "empty", "error", "inserted"}]
    /\ \A r \in Request : lookupPc[r] # "done" => answer[r] = "none"

Inserted(r) == answer[r] = "inserted"

\* The rows and the lookups that inserted them are one to one.
Authored ==
    /\ \A r \in Request : Inserted(r) => RcNumber(r) \in stored
    /\ \A r, s \in Request : Inserted(r) /\ Inserted(s) /\ RcNumber(r) = RcNumber(s) => r = s
    /\ \A n \in stored : \E r \in Request : Inserted(r) /\ RcNumber(r) = n

\* Who was answered with a row asked for a stored one.
RowsExist == \A r \in Request : answer[r] = "row" => asked[r] \in stored

VehicleInv == VehicleTypeOK /\ Authored /\ RowsExist

LEMMA VehiclesInitially == ASSUME Number # {}, VehicleInit PROVE VehicleInv
  <1>1. (CHOOSE n \in Number : TRUE) \in Number
    OBVIOUS
  <1> QED
    BY <1>1 DEF VehicleInit, VehicleInv, VehicleTypeOK, Authored, RowsExist, Inserted

LEMMA VehiclesStutter == VehicleInv /\ UNCHANGED vehicleVars => VehicleInv'
  BY DEF VehicleInv, vehicleVars, VehicleTypeOK, Authored, RowsExist, Inserted, RcNumber

LEMMA GetKeeps == ASSUME NEW r \in Request, VehicleInv, Get(r) PROVE VehicleInv'
  <1>1. PICK n \in Number :
          /\ asked' = [asked EXCEPT ![r] = n]
          /\ IF n \in stored THEN Ends(r, "row") ELSE Goto(r, "fetch") /\ UNCHANGED answer
    BY DEF Get
  <1>2. lookupPc[r] = "idle" /\ answer[r] = "none" /\ UNCHANGED <<named, stored>>
    BY DEF Get, VehicleInv, VehicleTypeOK
  <1>3. CASE n \in stored
    BY <1>1, <1>2, <1>3
       DEF Ends, Goto, VehicleInv, VehicleTypeOK, Authored, RowsExist, Inserted, RcNumber
  <1>4. CASE n \notin stored
    BY <1>1, <1>2, <1>4 DEF Goto, VehicleInv, VehicleTypeOK, Authored, RowsExist, Inserted, RcNumber
  <1> QED
    BY <1>3, <1>4

LEMMA FetchKeeps == ASSUME NEW r \in Request, VehicleInv, Fetch(r) PROVE VehicleInv'
  BY DEF Fetch, Goto, VehicleInv, VehicleTypeOK, Authored, RowsExist, Inserted, RcNumber

LEMMA FetchFailsKeeps == ASSUME NEW r \in Request, VehicleInv, FetchFails(r) PROVE VehicleInv'
  BY DEF FetchFails, Ends, Goto, VehicleInv, VehicleTypeOK, Authored, RowsExist, Inserted, RcNumber

\* The key was free, so no other lookup has inserted it.
LEMMA InsertVehicleKeeps == ASSUME NEW r \in Request, VehicleInv, InsertVehicle(r) PROVE VehicleInv'
  BY DEF InsertVehicle, Taken, Ends, Goto, VehicleInv, VehicleTypeOK, Authored, RowsExist,
         Inserted, RcNumber

LEMMA InsertVehicleFailsKeeps ==
    ASSUME NEW r \in Request, VehicleInv, InsertVehicleFails(r) PROVE VehicleInv'
  BY DEF InsertVehicleFails, Ends, Goto, VehicleInv, VehicleTypeOK, Authored, RowsExist,
         Inserted, RcNumber

LEMMA VehicleStepKeeps == ASSUME VehicleInv, [VehicleNext]_vehicleVars PROVE VehicleInv'
  BY VehiclesStutter, GetKeeps, FetchKeeps, FetchFailsKeeps, InsertVehicleKeeps, InsertVehicleFailsKeeps
     DEF VehicleNext

\* Rows, answers and the lookups that inserted agree at every step.
THEOREM LookupsConsistent == Number # {} /\ VehicleSpec => []VehicleInv
  <1> SUFFICES ASSUME Number # {} PROVE VehicleSpec => []VehicleInv
    OBVIOUS
  <1> QED
    BY VehiclesInitially, VehicleStepKeeps, PTL DEF VehicleSpec

LEMMA AuthorsCounted == VehicleInv => InsertedOnce
  <1> SUFFICES ASSUME VehicleInv PROVE InsertedOnce
    OBVIOUS
  <1> DEFINE inserting(n) == {r \in Request : answer[r] = "inserted" /\ RcNumber(r) = n}
  <1>1. ASSUME NEW n \in stored PROVE Cardinality(inserting(n)) = 1
    <2>1. PICK r \in Request : Inserted(r) /\ RcNumber(r) = n
      BY DEF VehicleInv, Authored
    <2>2. inserting(n) = {r}
      BY <2>1 DEF VehicleInv, Authored, Inserted
    <2> QED
      BY <2>2, FS_Singleton
  <1>2. ASSUME NEW n \in Number \ stored PROVE Cardinality(inserting(n)) = 0
    <2>1. inserting(n) = {}
      BY DEF VehicleInv, Authored, Inserted
    <2> QED
      BY <2>1, FS_EmptySet
  <1>3. ASSUME NEW r \in Request, answer[r] = "row" PROVE inserting(asked[r]) # {}
    BY <1>3 DEF VehicleInv, RowsExist, Authored, Inserted
  <1> QED
    BY <1>1, <1>2, <1>3 DEF InsertedOnce

\* However first lookups overlap, one request inserts a row, and who is answered with a row
\* is answered with one that a lookup inserted.
THEOREM RowHasOneAuthor == Number # {} /\ VehicleSpec => []InsertedOnce
  BY LookupsConsistent, AuthorsCounted, PTL

-----------------------------------------------------------------------------
(***************************************************************************)
(* Trip metrics                                                            *)
(*                                                                         *)
(* For the odometer the trip remembers the highest reading so far          *)
(* (OdometerKept): small steps back do not move it, so the segments add up *)
(* to what it advanced.  For the speeds it remembers the extremes of those *)
(* seen (SpeedsKept).  Hours and shares grow by one segment at a time      *)
(* (Measures), and every save that rounds moves a share by less than half  *)
(* a step of the grid.  The trip and its mirror differ by those roundings, *)
(* and by segments measured from a replaced position (Like).               *)
(***************************************************************************)
Part == {"startAt", "start", "at", "pos", "odo", "distance", "day", "night", "dayTime",
         "nightTime", "max", "min", "alerts"}

\* An OpenTrip: its parts, its positions and its last time.
IsTrip(t) == /\ DOMAIN t = Part /\ t = [x \in Part |-> t[x]]
             /\ t.pos \in Position /\ t.start \in Position /\ t.at \in Nat

Trips == phase # "idle" => IsTrip(trip) /\ IsTrip(mirror)

EventsTyped == /\ events \in Seq([at : Nat, reading : Reading])
               /\ phase = "idle" <=> events = <<>>

IsTop(o, ev) == /\ \E j \in 1..Len(ev) : ev[j].reading.odo = o
                /\ \A j \in 1..Len(ev) : ev[j].reading.odo <= o

\* An open trip remembers the highest reading, and has advanced by it.
OdometerKept ==
    phase = "open" /\ Steady => /\ IsTop(trip.odo, events)
                                /\ trip.distance = trip.odo - Odo(1)

Speed(i) == events[i].reading.speed
Moving(s) == Valid(s) /\ s >= MinSpeed

\* A trip remembers the extreme speeds seen, and counts the alerts.
SpeedsKept ==
    phase # "idle" =>
        /\ \A i \in DOMAIN events :
              /\ Valid(Speed(i)) => trip.max # Unknown /\ Speed(i) <= trip.max
              /\ Moving(Speed(i)) => trip.min # Unknown /\ trip.min <= Speed(i)
        /\ trip.max = Unknown \/ \E i \in DOMAIN events : trip.max = Speed(i) /\ Valid(Speed(i))
        /\ trip.min = Unknown \/ \E i \in DOMAIN events : trip.min = Speed(i) /\ Moving(Speed(i))
        /\ trip.alerts = Cardinality({i \in DOMAIN events : events[i].reading.alert})

MetricsInv == /\ Trips /\ EventsTyped /\ SpeedsKept
              /\ OdometerKept /\ OdometerTelescopes

-----------------------------------------------------------------------------
(* What an event does to a trip *)

\* The parts of a trip that the speeds and alerts do not touch.
SameBut(s, t, parts) == \A x \in Part \ parts : s[x] = t[x]

LEMMA ObserveKeeps ==
    ASSUME NEW t, IsTrip(t), NEW e
    PROVE  /\ IsTrip(Observe(t, e)) /\ SameBut(Observe(t, e), t, {"max", "min", "alerts"})
           /\ Observe(t, e).max = IF Valid(e.speed) /\ (t.max = Unknown \/ e.speed > t.max)
                                  THEN e.speed ELSE t.max
           /\ Observe(t, e).min = IF Moving(e.speed) /\ (t.min = Unknown \/ e.speed < t.min)
                                  THEN e.speed ELSE t.min
           /\ Observe(t, e).alerts = IF e.alert THEN t.alerts + 1 ELSE t.alerts
  BY DEF Observe, IsTrip, SameBut, Part, Moving

LEMMA DrivenKeeps ==
    ASSUME NEW t, IsTrip(t), NEW at \in Nat, NEW e
    PROVE  /\ IsTrip(Driven(t, at, e))
           /\ Driven(t, at, e).distance = t.distance + Segment(t.odo, t.pos, e)
           /\ SameBut(Driven(t, at, e), t,
                      {"distance", "day", "night", "dayTime", "nightTime", "max", "min", "alerts"})
           /\ \A x \in {"max", "min", "alerts"} : Driven(t, at, e)[x] = Observe(t, e)[x]
  <1> DEFINE segment == Segment(t.odo, t.pos, e)
             split == Split(t.at, at, segment)
             u == [t EXCEPT !.distance = @ + segment, !.day = @ + split.day,
                            !.night = @ + split.night, !.dayTime = @ + split.dayTime,
                            !.nightTime = @ + split.nightTime]
  <1>1. Driven(t, at, e) = Observe(u, e)
    BY DEF Driven
  <1> HIDE DEF split
  <1>2. /\ IsTrip(u) /\ u.distance = t.distance + segment
        /\ SameBut(u, t, {"distance", "day", "night", "dayTime", "nightTime"})
    BY DEF IsTrip, SameBut, Part
  <1>3. u.max = t.max /\ u.min = t.min /\ u.alerts = t.alerts
    BY <1>2 DEF SameBut, Part
  <1> HIDE DEF u
  <1>4. /\ IsTrip(Observe(u, e)) /\ SameBut(Observe(u, e), u, {"max", "min", "alerts"})
    BY <1>2, ObserveKeeps
  <1>5. \A x \in {"max", "min", "alerts"} : Observe(u, e)[x] = Observe(t, e)[x]
    <2>1. Observe(u, e).max = Observe(t, e).max
      <3>1. Observe(u, e).max = IF Valid(e.speed) /\ (u.max = Unknown \/ e.speed > u.max)
                              THEN e.speed ELSE u.max
        BY <1>2, ObserveKeeps
      <3>2. Observe(t, e).max = IF Valid(e.speed) /\ (t.max = Unknown \/ e.speed > t.max)
                              THEN e.speed ELSE t.max
        BY ObserveKeeps
      <3> QED
        BY <1>3, <3>1, <3>2
    <2>2. Observe(u, e).min = Observe(t, e).min
      <3>1. Observe(u, e).min = IF Moving(e.speed) /\ (u.min = Unknown \/ e.speed < u.min)
                              THEN e.speed ELSE u.min
        BY <1>2, ObserveKeeps
      <3>2. Observe(t, e).min = IF Moving(e.speed) /\ (t.min = Unknown \/ e.speed < t.min)
                              THEN e.speed ELSE t.min
        BY ObserveKeeps
      <3> QED
        BY <1>3, <3>1, <3>2
    <2>3. Observe(u, e).alerts = Observe(t, e).alerts
      <3>1. Observe(u, e).alerts = IF e.alert THEN u.alerts + 1 ELSE u.alerts
        BY <1>2, ObserveKeeps
      <3>2. Observe(t, e).alerts = IF e.alert THEN t.alerts + 1 ELSE t.alerts
        BY ObserveKeeps
      <3>3. u.alerts = t.alerts
        BY <1>3
      <3>4. CASE e.alert
        BY <3>1, <3>2, <3>3, <3>4
      <3>5. CASE ~e.alert
        BY <3>1, <3>2, <3>3, <3>5
      <3> QED
        BY <3>4, <3>5
    <2> QED
      BY <2>1, <2>2, <2>3
  <1> HIDE DEF segment
  <1> QED
    BY <1>1, <1>2, <1>4, <1>5 DEF SameBut, Part, segment

LEMMA MovedKeeps ==
    ASSUME NEW t, IsTrip(t), NEW at \in Nat, NEW e \in Reading
    PROVE  /\ IsTrip(Moved(t, at, e)) /\ Moved(t, at, e).at = at
           /\ Moved(t, at, e).odo = Odometer(t.odo, e)
           /\ Moved(t, at, e).distance = t.distance + Segment(t.odo, t.pos, e)
           /\ \A x \in {"max", "min", "alerts"} : Moved(t, at, e)[x] = Observe(t, e)[x]
  <1> DEFINE u == Driven(t, at, e)
             o == Odometer(t.odo, e)
  <1>1. Moved(t, at, e) = [u EXCEPT !.at = at, !.pos = e.pos, !.odo = o]
    BY DEF Moved
  <1>2. e.pos \in Position
    BY ReadingAssumption
  <1> HIDE DEF u, o
  <1>3. IsTrip(u) /\ u.distance = t.distance + Segment(t.odo, t.pos, e)
        /\ \A x \in {"max", "min", "alerts"} : u[x] = Observe(t, e)[x]
    BY DrivenKeeps DEF u
  <1>4. IsTrip([u EXCEPT !.at = at, !.pos = e.pos, !.odo = o])
    BY <1>2, <1>3 DEF IsTrip, Part
  <1>5. /\ Moved(t, at, e).at = at /\ Moved(t, at, e).odo = o
        /\ \A x \in {"distance", "max", "min", "alerts"} : Moved(t, at, e)[x] = u[x]
    BY <1>1, <1>3 DEF IsTrip, Part
  <1>6. Moved(t, at, e).odo = Odometer(t.odo, e)
    BY <1>5 DEF o
  <1> HIDE DEF Moved, Observe, Odometer, Segment
  <1> QED
    BY <1>1, <1>3, <1>4, <1>5, <1>6

LEMMA EndedKeeps ==
    ASSUME NEW t, IsTrip(t), NEW at \in Nat, NEW e \in Reading
    PROVE  /\ IsTrip(Ended(t, at, e))
           /\ Ended(t, at, e).distance = t.distance + Segment(t.odo, t.pos, e)
           /\ \A x \in {"max", "min", "alerts"} : Ended(t, at, e)[x] = Observe(t, e)[x]
  <1> DEFINE u == Driven(t, at, e)
  <1>1. Ended(t, at, e) = [u EXCEPT !.at = at, !.pos = e.pos]
    BY DEF Ended
  <1>2. e.pos \in Position
    BY ReadingAssumption
  <1> HIDE DEF u
  <1>3. IsTrip(u) /\ u.distance = t.distance + Segment(t.odo, t.pos, e)
        /\ \A x \in {"max", "min", "alerts"} : u[x] = Observe(t, e)[x]
    BY DrivenKeeps DEF u
  <1>4. IsTrip([u EXCEPT !.at = at, !.pos = e.pos])
    BY <1>2, <1>3 DEF IsTrip, Part
  <1> QED
    BY <1>1, <1>3, <1>4 DEF IsTrip, Part

LEMMA BegunTrip ==
    ASSUME NEW at \in Nat, NEW e \in Reading
    PROVE  /\ IsTrip(Begun(at, e)) /\ Begun(at, e).odo = e.odo /\ Begun(at, e).distance = 0
           /\ Begun(at, e).max = IF Valid(e.speed) THEN e.speed ELSE Unknown
           /\ Begun(at, e).min = IF Moving(e.speed) THEN e.speed ELSE Unknown
           /\ Begun(at, e).alerts = IF e.alert THEN 1 ELSE 0
  <1> DEFINE t == [startAt |-> at, start |-> e.pos, at |-> at, pos |-> e.pos, odo |-> e.odo,
                   distance |-> 0, day |-> 0, night |-> 0, dayTime |-> 0, nightTime |-> 0,
                   max |-> Unknown, min |-> Unknown, alerts |-> 0]
  <1>1. Begun(at, e) = Observe(t, e)
    BY DEF Begun
  <1>2. e.pos \in Position
    BY ReadingAssumption
  <1>3. IsTrip(t) /\ t.odo = e.odo /\ t.distance = 0 /\ t.max = Unknown /\ t.min = Unknown
        /\ t.alerts = 0
    BY <1>2 DEF IsTrip, Part
  <1> HIDE DEF t
  <1>4. IsTrip(Observe(t, e)) /\ SameBut(Observe(t, e), t, {"max", "min", "alerts"})
    BY <1>3, ObserveKeeps
  <1>5. Observe(t, e).odo = e.odo /\ Observe(t, e).distance = 0
    BY <1>3, <1>4 DEF SameBut, Part
  <1>6. Observe(t, e).max = IF Valid(e.speed) THEN e.speed ELSE Unknown
    BY <1>3, ObserveKeeps
  <1>7. Observe(t, e).min = IF Moving(e.speed) THEN e.speed ELSE Unknown
    BY <1>3, ObserveKeeps
  <1>8. Observe(t, e).alerts = IF e.alert THEN 1 ELSE 0
    <2>1. Observe(t, e).alerts = IF e.alert THEN t.alerts + 1 ELSE t.alerts
      BY <1>3, ObserveKeeps
    <2> QED
      BY <1>3, <2>1
  <1> QED
    BY <1>1, <1>4, <1>5, <1>6, <1>7, <1>8

\* Saving a trip rounds its shares, and restoring it changes its position at most.
LEMMA SavedKeeps ==
    ASSUME NEW t, IsTrip(t)
    PROVE  /\ IsTrip(Saved(t)) /\ SameBut(Saved(t), t, {"day", "night"})
           /\ Saved(t).day = Rounded(t.day) /\ Saved(t).night = Rounded(t.night)
  <1> DEFINE day == Rounded(t.day)
             night == Rounded(t.night)
  <1>1. Saved(t) = [t EXCEPT !.day = day, !.night = night]
    BY DEF Saved
  <1> HIDE DEF day, night
  <1>2. /\ IsTrip(Saved(t)) /\ SameBut(Saved(t), t, {"day", "night"})
        /\ Saved(t).day = day /\ Saved(t).night = night
    BY <1>1 DEF IsTrip, SameBut, Part
  <1> QED
    BY <1>2 DEF day, night

LEMMA RestoredKeeps ==
    ASSUME NEW t, IsTrip(t)
    PROVE  /\ IsTrip(Restored(t)) /\ SameBut(Restored(t), t, {"pos"})
           /\ Restored(t).pos = [lat |-> Or(t.pos.lat, t.start.lat),
                                 lon |-> Or(t.pos.lon, t.start.lon)]
  <1> DEFINE p == [lat |-> Or(t.pos.lat, t.start.lat), lon |-> Or(t.pos.lon, t.start.lon)]
  <1>1. Restored(t) = [t EXCEPT !.pos = p]
    BY DEF Restored
  <1>2. p \in Position
    BY DEF IsTrip, Position, Or
  <1> HIDE DEF p
  <1>3. IsTrip(Restored(t)) /\ SameBut(Restored(t), t, {"pos"}) /\ Restored(t).pos = p
    BY <1>1, <1>2 DEF IsTrip, SameBut, Part
  <1> QED
    BY <1>3 DEF p

-----------------------------------------------------------------------------
(* One more event *)

LEMMA OneMoreEvent ==
    ASSUME EventsTyped, NEW at \in Nat, NEW e \in Reading, Absorbed(at, e)
    PROVE  /\ events' \in Seq([at : Nat, reading : Reading]) /\ events' # <<>>
           /\ Len(events) \in Nat /\ Len(events') = Len(events) + 1
           /\ DOMAIN events' = 1..Len(events) + 1 /\ DOMAIN events = 1..Len(events)
           /\ \A i \in 1..Len(events) : events'[i] = events[i] /\ events[i].reading \in Reading
           /\ events'[Len(events) + 1].reading = e
  <1>1. [at |-> at, reading |-> e] \in [at : Nat, reading : Reading]
    OBVIOUS
  <1> DEFINE last == [at |-> at, reading |-> e]
             T == [at : Nat, reading : Reading]
  <1>2. events \in Seq(T) /\ last \in T /\ last.reading = e /\ events' = Append(events, last)
    BY <1>1 DEF EventsTyped, Absorbed
  <1>3. \A x \in T : x.reading \in Reading
    OBVIOUS
  <1> HIDE DEF last, T
  <1>4. /\ events' \in Seq(T) /\ Len(events) \in Nat /\ Len(events') = Len(events) + 1
        /\ DOMAIN events = 1..Len(events) /\ DOMAIN events' = 1..Len(events) + 1
        /\ \A i \in 1..Len(events) : events'[i] = events[i] /\ events[i] \in T
        /\ events'[Len(events) + 1] = last
    BY <1>2
  <1>5. events' # <<>>
    BY <1>4
  <1> QED
    BY <1>2, <1>3, <1>4, <1>5 DEF T

\* The highest of the first n readings.
HighestOf(ev, n) == CHOOSE o \in {ev[j].reading.odo : j \in 1..n} :
                        \A j \in 1..n : ev[j].reading.odo <= o

\* A highest reading is the one Highest chooses.
LEMMA HighestIs ==
    ASSUME NEW ev, \A j \in 1..Len(ev) : ev[j].reading.odo \in Int, NEW o, IsTop(o, ev)
    PROVE  HighestOf(ev, Len(ev)) = o
  <1> DEFINE n == Len(ev)
             f(j) == ev[j].reading.odo
  <1>1. (\E j \in 1..n : f(j) = o) /\ (\A j \in 1..n : f(j) <= o) /\ \A j \in 1..n : f(j) \in Int
    BY DEF IsTop
  <1>2. HighestOf(ev, n) = CHOOSE x \in {f(j) : j \in 1..n} : \A j \in 1..n : f(j) <= x
    BY DEF HighestOf
  <1> HIDE DEF n, f
  <1>3. \E x \in {f(j) : j \in 1..n} : \A j \in 1..n : f(j) <= x
    BY <1>1
  <1>4. /\ HighestOf(ev, n) \in {f(j) : j \in 1..n}
        /\ \A j \in 1..n : f(j) <= HighestOf(ev, n)
    BY <1>2, <1>3
  <1> QED
    BY <1>1, <1>4 DEF n

\* The highest of the first readings does not change when one is added.
LEMMA HighestBefore ==
    ASSUME NEW f, NEW g, NEW n, \A j \in 1..n : f[j] = g[j]
    PROVE  HighestOf(f, n) = HighestOf(g, n)
  <1>1. {f[j].reading.odo : j \in 1..n} = {g[j].reading.odo : j \in 1..n}
    OBVIOUS
  <1>2. \A o : (\A j \in 1..n : f[j].reading.odo <= o) <=> (\A j \in 1..n : g[j].reading.odo <= o)
    OBVIOUS
  <1> QED
    BY <1>1, <1>2 DEF HighestOf

\* A reading is steady when it and all before it are.
LEMMA SteadyBefore ==
    ASSUME EventsTyped, NEW at \in Nat, NEW e \in Reading, Absorbed(at, e), Steady'
    PROVE  /\ Steady /\ e.odo \in Int /\ e.odo # Unknown
           /\ \A j \in 1..Len(events) : Odo(j) \in Int /\ Odo(j) # Unknown
           /\ Len(events) > 0 => /\ e.odo - Highest(Len(events)) <= ResetThreshold
                                 /\ Highest(Len(events)) - e.odo < NoiseThreshold
  <1> DEFINE n == Len(events)
  <1>1. /\ n \in Nat /\ Len(events') = n + 1 /\ DOMAIN events' = 1..n + 1
        /\ DOMAIN events = 1..n /\ events'[n + 1].reading = e
        /\ \A i \in 1..n : events'[i] = events[i] /\ events[i].reading \in Reading
    BY OneMoreEvent
  <1>2. \A i \in 1..n + 1 : events'[i].reading.odo # Unknown
    BY <1>1 DEF Steady, Odo
  <1>3. \A i \in 2..n + 1 :
            /\ events'[i].reading.odo - HighestOf(events', i - 1) <= ResetThreshold
            /\ HighestOf(events', i - 1) - events'[i].reading.odo < NoiseThreshold
    BY <1>1 DEF Steady, Odo, Highest, HighestOf
  <1>4. \A i \in 0..n : HighestOf(events', i) = Highest(i)
    <2> TAKE i \in 0..n
    <2>1. \A j \in 1..i : events'[j] = events[j]
      BY <1>1
    <2>2. Highest(i) = HighestOf(events, i)
      BY DEF Highest, HighestOf, Odo
    <2> QED
      BY <2>1, <2>2, HighestBefore
  <1>5. \A r \in Reading : r.odo # Unknown => r.odo \in Int
    BY ReadingAssumption DEF Measured
  <1>6. e.odo \in Int /\ e.odo # Unknown
    BY <1>1, <1>2, <1>5
  <1>7. \A j \in 1..n : Odo(j) \in Int /\ Odo(j) # Unknown
    BY <1>1, <1>2, <1>5 DEF Odo
  <1>8. Steady
    <2>1. ASSUME NEW i \in 2..n
          PROVE  /\ Odo(i) - Highest(i - 1) <= ResetThreshold
                 /\ Highest(i - 1) - Odo(i) < NoiseThreshold
      <3>1. i - 1 \in 0..n /\ i \in 2..n + 1 /\ events'[i].reading.odo = Odo(i)
        BY <1>1 DEF Odo
      <3>2. HighestOf(events', i - 1) = Highest(i - 1)
        BY <1>4, <3>1
      <3> QED
        BY <1>3, <3>1, <3>2
    <2> QED
      BY <1>1, <1>7, <2>1 DEF Steady
  <1>9. n > 0 => e.odo - Highest(n) <= ResetThreshold /\ Highest(n) - e.odo < NoiseThreshold
    <2> SUFFICES ASSUME n > 0
                 PROVE  e.odo - Highest(n) <= ResetThreshold /\ Highest(n) - e.odo < NoiseThreshold
      OBVIOUS
    <2>1. n + 1 \in 2..n + 1 /\ (n + 1) - 1 = n /\ n \in 0..n
      BY <1>1
    <2> QED
      BY <1>1, <1>3, <1>4, <2>1
  <1> QED
    BY <1>6, <1>7, <1>8, <1>9

\* A steady reading advances the highest one by the segment, and the cursor keeps it.
LEMMA SteadySegment ==
    ASSUME NEW o \in Int, o # Unknown, NEW e, e.odo \in Int, e.odo # Unknown, NEW p,
           e.odo - o <= ResetThreshold, o - e.odo < NoiseThreshold
    PROVE  /\ Odometer(o, e) = IF e.odo >= o THEN e.odo ELSE o
           /\ Segment(o, p, e) = (IF e.odo >= o THEN e.odo ELSE o) - o
  BY DEF Odometer, Segment, ByPosition, ResetThreshold, NoiseThreshold

\* The distance of a trip and the highest reading move together.
LEMMA OdometerStep ==
    ASSUME EventsTyped, OdometerKept, phase = "open", NEW at \in Nat, NEW e \in Reading,
           Absorbed(at, e), Steady', NEW p
    PROVE  /\ IsTop(Odometer(trip.odo, e), events')
           /\ HighestOf(events', Len(events')) = Odometer(trip.odo, e)
           /\ trip.distance + Segment(trip.odo, p, e)
                = Odometer(trip.odo, e) - events'[1].reading.odo
  <1> DEFINE n == Len(events)
             o == trip.odo
             h == Odometer(o, e)
             f(j) == events'[j].reading.odo
  <1>1. /\ n \in Nat /\ Len(events') = n + 1 /\ events'[n + 1].reading = e
        /\ \A j \in 1..n : events'[j] = events[j]
    BY OneMoreEvent
  <1>2. n > 0
    BY <1>1 DEF EventsTyped
  <1>3. /\ Steady /\ e.odo \in Int /\ e.odo # Unknown
        /\ \A j \in 1..n : Odo(j) \in Int /\ Odo(j) # Unknown
        /\ e.odo - Highest(n) <= ResetThreshold /\ Highest(n) - e.odo < NoiseThreshold
    BY <1>2, SteadyBefore
  <1>4. IsTop(o, events) /\ trip.distance = o - Odo(1)
    BY <1>3 DEF OdometerKept
  <1>5. (\E j \in 1..n : Odo(j) = o) /\ \A j \in 1..n : Odo(j) <= o
    BY <1>4 DEF IsTop, Odo
  <1>6. Highest(n) = o
    <2>1. \A j \in 1..n : events[j].reading.odo \in Int
      BY <1>3 DEF Odo
    <2>2. Highest(n) = HighestOf(events, n)
      BY DEF Highest, HighestOf, Odo
    <2> QED
      BY <1>4, <2>1, <2>2, HighestIs
  <1>7. o \in Int /\ o # Unknown
    BY <1>3, <1>5
  <1>8. h = (IF e.odo >= o THEN e.odo ELSE o) /\ Segment(o, p, e) = h - o
    BY <1>3, <1>6, <1>7, SteadySegment
  <1>9. /\ \A j \in 1..n : f(j) = Odo(j)
        /\ f(n + 1) = e.odo
    BY <1>1 DEF Odo
  <1> HIDE DEF n, o, h, f
  <1>10. \E j \in 1..n + 1 : f(j) = h
    <2>1. CASE e.odo >= o
      BY <1>1, <1>8, <1>9, <2>1
    <2>2. CASE ~(e.odo >= o)
      BY <1>1, <1>5, <1>8, <1>9, <2>2
    <2> QED
      BY <2>1, <2>2
  <1>11. \A j \in 1..n + 1 : f(j) <= h /\ f(j) \in Int
    <2>1. \A j \in 1..n : f(j) <= h /\ f(j) \in Int
      BY <1>1, <1>3, <1>5, <1>7, <1>8, <1>9
    <2>2. f(n + 1) <= h /\ f(n + 1) \in Int
      BY <1>3, <1>7, <1>8, <1>9
    <2>3. \A j \in 1..n + 1 : j \in 1..n \/ j = n + 1
      BY <1>1
    <2> QED
      BY <2>1, <2>2, <2>3
  <1>12. IsTop(h, events')
    BY <1>1, <1>10, <1>11 DEF IsTop, f
  <1>13. HighestOf(events', Len(events')) = h
    <2>1. \A j \in 1..Len(events') : events'[j].reading.odo \in Int
      BY <1>1, <1>11 DEF f
    <2> QED
      BY <1>12, <2>1, HighestIs
  <1>14. trip.distance + Segment(o, p, e) = h - f(1)
    <2>1. f(1) = Odo(1) /\ Odo(1) \in Int /\ h \in Int
      BY <1>1, <1>2, <1>3, <1>7, <1>8, <1>9
    <2> QED
      BY <1>4, <1>7, <1>8, <2>1
  <1> QED
    BY <1>12, <1>13, <1>14 DEF h, o, f

-----------------------------------------------------------------------------
(* Every step *)

\* The counts and bounds of the speeds take the new reading in.
LEMMA SpeedsStep ==
    ASSUME EventsTyped, SpeedsKept, phase = "open", NEW at \in Nat, NEW e \in Reading,
           Absorbed(at, e), IsTrip(trip),
           \A x \in {"max", "min", "alerts"} : trip'[x] = Observe(trip, e)[x]
    PROVE  SpeedsKept'
  <1> DEFINE n == Len(events)
             s(j) == events'[j].reading.speed
             lo == trip.min
             hi == trip.max
  <1>1. /\ n \in Nat /\ Len(events') = n + 1 /\ events'[n + 1].reading = e
        /\ DOMAIN events' = 1..n + 1 /\ DOMAIN events = 1..n
        /\ \A j \in 1..n : events'[j] = events[j]
    BY OneMoreEvent
  <1>2. /\ \A j \in 1..n : /\ Valid(Speed(j)) => hi # Unknown /\ Speed(j) <= hi
                           /\ Moving(Speed(j)) => lo # Unknown /\ lo <= Speed(j)
        /\ hi = Unknown \/ \E j \in 1..n : hi = Speed(j) /\ Valid(Speed(j))
        /\ lo = Unknown \/ \E j \in 1..n : lo = Speed(j) /\ Moving(Speed(j))
        /\ trip.alerts = Cardinality({j \in 1..n : events[j].reading.alert})
    BY <1>1 DEF SpeedsKept
  <1>3. /\ trip'.max = (IF Valid(e.speed) /\ (hi = Unknown \/ e.speed > hi) THEN e.speed ELSE hi)
        /\ trip'.min = (IF Moving(e.speed) /\ (lo = Unknown \/ e.speed < lo) THEN e.speed ELSE lo)
        /\ trip'.alerts = (IF e.alert THEN trip.alerts + 1 ELSE trip.alerts)
    <2>1. /\ trip'.max = Observe(trip, e).max /\ trip'.min = Observe(trip, e).min
          /\ trip'.alerts = Observe(trip, e).alerts
      OBVIOUS
    <2> QED
      BY <2>1, ObserveKeeps
  <1>4. (\A j \in 1..n : s(j) = Speed(j)) /\ s(n + 1) = e.speed
    BY <1>1 DEF Speed
  <1>5. /\ e.speed \in Measured /\ e.alert \in BOOLEAN
        /\ \A x \in Measured : x # Unknown => x \in Int
    BY ReadingAssumption DEF Measured
  <1>6. \A x : Moving(x) => x # Unknown /\ Valid(x) /\ x >= MinSpeed
    BY DEF Moving, Valid
  <1>7. \A j \in 1..n : Speed(j) \in Measured
    <2>1. \A j \in 1..n : events[j].reading \in Reading
      BY OneMoreEvent
    <2> QED
      BY <2>1, ReadingAssumption DEF Speed
  <1> HIDE DEF n, s, lo, hi
  <1>8. \A j \in 1..n + 1 : j \in 1..n \/ j = n + 1
    BY <1>1
  <1>9. lo \in Measured /\ hi \in Measured
    BY <1>2, <1>7 DEF Measured
  <1>10. trip'.max = Unknown \/ \E j \in 1..n + 1 : trip'.max = s(j) /\ Valid(s(j))
    <2>1. CASE trip'.max = e.speed /\ Valid(e.speed)
      BY <1>1, <1>4, <2>1
    <2>2. CASE trip'.max = hi
      <3>1. hi = Unknown \/ \E j \in 1..n : hi = s(j) /\ Valid(s(j))
        BY <1>2, <1>4
      <3>2. \A j \in 1..n : j \in 1..n + 1
        BY <1>1
      <3> QED
        BY <2>2, <3>1, <3>2
    <2> QED
      BY <1>3, <2>1, <2>2
  <1>11. trip'.min = Unknown \/ \E j \in 1..n + 1 : trip'.min = s(j) /\ Moving(s(j))
    <2>1. CASE trip'.min = e.speed /\ Moving(e.speed)
      BY <1>1, <1>4, <2>1
    <2>2. CASE trip'.min = lo
      <3>1. lo = Unknown \/ \E j \in 1..n : lo = s(j) /\ Moving(s(j))
        BY <1>2, <1>4
      <3>2. \A j \in 1..n : j \in 1..n + 1
        BY <1>1
      <3> QED
        BY <2>2, <3>1, <3>2
    <2> QED
      BY <1>3, <2>1, <2>2
  <1>12. \A j \in 1..n + 1 : /\ Valid(s(j)) => trip'.max # Unknown /\ s(j) <= trip'.max
                             /\ Moving(s(j)) => trip'.min # Unknown /\ trip'.min <= s(j)
    <2>1. Valid(e.speed) => e.speed \in Int /\ e.speed # Unknown
      BY <1>5 DEF Valid
    <2>2. (lo # Unknown => lo \in Int) /\ (hi # Unknown => hi \in Int)
      BY <1>5, <1>9
    <2>3. ASSUME NEW j \in 1..n, Valid(s(j)) PROVE trip'.max # Unknown /\ s(j) <= trip'.max
      <3>1. hi # Unknown /\ s(j) <= hi /\ hi \in Int /\ s(j) \in Int
        BY <1>2, <1>4, <1>5, <1>7, <2>2, <2>3 DEF Valid
      <3> QED
        BY <1>3, <2>1, <3>1
    <2>4. ASSUME NEW j \in 1..n, Moving(s(j)) PROVE trip'.min # Unknown /\ trip'.min <= s(j)
      <3>1. lo # Unknown /\ lo <= s(j) /\ lo \in Int /\ s(j) \in Int
        BY <1>2, <1>4, <1>5, <1>6, <1>7, <2>2, <2>4
      <3> QED
        BY <1>3, <1>6, <2>1, <3>1
    <2>5. Valid(e.speed) => trip'.max # Unknown /\ e.speed <= trip'.max
      BY <1>3, <2>1, <2>2
    <2>6. Moving(e.speed) => trip'.min # Unknown /\ trip'.min <= e.speed
      BY <1>3, <1>6, <2>1, <2>2
    <2> QED
      BY <1>4, <1>8, <2>3, <2>4, <2>5, <2>6
  <1>13. trip'.alerts = Cardinality({j \in 1..n + 1 : events'[j].reading.alert})
    <2> DEFINE A == {j \in 1..n : events[j].reading.alert}
               B == {j \in 1..n + 1 : events'[j].reading.alert}
    <2>1. B = IF e.alert THEN A \cup {n + 1} ELSE A
      BY <1>1, <1>8
    <2>2. n + 1 \notin A
      BY <1>1
    <2>3. IsFiniteSet(1..n)
      BY <1>1, FS_Interval
    <2>4. IsFiniteSet(A)
      BY <2>3, FS_Subset
    <2> HIDE DEF A, B
    <2>5. Cardinality(A \cup {n + 1}) = Cardinality(A) + 1
      BY <2>2, <2>4, FS_AddElement
    <2>6. trip.alerts = Cardinality(A)
      BY <1>2 DEF A
    <2> QED
      BY <1>3, <1>5, <2>1, <2>5, <2>6 DEF B
  <1> QED
    BY <1>1, <1>10, <1>11, <1>12, <1>13 DEF SpeedsKept, Speed, s

LEMMA MetricsInitially == MetricsInit => MetricsInv
  BY DEF MetricsInit, MetricsInv, Trips, EventsTyped, SpeedsKept, OdometerKept,
         OdometerTelescopes

\* A step without an event leaves the readings as they were.
LEMMA SameReadings ==
    ASSUME UNCHANGED events
    PROVE  /\ Steady' <=> Steady
           /\ Highest(Len(events))' = Highest(Len(events)) /\ Odo(1)' = Odo(1)
  <1>1. \A i : Odo(i)' = Odo(i)
    BY DEF Odo
  <1>2. \A i : Highest(i)' = HighestOf(events', i) /\ Highest(i) = HighestOf(events, i)
    BY DEF Highest, HighestOf, Odo
  <1>3. Highest(Len(events))' = HighestOf(events', Len(events'))
    BY DEF Highest, HighestOf, Odo
  <1>4. \A i : Highest(i)' = Highest(i)
    BY <1>2
  <1>5. Steady' <=> Steady
    BY <1>1, <1>4 DEF Steady
  <1> QED
    BY <1>1, <1>2, <1>3, <1>5 DEF Odo

LEMMA MetricsStutters == MetricsInv /\ UNCHANGED metricsVars => MetricsInv'
  <1> SUFFICES ASSUME MetricsInv, UNCHANGED metricsVars PROVE MetricsInv'
    OBVIOUS
  <1>1. UNCHANGED <<phase, trip, mirror, events>>
    BY DEF metricsVars
  <1>2. Trips' /\ EventsTyped'
    BY <1>1 DEF MetricsInv, Trips, EventsTyped
  <1>3. SpeedsKept'
    BY <1>1 DEF MetricsInv, SpeedsKept, Speed
  <1>4. OdometerKept' /\ OdometerTelescopes'
    BY <1>1, SameReadings DEF MetricsInv, OdometerKept, OdometerTelescopes, IsTop
  <1> QED
    BY <1>2, <1>3, <1>4 DEF MetricsInv

LEMMA StartTripKeeps == ASSUME MetricsInv, StartTrip PROVE MetricsInv'
  <1>1. PICK at \in StartTime, e \in Reading :
            trip' = Begun(at, e) /\ mirror' = Begun(at, e) /\ Absorbed(at, e)
    BY DEF StartTrip
  <1>2. at \in Nat /\ e.odo \in Measured /\ e.speed \in Measured /\ e.alert \in BOOLEAN
    BY ReadingAssumption
  <1>3. phase' = "open" /\ EventsTyped /\ Len(events) = 0
    BY DEF StartTrip, MetricsInv, EventsTyped
  <1>4. /\ Len(events') = 1 /\ DOMAIN events' = 1..1 /\ events'[1].reading = e
        /\ events' \in Seq([at : Nat, reading : Reading]) /\ events' # <<>>
    <2>1. /\ events' \in Seq([at : Nat, reading : Reading]) /\ events' # <<>>
          /\ Len(events') = Len(events) + 1 /\ DOMAIN events' = 1..Len(events) + 1
          /\ events'[Len(events) + 1].reading = e
      BY <1>1, <1>2, <1>3, OneMoreEvent
    <2> QED
      BY <1>3, <2>1
  <1>5. /\ IsTrip(trip') /\ trip'.odo = e.odo /\ trip'.distance = 0
        /\ trip'.max = (IF Valid(e.speed) THEN e.speed ELSE Unknown)
        /\ trip'.min = (IF Moving(e.speed) THEN e.speed ELSE Unknown)
        /\ trip'.alerts = (IF e.alert THEN 1 ELSE 0)
    BY <1>1, <1>2, BegunTrip
  <1>6. Trips' /\ EventsTyped'
    BY <1>1, <1>3, <1>4, <1>5 DEF Trips, EventsTyped
  <1>7. SpeedsKept'
    <2>1. \A j \in DOMAIN events' : j = 1
      BY <1>4
    <2>2. {j \in DOMAIN events' : events'[j].reading.alert} = IF e.alert THEN {1} ELSE {}
      BY <1>2, <1>4
    <2>3. trip'.alerts = Cardinality({j \in DOMAIN events' : events'[j].reading.alert})
      BY <1>2, <1>5, <2>2, FS_EmptySet, FS_Singleton
    <2>4. /\ Valid(e.speed) => e.speed \in Int /\ e.speed # Unknown
          /\ Moving(e.speed) => Valid(e.speed)
      BY <1>2 DEF Moving, Valid, Measured
    <2>5. /\ trip'.max = Unknown \/ (trip'.max = e.speed /\ Valid(e.speed))
          /\ trip'.min = Unknown \/ (trip'.min = e.speed /\ Moving(e.speed))
      BY <1>5
    <2>6. /\ Valid(e.speed) => trip'.max # Unknown /\ e.speed <= trip'.max
          /\ Moving(e.speed) => trip'.min # Unknown /\ trip'.min <= e.speed
      BY <1>5, <2>4
    <2> QED
      BY <1>4, <2>1, <2>3, <2>5, <2>6 DEF SpeedsKept, Speed
  <1>8. OdometerKept' /\ OdometerTelescopes'
    <2> SUFFICES ASSUME Steady' PROVE OdometerKept' /\ OdometerTelescopes'
      BY DEF OdometerKept, OdometerTelescopes
    <2>1. e.odo \in Int
      BY <1>1, <1>2, <1>3, SteadyBefore
    <2>2. IsTop(e.odo, events')
      BY <1>4, <2>1 DEF IsTop
    <2>3. HighestOf(events', Len(events')) = e.odo
      <3>1. \A j \in 1..Len(events') : events'[j].reading.odo \in Int
        BY <1>4, <2>1
      <3> QED
        BY <2>2, <3>1, HighestIs
    <2>4. Highest(Len(events))' = e.odo /\ Odo(1)' = e.odo
      BY <1>4, <2>3 DEF Highest, HighestOf, Odo
    <2> QED
      BY <1>5, <2>1, <2>2, <2>4 DEF OdometerKept, OdometerTelescopes
  <1> QED
    BY <1>6, <1>7, <1>8 DEF MetricsInv

\* An event of an open trip, which may stay open or be closed by it.
LEMMA AbsorbKeeps ==
    ASSUME MetricsInv, phase = "open", phase' \in {"open", "closed"},
           NEW at \in Nat, NEW e \in Reading, Absorbed(at, e), IsTrip(trip'), IsTrip(mirror'),
           \A x \in {"max", "min", "alerts"} : trip'[x] = Observe(trip, e)[x],
           trip'.distance = trip.distance + Segment(trip.odo, trip.pos, e),
           phase' = "open" => trip'.odo = Odometer(trip.odo, e)
    PROVE  MetricsInv'
  <1>1. EventsTyped /\ IsTrip(trip)
    BY DEF MetricsInv, Trips
  <1>2. Trips'
    BY DEF Trips
  <1>3. EventsTyped'
    BY <1>1, OneMoreEvent DEF EventsTyped
  <1>4. SpeedsKept'
    BY <1>1, SpeedsStep DEF MetricsInv
  <1>5. OdometerKept' /\ OdometerTelescopes'
    <2> SUFFICES ASSUME Steady' PROVE OdometerKept' /\ OdometerTelescopes'
      BY DEF OdometerKept, OdometerTelescopes
    <2> DEFINE h == Odometer(trip.odo, e)
    <2>1. /\ IsTop(h, events') /\ HighestOf(events', Len(events')) = h
          /\ trip'.distance = h - events'[1].reading.odo
      BY <1>1, OdometerStep DEF MetricsInv
    <2> HIDE DEF h
    <2>2. Highest(Len(events))' = h /\ Odo(1)' = events'[1].reading.odo
      BY <2>1 DEF Highest, HighestOf, Odo
    <2> QED
      BY <2>1, <2>2 DEF OdometerKept, OdometerTelescopes, h
  <1> QED
    BY <1>2, <1>3, <1>4, <1>5 DEF MetricsInv

LEMMA DriveKeeps == ASSUME MetricsInv, Drive PROVE MetricsInv'
  <1>1. phase = "open" /\ UNCHANGED phase /\ IsTrip(trip) /\ IsTrip(mirror)
    BY DEF Drive, MetricsInv, Trips
  <1>2. PICK gap \in 0..GapThreshold, e \in Reading :
            /\ trip' = Moved(trip, trip.at + gap, e) /\ mirror' = Moved(mirror, trip.at + gap, e)
            /\ Absorbed(trip.at + gap, e)
    BY DEF Drive
  <1>3. trip.at + gap \in Nat
    BY <1>1 DEF IsTrip, GapThreshold
  <1>4. IsTrip(trip') /\ IsTrip(mirror')
    BY <1>1, <1>2, <1>3, MovedKeeps
  <1>5. /\ trip'.odo = Odometer(trip.odo, e)
        /\ trip'.distance = trip.distance + Segment(trip.odo, trip.pos, e)
        /\ \A x \in {"max", "min", "alerts"} : trip'[x] = Observe(trip, e)[x]
    BY <1>1, <1>2, <1>3, MovedKeeps
  <1> QED
    BY <1>1, <1>2, <1>3, <1>4, <1>5, AbsorbKeeps

LEMMA StopKeeps == ASSUME MetricsInv, Stop PROVE MetricsInv'
  <1>1. phase = "open" /\ phase' = "closed" /\ IsTrip(trip) /\ IsTrip(mirror)
    BY DEF Stop, MetricsInv, Trips
  <1>2. PICK gap \in 0..GapThreshold, e \in Reading :
            /\ trip' = Saved(Ended(trip, trip.at + gap, e))
            /\ mirror' = Ended(mirror, trip.at + gap, e)
            /\ Absorbed(trip.at + gap, e)
    BY DEF Stop
  <1> DEFINE at == trip.at + gap
             u == Ended(trip, at, e)
  <1>3. at \in Nat
    BY <1>1 DEF IsTrip, GapThreshold
  <1>4. IsTrip(u) /\ IsTrip(mirror')
    BY <1>1, <1>2, <1>3, EndedKeeps
  <1>5. /\ u.distance = trip.distance + Segment(trip.odo, trip.pos, e)
        /\ \A x \in {"max", "min", "alerts"} : u[x] = Observe(trip, e)[x]
    BY <1>1, <1>3, EndedKeeps
  <1> HIDE DEF u
  <1>6. IsTrip(trip') /\ SameBut(trip', u, {"day", "night"})
    BY <1>2, <1>4, SavedKeeps DEF u
  <1>7. /\ trip'.distance = trip.distance + Segment(trip.odo, trip.pos, e)
        /\ \A x \in {"max", "min", "alerts"} : trip'[x] = Observe(trip, e)[x]
    BY <1>5, <1>6 DEF SameBut, Part
  <1> QED
    BY <1>1, <1>2, <1>3, <1>4, <1>6, <1>7, AbsorbKeeps

\* What a steady trip has advanced is its distance, open or closed.
LEMMA TopIsHighest ==
    ASSUME EventsTyped, OdometerKept, phase = "open", Steady
    PROVE  trip.distance = Highest(Len(events)) - Odo(1)
  <1>1. \A x \in Measured : x # Unknown => x \in Int
    BY DEF Measured
  <1>2. DOMAIN events = 1..Len(events) /\ \A j \in 1..Len(events) : events[j].reading \in Reading
    <2> DEFINE T == [at : Nat, reading : Reading]
    <2>1. events \in Seq(T) /\ \A x \in T : x.reading \in Reading
      BY DEF EventsTyped
    <2> HIDE DEF T
    <2> QED
      BY <2>1
  <1>3. \A j \in 1..Len(events) : events[j].reading.odo \in Int
    BY <1>1, <1>2, ReadingAssumption DEF Steady, Odo
  <1>4. IsTop(trip.odo, events) /\ trip.distance = trip.odo - Odo(1)
    BY DEF OdometerKept
  <1>5. HighestOf(events, Len(events)) = trip.odo
    BY <1>3, <1>4, HighestIs
  <1>6. Highest(Len(events)) = trip.odo
    BY <1>5 DEF Highest, HighestOf, Odo
  <1> QED
    BY <1>4, <1>6

\* A step without an event keeps the odometer, the distance and the speeds.
LEMMA SavingKeeps ==
    ASSUME MetricsInv, phase = "open", phase' \in {"open", "closed"}, UNCHANGED <<mirror, events>>,
           IsTrip(trip'), SameBut(trip', trip, {"day", "night", "pos"})
    PROVE  MetricsInv'
  <1>1. Trips' /\ EventsTyped'
    BY DEF MetricsInv, Trips, EventsTyped
  <1>2. /\ trip'.odo = trip.odo /\ trip'.distance = trip.distance /\ trip'.max = trip.max
        /\ trip'.min = trip.min /\ trip'.alerts = trip.alerts
    BY DEF SameBut, Part
  <1>3. SpeedsKept'
    BY <1>2 DEF MetricsInv, SpeedsKept, Speed
  <1>4. OdometerKept'
    BY <1>2, SameReadings DEF MetricsInv, OdometerKept, IsTop
  <1>5. OdometerTelescopes'
    <2>1. Steady => trip.distance = Highest(Len(events)) - Odo(1)
      BY TopIsHighest DEF MetricsInv
    <2> QED
      BY <1>2, <2>1, SameReadings DEF OdometerTelescopes
  <1> QED
    BY <1>1, <1>3, <1>4, <1>5 DEF MetricsInv

LEMMA SilenceKeeps == ASSUME MetricsInv, Silence PROVE MetricsInv'
  <1>1. /\ phase = "open" /\ phase' = "closed" /\ trip' = Saved(trip) /\ IsTrip(trip)
        /\ UNCHANGED <<mirror, events>>
    BY DEF Silence, MetricsInv, Trips
  <1>2. IsTrip(trip') /\ SameBut(trip', trip, {"day", "night"})
    BY <1>1, SavedKeeps
  <1>3. SameBut(trip', trip, {"day", "night", "pos"})
    BY <1>2 DEF SameBut
  <1> QED
    BY <1>1, <1>2, <1>3, SavingKeeps

LEMMA NextBatchKeeps == ASSUME MetricsInv, NextBatch PROVE MetricsInv'
  <1>1. /\ phase = "open" /\ trip' = Restored(Saved(trip)) /\ UNCHANGED <<phase, mirror, events>>
        /\ IsTrip(trip)
    BY DEF NextBatch, MetricsInv, Trips
  <1> DEFINE u == Saved(trip)
  <1>2. IsTrip(u) /\ SameBut(u, trip, {"day", "night"})
    BY <1>1, SavedKeeps
  <1> HIDE DEF u
  <1>3. IsTrip(trip') /\ SameBut(trip', u, {"pos"})
    BY <1>1, <1>2, RestoredKeeps DEF u
  <1>4. SameBut(trip', trip, {"day", "night", "pos"})
    BY <1>2, <1>3 DEF SameBut
  <1> QED
    BY <1>1, <1>3, <1>4, SavingKeeps

LEMMA MetricsStepKeeps == MetricsInv /\ [MetricsNext]_metricsVars => MetricsInv'
  BY MetricsStutters, StartTripKeeps, DriveKeeps, StopKeeps, SilenceKeeps, NextBatchKeeps
     DEF MetricsNext

\* The trip, its mirror and the events absorbed agree at every step.
THEOREM MetricsConsistent == MetricsSpec => []MetricsInv
  BY MetricsInitially, MetricsStepKeeps, PTL DEF MetricsSpec

\* For any number of events and batches, the distance of a trip with a steady odometer is
\* what the odometer advanced.
THEOREM DistanceTelescopes == MetricsSpec => []OdometerTelescopes
  <1>1. MetricsInv => OdometerTelescopes
    BY DEF MetricsInv
  <1> QED
    BY <1>1, MetricsConsistent, PTL

\* For any number of events and batches, the speeds and alerts of a trip are those of its
\* events.
THEOREM ExtremesAreOfEvents == MetricsSpec => []ExtremesMatch
  <1>1. MetricsInv => ExtremesMatch
    <2> SUFFICES ASSUME MetricsInv, phase # "idle" PROVE ExtremesMatch
      BY DEF ExtremesMatch
    <2> DEFINE speeds == {events[i].reading.speed : i \in DOMAIN events}
               valid == {x \in speeds : Valid(x)}
               moving == {x \in valid : x >= MinSpeed}
    <2>1. \A x \in valid : trip.max # Unknown /\ x <= trip.max
      BY DEF MetricsInv, SpeedsKept, Speed
    <2>2. trip.max = Unknown \/ trip.max \in valid
      BY DEF MetricsInv, SpeedsKept, Speed
    <2>3. \A x \in moving : trip.min # Unknown /\ trip.min <= x
      BY DEF MetricsInv, SpeedsKept, Speed, Moving
    <2>4. trip.min = Unknown \/ trip.min \in moving
      BY DEF MetricsInv, SpeedsKept, Speed, Moving
    <2>5. trip.alerts = Cardinality({i \in DOMAIN events : events[i].reading.alert})
      BY DEF MetricsInv, SpeedsKept
    <2>6. /\ IF valid = {} THEN trip.max = Unknown
             ELSE trip.max \in valid /\ \A x \in valid : x <= trip.max
          /\ IF moving = {} THEN trip.min = Unknown
             ELSE trip.min \in moving /\ \A x \in moving : trip.min <= x
      <3> HIDE DEF valid, moving
      <3> QED
        BY <2>1, <2>2, <2>3, <2>4
    <2> QED
      BY <2>5, <2>6 DEF ExtremesMatch
  <1> QED
    BY <1>1, MetricsConsistent, PTL

-----------------------------------------------------------------------------
(* Night and day *)

\* Night and day change at the boundaries, and nowhere else.
LEMMA NightTurns ==
    ASSUME NEW t \in Nat
    PROVE  (t + 1) % DayLength \in {NightStart, NightEnd} <=> (IsNight(t + 1) <=> ~IsNight(t))
  BY DEF IsNight, DayLength, NightStart, NightEnd, Hour

\* Boundaries are far apart.
LEMMA TurnsApart ==
    ASSUME NEW t \in Nat, t % DayLength \in {NightStart, NightEnd}
    PROVE  /\ (t + 1) % DayLength \notin {NightStart, NightEnd}
           /\ (t + 2) % DayLength \notin {NightStart, NightEnd}
  BY DEF DayLength, NightStart, NightEnd, Hour

Night == {h \in Nat : IsNight(h)}
HoursIn(N, from, to) == (from .. to - 1) \cap N

\* A piece without a boundary is all night or all day.
LEMMA PieceIs ==
    ASSUME NEW from \in Nat, NEW to \in Nat, from < to, to <= from + GapThreshold,
           \A b \in from + 1 .. to - 1 : b % DayLength \notin {NightStart, NightEnd}
    PROVE  /\ IsNight(from) => HoursIn(Night, from, to) = from .. to - 1
           /\ ~IsNight(from) => HoursIn(Night, from, to) = {}
           /\ IsNight(to - 1) <=> IsNight(from)
  <1>1. \A h \in from .. to - 1 : h \in Nat /\ (h = from \/ h = from + 1 \/ h = from + 2)
    BY DEF GapThreshold
  <1>2. from + 1 \in from .. to - 1 => (IsNight(from + 1) <=> IsNight(from))
    BY NightTurns
  <1>3. from + 2 \in from .. to - 1 => (IsNight(from + 2) <=> IsNight(from + 1))
    <2>1. (from + 1) + 1 = from + 2 /\ from + 1 \in Nat
      OBVIOUS
    <2> QED
      BY <2>1, NightTurns
  <1>4. from + 2 \in from .. to - 1 => from + 1 \in from .. to - 1
    OBVIOUS
  <1>5. \A h \in from .. to - 1 : IsNight(h) <=> IsNight(from)
    BY <1>1, <1>2, <1>3, <1>4
  <1> HIDE DEF IsNight
  <1> QED
    BY <1>1, <1>5 DEF HoursIn, Night

\* The night of a segment is the number of its hours in the night.
LEMMA NightTimeIs ==
    ASSUME NEW from \in Nat, NEW to \in from .. from + GapThreshold
    PROVE  /\ NightTime(from, to) = Cardinality(HoursIn(Night, from, to))
           /\ NightTime(from, to) \in 0 .. to - from
  <1> DEFINE length == [p \in {q \in Pieces(from, to) : IsNight(q[1])} |-> p[2] - p[1]]
             dark == {q \in Pieces(from, to) : IsNight(q[1])}
  <1>1. NightTime(from, to) = Summed(length, dark)
    <2>1. DOMAIN length = dark
      OBVIOUS
    <2> HIDE DEF length, dark
    <2> QED
      BY <2>1 DEF NightTime, FoldFunction, Summed, length, dark
  <1>2. to \in Nat /\ from <= to /\ to <= from + GapThreshold
    BY DEF GapThreshold
  <1>3. \A a, b \in Nat : a < b => Cardinality(a .. b - 1) = b - a
    BY FS_Interval
  <1>4. Cardinality({}) = 0
    BY FS_EmptySet
  <1>5. CASE to = from
    <2>1. Pieces(from, to) = {}
      BY <1>5 DEF Pieces, Crossings
    <2>2. HoursIn(Night, from, to) = {}
      BY <1>5 DEF HoursIn
    <2>3. dark = {}
      BY <2>1
    <2> HIDE DEF dark, length
    <2> QED
      BY <1>1, <1>2, <1>4, <1>5, <2>2, <2>3, SummedNone
  <1>6. CASE from < to /\ Crossings(from, to) = {}
    <2>1. Pieces(from, to) = {<<from, to>>}
      BY <1>2, <1>6 DEF Pieces
    <2>2. \A b \in from + 1 .. to - 1 : b % DayLength \notin {NightStart, NightEnd}
      BY <1>6 DEF Crossings
    <2>3. CASE IsNight(from)
      <3>1. dark = {<<from, to>>} /\ length[<<from, to>>] = to - from
        BY <2>1, <2>3
      <3>2. Summed(length, {<<from, to>>}) = to - from
        <4> DEFINE p == <<from, to>>
        <4>1. length[p] = to - from /\ to - from \in Int
          BY <1>2, <3>1
        <4> HIDE DEF length, p
        <4>2. Summed(length, {p}) = length[p]
          BY <4>1, SummedOne
        <4> QED
          BY <4>1, <4>2 DEF p
      <3>3. HoursIn(Night, from, to) = from .. to - 1
        BY <1>2, <1>6, <2>2, <2>3, PieceIs
      <3> HIDE DEF dark, length
      <3> QED
        BY <1>1, <1>2, <1>3, <1>6, <3>1, <3>2, <3>3
    <2>4. CASE ~IsNight(from)
      <3>1. dark = {}
        BY <2>1, <2>4
      <3>2. HoursIn(Night, from, to) = {}
        BY <1>2, <1>6, <2>2, <2>4, PieceIs
      <3> HIDE DEF dark, length
      <3> QED
        BY <1>1, <1>2, <1>4, <1>6, <3>1, <3>2, SummedNone
    <2> QED
      BY <2>3, <2>4
  <1>7. CASE Crossings(from, to) # {}
    <2>1. PICK b \in Crossings(from, to) : TRUE
      BY <1>7
    <2>2. b \in Nat /\ from < b /\ b < to /\ b % DayLength \in {NightStart, NightEnd}
      BY <2>1, <1>2 DEF Crossings
    <2>3. \A c \in from + 1 .. to - 1 : c # b => c % DayLength \notin {NightStart, NightEnd}
      <3> SUFFICES ASSUME NEW c \in from + 1 .. to - 1, c # b
                   PROVE  c % DayLength \notin {NightStart, NightEnd}
        OBVIOUS
      <3>1. c \in Nat /\ (c = b + 1 \/ c + 1 = b)
        BY <1>2, <2>2 DEF GapThreshold
      <3>2. CASE c = b + 1
        BY <2>2, <3>2, TurnsApart
      <3>3. CASE c + 1 = b
        BY <2>2, <3>1, <3>3, TurnsApart
      <3> QED
        BY <3>1, <3>2, <3>3
    <2>4. Crossings(from, to) = {b}
      BY <2>1, <2>3 DEF Crossings
    <2>5. Pieces(from, to) = {<<from, b>>, <<b, to>>}
      <3> DEFINE cuts == {from, to} \cup {b}
      <3>1. cuts = {from, b, to}
        OBVIOUS
      <3>2. Pieces(from, to) = {p \in cuts \X cuts :
                                  p[1] < p[2] /\ \A c \in cuts : ~(p[1] < c /\ c < p[2])}
        BY <2>4 DEF Pieces
      <3>3. ASSUME NEW x \in cuts, NEW y \in cuts
            PROVE  (x < y /\ \A c \in cuts : ~(x < c /\ c < y))
                      <=> (<<x, y>> = <<from, b>> \/ <<x, y>> = <<b, to>>)
        BY <1>2, <2>2, <3>1
      <3> QED
        BY <3>2, <3>3
    <2>6. IsNight(b) <=> ~IsNight(from)
      <3>1. b - 1 \in Nat /\ (b - 1) + 1 = b
        BY <2>2
      <3>2. IsNight(b) <=> ~IsNight(b - 1)
        BY <2>2, <3>1, NightTurns
      <3>3. b <= from + GapThreshold /\ \A c \in from + 1 .. b - 1 : c \in from + 1 .. to - 1 /\ c # b
        BY <1>2, <2>2 DEF GapThreshold
      <3>4. IsNight(b - 1) <=> IsNight(from)
        BY <2>2, <2>3, <3>3, PieceIs
      <3> QED
        BY <3>2, <3>4
    <2>7. /\ b <= from + GapThreshold /\ to <= b + GapThreshold
          /\ \A c \in from + 1 .. b - 1 : c % DayLength \notin {NightStart, NightEnd}
          /\ \A c \in b + 1 .. to - 1 : c % DayLength \notin {NightStart, NightEnd}
      <3>1. \A c \in (from + 1 .. b - 1) \cup (b + 1 .. to - 1) : c \in from + 1 .. to - 1 /\ c # b
        BY <1>2, <2>2
      <3>2. b <= from + GapThreshold /\ to <= b + GapThreshold
        BY <1>2, <2>2 DEF GapThreshold
      <3> QED
        BY <2>3, <3>1, <3>2
    <2>8. HoursIn(Night, from, to) = HoursIn(Night, from, b) \cup HoursIn(Night, b, to)
      BY <1>2, <2>2 DEF HoursIn
    <2>9. CASE IsNight(from)
      <3>1. dark = {<<from, b>>} /\ length[<<from, b>>] = b - from
        BY <2>5, <2>6, <2>9
      <3>2. Summed(length, {<<from, b>>}) = b - from
        <4> DEFINE p == <<from, b>>
        <4>1. length[p] = b - from /\ b - from \in Int
          BY <2>2, <3>1
        <4> HIDE DEF length, p
        <4>2. Summed(length, {p}) = length[p]
          BY <4>1, SummedOne
        <4> QED
          BY <4>1, <4>2 DEF p
      <3>3. HoursIn(Night, from, b) = from .. b - 1
        BY <2>2, <2>7, <2>9, PieceIs
      <3>4. HoursIn(Night, b, to) = {}
        BY <1>2, <2>2, <2>6, <2>7, <2>9, PieceIs
      <3> HIDE DEF dark, length
      <3> QED
        BY <1>1, <1>2, <1>3, <2>2, <2>8, <3>1, <3>2, <3>3, <3>4
    <2>10. CASE ~IsNight(from)
      <3>1. dark = {<<b, to>>} /\ length[<<b, to>>] = to - b
        BY <2>5, <2>6, <2>10
      <3>2. Summed(length, {<<b, to>>}) = to - b
        <4> DEFINE p == <<b, to>>
        <4>1. length[p] = to - b /\ to - b \in Int
          BY <1>2, <2>2, <3>1
        <4> HIDE DEF length, p
        <4>2. Summed(length, {p}) = length[p]
          BY <4>1, SummedOne
        <4> QED
          BY <4>1, <4>2 DEF p
      <3>3. HoursIn(Night, from, b) = {}
        BY <2>2, <2>7, <2>10, PieceIs
      <3>4. HoursIn(Night, b, to) = b .. to - 1
        BY <1>2, <2>2, <2>6, <2>7, <2>10, PieceIs
      <3> HIDE DEF dark, length
      <3> QED
        BY <1>1, <1>2, <1>3, <2>2, <2>8, <3>1, <3>2, <3>3, <3>4
    <2> QED
      BY <2>9, <2>10
  <1> QED
    BY <1>2, <1>5, <1>6, <1>7

\* Hours of any kind are counted one segment after the other.
LEMMA MoreHours ==
    ASSUME NEW N, NEW start \in Nat, NEW from \in Nat, NEW to \in Nat, start <= from, from <= to
    PROVE  Cardinality(HoursIn(N, start, to))
             = Cardinality(HoursIn(N, start, from)) + Cardinality(HoursIn(N, from, to))
  <1>1. /\ HoursIn(N, start, to) = HoursIn(N, start, from) \cup HoursIn(N, from, to)
        /\ HoursIn(N, start, from) \cap HoursIn(N, from, to) = {}
    BY DEF HoursIn
  <1>2. IsFiniteSet(start .. from - 1) /\ IsFiniteSet(from .. to - 1)
    BY FS_Interval
  <1>3. IsFiniteSet(HoursIn(N, start, from)) /\ IsFiniteSet(HoursIn(N, from, to))
    BY <1>2, FS_Subset DEF HoursIn
  <1>4. Cardinality({}) = 0 /\ Cardinality(HoursIn(N, start, from)) \in Nat
        /\ Cardinality(HoursIn(N, from, to)) \in Nat
    BY <1>3, FS_EmptySet, FS_CardinalityType
  <1>5. Cardinality(HoursIn(N, start, from) \cup HoursIn(N, from, to))
          = Cardinality(HoursIn(N, start, from)) + Cardinality(HoursIn(N, from, to))
              - Cardinality(HoursIn(N, start, from) \cap HoursIn(N, from, to))
    BY <1>3, FS_Union
  <1> QED
    BY <1>1, <1>4, <1>5

Day == Nat \ Night

LEMMA DayTimeIs ==
    ASSUME NEW from \in Nat, NEW to \in Nat, from <= to
    PROVE  Cardinality(HoursIn(Day, from, to)) = to - from - Cardinality(HoursIn(Night, from, to))
  <1> DEFINE A == HoursIn(Day, from, to)
             B == HoursIn(Night, from, to)
  <1>1. A \cup B = from .. to - 1 /\ A \cap B = {}
    BY DEF HoursIn, Day, Night
  <1>2. IsFiniteSet(from .. to - 1) /\ Cardinality(from .. to - 1) = to - from
    <2>1. /\ IsFiniteSet(from .. to - 1)
          /\ Cardinality(from .. to - 1) = IF from > to - 1 THEN 0 ELSE (to - 1) - from + 1
      BY FS_Interval
    <2> QED
      BY <2>1
  <1>3. IsFiniteSet(A) /\ IsFiniteSet(B)
    BY <1>2, FS_Subset DEF HoursIn
  <1> HIDE DEF A, B
  <1>4. Cardinality({}) = 0 /\ Cardinality(A) \in Nat /\ Cardinality(B) \in Nat
    BY <1>3, FS_EmptySet, FS_CardinalityType
  <1>5. Cardinality(A \cup B) = Cardinality(A) + Cardinality(B) - Cardinality(A \cap B)
    BY <1>3, FS_Union
  <1>6. Cardinality(A) = to - from - Cardinality(B)
    <2>1. to - from = Cardinality(A) + Cardinality(B) - 0
      BY <1>1, <1>2, <1>4, <1>5
    <2> QED
      BY <1>4, <2>1
  <1> QED
    BY <1>6 DEF A, B

\* Shares of up to three units of time are exact.
LEMMA SharesExact ==
    ASSUME NEW d \in Nat, NEW g \in 1..3, NEW n \in 0..g
    PROVE  /\ (Fine * n * d) \div g \in Nat /\ (Fine * (g - n) * d) \div g \in Nat
           /\ (Fine * (g - n) * d) \div g + (Fine * n * d) \div g = Fine * d
  <1>1. CASE g = 1
    <2>1. CASE n = 0
      BY <1>1, <2>1 DEF Fine
    <2>2. CASE n = 1
      BY <1>1, <2>2 DEF Fine
    <2> QED
      BY <1>1, <2>1, <2>2
  <1>2. CASE g = 2
    <2>1. CASE n = 0
      BY <1>2, <2>1 DEF Fine
    <2>2. CASE n = 1
      BY <1>2, <2>2 DEF Fine
    <2>3. CASE n = 2
      BY <1>2, <2>3 DEF Fine
    <2> QED
      BY <1>2, <2>1, <2>2, <2>3
  <1>3. CASE g = 3
    <2>1. CASE n = 0
      BY <1>3, <2>1 DEF Fine
    <2>2. CASE n = 1
      BY <1>3, <2>2 DEF Fine
    <2>3. CASE n = 2
      BY <1>3, <2>3 DEF Fine
    <2>4. CASE n = 3
      BY <1>3, <2>4 DEF Fine
    <2> QED
      BY <1>3, <2>1, <2>2, <2>3, <2>4
  <1> QED
    BY <1>1, <1>2, <1>3

\* What a segment adds to the day and to the night.
LEMMA SplitIs ==
    ASSUME NEW from \in Nat, NEW to \in from .. from + GapThreshold, NEW d \in Nat
    PROVE  /\ Split(from, to, d).nightTime = Cardinality(HoursIn(Night, from, to))
           /\ Split(from, to, d).dayTime = Cardinality(HoursIn(Day, from, to))
           /\ Split(from, to, d).day \in Nat /\ Split(from, to, d).night \in Nat
           /\ Split(from, to, d).day + Split(from, to, d).night <= Fine * d
           /\ from < to => Split(from, to, d).day + Split(from, to, d).night = Fine * d
  <1> DEFINE n == NightTime(from, to)
             g == to - from
  <1>1. n = Cardinality(HoursIn(Night, from, to)) /\ n \in 0..g
    BY NightTimeIs
  <1>2. to \in Nat /\ from <= to /\ g \in 0..3
    BY DEF GapThreshold
  <1>3. Cardinality(HoursIn(Day, from, to)) = g - n
    BY <1>1, <1>2, DayTimeIs
  <1> HIDE DEF n
  <1>4. CASE to = from
    <2>1. Split(from, to, d) = [day |-> 0, night |-> 0, dayTime |-> 0, nightTime |-> 0]
      BY <1>4 DEF Split
    <2>2. n = 0 /\ g = 0
      BY <1>1, <1>4
    <2> QED
      BY <1>1, <1>3, <1>4, <2>1, <2>2 DEF Fine
  <1>5. CASE from < to
    <2>1. /\ Split(from, to, d).day = (Fine * (g - n) * d) \div g
          /\ Split(from, to, d).night = (Fine * n * d) \div g
          /\ Split(from, to, d).dayTime = g - n /\ Split(from, to, d).nightTime = n
      BY <1>2, <1>5 DEF Split, n
    <2>2. g \in 1..3
      BY <1>2, <1>5
    <2> HIDE DEF g
    <2>3. /\ (Fine * n * d) \div g \in Nat /\ (Fine * (g - n) * d) \div g \in Nat
          /\ (Fine * (g - n) * d) \div g + (Fine * n * d) \div g = Fine * d
      BY <1>1, <2>2, SharesExact
    <2> QED
      BY <1>1, <1>3, <2>1, <2>3 DEF Fine
  <1> QED
    BY <1>2, <1>4, <1>5

\* The length of a segment is a distance.
LEMMA SegmentIs ==
    ASSUME NEW odo \in Measured, NEW pos \in Position, NEW e \in Reading
    PROVE  Segment(odo, pos, e) \in Nat
  <1>1. e.odo \in Measured /\ e.pos \in Position
    BY ReadingAssumption
  <1>2. \A n \in Int : Abs(n) \in Nat
    BY DEF Abs
  <1>3. Straight(pos, e.pos) \in Nat
    <2>1. \A p \in Position : p.lat \in Measured /\ p.lon \in Measured
      BY DEF Position
    <2>2. \A c \in Measured : ~Odd(c, 90) \/ ~Odd(c, 180) => c \in Int
      BY DEF Odd, Measured
    <2> DEFINE odd == \E r \in {pos, e.pos} : Odd(r.lat, 90) \/ Odd(r.lon, 180)
    <2>3. CASE odd
      BY <2>3 DEF Straight
    <2>4. CASE ~odd
      <3>1. pos.lat \in Int /\ pos.lon \in Int /\ e.pos.lat \in Int /\ e.pos.lon \in Int
        BY <1>1, <2>1, <2>2, <2>4
      <3>2. Abs(pos.lat - e.pos.lat) \in Nat /\ Abs(pos.lon - e.pos.lon) \in Nat
        BY <1>2, <3>1
      <3>3. Straight(pos, e.pos) = 36 * (Abs(pos.lat - e.pos.lat) + Abs(pos.lon - e.pos.lon))
        BY <2>4 DEF Straight
      <3> QED
        BY <3>2, <3>3
    <2> QED
      BY <2>3, <2>4
  <1>4. odo # Unknown /\ e.odo # Unknown => odo \in Int /\ e.odo \in Int
    BY <1>1 DEF Measured
  <1> QED
    BY <1>3, <1>4 DEF Segment, ByPosition

LEMMA OdometerIs == ASSUME NEW odo \in Measured, NEW e \in Reading PROVE Odometer(odo, e) \in Measured
  BY ReadingAssumption DEF Odometer

-----------------------------------------------------------------------------
(* Hours and shares along a trip *)

Share == {"day", "night", "dayTime", "nightTime"}

\* The hours of a trip so far are those since its begin.
HoursKept(t) ==
    /\ t.startAt \in Nat /\ t.startAt <= t.at
    /\ t.nightTime = Cardinality(HoursIn(Night, t.startAt, t.at))
    /\ t.dayTime = Cardinality(HoursIn(Day, t.startAt, t.at))

\* Its shares add up to its distance, but for r saves that rounded.
SharesKept(t, ev, r) ==
    /\ t.distance \in Nat /\ t.day \in Nat /\ t.night \in Nat
    /\ t.day + t.night <= Fine * t.distance + Grid * r
    /\ (\A i \in 2..Len(ev) : ev[i - 1].at < ev[i].at) =>
          t.day + t.night >= Fine * t.distance - Grid * r

\* It is at its last event, and its speeds are in range.
RangesKept(t, ev) ==
    /\ t.odo \in Measured /\ ev[Len(ev)].at = t.at
    /\ t.max = Unknown \/ t.max \in 0..MaxSpeed
    /\ t.min = Unknown \/ t.min \in MinSpeed..MaxSpeed

Measures(t, ev, r) == HoursKept(t) /\ SharesKept(t, ev, r) /\ RangesKept(t, ev)

SharesInv == /\ roundings \in Nat /\ Len(events) <= MaxEvents
             /\ phase # "idle" => Measures(trip, events, roundings)

LEMMA DrivenAdds ==
    ASSUME NEW t, IsTrip(t), NEW at \in Nat, NEW e
    PROVE  /\ Driven(t, at, e).startAt = t.startAt
           /\ \A x \in Share :
                 Driven(t, at, e)[x] = t[x] + Split(t.at, at, Segment(t.odo, t.pos, e))[x]
  <1> DEFINE segment == Segment(t.odo, t.pos, e)
             split == Split(t.at, at, segment)
             u == [t EXCEPT !.distance = @ + segment, !.day = @ + split.day,
                            !.night = @ + split.night, !.dayTime = @ + split.dayTime,
                            !.nightTime = @ + split.nightTime]
  <1>1. Driven(t, at, e) = Observe(u, e)
    BY DEF Driven
  <1> HIDE DEF split
  <1>2. IsTrip(u) /\ u.startAt = t.startAt /\ \A x \in Share : u[x] = t[x] + split[x]
    BY DEF IsTrip, Part, Share
  <1> HIDE DEF u
  <1>3. SameBut(Observe(u, e), u, {"max", "min", "alerts"})
    BY <1>2, ObserveKeeps
  <1>4. Observe(u, e).startAt = u.startAt /\ \A x \in Share : Observe(u, e)[x] = u[x]
    BY <1>3 DEF SameBut, Part, Share
  <1> QED
    BY <1>1, <1>2, <1>4 DEF split

\* So do the trips that Drive and Stop leave.
LEMMA ClosedAdds ==
    ASSUME NEW t, IsTrip(t), NEW at \in Nat, NEW e \in Reading,
           NEW u \in {Moved(t, at, e), Ended(t, at, e)}
    PROVE  /\ u.startAt = t.startAt /\ u.at = at
           /\ u.odo \in {t.odo, Odometer(t.odo, e)}
           /\ \A x \in Share : u[x] = t[x] + Split(t.at, at, Segment(t.odo, t.pos, e))[x]
  <1> DEFINE v == Driven(t, at, e)
             o == Odometer(t.odo, e)
  <1>1. u = [v EXCEPT !.at = at, !.pos = e.pos, !.odo = o] \/ u = [v EXCEPT !.at = at, !.pos = e.pos]
    BY DEF Moved, Ended
  <1>2. /\ IsTrip(v) /\ v.startAt = t.startAt
        /\ \A x \in Share : v[x] = t[x] + Split(t.at, at, Segment(t.odo, t.pos, e))[x]
    BY DrivenKeeps, DrivenAdds
  <1>3. v.odo = t.odo
    <2>1. SameBut(v, t, {"distance", "day", "night", "dayTime", "nightTime", "max", "min", "alerts"})
      BY DrivenKeeps
    <2> HIDE DEF v
    <2> QED
      BY <2>1 DEF SameBut, Part
  <1> HIDE DEF v, o
  <1>4. u.startAt = v.startAt /\ u.at = at /\ u.odo \in {v.odo, o} /\ \A x \in Share : u[x] = v[x]
    BY <1>1, <1>2 DEF IsTrip, Part, Share
  <1> QED
    BY <1>2, <1>3, <1>4 DEF o

\* Where those trips are afterwards.
LEMMA PlaceAfter ==
    ASSUME NEW t, IsTrip(t), NEW at \in Nat, NEW e \in Reading
    PROVE  /\ Moved(t, at, e).odo = Odometer(t.odo, e) /\ Ended(t, at, e).odo = t.odo
           /\ Moved(t, at, e).pos = e.pos /\ Ended(t, at, e).pos = e.pos
           /\ Moved(t, at, e).start = t.start /\ Ended(t, at, e).start = t.start
  <1> DEFINE v == Driven(t, at, e)
             o == Odometer(t.odo, e)
  <1>1. IsTrip(v) /\ v.odo = t.odo /\ v.start = t.start
    <2>1. /\ IsTrip(v)
          /\ SameBut(v, t, {"distance", "day", "night", "dayTime", "nightTime", "max", "min", "alerts"})
      BY DrivenKeeps
    <2> HIDE DEF v
    <2> QED
      BY <2>1 DEF SameBut, Part
  <1>2. /\ Moved(t, at, e) = [v EXCEPT !.at = at, !.pos = e.pos, !.odo = o]
        /\ Ended(t, at, e) = [v EXCEPT !.at = at, !.pos = e.pos]
    BY DEF Moved, Ended
  <1> HIDE DEF v, o
  <1>3. /\ Moved(t, at, e).odo = o /\ Ended(t, at, e).odo = v.odo
        /\ Moved(t, at, e).pos = e.pos /\ Ended(t, at, e).pos = e.pos
        /\ Moved(t, at, e).start = v.start /\ Ended(t, at, e).start = v.start
    BY <1>1, <1>2 DEF IsTrip, Part
  <1> QED
    BY <1>1, <1>3 DEF o

\* Trips with the same speeds and alerts observe alike.
LEMMA ObserveSame ==
    ASSUME NEW t, IsTrip(t), NEW m, IsTrip(m), NEW e,
           t.max = m.max, t.min = m.min, t.alerts = m.alerts
    PROVE  /\ Observe(t, e).max = Observe(m, e).max /\ Observe(t, e).min = Observe(m, e).min
           /\ Observe(t, e).alerts = Observe(m, e).alerts
  <1>1. ASSUME NEW x, IsTrip(x)
        PROVE  /\ Observe(x, e).max = IF Valid(e.speed) /\ (x.max = Unknown \/ e.speed > x.max)
                                      THEN e.speed ELSE x.max
               /\ Observe(x, e).min = IF Moving(e.speed) /\ (x.min = Unknown \/ e.speed < x.min)
                                      THEN e.speed ELSE x.min
               /\ Observe(x, e).alerts = IF e.alert THEN x.alerts + 1 ELSE x.alerts
    BY <1>1, ObserveKeeps
  <1>2. /\ Observe(t, e).max = IF Valid(e.speed) /\ (t.max = Unknown \/ e.speed > t.max)
                               THEN e.speed ELSE t.max
        /\ Observe(t, e).min = IF Moving(e.speed) /\ (t.min = Unknown \/ e.speed < t.min)
                               THEN e.speed ELSE t.min
        /\ Observe(t, e).alerts = IF e.alert THEN t.alerts + 1 ELSE t.alerts
    BY <1>1
  <1>3. /\ Observe(m, e).max = IF Valid(e.speed) /\ (t.max = Unknown \/ e.speed > t.max)
                               THEN e.speed ELSE t.max
        /\ Observe(m, e).min = IF Moving(e.speed) /\ (t.min = Unknown \/ e.speed < t.min)
                               THEN e.speed ELSE t.min
        /\ Observe(m, e).alerts = IF e.alert THEN t.alerts + 1 ELSE t.alerts
    BY <1>1
  <1> QED
    BY <1>2, <1>3

\* A trip begins without distance.
LEMMA BegunAmounts ==
    ASSUME NEW at \in Nat, NEW e \in Reading
    PROVE  /\ IsTrip(Begun(at, e)) /\ Begun(at, e).distance = 0
           /\ Begun(at, e).day = 0 /\ Begun(at, e).night = 0
  <1> DEFINE t == [startAt |-> at, start |-> e.pos, at |-> at, pos |-> e.pos, odo |-> e.odo,
                   distance |-> 0, day |-> 0, night |-> 0, dayTime |-> 0, nightTime |-> 0,
                   max |-> Unknown, min |-> Unknown, alerts |-> 0]
  <1>1. Begun(at, e) = Observe(t, e)
    BY DEF Begun
  <1>2. e.pos \in Position
    BY ReadingAssumption
  <1>3. IsTrip(t) /\ t.distance = 0 /\ t.day = 0 /\ t.night = 0
    BY <1>2 DEF IsTrip, Part
  <1> HIDE DEF t
  <1>4. IsTrip(Observe(t, e)) /\ SameBut(Observe(t, e), t, {"max", "min", "alerts"})
    BY <1>3, ObserveKeeps
  <1> QED
    BY <1>1, <1>3, <1>4 DEF SameBut, Part

\* The time of the event absorbed, and of those before it.
LEMMA EventTimes ==
    ASSUME EventsTyped, NEW at \in Nat, NEW e \in Reading, Absorbed(at, e)
    PROVE  /\ events'[Len(events) + 1].at = at
           /\ \A i \in 1..Len(events) : events'[i].at = events[i].at
  <1> DEFINE last == [at |-> at, reading |-> e]
             T == [at : Nat, reading : Reading]
  <1>1. events \in Seq(T) /\ last \in T /\ last.at = at /\ events' = Append(events, last)
    BY DEF EventsTyped, Absorbed
  <1> HIDE DEF last, T
  <1>2. events'[Len(events) + 1] = last /\ \A i \in 1..Len(events) : events'[i] = events[i]
    BY <1>1
  <1> QED
    BY <1>1, <1>2

LEMMA SpeedRange ==
    ASSUME NEW e \in Reading
    PROVE  /\ Valid(e.speed) => e.speed \in 0..MaxSpeed
           /\ Moving(e.speed) => e.speed \in MinSpeed..MaxSpeed
  <1>1. e.speed \in Measured
    BY ReadingAssumption
  <1> QED
    BY <1>1 DEF Valid, Moving, Measured, MinSpeed, MaxSpeed

\* The shares of a trip and of one more segment.
LEMMA SharesSum ==
    ASSUME NEW day \in Nat, NEW night \in Nat, NEW distance \in Nat, NEW r \in Nat,
           NEW moreDay \in Nat, NEW moreNight \in Nat, NEW more \in Nat
    PROVE  /\ day + night <= Fine * distance + Grid * r /\ moreDay + moreNight <= Fine * more =>
                (day + moreDay) + (night + moreNight) <= Fine * (distance + more) + Grid * r
           /\ day + night >= Fine * distance - Grid * r /\ moreDay + moreNight = Fine * more =>
                (day + moreDay) + (night + moreNight) >= Fine * (distance + more) - Grid * r
  BY DEF Fine, Grid

\* A share is rounded by less than half a step of the grid.
LEMMA RoundedIs ==
    ASSUME NEW share \in Nat
    PROVE  /\ Rounded(share) \in Nat
           /\ 2 * (Rounded(share) - share) <= Grid /\ 2 * (share - Rounded(share)) <= Grid
  BY DEF Rounded, Grid

\* Saves so far, with one that rounded or not.
Tally(t, r) == IF Saved(t) = t THEN r ELSE r + 1

LEMMA SavedMeasures ==
    ASSUME NEW t, IsTrip(t), NEW ev, NEW r \in Nat, Measures(t, ev, r)
    PROVE  Tally(t, r) \in Nat /\ Measures(Saved(t), ev, Tally(t, r))
  <1>1. CASE Saved(t) = t
    BY <1>1 DEF Tally
  <1>2. CASE Saved(t) # t
    <2> DEFINE u == Saved(t)
    <2>1. Tally(t, r) = r + 1
      BY <1>2 DEF Tally
    <2>2. SameBut(u, t, {"day", "night"}) /\ u.day = Rounded(t.day) /\ u.night = Rounded(t.night)
      BY SavedKeeps
    <2> HIDE DEF u
    <2>3. /\ u.startAt = t.startAt /\ u.at = t.at /\ u.odo = t.odo /\ u.distance = t.distance
          /\ u.dayTime = t.dayTime /\ u.nightTime = t.nightTime
          /\ u.max = t.max /\ u.min = t.min
      BY <2>2 DEF SameBut, Part
    <2>4. HoursKept(u) /\ RangesKept(u, ev)
      BY <2>3 DEF Measures, HoursKept, RangesKept
    <2>5. /\ t.distance \in Nat /\ t.day \in Nat /\ t.night \in Nat
          /\ t.day + t.night <= Fine * t.distance + Grid * r
          /\ (\A i \in 2..Len(ev) : ev[i - 1].at < ev[i].at) =>
                t.day + t.night >= Fine * t.distance - Grid * r
      BY DEF Measures, SharesKept
    <2>6. /\ u.day \in Nat /\ 2 * (u.day - t.day) <= Grid /\ 2 * (t.day - u.day) <= Grid
          /\ u.night \in Nat /\ 2 * (u.night - t.night) <= Grid /\ 2 * (t.night - u.night) <= Grid
      BY <2>2, <2>5, RoundedIs
    <2> DEFINE day == t.day  night == t.night  distance == t.distance
               newDay == u.day  newNight == u.night
    <2>7. /\ newDay + newNight <= Fine * distance + Grid * (r + 1)
          /\ day + night >= Fine * distance - Grid * r =>
                newDay + newNight >= Fine * distance - Grid * (r + 1)
      <3>1. /\ day \in Nat /\ night \in Nat /\ distance \in Nat
            /\ newDay \in Nat /\ 2 * (newDay - day) <= Grid /\ 2 * (day - newDay) <= Grid
            /\ newNight \in Nat /\ 2 * (newNight - night) <= Grid /\ 2 * (night - newNight) <= Grid
            /\ day + night <= Fine * distance + Grid * r
        BY <2>5, <2>6
      <3> HIDE DEF day, night, distance, newDay, newNight
      <3> QED
        BY <3>1 DEF Fine, Grid
    <2>8. SharesKept(u, ev, r + 1)
      BY <2>3, <2>5, <2>6, <2>7 DEF SharesKept
    <2> QED
      BY <2>1, <2>4, <2>8 DEF Measures, u
  <1> QED
    BY <1>1, <1>2

LEMMA RestoredMeasures ==
    ASSUME NEW t, NEW u, SameBut(u, t, {"pos"}), NEW ev, NEW r, Measures(t, ev, r)
    PROVE  Measures(u, ev, r)
  <1>1. /\ u.startAt = t.startAt /\ u.at = t.at /\ u.odo = t.odo /\ u.distance = t.distance
        /\ u.dayTime = t.dayTime /\ u.nightTime = t.nightTime
        /\ u.day = t.day /\ u.night = t.night /\ u.max = t.max /\ u.min = t.min
    BY DEF SameBut, Part
  <1> QED
    BY <1>1 DEF Measures, HoursKept, SharesKept, RangesKept

LEMMA SegmentAdds ==
    ASSUME MetricsInv, SharesInv, phase = "open",
           NEW at \in trip.at .. trip.at + GapThreshold, NEW e \in Reading, Absorbed(at, e), NEW u,
           u.at = at, u.startAt = trip.startAt, u.odo \in Measured,
           u.distance = trip.distance + Segment(trip.odo, trip.pos, e),
           \A x \in Share :
               u[x] = trip[x] + Split(trip.at, at, Segment(trip.odo, trip.pos, e))[x],
           \A x \in {"max", "min", "alerts"} : u[x] = Observe(trip, e)[x]
    PROVE  Measures(u, events', roundings)
  <1> DEFINE d == Segment(trip.odo, trip.pos, e)
             split == Split(trip.at, at, d)
             n == Len(events)
             from == trip.at
             start == trip.startAt
             r == roundings
  <1>1. /\ IsTrip(trip) /\ from \in Nat /\ at \in Nat /\ from <= at /\ EventsTyped /\ events # <<>>
        /\ trip.pos \in Position /\ r \in Nat
    BY DEF MetricsInv, Trips, IsTrip, EventsTyped, GapThreshold, SharesInv
  <1>2. /\ n \in Nat /\ Len(events') = n + 1 /\ events'[n + 1].at = at
        /\ \A i \in 1..n : events'[i].at = events[i].at
    BY <1>1, OneMoreEvent, EventTimes
  <1>3. n >= 1
    <2> DEFINE T == [at : Nat, reading : Reading]
    <2>1. events \in Seq(T)
      BY <1>1 DEF EventsTyped
    <2> HIDE DEF T
    <2> QED
      BY <1>1, <2>1
  <1>4. /\ start \in Nat /\ start <= from
        /\ trip.nightTime = Cardinality(HoursIn(Night, start, from))
        /\ trip.dayTime = Cardinality(HoursIn(Day, start, from))
    BY DEF SharesInv, Measures, HoursKept
  <1>5. /\ trip.odo \in Measured /\ trip.distance \in Nat /\ trip.day \in Nat /\ trip.night \in Nat
        /\ events[n].at = from
    BY DEF SharesInv, Measures, SharesKept, RangesKept
  <1>6. d \in Nat
    BY <1>1, <1>5, SegmentIs
  <1> HIDE DEF d, n, r
  <1>7. /\ split.nightTime = Cardinality(HoursIn(Night, from, at))
        /\ split.dayTime = Cardinality(HoursIn(Day, from, at))
        /\ split.day \in Nat /\ split.night \in Nat
        /\ split.day + split.night <= Fine * d
        /\ from < at => split.day + split.night = Fine * d
    BY <1>1, <1>6, SplitIs
  <1>8. /\ u.nightTime = trip.nightTime + split.nightTime
        /\ u.dayTime = trip.dayTime + split.dayTime
        /\ u.day = trip.day + split.day /\ u.night = trip.night + split.night
        /\ u.distance = trip.distance + d
    BY DEF Share, d
  <1> HIDE DEF split
  <1>9. HoursKept(u)
    <2>1. u.nightTime = Cardinality(HoursIn(Night, start, at))
      BY <1>1, <1>4, <1>7, <1>8, MoreHours
    <2>2. u.dayTime = Cardinality(HoursIn(Day, start, at))
      BY <1>1, <1>4, <1>7, <1>8, MoreHours
    <2> QED
      BY <1>1, <1>4, <2>1, <2>2 DEF HoursKept
  <1>10. SharesKept(u, events', r)
    <2>1. \A x, y \in Nat : x + y \in Nat
      OBVIOUS
    <2>2. u.distance \in Nat /\ u.day \in Nat /\ u.night \in Nat
      BY <1>5, <1>6, <1>7, <1>8, <2>1
    <2>3. /\ trip.day + trip.night <= Fine * trip.distance + Grid * r
          /\ (\A i \in 2..n : events[i - 1].at < events[i].at) =>
                trip.day + trip.night >= Fine * trip.distance - Grid * r
      BY DEF SharesInv, Measures, SharesKept, r, n
    <2>4. u.day + u.night <= Fine * u.distance + Grid * r
      <3>1. (trip.day + split.day) + (trip.night + split.night)
              <= Fine * (trip.distance + d) + Grid * r
        BY <1>1, <1>5, <1>6, <1>7, <2>3, SharesSum
      <3> QED
        BY <1>8, <3>1
    <2>5. ASSUME \A i \in 2 .. n + 1 : events'[i - 1].at < events'[i].at
          PROVE  u.day + u.night >= Fine * u.distance - Grid * r
      <3>1. n + 1 \in 2 .. n + 1 /\ (n + 1) - 1 = n /\ n \in 1..n
        BY <1>2, <1>3
      <3>2. from < at
        BY <1>2, <1>5, <2>5, <3>1
      <3>3. \A i \in 2..n : events[i - 1].at < events[i].at
        <4> SUFFICES ASSUME NEW i \in 2..n PROVE events[i - 1].at < events[i].at
          OBVIOUS
        <4>1. i \in 2 .. n + 1 /\ i \in 1..n /\ i - 1 \in 1..n
          BY <1>2
        <4> QED
          BY <1>2, <2>5, <4>1
      <3>4. (trip.day + split.day) + (trip.night + split.night)
              >= Fine * (trip.distance + d) - Grid * r
        BY <1>1, <1>5, <1>6, <1>7, <2>3, <3>2, <3>3, SharesSum
      <3> QED
        BY <1>8, <3>4
    <2> QED
      BY <1>2, <2>2, <2>4, <2>5 DEF SharesKept
  <1>11. RangesKept(u, events')
    <2>1. /\ u.max = (IF Valid(e.speed) /\ (trip.max = Unknown \/ e.speed > trip.max)
                      THEN e.speed ELSE trip.max)
          /\ u.min = (IF Moving(e.speed) /\ (trip.min = Unknown \/ e.speed < trip.min)
                      THEN e.speed ELSE trip.min)
      <3>1. u.max = Observe(trip, e).max /\ u.min = Observe(trip, e).min
        OBVIOUS
      <3> QED
        BY <1>1, <3>1, ObserveKeeps
    <2>2. /\ Valid(e.speed) => e.speed \in 0..MaxSpeed
          /\ Moving(e.speed) => e.speed \in MinSpeed..MaxSpeed
      BY SpeedRange
    <2>3. /\ trip.max = Unknown \/ trip.max \in 0..MaxSpeed
          /\ trip.min = Unknown \/ trip.min \in MinSpeed..MaxSpeed
      BY DEF SharesInv, Measures, RangesKept
    <2> QED
      BY <1>2, <2>1, <2>2, <2>3 DEF RangesKept
  <1> QED
    BY <1>9, <1>10, <1>11 DEF Measures, r

LEMMA SharesInitially == MetricsInit => SharesInv
  BY ReadingAssumption DEF MetricsInit, SharesInv

LEMMA StartTripShares == ASSUME MetricsInv, SharesInv, StartTrip PROVE SharesInv'
  <1>1. PICK at \in StartTime, e \in Reading : trip' = Begun(at, e) /\ Absorbed(at, e)
    BY DEF StartTrip
  <1>2. at \in Nat /\ e.odo \in Measured /\ e.speed \in Measured /\ e.pos \in Position
    BY ReadingAssumption
  <1>3. /\ phase' = "open" /\ EventsTyped /\ Len(events) = 0
        /\ roundings' \in Nat /\ roundings' = roundings
    BY DEF StartTrip, MetricsInv, EventsTyped, SharesInv
  <1>4. Len(events') = 1 /\ events'[1].at = at
    <2>1. Len(events') = Len(events) + 1 /\ events'[Len(events) + 1].at = at
      BY <1>1, <1>2, <1>3, OneMoreEvent, EventTimes
    <2> QED
      BY <1>3, <2>1
  <1> DEFINE t == [startAt |-> at, start |-> e.pos, at |-> at, pos |-> e.pos, odo |-> e.odo,
                   distance |-> 0, day |-> 0, night |-> 0, dayTime |-> 0, nightTime |-> 0,
                   max |-> Unknown, min |-> Unknown, alerts |-> 0]
  <1>5. trip' = Observe(t, e)
    BY <1>1 DEF Begun
  <1>6. /\ IsTrip(t) /\ t.startAt = at /\ t.at = at /\ t.odo = e.odo /\ t.distance = 0
        /\ t.day = 0 /\ t.night = 0 /\ t.dayTime = 0 /\ t.nightTime = 0
    BY <1>2 DEF IsTrip, Part
  <1> HIDE DEF t
  <1>7. SameBut(trip', t, {"max", "min", "alerts"})
    BY <1>5, <1>6, ObserveKeeps
  <1>8. /\ trip'.startAt = at /\ trip'.at = at /\ trip'.odo = e.odo /\ trip'.distance = 0
        /\ trip'.day = 0 /\ trip'.night = 0 /\ trip'.dayTime = 0 /\ trip'.nightTime = 0
    BY <1>6, <1>7 DEF SameBut, Part
  <1>9. \A N : Cardinality(HoursIn(N, at, at)) = 0
    <2>1. \A N : HoursIn(N, at, at) = {}
      BY <1>2 DEF HoursIn
    <2> QED
      BY <2>1, FS_EmptySet
  <1>10. HoursKept(trip') /\ SharesKept(trip', events', roundings')
    BY <1>2, <1>3, <1>4, <1>8, <1>9 DEF HoursKept, SharesKept, Fine, Grid
  <1>11. RangesKept(trip', events')
    <2>1. /\ trip'.max = (IF Valid(e.speed) THEN e.speed ELSE Unknown)
          /\ trip'.min = (IF Moving(e.speed) THEN e.speed ELSE Unknown)
      BY <1>1, <1>2, BegunTrip
    <2>2. /\ Valid(e.speed) => e.speed \in 0..MaxSpeed
          /\ Moving(e.speed) => e.speed \in MinSpeed..MaxSpeed
      BY SpeedRange
    <2> QED
      BY <1>2, <1>4, <1>8, <2>1, <2>2 DEF RangesKept
  <1> QED
    BY <1>3, <1>4, <1>10, <1>11, ReadingAssumption DEF Measures, SharesInv

LEMMA DriveShares == ASSUME MetricsInv, SharesInv, Drive \/ Stop PROVE SharesInv'
  <1>1. /\ phase = "open" /\ Len(events) < MaxEvents /\ IsTrip(trip) /\ trip.odo \in Measured
        /\ roundings \in Nat
    BY DEF Drive, Stop, MetricsInv, Trips, SharesInv, Measures, RangesKept
  <1>2. PICK gap \in 0..GapThreshold, e \in Reading :
            /\ Absorbed(trip.at + gap, e)
            /\ \/ trip' = Moved(trip, trip.at + gap, e) /\ roundings' = roundings
               \/ /\ trip' = Saved(Ended(trip, trip.at + gap, e))
                  /\ roundings' = Tally(Ended(trip, trip.at + gap, e), roundings)
    BY DEF Drive, Stop, Tallied, Tally
  <1> DEFINE at == trip.at + gap
  <1>3. at \in Nat /\ at \in trip.at .. trip.at + GapThreshold
    <2>1. trip.at \in Nat
      BY <1>1 DEF IsTrip
    <2> QED
      BY <2>1 DEF GapThreshold
  <1> HIDE DEF at
  <1>4. ASSUME NEW u \in {Moved(trip, at, e), Ended(trip, at, e)}
        PROVE  IsTrip(u) /\ Measures(u, events', roundings)
    <2>1. /\ u.startAt = trip.startAt /\ u.at = at
          /\ u.odo \in {trip.odo, Odometer(trip.odo, e)}
          /\ \A x \in Share :
                u[x] = trip[x] + Split(trip.at, at, Segment(trip.odo, trip.pos, e))[x]
      BY <1>1, <1>3, ClosedAdds
    <2>2. /\ IsTrip(u)
          /\ u.distance = trip.distance + Segment(trip.odo, trip.pos, e)
          /\ \A x \in {"max", "min", "alerts"} : u[x] = Observe(trip, e)[x]
      <3>1. CASE u = Moved(trip, at, e)
        BY <1>1, <1>3, <3>1, MovedKeeps
      <3>2. CASE u = Ended(trip, at, e)
        BY <1>1, <1>3, <3>2, EndedKeeps
      <3> QED
        BY <3>1, <3>2
    <2>3. u.odo \in Measured
      BY <1>1, <2>1, OdometerIs
    <2>4. Absorbed(at, e)
      BY <1>2 DEF at
    <2> QED
      BY <1>1, <1>3, <2>1, <2>2, <2>3, <2>4, SegmentAdds
  <1>5. roundings' \in Nat /\ Measures(trip', events', roundings')
    <2>1. CASE trip' = Moved(trip, at, e) /\ roundings' = roundings
      BY <1>1, <1>4, <2>1
    <2>2. CASE trip' = Saved(Ended(trip, at, e)) /\ roundings' = Tally(Ended(trip, at, e), roundings)
      BY <1>1, <1>4, <2>2, SavedMeasures
    <2> QED
      BY <1>2, <2>1, <2>2 DEF at
  <1>6. Len(events') <= MaxEvents
    <2>1. Len(events) \in Nat /\ Len(events') = Len(events) + 1
      BY <1>2, <1>3, OneMoreEvent DEF at, MetricsInv
    <2> QED
      BY <1>1, <2>1, ReadingAssumption
  <1> QED
    BY <1>5, <1>6 DEF SharesInv

LEMMA SavingShares == ASSUME MetricsInv, SharesInv, Silence \/ NextBatch PROVE SharesInv'
  <1>1. /\ phase = "open" /\ IsTrip(trip) /\ UNCHANGED events
        /\ roundings \in Nat /\ Measures(trip, events, roundings)
    BY DEF Silence, NextBatch, MetricsInv, Trips, SharesInv
  <1>2. /\ trip' = Saved(trip) \/ trip' = Restored(Saved(trip))
        /\ roundings' = Tally(trip, roundings)
    BY DEF Silence, NextBatch, Tallied, Tally
  <1> DEFINE u == Saved(trip)
  <1>3. IsTrip(u) /\ roundings' \in Nat /\ Measures(u, events, roundings')
    BY <1>1, <1>2, SavedKeeps, SavedMeasures
  <1> HIDE DEF u
  <1>4. Measures(trip', events, roundings')
    <2>1. CASE trip' = u
      BY <1>3, <2>1
    <2>2. CASE trip' = Restored(u)
      <3>1. SameBut(trip', u, {"pos"})
        BY <1>3, <2>2, RestoredKeeps
      <3> QED
        BY <1>3, <3>1, RestoredMeasures
    <2> QED
      BY <1>2, <2>1, <2>2 DEF u
  <1> QED
    BY <1>1, <1>3, <1>4 DEF SharesInv

LEMMA SharesStepKeeps ==
    ASSUME MetricsInv, SharesInv, [MetricsNext]_metricsVars
    PROVE  SharesInv'
  <1>1. CASE UNCHANGED metricsVars
    <2>1. UNCHANGED <<phase, trip, events, roundings>>
      BY <1>1 DEF metricsVars
    <2> QED
      BY <2>1 DEF SharesInv, Measures, HoursKept, SharesKept, RangesKept
  <1> QED
    BY <1>1, StartTripShares, DriveShares, SavingShares DEF MetricsNext

Flags == phase \in {"idle", "open", "closed"} /\ blurred \in BOOLEAN

LEMMA FlagsStep == ASSUME Flags, [MetricsNext]_metricsVars PROVE Flags'
  <1>1. \A e : Blurs(e) => blurred' \in BOOLEAN
    BY DEF Blurs
  <1>2. CASE Drive \/ Stop
    BY <1>1, <1>2 DEF Drive, Stop, Flags
  <1>3. CASE StartTrip \/ Silence \/ NextBatch
    BY <1>3 DEF StartTrip, Silence, NextBatch, Flags
  <1>4. CASE UNCHANGED metricsVars
    BY <1>4 DEF metricsVars, Flags
  <1> QED
    BY <1>2, <1>3, <1>4 DEF MetricsNext

LEMMA FlagsTyped == MetricsSpec => []Flags
  <1>1. MetricsInit => Flags
    BY DEF MetricsInit, Flags
  <1> QED
    BY <1>1, FlagsStep, PTL DEF MetricsSpec

LEMMA HoursAndShares == MetricsSpec => [](MetricsInv /\ SharesInv)
  <1>1. MetricsInv /\ SharesInv /\ [MetricsNext]_metricsVars => MetricsInv' /\ SharesInv'
    BY MetricsStepKeeps, SharesStepKeeps
  <1> QED
    BY <1>1, MetricsInitially, SharesInitially, PTL DEF MetricsSpec

\* What a trip accumulates has its type: distances and shares are never negative, and the
\* lowest and highest speeds are those that are valid (_accumulate_speed, detector.py).
THEOREM MetricsTyped == MetricsSpec => []MetricsTypeOK
  <1>1. Flags /\ MetricsInv /\ SharesInv => MetricsTypeOK
    BY DEF Flags, SharesInv, Measures, SharesKept, RangesKept, MetricsTypeOK
  <1> QED
    BY <1>1, FlagsTyped, HoursAndShares, PTL

\* The metrics of a trip are those of its events, for any readings, times and batches: its
\* day and night seconds, the shares of its distance, and its speeds and alerts.
THEOREM MetricsAreOfEvents == MetricsSpec => []MetricsMatch
  <1>1. MetricsInv /\ SharesInv => HoursAddUp
    <2> SUFFICES ASSUME MetricsInv, SharesInv, phase # "idle"
                 PROVE  LET hours == trip.startAt .. trip.at - 1
                        IN  /\ trip.nightTime = Cardinality({h \in hours : IsNight(h)})
                            /\ trip.dayTime = Cardinality({h \in hours : ~IsNight(h)})
      BY DEF HoursAddUp
    <2> DEFINE hours == trip.startAt .. trip.at - 1
    <2>1. \A h \in hours : h \in Nat
      BY DEF SharesInv, Measures, HoursKept
    <2>2. /\ {h \in hours : IsNight(h)} = HoursIn(Night, trip.startAt, trip.at)
          /\ {h \in hours : ~IsNight(h)} = HoursIn(Day, trip.startAt, trip.at)
      BY <2>1 DEF HoursIn, Night, Day
    <2> QED
      BY <2>2 DEF SharesInv, Measures, HoursKept
  <1>2. SharesInv => SharesAddUp
    BY DEF SharesInv, Measures, SharesKept, SharesAddUp
  <1> QED
    BY <1>1, <1>2, HoursAndShares, ExtremesAreOfEvents, PTL DEF MetricsMatch

-----------------------------------------------------------------------------
(* Saved or not *)

\* A trip and its mirror after r saves that rounded, and a segment measured from a position
\* that was replaced, or none.
Like(t, m, r, b) ==
    /\ \A part \in Untouched : t[part] = m[part]
    /\ \A c \in {"lat", "lon"} : KnownCoordinate(m.pos[c]) => t.pos[c] = m.pos[c]
    /\ t.distance >= m.distance
    /\ ~b => t.distance = m.distance
    /\ \A share \in {"day", "night"} :
          /\ 2 * (m[share] - t[share]) <= Grid * r
          /\ ~b => 2 * (t[share] - m[share]) <= Grid * r

Amounts(t) == t.distance \in Nat /\ t.day \in Nat /\ t.night \in Nat

LikeInv == phase # "idle" => Amounts(mirror) /\ Like(trip, mirror, roundings, blurred)

LEMMA LikeItself == ASSUME NEW t, Amounts(t), NEW r \in Nat, NEW b PROVE Like(t, t, r, b)
  <1>1. \A x \in Nat : 2 * (x - x) <= Grid * r /\ x >= x
    BY DEF Grid
  <1> QED
    BY <1>1 DEF Like, Amounts

\* Saving rounds the shares once.
LEMMA SavedLike ==
    ASSUME NEW t, IsTrip(t), Amounts(t), NEW m, Amounts(m), NEW r \in Nat, NEW b, Like(t, m, r, b)
    PROVE  Like(Saved(t), m, Tally(t, r), b)
  <1>1. CASE Saved(t) = t
    BY <1>1 DEF Tally
  <1>2. CASE Saved(t) # t
    <2> DEFINE u == Saved(t)
    <2>1. SameBut(u, t, {"day", "night"}) /\ u.day = Rounded(t.day) /\ u.night = Rounded(t.night)
      BY SavedKeeps
    <2> HIDE DEF u
    <2>2. /\ \A part \in Untouched : u[part] = t[part]
          /\ u.pos = t.pos /\ u.distance = t.distance
      BY <2>1 DEF SameBut, Part, Untouched
    <2>3. ASSUME NEW share \in {"day", "night"}
          PROVE  /\ 2 * (m[share] - u[share]) <= Grid * (r + 1)
                 /\ ~b => 2 * (u[share] - m[share]) <= Grid * (r + 1)
      <3> DEFINE x == t[share]
                 y == u[share]
                 z == m[share]
      <3>1. x \in Nat /\ z \in Nat /\ y = Rounded(x)
        BY <2>1 DEF Amounts
      <3>2. 2 * (z - x) <= Grid * r /\ (~b => 2 * (x - z) <= Grid * r)
        BY DEF Like
      <3> HIDE DEF x, y, z
      <3>3. y \in Nat /\ 2 * (y - x) <= Grid /\ 2 * (x - y) <= Grid
        BY <3>1, RoundedIs
      <3>4. 2 * (z - y) <= Grid * (r + 1) /\ (~b => 2 * (y - z) <= Grid * (r + 1))
        BY <3>1, <3>2, <3>3 DEF Grid
      <3> QED
        BY <3>4 DEF x, y, z
    <2>4. Like(u, m, r + 1, b)
      BY <2>2, <2>3 DEF Like
    <2>5. Tally(t, r) = r + 1
      BY <1>2 DEF Tally
    <2> QED
      BY <2>4, <2>5 DEF u
  <1> QED
    BY <1>1, <1>2

\* Restoring replaces no coordinate that is known.
LEMMA RestoredLike ==
    ASSUME NEW t, IsTrip(t), NEW m, NEW r, NEW b, Like(t, m, r, b)
    PROVE  Like(Restored(t), m, r, b)
  <1> DEFINE u == Restored(t)
  <1>1. /\ SameBut(u, t, {"pos"})
        /\ u.pos = [lat |-> Or(t.pos.lat, t.start.lat), lon |-> Or(t.pos.lon, t.start.lon)]
    BY RestoredKeeps
  <1> HIDE DEF u
  <1>2. /\ \A part \in Untouched : u[part] = t[part]
        /\ u.distance = t.distance /\ u.day = t.day /\ u.night = t.night
    BY <1>1 DEF SameBut, Part, Untouched
  <1>3. ASSUME NEW c \in {"lat", "lon"}, KnownCoordinate(m.pos[c]) PROVE u.pos[c] = m.pos[c]
    <2>1. t.pos[c] = m.pos[c]
      BY <1>3 DEF Like
    <2>2. u.pos[c] = Or(t.pos[c], t.start[c])
      BY <1>1
    <2> QED
      BY <1>3, <2>1, <2>2 DEF Or
  <1>4. Like(u, m, r, b)
    BY <1>2, <1>3 DEF Like
  <1> QED
    BY <1>4 DEF u

\* A longer segment of the same time has no smaller share.
LEMMA ShareGrows ==
    ASSUME NEW g \in 1..3, NEW n \in 0..g, NEW d \in Nat, NEW more \in Nat, d <= more
    PROVE  (Fine * n * d) \div g <= (Fine * n * more) \div g
  <1>1. CASE g = 1
    <2>1. CASE n = 0
      BY <1>1, <2>1 DEF Fine
    <2>2. CASE n = 1
      BY <1>1, <2>2 DEF Fine
    <2> QED
      BY <1>1, <2>1, <2>2
  <1>2. CASE g = 2
    <2>1. CASE n = 0
      BY <1>2, <2>1 DEF Fine
    <2>2. CASE n = 1
      BY <1>2, <2>2 DEF Fine
    <2>3. CASE n = 2
      BY <1>2, <2>3 DEF Fine
    <2> QED
      BY <1>2, <2>1, <2>2, <2>3
  <1>3. CASE g = 3
    <2>1. CASE n = 0
      BY <1>3, <2>1 DEF Fine
    <2>2. CASE n = 1
      BY <1>3, <2>2 DEF Fine
    <2>3. CASE n = 2
      BY <1>3, <2>3 DEF Fine
    <2>4. CASE n = 3
      BY <1>3, <2>4 DEF Fine
    <2> QED
      BY <1>3, <2>1, <2>2, <2>3, <2>4
  <1> QED
    BY <1>1, <1>2, <1>3

LEMMA SplitGrows ==
    ASSUME NEW from \in Nat, NEW to \in from .. from + GapThreshold,
           NEW d \in Nat, NEW more \in Nat, d <= more
    PROVE  /\ Split(from, to, d).day <= Split(from, to, more).day
           /\ Split(from, to, d).night <= Split(from, to, more).night
  <1> DEFINE n == NightTime(from, to)
             g == to - from
  <1>1. n \in 0..g
    BY NightTimeIs
  <1>2. to \in Nat /\ from <= to /\ g \in 0..3
    BY DEF GapThreshold
  <1> HIDE DEF n
  <1>3. CASE to = from
    BY <1>3 DEF Split
  <1>4. CASE from < to
    <2>1. \A x \in {d, more} : /\ Split(from, to, x).day = (Fine * (g - n) * x) \div g
                               /\ Split(from, to, x).night = (Fine * n * x) \div g
      BY <1>2, <1>4 DEF Split, n
    <2>2. g \in 1..3
      BY <1>2, <1>4
    <2> HIDE DEF g
    <2>3. g - n \in 0..g
      BY <1>1, <2>2
    <2>4. /\ (Fine * n * d) \div g <= (Fine * n * more) \div g
          /\ (Fine * (g - n) * d) \div g <= (Fine * (g - n) * more) \div g
      BY <1>1, <2>2, <2>3, ShareGrows
    <2> QED
      BY <2>1, <2>4
  <1> QED
    BY <1>2, <1>3, <1>4

\* Where the positions differ, that of the mirror measures nothing.
LEMMA SegmentsLike ==
    ASSUME NEW t, IsTrip(t), NEW m, IsTrip(m), t.odo \in Measured, t.odo = m.odo,
           \A c \in {"lat", "lon"} : KnownCoordinate(m.pos[c]) => t.pos[c] = m.pos[c],
           NEW e \in Reading
    PROVE  /\ Segment(m.odo, m.pos, e) <= Segment(t.odo, t.pos, e)
           /\ Segment(t.odo, t.pos, e) \in Nat /\ Segment(m.odo, m.pos, e) \in Nat
           /\ ~(ByPosition(t.odo, e) /\ t.pos # m.pos) =>
                 Segment(m.odo, m.pos, e) = Segment(t.odo, t.pos, e)
  <1>1. Segment(t.odo, t.pos, e) \in Nat /\ Segment(m.odo, m.pos, e) \in Nat
    BY SegmentIs DEF IsTrip
  <1>2. CASE ~ByPosition(t.odo, e)
    <2>1. Segment(m.odo, m.pos, e) = Segment(t.odo, t.pos, e)
      BY <1>2 DEF Segment
    <2> QED
      BY <1>1, <1>2, <2>1
  <1>3. CASE t.pos = m.pos
    <2>1. Segment(m.odo, m.pos, e) = Segment(t.odo, t.pos, e)
      BY <1>3
    <2> QED
      BY <1>1, <1>3, <2>1
  <1>4. CASE ByPosition(t.odo, e) /\ t.pos # m.pos
    <2>1. \E c \in {"lat", "lon"} : m.pos[c] # t.pos[c]
      BY <1>4 DEF IsTrip, Position
    <2>2. ~KnownCoordinate(m.pos.lat) \/ ~KnownCoordinate(m.pos.lon)
      BY <2>1
    <2>3. Odd(m.pos.lat, 90) \/ Odd(m.pos.lon, 180)
      BY <2>2 DEF KnownCoordinate, Odd
    <2>4. Segment(m.odo, m.pos, e) = 0
      BY <1>4, <2>3 DEF Segment, Straight
    <2> QED
      BY <1>1, <1>4, <2>4
  <1> QED
    BY <1>2, <1>3, <1>4

\* A trip and its mirror take in the same event.
LEMMA DrivenLike ==
    ASSUME NEW t, IsTrip(t), Amounts(t), t.odo \in Measured, NEW m, IsTrip(m), Amounts(m),
           NEW r \in Nat, NEW b \in BOOLEAN, Like(t, m, r, b),
           NEW at \in t.at .. t.at + GapThreshold, NEW e \in Reading,
           NEW u, NEW v, IsTrip(u), IsTrip(v),
           \/ u = Moved(t, at, e) /\ v = Moved(m, at, e)
           \/ u = Ended(t, at, e) /\ v = Ended(m, at, e)
    PROVE  /\ Amounts(u) /\ Amounts(v)
           /\ Like(u, v, r, b \/ (ByPosition(t.odo, e) /\ t.pos # m.pos))
  <1> DEFINE d == Segment(m.odo, m.pos, e)
             more == Segment(t.odo, t.pos, e)
             from == t.at
             blur == b \/ (ByPosition(t.odo, e) /\ t.pos # m.pos)
  <1>1. /\ t.at = m.at /\ t.odo = m.odo /\ t.startAt = m.startAt /\ t.start = m.start
        /\ t.dayTime = m.dayTime /\ t.nightTime = m.nightTime
        /\ t.max = m.max /\ t.min = m.min /\ t.alerts = m.alerts
    BY DEF Like, Untouched
  <1>2. from \in Nat /\ at \in Nat /\ at \in from .. from + GapThreshold
    BY DEF IsTrip, GapThreshold
  <1>3. /\ d \in Nat /\ more \in Nat /\ d <= more
        /\ ~(ByPosition(t.odo, e) /\ t.pos # m.pos) => d = more
    BY <1>1, SegmentsLike DEF Like
  <1>4. /\ \A x \in Share : u[x] = t[x] + Split(from, at, more)[x]
        /\ \A x \in Share : v[x] = m[x] + Split(from, at, d)[x]
        /\ u.distance = t.distance + more /\ v.distance = m.distance + d
        /\ u.at = at /\ v.at = at /\ u.startAt = t.startAt /\ v.startAt = m.startAt
        /\ \A x \in {"max", "min", "alerts"} : u[x] = Observe(t, e)[x] /\ v[x] = Observe(m, e)[x]
    <2>1. ASSUME NEW x, IsTrip(x), NEW y \in {Moved(x, at, e), Ended(x, at, e)}
          PROVE  /\ \A k \in Share : y[k] = x[k] + Split(x.at, at, Segment(x.odo, x.pos, e))[k]
                 /\ y.distance = x.distance + Segment(x.odo, x.pos, e)
                 /\ y.at = at /\ y.startAt = x.startAt
                 /\ \A k \in {"max", "min", "alerts"} : y[k] = Observe(x, e)[k]
      <3>1. /\ y.startAt = x.startAt /\ y.at = at
            /\ \A k \in Share : y[k] = x[k] + Split(x.at, at, Segment(x.odo, x.pos, e))[k]
        BY <1>2, <2>1, ClosedAdds
      <3>2. /\ y.distance = x.distance + Segment(x.odo, x.pos, e)
            /\ \A k \in {"max", "min", "alerts"} : y[k] = Observe(x, e)[k]
        <4>1. /\ Moved(x, at, e).distance = x.distance + Segment(x.odo, x.pos, e)
              /\ \A k \in {"max", "min", "alerts"} : Moved(x, at, e)[k] = Observe(x, e)[k]
          BY <1>2, <2>1, MovedKeeps
        <4>2. /\ Ended(x, at, e).distance = x.distance + Segment(x.odo, x.pos, e)
              /\ \A k \in {"max", "min", "alerts"} : Ended(x, at, e)[k] = Observe(x, e)[k]
          BY <1>2, <2>1, EndedKeeps
        <4>3. CASE y = Moved(x, at, e)
          BY <4>1, <4>3
        <4>4. CASE y = Ended(x, at, e)
          BY <4>2, <4>4
        <4> QED
          BY <2>1, <4>3, <4>4
      <3> QED
        BY <3>1, <3>2
    <2>2. u \in {Moved(t, at, e), Ended(t, at, e)} /\ v \in {Moved(m, at, e), Ended(m, at, e)}
      OBVIOUS
    <2> HIDE DEF d, more
    <2>3. /\ \A k \in Share : u[k] = t[k] + Split(from, at, more)[k]
          /\ u.distance = t.distance + more /\ u.at = at /\ u.startAt = t.startAt
          /\ \A k \in {"max", "min", "alerts"} : u[k] = Observe(t, e)[k]
      BY <2>1, <2>2 DEF more
    <2>4. /\ \A k \in Share : v[k] = m[k] + Split(from, at, d)[k]
          /\ v.distance = m.distance + d /\ v.at = at /\ v.startAt = m.startAt
          /\ \A k \in {"max", "min", "alerts"} : v[k] = Observe(m, e)[k]
      BY <1>1, <2>1, <2>2 DEF d
    <2> QED
      BY <2>3, <2>4
  <1>5. u.odo = v.odo /\ u.start = v.start /\ u.pos = v.pos
    BY <1>1, <1>2, PlaceAfter
  <1>6. u.max = v.max /\ u.min = v.min /\ u.alerts = v.alerts
    <2>1. /\ Observe(t, e).max = Observe(m, e).max /\ Observe(t, e).min = Observe(m, e).min
          /\ Observe(t, e).alerts = Observe(m, e).alerts
      BY <1>1, ObserveSame
    <2> QED
      BY <1>4, <2>1
  <1> HIDE DEF d, more
  <1>7. /\ Split(from, at, d).day \in Nat /\ Split(from, at, d).night \in Nat
        /\ Split(from, at, more).day \in Nat /\ Split(from, at, more).night \in Nat
        /\ Split(from, at, d).day <= Split(from, at, more).day
        /\ Split(from, at, d).night <= Split(from, at, more).night
        /\ Split(from, at, d).nightTime = Split(from, at, more).nightTime
        /\ Split(from, at, d).dayTime = Split(from, at, more).dayTime
    BY <1>2, <1>3, SplitIs, SplitGrows
  <1>8. \A part \in Untouched : u[part] = v[part]
    <2>1. u.dayTime = v.dayTime /\ u.nightTime = v.nightTime
      BY <1>1, <1>4, <1>7 DEF Share
    <2> QED
      BY <1>1, <1>4, <1>5, <1>6, <2>1 DEF Untouched
  <1>9. Amounts(u) /\ Amounts(v)
    BY <1>3, <1>4, <1>7 DEF Amounts, Share
  <1>10. u.distance >= v.distance /\ (~blur => u.distance = v.distance)
    <2>1. t.distance >= m.distance /\ (~b => t.distance = m.distance)
      BY DEF Like
    <2> QED
      BY <1>3, <1>4, <2>1 DEF Amounts
  <1>11. ASSUME NEW share \in {"day", "night"}
         PROVE  /\ 2 * (v[share] - u[share]) <= Grid * r
                /\ ~blur => 2 * (u[share] - v[share]) <= Grid * r
    <2> DEFINE x == t[share]
               y == m[share]
               more1 == Split(from, at, more)[share]
               more0 == Split(from, at, d)[share]
    <2>1. /\ x \in Nat /\ y \in Nat /\ more0 \in Nat /\ more1 \in Nat /\ more0 <= more1
          /\ ~blur => more0 = more1
      BY <1>3, <1>7 DEF Amounts
    <2>2. 2 * (y - x) <= Grid * r /\ (~b => 2 * (x - y) <= Grid * r)
      BY DEF Like
    <2>3. u[share] = x + more1 /\ v[share] = y + more0
      BY <1>4 DEF Share
    <2> HIDE DEF x, y, more0, more1
    <2>4. 2 * ((y + more0) - (x + more1)) <= Grid * r
      BY <2>1, <2>2 DEF Grid
    <2>5. ~blur => 2 * ((x + more1) - (y + more0)) <= Grid * r
      BY <2>1, <2>2 DEF Grid
    <2> QED
      BY <2>3, <2>4, <2>5
  <1>12. Like(u, v, r, blur)
    BY <1>5, <1>8, <1>10, <1>11 DEF Like
  <1> QED
    BY <1>9, <1>12

LEMMA LikeStep ==
    ASSUME Flags, MetricsInv, SharesInv, LikeInv, [MetricsNext]_metricsVars
    PROVE  LikeInv'
  <1>1. phase # "idle" =>
            /\ IsTrip(trip) /\ IsTrip(mirror) /\ Amounts(trip) /\ Amounts(mirror)
            /\ trip.odo \in Measured /\ roundings \in Nat /\ blurred \in BOOLEAN
            /\ Like(trip, mirror, roundings, blurred)
    BY DEF Flags, MetricsInv, Trips, SharesInv, Measures, SharesKept, RangesKept, LikeInv, Amounts
  <1>2. CASE StartTrip
    <2>1. PICK at \in StartTime, e \in Reading : trip' = Begun(at, e) /\ mirror' = trip'
      BY <1>2 DEF StartTrip
    <2>2. roundings' \in Nat
      BY <1>2 DEF StartTrip, SharesInv
    <2>3. at \in Nat
      BY ReadingAssumption
    <2>4. Amounts(trip')
      BY <2>1, <2>3, BegunAmounts DEF Amounts
    <2> QED
      BY <2>1, <2>2, <2>4, LikeItself DEF LikeInv
  <1>3. CASE Drive \/ Stop
    <2>1. phase = "open"
      BY <1>3 DEF Drive, Stop
    <2>2. PICK gap \in 0..GapThreshold, e \in Reading :
              /\ Blurs(e)
              /\ \/ /\ trip' = Moved(trip, trip.at + gap, e) /\ roundings' = roundings
                    /\ mirror' = Moved(mirror, trip.at + gap, e)
                 \/ /\ trip' = Saved(Ended(trip, trip.at + gap, e))
                    /\ roundings' = Tally(Ended(trip, trip.at + gap, e), roundings)
                    /\ mirror' = Ended(mirror, trip.at + gap, e)
      BY <1>3 DEF Drive, Stop, Tallied, Tally
    <2> DEFINE at == trip.at + gap
               blur == blurred \/ (ByPosition(trip.odo, e) /\ trip.pos # mirror.pos)
    <2>3. at \in Nat /\ at \in trip.at .. trip.at + GapThreshold
      <3>1. trip.at \in Nat
        BY <1>1, <2>1 DEF IsTrip
      <3> QED
        BY <3>1 DEF GapThreshold
    <2>4. blurred' = blur
      BY <2>2 DEF Blurs
    <2> HIDE DEF at
    <2>5. CASE /\ trip' = Moved(trip, at, e) /\ roundings' = roundings
               /\ mirror' = Moved(mirror, at, e)
      <3>1. IsTrip(trip') /\ IsTrip(mirror')
        BY <1>1, <2>1, <2>3, <2>5, MovedKeeps
      <3>2. Amounts(mirror') /\ Like(trip', mirror', roundings, blur)
        BY <1>1, <2>1, <2>3, <2>5, <3>1, DrivenLike
      <3> QED
        BY <2>4, <2>5, <3>2 DEF LikeInv
    <2>6. CASE /\ trip' = Saved(Ended(trip, at, e))
               /\ roundings' = Tally(Ended(trip, at, e), roundings)
               /\ mirror' = Ended(mirror, at, e)
      <3> DEFINE u == Ended(trip, at, e)
      <3>1. IsTrip(u) /\ IsTrip(mirror')
        BY <1>1, <2>1, <2>3, <2>6, EndedKeeps
      <3>2. Amounts(u) /\ Amounts(mirror') /\ Like(u, mirror', roundings, blur)
        BY <1>1, <2>1, <2>3, <2>6, <3>1, DrivenLike
      <3> HIDE DEF u
      <3>3. Like(Saved(u), mirror', Tally(u, roundings), blur)
        BY <1>1, <2>1, <3>1, <3>2, SavedLike
      <3> QED
        BY <2>4, <2>6, <3>2, <3>3 DEF LikeInv, u
    <2> QED
      BY <2>2, <2>5, <2>6 DEF at
  <1>4. CASE Silence \/ NextBatch
    <2>1. /\ phase = "open" /\ UNCHANGED <<mirror, blurred>>
          /\ trip' = Saved(trip) \/ trip' = Restored(Saved(trip))
          /\ roundings' = Tally(trip, roundings)
      BY <1>4 DEF Silence, NextBatch, Tallied, Tally
    <2> DEFINE u == Saved(trip)
    <2>2. IsTrip(u) /\ Like(u, mirror, roundings', blurred)
      BY <1>1, <2>1, SavedKeeps, SavedLike
    <2> HIDE DEF u
    <2>3. Like(Restored(u), mirror, roundings', blurred)
      BY <2>2, RestoredLike
    <2>4. Like(trip', mirror', roundings', blurred')
      BY <2>1, <2>2, <2>3 DEF u
    <2> QED
      BY <1>1, <2>1, <2>4 DEF LikeInv, Amounts
  <1>5. CASE UNCHANGED metricsVars
    BY <1>5 DEF metricsVars, LikeInv, Amounts
  <1> QED
    BY <1>2, <1>3, <1>4, <1>5 DEF MetricsNext

\* For any readings and any division into batches: times, speeds, alerts and the odometer do
\* not show where the batches end, the distance only where a missing position was replaced,
\* and the shares by half a step for each save that rounded.
THEOREM BatchesDoNotShow == MetricsSpec => []SplitInvisible
  <1>1. MetricsInit => LikeInv
    BY DEF MetricsInit, LikeInv
  <1>2. /\ Flags /\ MetricsInv /\ SharesInv /\ LikeInv /\ [MetricsNext]_metricsVars => LikeInv'
        /\ LikeInv => SplitInvisible
    BY LikeStep DEF LikeInv, Like, SplitInvisible
  <1> QED
    BY <1>1, <1>2, FlagsTyped, HoursAndShares, PTL DEF MetricsSpec

-----------------------------------------------------------------------------
(***************************************************************************)
(* Ratings                                                                 *)
(*                                                                         *)
(* Best and Sum go through the twelve categories one after the other.  The *)
(* function they recurse by exists (Recursion), so what they return can be *)
(* unfolded; then the best of the first categories is the first of those   *)
(* with the highest score, and a sum is that of its twelve terms.          *)
(***************************************************************************)

(* Recursion over the categories *)

LEMMA UpToTwelve ==
    ASSUME NEW S, 0 \in S, \A n \in 0..11 : n \in S => n + 1 \in S
    PROVE  \A n \in 0..12 : n \in S
  <1>1. 1 \in S /\ 2 \in S /\ 3 \in S /\ 4 \in S
    OBVIOUS
  <1>2. 5 \in S /\ 6 \in S /\ 7 \in S /\ 8 \in S
    BY <1>1
  <1>3. 9 \in S /\ 10 \in S /\ 11 \in S /\ 12 \in S
    BY <1>2
  <1> QED
    BY <1>1, <1>2, <1>3

\* g goes through the categories from a first value, by a step.
GoesThrough(g, V, first, step) ==
    /\ g \in [0..12 -> V] /\ g[0] = first
    /\ \A c \in 1..12 : g[c] = step[<<g[c - 1], c>>]

\* From a first value and a step there is a function that goes through the categories.
LEMMA Recursion ==
    ASSUME NEW V, NEW first \in V, NEW step \in [V \X Category -> V]
    PROVE  \E g : GoesThrough(g, V, first, step)
  <1> DEFINE S == {n \in 0..12 : \E g \in [0..n -> V] :
                       g = [c \in 0..n |-> IF c = 0 THEN first ELSE step[<<g[c - 1], c>>]]}
  <1>1. 0 \in S
    <2> DEFINE g == [c \in 0..0 |-> first]
    <2>1. g \in [0..0 -> V] /\ g = [c \in 0..0 |-> IF c = 0 THEN first ELSE step[<<g[c - 1], c>>]]
      OBVIOUS
    <2> HIDE DEF g
    <2> QED
      BY <2>1
  <1>2. ASSUME NEW n \in 0..11, n \in S PROVE n + 1 \in S
    <2>1. PICK g \in [0..n -> V] :
              g = [c \in 0..n |-> IF c = 0 THEN first ELSE step[<<g[c - 1], c>>]]
      BY <1>2
    <2>2. g[0] = first /\ \A c \in 1..n : g[c] = step[<<g[c - 1], c>>]
      BY <2>1
    <2> DEFINE h == [c \in 0..n + 1 |-> IF c = n + 1 THEN step[<<g[n], c>>] ELSE g[c]]
    <2>3. step[<<g[n], n + 1>>] \in V
      BY DEF Category
    <2>4. h \in [0..n + 1 -> V]
      <3>1. \A c \in 0..n + 1 : c # n + 1 => c \in 0..n
        OBVIOUS
      <3>2. \A c \in 0..n + 1 : (IF c = n + 1 THEN step[<<g[n], c>>] ELSE g[c]) \in V
        BY <2>3, <3>1
      <3> QED
        BY <3>2
    <2>5. h[0] = first /\ \A c \in 1..n + 1 : h[c] = step[<<h[c - 1], c>>]
      <3>1. h[0] = first
        BY <2>2
      <3>2. \A c \in 1..n : h[c] = step[<<h[c - 1], c>>]
        BY <2>2
      <3>3. h[n + 1] = step[<<h[(n + 1) - 1], n + 1>>]
        OBVIOUS
      <3> HIDE DEF h
      <3>4. \A c \in 1..n + 1 : c \in 1..n \/ c = n + 1
        OBVIOUS
      <3> QED
        BY <3>1, <3>2, <3>3, <3>4
    <2> HIDE DEF h
    <2>6. h = [c \in 0..n + 1 |-> IF c = 0 THEN first ELSE step[<<h[c - 1], c>>]]
      BY <2>4, <2>5
    <2>7. n + 1 \in 0..12
      OBVIOUS
    <2>8. \E k \in [0..n + 1 -> V] :
              k = [c \in 0..n + 1 |-> IF c = 0 THEN first ELSE step[<<k[c - 1], c>>]]
      BY <2>4, <2>6
    <2> QED
      BY <2>7, <2>8
  <1>3. 12 \in S
    <2> HIDE DEF S
    <2> QED
      BY <1>1, <1>2, UpToTwelve
  <1>4. PICK g \in [0..12 -> V] :
            g = [c \in 0..12 |-> IF c = 0 THEN first ELSE step[<<g[c - 1], c>>]]
    BY <1>3
  <1> HIDE DEF S
  <1>5. g[0] = first
    BY <1>4
  <1>6. \A c \in 1..12 : g[c] = step[<<g[c - 1], c>>]
    <2> TAKE c \in 1..12
    <2>1. c \in 0..12 /\ c # 0
      OBVIOUS
    <2> QED
      BY <1>4, <2>1
  <1> QED
    BY <1>5, <1>6 DEF GoesThrough

-----------------------------------------------------------------------------
(* Sums *)

LEMMA SumUnfolds ==
    ASSUME NEW f \in [Category -> Int]
    PROVE  \E g \in [0..12 -> Int] : /\ g[0] = 0 /\ Sum(f) = g[12]
                                     /\ \A c \in Category : g[c] = g[c - 1] + f[c]
  <1> DEFINE step == [p \in Int \X Category |-> p[1] + f[p[2]]]
             u == CHOOSE g : g = [c \in 0..12 |-> IF c = 0 THEN 0 ELSE g[c - 1] + f[c]]
  <1>1. step \in [Int \X Category -> Int]
    OBVIOUS
  <1>2. PICK g \in [0..12 -> Int] :
            g[0] = 0 /\ \A c \in 1..12 : g[c] = step[<<g[c - 1], c>>]
    <2> DEFINE zero == 0
    <2>1. zero \in Int
      OBVIOUS
    <2> HIDE DEF step, u, zero
    <2>2. PICK g : GoesThrough(g, Int, zero, step)
      BY <1>1, <2>1, Recursion
    <2> QED
      BY <2>2 DEF zero, GoesThrough
  <1>3. /\ g[0] = 0
        /\ \A c \in 1..12 : g[c] = g[c - 1] + f[c]
    <2>1. \A c \in 1..12 : g[c] = step[<<g[c - 1], c>>]
      <3> HIDE DEF step
      <3> QED
        BY <1>2
    <2>2. \A c \in 1..12 : <<g[c - 1], c>> \in Int \X Category
      BY DEF Category
    <2>3. g[0] = 0
      BY <1>2
    <2> QED
      BY <2>1, <2>2, <2>3
  <1>4. g = [c \in 0..12 |-> IF c = 0 THEN 0 ELSE g[c - 1] + f[c]]
    BY <1>3
  <1>5. u = [c \in 0..12 |-> IF c = 0 THEN 0 ELSE u[c - 1] + f[c]]
    BY <1>4
  <1>6. Sum(f) = u[12]
    BY DEF Sum
  <1> HIDE DEF u
  <1> DEFINE S == {n \in 0..12 : u[n] \in Int}
  <1>7. u[0] = 0 /\ \A c \in 1..12 : u[c] = u[c - 1] + f[c]
    BY <1>5
  <1>8. \A n \in 0..12 : n \in S
    <2>1. 0 \in S
      BY <1>7
    <2>2. ASSUME NEW n \in 0..11, n \in S PROVE n + 1 \in S
      <3>1. n + 1 \in 1..12 /\ (n + 1) - 1 = n /\ f[n + 1] \in Int
        BY DEF Category
      <3> QED
        BY <1>7, <2>2, <3>1
    <2> HIDE DEF S
    <2> QED
      BY <2>1, <2>2, UpToTwelve
  <1>9. u \in [0..12 -> Int]
    BY <1>5, <1>8
  <1> QED
    BY <1>6, <1>7, <1>9 DEF Category

LEMMA SumIs ==
    ASSUME NEW f \in [Category -> Int]
    PROVE  Sum(f) = f[1] + f[2] + f[3] + f[4] + f[5] + f[6] + f[7] + f[8] + f[9] + f[10]
                    + f[11] + f[12]
  <1>1. PICK g \in [0..12 -> Int] : /\ g[0] = 0 /\ Sum(f) = g[12]
                                    /\ \A c \in Category : g[c] = g[c - 1] + f[c]
    BY SumUnfolds
  <1>2. /\ g[1] = g[0] + f[1] /\ g[2] = g[1] + f[2] /\ g[3] = g[2] + f[3]
        /\ g[4] = g[3] + f[4] /\ g[5] = g[4] + f[5] /\ g[6] = g[5] + f[6]
        /\ g[7] = g[6] + f[7] /\ g[8] = g[7] + f[8] /\ g[9] = g[8] + f[9]
        /\ g[10] = g[9] + f[10] /\ g[11] = g[10] + f[11] /\ g[12] = g[11] + f[12]
    BY <1>1 DEF Category
  <1>3. \A c \in 0..12 : g[c] \in Int
    OBVIOUS
  <1>4. \A c \in 1..12 : f[c] \in Int
    BY DEF Category
  <1> QED
    BY <1>1, <1>2, <1>3, <1>4

\* One term more by d makes the sum more by d.
LEMMA SumAt ==
    ASSUME NEW f \in [Category -> Int], NEW h \in [Category -> Int], NEW k \in Category,
           NEW d \in Int, h[k] = f[k] + d, \A c \in Category \ {k} : h[c] = f[c]
    PROVE  Sum(h) = Sum(f) + d
  <1>1. /\ Sum(f) = f[1] + f[2] + f[3] + f[4] + f[5] + f[6] + f[7] + f[8] + f[9] + f[10]
                    + f[11] + f[12]
        /\ Sum(h) = h[1] + h[2] + h[3] + h[4] + h[5] + h[6] + h[7] + h[8] + h[9] + h[10]
                    + h[11] + h[12]
    BY SumIs
  <1>2. \A c \in 1..12 : f[c] \in Int /\ h[c] \in Int /\ h[c] = IF c = k THEN f[c] + d ELSE f[c]
    BY DEF Category
  <1>3. k \in 1..12
    BY DEF Category
  <1> QED
    BY <1>1, <1>2, <1>3

\* A sum of nonnegative terms is none below zero.
LEMMA SumOfNats == ASSUME NEW f \in [Category -> Nat] PROVE Sum(f) \in Nat
  <1>1. f \in [Category -> Int] /\ \A c \in 1..12 : f[c] \in Nat
    BY DEF Category
  <1>2. Sum(f) = f[1] + f[2] + f[3] + f[4] + f[5] + f[6] + f[7] + f[8] + f[9] + f[10]
                 + f[11] + f[12]
    BY <1>1, SumIs
  <1> QED
    BY <1>1, <1>2

LEMMA SumOfTwo ==
    ASSUME NEW f \in [Category -> Int], NEW g \in [Category -> Int],
           NEW t \in [Category -> Int], \A c \in Category : t[c] = f[c] + g[c]
    PROVE  Sum(f) + Sum(g) = Sum(t)
  <1>1. /\ Sum(f) = f[1] + f[2] + f[3] + f[4] + f[5] + f[6] + f[7] + f[8] + f[9] + f[10]
                    + f[11] + f[12]
        /\ Sum(g) = g[1] + g[2] + g[3] + g[4] + g[5] + g[6] + g[7] + g[8] + g[9] + g[10]
                    + g[11] + g[12]
        /\ Sum(t) = t[1] + t[2] + t[3] + t[4] + t[5] + t[6] + t[7] + t[8] + t[9] + t[10]
                    + t[11] + t[12]
    BY SumIs
  <1>2. \A c \in 1..12 : f[c] \in Int /\ g[c] \in Int /\ t[c] = f[c] + g[c]
    BY DEF Category
  <1>3. (f[1] + f[2] + f[3] + f[4]) + (g[1] + g[2] + g[3] + g[4]) = t[1] + t[2] + t[3] + t[4]
    BY <1>2
  <1>4. (f[5] + f[6] + f[7] + f[8]) + (g[5] + g[6] + g[7] + g[8]) = t[5] + t[6] + t[7] + t[8]
    BY <1>2
  <1>5. (f[9] + f[10] + f[11] + f[12]) + (g[9] + g[10] + g[11] + g[12])
            = t[9] + t[10] + t[11] + t[12]
    BY <1>2
  <1> DEFINE part(p, i) == p[i] + p[i + 1] + p[i + 2] + p[i + 3]
  <1>6. /\ part(f, 1) + part(g, 1) = part(t, 1) /\ part(f, 5) + part(g, 5) = part(t, 5)
        /\ part(f, 9) + part(g, 9) = part(t, 9)
    BY <1>3, <1>4, <1>5
  <1>7. ASSUME NEW p \in {f, g, t}
        PROVE  /\ Sum(p) = part(p, 1) + part(p, 5) + part(p, 9)
               /\ part(p, 1) \in Int /\ part(p, 5) \in Int /\ part(p, 9) \in Int
    <2>1. /\ Sum(p) = p[1] + p[2] + p[3] + p[4] + p[5] + p[6] + p[7] + p[8] + p[9] + p[10]
                      + p[11] + p[12]
          /\ \A c \in 1..12 : p[c] \in Int
      BY <1>1, <1>2
    <2> QED
      BY <2>1
  <1> HIDE DEF part
  <1> QED
    BY <1>6, <1>7

-----------------------------------------------------------------------------
(* The best category *)

\* The best of the first n categories is the first of those with the highest score, or
\* none when they have none.
BestOf(text, n, b) ==
    /\ b = 0 => \A c \in 1..n : ScoreOf(text, c) = 0
    /\ b # 0 => /\ b \in 1..n /\ ScoreOf(text, b) > 0
                /\ \A c \in 1..n : \/ ScoreOf(text, c) < ScoreOf(text, b)
                                   \/ ScoreOf(text, c) = ScoreOf(text, b) /\ b <= c

LEMMA ScoreTyped == ASSUME NEW text \in Text, NEW c PROVE ScoreOf(text, c) \in Nat
  BY RatingAssumption DEF Text, Hits, ScoreOf

LEMMA ComparedIsBest ==
    ASSUME NEW text \in Text, NEW n \in 0..11, NEW b \in 0..12, BestOf(text, n, b)
    PROVE  /\ Compared(text, b, n + 1) \in 0..12
           /\ BestOf(text, n + 1, Compared(text, b, n + 1))
  <1> DEFINE s(c) == ScoreOf(text, c)
  <1>1. \A c : s(c) \in Nat
    BY ScoreTyped
  <1>2. Compared(text, b, n + 1) = IF b # 0 THEN (IF s(n + 1) > s(b) THEN n + 1 ELSE b)
                                   ELSE IF s(n + 1) = 0 THEN 0 ELSE n + 1
    BY DEF Compared, Better
  <1>3. /\ b = 0 => \A c \in 1..n : s(c) = 0
        /\ b # 0 => /\ b \in 1..n /\ s(b) > 0
                    /\ \A c \in 1..n : s(c) < s(b) \/ (s(c) = s(b) /\ b <= c)
    BY DEF BestOf
  <1>4. \A c \in 1..n + 1 : c \in 1..n \/ c = n + 1
    OBVIOUS
  <1> DEFINE d == Compared(text, b, n + 1)
  <1> HIDE DEF s, d
  <1>5. d = IF b # 0 THEN (IF s(n + 1) > s(b) THEN n + 1 ELSE b)
            ELSE IF s(n + 1) = 0 THEN 0 ELSE n + 1
    BY <1>2 DEF d
  <1>6. d \in 0..12
    BY <1>5
  <1>7. d = 0 => \A c \in 1..n + 1 : s(c) = 0
    BY <1>3, <1>4, <1>5
  <1>8. ASSUME d # 0
        PROVE  /\ d \in 1..n + 1 /\ s(d) > 0
               /\ \A c \in 1..n + 1 : s(c) < s(d) \/ (s(c) = s(d) /\ d <= c)
    <2>1. CASE b = 0
      <3>1. d = n + 1 /\ s(n + 1) # 0
        BY <1>5, <1>8, <2>1
      <3> QED
        BY <1>1, <1>3, <1>4, <2>1, <3>1
    <2>2. CASE b # 0 /\ s(n + 1) > s(b)
      <3>1. d = n + 1
        BY <1>5, <2>2
      <3> QED
        BY <1>1, <1>3, <1>4, <2>2, <3>1
    <2>3. CASE b # 0 /\ ~(s(n + 1) > s(b))
      <3>1. d = b /\ b \in 1..n
        BY <1>3, <1>5, <2>3
      <3> QED
        BY <1>1, <1>3, <1>4, <2>3, <3>1
    <2> QED
      BY <2>1, <2>2, <2>3
  <1> QED
    BY <1>6, <1>7, <1>8 DEF BestOf, s, d

LEMMA BestIsBest ==
    ASSUME NEW text \in Text
    PROVE  Best(text) \in 0..12 /\ BestOf(text, 12, Best(text))
  <1> DEFINE V == 0..12
             step == [p \in V \X Category |-> Compared(text, p[1], p[2])]
             u == CHOOSE g : g = [c \in 0..12 |-> IF c = 0 THEN 0 ELSE Compared(text, g[c - 1], c)]
  <1>1. step \in [V \X Category -> V]
    <2>1. ASSUME NEW b \in V, NEW c \in Category PROVE Compared(text, b, c) \in V
      BY <2>1 DEF Compared, Better, Category
    <2>2. \A p \in V \X Category : Compared(text, p[1], p[2]) \in V
      BY <2>1
    <2> QED
      BY <2>2
  <1>2. PICK g \in [0..12 -> V] :
            g[0] = 0 /\ \A c \in 1..12 : g[c] = step[<<g[c - 1], c>>]
    <2> DEFINE zero == 0
    <2>1. zero \in V
      OBVIOUS
    <2> HIDE DEF step, u, V, zero
    <2>2. PICK g : GoesThrough(g, V, zero, step)
      BY <1>1, <2>1, Recursion
    <2> QED
      BY <2>2 DEF zero, GoesThrough
  <1>3. g[0] = 0 /\ \A c \in 1..12 : g[c] = Compared(text, g[c - 1], c)
    <2>1. \A c \in 1..12 : g[c] = step[<<g[c - 1], c>>]
      <3> HIDE DEF step, V
      <3> QED
        BY <1>2
    <2>2. \A c \in 1..12 : <<g[c - 1], c>> \in V \X Category
      BY DEF Category
    <2>3. g[0] = 0
      BY <1>2
    <2> QED
      BY <2>1, <2>2, <2>3
  <1>4. g = [c \in 0..12 |-> IF c = 0 THEN 0 ELSE Compared(text, g[c - 1], c)]
    BY <1>3
  <1>5. u = [c \in 0..12 |-> IF c = 0 THEN 0 ELSE Compared(text, u[c - 1], c)]
    BY <1>4
  <1>6. Best(text) = u[12]
    BY DEF Best
  <1> HIDE DEF u
  <1>7. u[0] = 0 /\ \A n \in 0..11 : u[n + 1] = Compared(text, u[n], n + 1)
    BY <1>5
  <1> DEFINE S == {n \in 0..12 : u[n] \in 0..12 /\ BestOf(text, n, u[n])}
  <1>8. 0 \in S
    BY <1>7 DEF BestOf
  <1>9. ASSUME NEW n \in 0..11, n \in S PROVE n + 1 \in S
    <2>1. u[n] \in 0..12 /\ BestOf(text, n, u[n])
      BY <1>9
    <2>2. u[n + 1] \in 0..12 /\ BestOf(text, n + 1, u[n + 1])
      BY <1>7, <2>1, ComparedIsBest
    <2>3. n + 1 \in 0..12
      OBVIOUS
    <2> QED
      BY <2>2, <2>3
  <1>10. 12 \in S
    <2> HIDE DEF S
    <2> QED
      BY <1>8, <1>9, UpToTwelve
  <1> QED
    BY <1>6, <1>10

\* The categories are in the order of what they cost.
LEMMA HeavierFirst ==
    \A c, d \in Category : c <= d => Deduction[d] <= Deduction[c] /\ Severity(d) <= Severity(c)
  <1>1. /\ Deduction[1] = 100 /\ Deduction[2] = 90 /\ Deduction[3] = 90 /\ Deduction[4] = 80
        /\ Deduction[5] = 70 /\ Deduction[6] = 60 /\ Deduction[7] = 50 /\ Deduction[8] = 50
        /\ Deduction[9] = 40 /\ Deduction[10] = 30 /\ Deduction[11] = 20 /\ Deduction[12] = 10
    BY DEF Deduction
  <1> HIDE DEF Deduction
  <1>2. \A c, d \in 1..12 : c <= d => Deduction[d] <= Deduction[c]
    BY <1>1
  <1>3. \A c, d \in 1..12 : c <= d => Severity(d) <= Severity(c)
    BY DEF Severity
  <1> QED
    BY <1>2, <1>3 DEF Category

LEMMA DeductionTyped == Deduction \in [Category -> Nat]
  BY DEF Deduction, Category

-----------------------------------------------------------------------------
(* Counts, score and bands *)

RatingTypeOK ==
    /\ listed \in [Category -> Nat]
    /\ pending.known \in BOOLEAN /\ pending.category \in Category
    /\ pending.known => pending.text \in Text

RatingInv == RatingTypeOK /\ HeaviestOfBest

LEMMA SeveritiesAddUp ==
    ASSUME listed \in [Category -> Nat] PROVE Counted(1) + Counted(2) + Counted(3) = Total
  <1> DEFINE low == [c \in Category |-> IF Severity(c) = 1 THEN listed[c] ELSE 0]
             moderate == [c \in Category |-> IF Severity(c) = 2 THEN listed[c] ELSE 0]
             severe == [c \in Category |-> IF Severity(c) = 3 THEN listed[c] ELSE 0]
             u == [c \in Category |-> low[c] + moderate[c]]
  <1>1. Counted(1) = Sum(low) /\ Counted(2) = Sum(moderate) /\ Counted(3) = Sum(severe)
    BY DEF Counted
  <1>2. \A c \in Category : listed[c] \in Int
    OBVIOUS
  <1>3. /\ low \in [Category -> Int] /\ moderate \in [Category -> Int]
        /\ severe \in [Category -> Int] /\ listed \in [Category -> Int]
    BY <1>2
  <1>4. u \in [Category -> Int]
    BY <1>2
  <1>5. \A c \in Category : u[c] = low[c] + moderate[c]
    OBVIOUS
  <1>6. \A c \in Category : listed[c] = u[c] + severe[c]
    BY <1>2 DEF Severity
  <1> HIDE DEF low, moderate, severe, u
  <1>7. Sum(low) + Sum(moderate) = Sum(u)
    BY <1>3, <1>4, <1>5, SumOfTwo
  <1>8. Sum(u) + Sum(severe) = Sum(listed)
    BY <1>3, <1>4, <1>6, SumOfTwo
  <1> QED
    BY <1>1, <1>7, <1>8 DEF Total

\* The points that the challans of a count cost.
Points(f) == Sum([c \in Category |-> f[c] * Deduction[c]])

\* A challan more of some category adds one to the total and its points to the deductions.
LEMMA ChallanAdds ==
    ASSUME NEW p \in [Category -> Nat], NEW q \in [Category -> Nat], NEW k \in Category,
           q[k] = p[k] + 1, \A c \in Category \ {k} : q[c] = p[c]
    PROVE  /\ Sum(p) \in Nat /\ Sum(q) = Sum(p) + 1
           /\ Points(p) \in Nat /\ Points(q) \in Nat /\ Points(p) <= Points(q)
  <1> DEFINE f == [c \in Category |-> p[c] * Deduction[c]]
             h == [c \in Category |-> q[c] * Deduction[c]]
  <1>1. \A c \in Category : Deduction[c] \in Nat /\ p[c] \in Nat /\ q[c] \in Nat
    BY DeductionTyped
  <1>2. \A a, b \in Nat : a * b \in Nat
    OBVIOUS
  <1>3. f \in [Category -> Nat] /\ h \in [Category -> Nat]
    BY <1>1, <1>2
  <1>4. (p[k] + 1) * Deduction[k] = p[k] * Deduction[k] + Deduction[k]
    BY <1>1, OneMore
  <1>5. h[k] = f[k] + Deduction[k] /\ \A c \in Category \ {k} : h[c] = f[c]
    BY <1>4
  <1>6. Points(p) = Sum(f) /\ Points(q) = Sum(h)
    BY DEF Points
  <1> HIDE DEF f, h
  <1>7. f \in [Category -> Int] /\ h \in [Category -> Int] /\ Deduction[k] \in Int
    BY <1>1, <1>3
  <1>8. Sum(h) = Sum(f) + Deduction[k] /\ Sum(f) \in Nat /\ Sum(h) \in Nat
    BY <1>3, <1>5, <1>7, SumAt, SumOfNats
  <1>9. p \in [Category -> Int] /\ q \in [Category -> Int]
    OBVIOUS
  <1>10. Sum(q) = Sum(p) + 1 /\ Sum(p) \in Nat
    BY <1>9, SumAt, SumOfNats
  <1> QED
    BY <1>1, <1>6, <1>8, <1>10

\* The score that deductions leave.
Left(deductions) == Max({0, MaxScore - deductions})

LEMMA ScoreFalls ==
    ASSUME NEW m \in Nat, NEW n \in Nat, m <= n
    PROVE  Left(m) \in 0..300 /\ Left(n) \in 0..300 /\ Left(n) <= Left(m)
  <1>1. \A x \in Int : Max({0, x}) = IF x > 0 THEN x ELSE 0
    <2> TAKE x \in Int
    <2>1. \E y \in {0, x} : \A z \in {0, x} : y >= z
      OBVIOUS
    <2> QED
      BY <2>1 DEF Max
  <1>2. \A k \in Nat : Left(k) = IF 300 - k > 0 THEN 300 - k ELSE 0
    BY <1>1 DEF Left, MaxScore
  <1>3. /\ Left(m) = IF 300 - m > 0 THEN 300 - m ELSE 0
        /\ Left(n) = IF 300 - n > 0 THEN 300 - n ELSE 0
    BY <1>2
  <1> HIDE DEF Left
  <1> QED
    BY <1>3

\* Every score is in one band, and a band of higher scores is better.
LEMMA RiskFalls ==
    ASSUME NEW s \in 0..300, NEW t \in 0..300, s <= t
    PROVE  Risk(s).level <= Risk(t).level /\ Risk(t).premium <= Risk(s).premium
  <1> DEFINE B(i) == Bands[i]
             from == <<285, 270, 240, 210, 180, 150, 120, 90, 60, 0>>
             end(i) == IF i = 1 THEN 301 ELSE from[i - 1]
             level == <<5, 4, 3, 2, 1, 1, 0, 0, 0, 0>>
             premium == <<-20, -10, 25, 50, 75, 100, 125, 150, 175, 200>>
  <1>1. DOMAIN Bands = 1..10
    BY DEF Bands
  <1>2. \A i \in 1..10 : B(i) = Band(from[i], end(i), level[i], premium[i])
    BY DEF Bands
  <1> HIDE DEF B
  <1>3. \A i \in 1..10 : /\ B(i).scores = from[i] .. end(i) - 1
                         /\ B(i).level = level[i] /\ B(i).premium = premium[i]
    <2> HIDE DEF from, end, level, premium
    <2>1. \A a, b, c, d : /\ Band(a, b, c, d).scores = a .. b - 1
                         /\ Band(a, b, c, d).level = c /\ Band(a, b, c, d).premium = d
      BY DEF Band
    <2> QED
      BY <1>2, <2>1
  <1>4. \A i, j \in 1..10 : i <= j => from[j] <= from[i]
    OBVIOUS
  <1>5. \A i, j \in 1..10 : i <= j => level[j] <= level[i]
    OBVIOUS
  <1>6. \A i, j \in 1..10 : i <= j => premium[i] <= premium[j]
    OBVIOUS
  <1>7. \A i \in 1..10 : from[i] \in Nat /\ end(i) \in Nat
    OBVIOUS
  <1>8. \A x \in 0..300 : \E i \in 1..10 : from[i] <= x /\ x < end(i)
    <2> TAKE x \in 0..300
    <2>1. \/ (285 <= x /\ x < 301) \/ (270 <= x /\ x < 285) \/ (240 <= x /\ x < 270)
          \/ (210 <= x /\ x < 240) \/ (180 <= x /\ x < 210) \/ (150 <= x /\ x < 180)
          \/ (120 <= x /\ x < 150) \/ (90 <= x /\ x < 120) \/ (60 <= x /\ x < 90)
          \/ (0 <= x /\ x < 60)
      OBVIOUS
    <2> QED
      BY <2>1
  <1> HIDE DEF from, level, premium
  <1>9. \A i, j \in 1..10 : i < j => end(j) <= from[i]
    <2> TAKE i, j \in 1..10
    <2> HAVE i < j
    <2>1. j - 1 \in 1..10 /\ i <= j - 1 /\ end(j) = from[j - 1]
      OBVIOUS
    <2> QED
      BY <1>4, <2>1
  <1> HIDE DEF end
  <1>10. \A i, j \in 1..10 : \A x, y \in 0..300 :
            x \in B(i).scores /\ y \in B(j).scores /\ x <= y => j <= i
    <2> TAKE i, j \in 1..10
    <2> TAKE x, y \in 0..300
    <2> HAVE x \in B(i).scores /\ y \in B(j).scores /\ x <= y
    <2>1. from[i] <= x /\ y < end(j)
      <3>1. x \in from[i] .. end(i) - 1
        <4>1. B(i).scores = from[i] .. end(i) - 1
          BY <1>3
        <4> QED
          BY <4>1
      <3>3. y \in from[j] .. end(j) - 1
        <4>1. B(j).scores = from[j] .. end(j) - 1
          BY <1>3
        <4> QED
          BY <4>1
      <3>2. from[i] \in Nat /\ from[j] \in Nat /\ end(i) \in Nat /\ end(j) \in Nat
        BY <1>7
      <3> QED
        BY <3>1, <3>2, <3>3
    <2>2. ~(i < j)
      BY <1>7, <1>9, <2>1
    <2> QED
      BY <2>2
  <1>11. ASSUME NEW x \in 0..300
        PROVE  \E i \in 1..10 : x \in B(i).scores /\ Risk(x) = B(i)
    <2> DEFINE hit == {i \in 1..10 : x \in B(i).scores}
    <2>1. PICK i \in 1..10 : x \in B(i).scores
      <3>1. PICK i \in 1..10 : from[i] <= x /\ x < end(i)
        BY <1>8
      <3>2. from[i] \in Nat /\ end(i) \in Nat /\ B(i).scores = from[i] .. end(i) - 1
        BY <1>3, <1>7
      <3>3. x \in from[i] .. end(i) - 1
        BY <3>1, <3>2
      <3> QED
        BY <3>2, <3>3
    <2>2. \A j \in 1..10 : x \in B(j).scores => j = i
      <3>1. x <= x
        OBVIOUS
      <3>2. \A j \in 1..10 : x \in B(j).scores => j <= i /\ i <= j
        <4> TAKE j \in 1..10
        <4> HAVE x \in B(j).scores
        <4>1. j <= i
          BY <1>10, <2>1, <3>1
        <4>2. i <= j
          BY <1>10, <2>1, <3>1
        <4> QED
          BY <4>1, <4>2
      <3> QED
        BY <3>2
    <2>3. hit = {i}
      BY <2>1, <2>2
    <2>4. Min(hit) = i
      BY <2>3 DEF Min
    <2>5. hit = {j \in DOMAIN Bands : x \in Bands[j].scores}
      BY <1>1 DEF B
    <2> HIDE DEF hit
    <2>6. Risk(x) = B(i)
      BY <2>3, <2>4, <2>5 DEF Risk, B
    <2> QED
      BY <2>1, <2>6
  <1>12. PICK i \in 1..10 : s \in B(i).scores /\ Risk(s) = B(i)
    BY <1>11
  <1>13. PICK j \in 1..10 : t \in B(j).scores /\ Risk(t) = B(j)
    BY <1>11
  <1>14. j <= i
    BY <1>10, <1>12, <1>13
  <1>15. /\ Risk(s).level = level[i] /\ Risk(s).premium = premium[i]
         /\ Risk(t).level = level[j] /\ Risk(t).premium = premium[j]
    BY <1>3, <1>12, <1>13
  <1>16. level[i] <= level[j] /\ premium[j] <= premium[i]
    BY <1>5, <1>6, <1>14
  <1> QED
    BY <1>15, <1>16

-----------------------------------------------------------------------------
(* Every step *)

LEMMA RatingInitially == RatingInit => RatingInv
  BY DEF RatingInit, RatingInv, RatingTypeOK, HeaviestOfBest, Nothing, Lightest, Category

LEMMA RatingStutters == RatingInv /\ UNCHANGED ratingVars => RatingInv'
  <1> SUFFICES ASSUME RatingInv, UNCHANGED ratingVars PROVE RatingInv'
    OBVIOUS
  <1>1. listed' = listed /\ pending' = pending
    BY DEF ratingVars
  <1> QED
    BY <1>1 DEF RatingInv, RatingTypeOK, HeaviestOfBest, ScoreOf

LEMMA ClassifyKeeps == ASSUME RatingInv, Classify PROVE RatingInv'
  <1>a. PICK text \in Text :
            \E empty \in {FALSE, Best(text) = 0}, said \in IF Best(text) = 0 THEN Answer ELSE {0} :
                pending' = [known |-> TRUE, text |-> text,
                            category |-> Classified(empty, text, said)]
    BY DEF Classify
  <1>1. PICK empty \in {FALSE, Best(text) = 0}, said \in IF Best(text) = 0 THEN Answer ELSE {0} :
            pending' = [known |-> TRUE, text |-> text, category |-> Classified(empty, text, said)]
    BY <1>a
  <1> DEFINE b == Best(text)
             k == Classified(empty, text, said)
  <1>2. b \in 0..12 /\ BestOf(text, 12, b)
    BY BestIsBest
  <1>3. k = IF empty THEN 12 ELSE IF b = 0 THEN (IF said = 0 THEN 12 ELSE said) ELSE b
    BY DEF Classified, ByModel, Lightest
  <1>4. b # 0 => ~empty
    OBVIOUS
  <1>5. said \in 0..12
    BY DEF Answer, Category
  <1>6. listed' = listed /\ pending'.known = TRUE /\ pending'.text = text /\ pending'.category = k
    BY <1>1 DEF Classify
  <1> HIDE DEF b, k
  <1>7. k \in Category /\ (b # 0 => k = b)
    BY <1>2, <1>3, <1>4, <1>5 DEF Category
  <1>8. RatingTypeOK'
    BY <1>6, <1>7 DEF RatingInv, RatingTypeOK
  <1>9. ASSUME NEW h \in Hinted, ScoreOf(text, h) > 0
        PROVE  \A c \in Category : \/ ScoreOf(text, c) < ScoreOf(text, k)
                                   \/ /\ ScoreOf(text, c) = ScoreOf(text, k)
                                      /\ Deduction[c] <= Deduction[k]
    <2>1. h \in 1..12
      BY RatingAssumption DEF Category
    <2>2. b # 0
      BY <1>2, <1>9, <2>1 DEF BestOf
    <2>3. k = b /\ k \in Category
      BY <1>7, <2>2
    <2>4. \A c \in Category : \/ ScoreOf(text, c) < ScoreOf(text, b)
                              \/ ScoreOf(text, c) = ScoreOf(text, b) /\ b <= c
      BY <1>2, <2>2 DEF BestOf, Category
    <2> QED
      BY <2>3, <2>4, HeavierFirst
  <1>10. HeaviestOfBest'
    <2>1. \A c : ScoreOf(pending'.text, c) = ScoreOf(text, c)
      BY <1>6
    <2> QED
      BY <1>6, <1>9, <2>1 DEF HeaviestOfBest
  <1> QED
    BY <1>8, <1>10 DEF RatingInv

LEMMA InsertChallanKeeps == ASSUME RatingInv, InsertChallan PROVE RatingInv'
  <1>1. listed' = [listed EXCEPT ![pending.category] = @ + 1] /\ pending' = Nothing
    BY DEF InsertChallan
  <1>2. listed' \in [Category -> Nat]
    <2>1. listed \in [Category -> Nat] /\ pending.category \in Category
      BY DEF RatingInv, RatingTypeOK
    <2> QED
      BY <1>1, <2>1
  <1>3. pending'.known = FALSE /\ pending'.category = 12
    BY <1>1 DEF Nothing, Lightest
  <1>4. ~pending'.known /\ pending'.known \in BOOLEAN /\ pending'.category \in Category
    <2>1. pending'.category \in Category
      BY <1>3 DEF Category
    <2>2. ~pending'.known /\ pending'.known \in BOOLEAN
      BY <1>3, Zenon
    <2> QED
      BY <2>1, <2>2
  <1>5. RatingTypeOK'
    BY <1>2, <1>4 DEF RatingTypeOK
  <1>6. HeaviestOfBest'
    BY <1>4 DEF HeaviestOfBest
  <1> QED
    BY <1>5, <1>6 DEF RatingInv

LEMMA DropChallanKeeps == ASSUME RatingInv, DropChallan PROVE RatingInv'
  <1>1. PICK k \in Category : listed[k] > 0 /\ listed' = [listed EXCEPT ![k] = @ - 1]
    BY DEF DropChallan
  <1>2. listed[k] \in Nat /\ listed[k] - 1 \in Nat
    BY <1>1 DEF RatingInv, RatingTypeOK
  <1>3. listed' \in [Category -> Nat] /\ pending' = pending
    BY <1>1, <1>2 DEF DropChallan, RatingInv, RatingTypeOK
  <1> QED
    BY <1>3 DEF RatingInv, RatingTypeOK, HeaviestOfBest, ScoreOf

LEMMA RatingStepKeeps == RatingInv /\ [RatingNext]_ratingVars => RatingInv'
  BY RatingStutters, ClassifyKeeps, InsertChallanKeeps, DropChallanKeeps DEF RatingNext

\* The counts and the challan classified have their types, and that is in the heaviest of
\* the categories it matches best.
THEOREM RatingsConsistent == RatingSpec => []RatingInv
  BY RatingInitially, RatingStepKeeps, PTL DEF RatingSpec

\* For any keywords and any number of challans, a heavier offense never counts as a lighter
\* one, and the three severities count every challan once.
THEOREM HeavierIsNeverLighter == RatingSpec => []HeavierRanksHigher
  <1>1. ASSUME RatingInv PROVE HeavierRanksHigher
    <2>1. Counted(1) + Counted(2) + Counted(3) = Total
      BY <1>1, SeveritiesAddUp DEF RatingInv, RatingTypeOK
    <2>2. \A c, d \in Category : Deduction[c] > Deduction[d] => Severity(c) >= Severity(d)
      <3> TAKE c, d \in Category
      <3> HAVE Deduction[c] > Deduction[d]
      <3>1. ~(d <= c)
        BY HeavierFirst, DeductionTyped
      <3>2. c <= d
        BY <3>1 DEF Category
      <3>3. Severity(d) <= Severity(c) /\ Severity(c) \in 1..3 /\ Severity(d) \in 1..3
        BY <3>2, HeavierFirst DEF Severity
      <3> QED
        BY <3>3
    <2> QED
      BY <1>1, <2>1, <2>2 DEF RatingInv, HeavierRanksHigher, SeverityFollowsDeduction
  <1>2. RatingInv => HeavierRanksHigher
    BY <1>1
  <1> QED
    BY <1>2, RatingsConsistent, PTL

\* What a vehicle with listed challans has, and one with a challan more.
LEMMA OneMoreIsWorse ==
    ASSUME NEW p \in [Category -> Nat], NEW q \in [Category -> Nat], NEW k \in Category,
           q[k] = p[k] + 1, \A c \in Category \ {k} : q[c] = p[c]
    PROVE  /\ Sum(q) > Sum(p) /\ ~(Sum(p) > Sum(q))
           /\ Left(Points(q)) <= Left(Points(p))
           /\ Risk(Left(Points(q))).level <= Risk(Left(Points(p))).level
           /\ Risk(Left(Points(q))).premium >= Risk(Left(Points(p))).premium
  <1>1. /\ Sum(p) \in Nat /\ Sum(q) = Sum(p) + 1
        /\ Points(p) \in Nat /\ Points(q) \in Nat /\ Points(p) <= Points(q)
    BY ChallanAdds
  <1>2. /\ Left(Points(p)) \in 0..300 /\ Left(Points(q)) \in 0..300
        /\ Left(Points(q)) <= Left(Points(p))
    BY <1>1, ScoreFalls
  <1>3. /\ Risk(Left(Points(q))).level <= Risk(Left(Points(p))).level
        /\ Risk(Left(Points(p))).premium <= Risk(Left(Points(q))).premium
    BY <1>2, RiskFalls
  <1>4. \A x, y : x <= y => y >= x
    OBVIOUS
  <1> QED
    BY <1>1, <1>2, <1>3, <1>4

LEMMA ScoreOfListed ==
    /\ Score = Left(Points(listed)) /\ Score' = Left(Points(listed'))
    /\ Total = Sum(listed) /\ Total' = Sum(listed')
  BY DEF Score, Left, Deductions, Points, Total, Sum, MaxScore, Max, Deduction

\* For any number of challans, one more never improves the score, the level or the premium
\* of a vehicle, and one less never worsens them.
THEOREM MoreNeverImproves == RatingSpec => MoreIsNeverBetter
  <1> DEFINE A == listed' # listed =>
                      IF Total' > Total THEN Worse(Score', Score) ELSE Worse(Score, Score')
  <1>1. ASSUME RatingInv, [RatingNext]_ratingVars PROVE A
    <2> SUFFICES ASSUME listed' # listed
                 PROVE  IF Total' > Total THEN Worse(Score', Score) ELSE Worse(Score, Score')
      OBVIOUS
    <2>1. listed \in [Category -> Nat] /\ listed' \in [Category -> Nat]
      BY <1>1, RatingStepKeeps DEF RatingInv, RatingTypeOK
    <2>2. CASE InsertChallan
      <3>1. PICK k \in Category : listed'[k] = listed[k] + 1
                               /\ \A c \in Category \ {k} : listed'[c] = listed[c]
        BY <1>1, <2>1, <2>2 DEF InsertChallan, RatingInv, RatingTypeOK
      <3> QED
        BY <2>1, <3>1, OneMoreIsWorse, ScoreOfListed DEF Worse
    <2>3. CASE DropChallan
      <3>1. PICK k \in Category : listed[k] > 0 /\ listed' = [listed EXCEPT ![k] = @ - 1]
        BY <2>3 DEF DropChallan
      <3>2. listed[k] = listed'[k] + 1 /\ \A c \in Category \ {k} : listed[c] = listed'[c]
        BY <2>1, <3>1
      <3> QED
        BY <2>1, <3>2, OneMoreIsWorse, ScoreOfListed DEF Worse
    <2>4. CASE Classify \/ UNCHANGED ratingVars
      BY <2>4 DEF Classify, ratingVars
    <2> QED
      BY <1>1, <2>2, <2>3, <2>4 DEF RatingNext
  <1>2. RatingInv /\ [RatingNext]_ratingVars => [A]_ratingVars
    BY <1>1
  <1> QED
    BY <1>2, RatingsConsistent, PTL DEF RatingSpec, MoreIsNeverBetter


-----------------------------------------------------------------------------
(***************************************************************************)
(* The instances TLC explores: their steps are steps of the parts, so what *)
(* is proved of a part holds of it there.                                  *)
(***************************************************************************)
\* The limits, metrics, ratings and vehicle rows explored together behave as each does by
\* itself.
THEOREM MeasuresRunParts == MCSpec => Spec /\ MetricsSpec /\ RatingSpec /\ VehicleSpec
<1>1. MCInit => Init /\ MetricsInit /\ RatingInit /\ VehicleInit
  BY DEF MCInit
<1>2. [MCNext]_<<vars, metricsVars, ratingVars, vehicleVars, focus>>
          => /\ [Next]_vars /\ [MetricsNext]_metricsVars
             /\ [RatingNext]_ratingVars /\ [VehicleNext]_vehicleVars
  BY DEF MCNext
<1> QED
  BY <1>1, <1>2, PTL DEF MCSpec, Spec, MetricsSpec, RatingSpec, VehicleSpec

\* Every variable of the rate limiter and of a trip's metrics has its type, where they are
\* explored together, for buckets kept as long as those of the code.
THEOREM MeasuresTyped == BucketAssumption /\ MCSpec => []TypesOK
<1>1. BucketAssumption /\ TypeOK /\ MetricsTypeOK => TypesOK
  BY DEF TypesOK
<1>2. BucketAssumption => []BucketAssumption
  BY DEF BucketAssumption
<1> QED
  BY <1>1, <1>2, MeasuresRunParts, LimiterTyped, MetricsTyped, PTL
=============================================================================
