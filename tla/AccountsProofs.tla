--------------------------- MODULE AccountsProofs ---------------------------
(***************************************************************************)
(* What a dashboard user's account keeps, for any numbers of keys, tokens, *)
(* requests and any limits: its API keys, the refresh tokens of its        *)
(* sessions and its usage reports.                                         *)
(***************************************************************************)
EXTENDS MCAccounts, FoldProofs

\* A set whose members are all equal has at most one.
LEMMA AtMostOne == ASSUME NEW S, \A x, y \in S : x = y PROVE Cardinality(S) <= 1
  <1>1. CASE S = {}
    BY <1>1, FS_EmptySet
  <1>2. CASE S # {}
    <2>1. PICK x \in S : S = {x}
      BY <1>2
    <2> QED
      BY <2>1, FS_Singleton
  <1> QED
    BY <1>1, <1>2

-----------------------------------------------------------------------------
(***************************************************************************)
(* API keys                                                                *)
(*                                                                         *)
(* What holds of a user's keys while no two requests overlap, for any      *)
(* number of keys, of requests and any limit.                              *)
(*                                                                         *)
(* LimitHolds and OneHeir are not inductive: a request writes by what it   *)
(* read.  Alone and StillTrue say that what it read is still so when it    *)
(* writes.                                                                 *)
(***************************************************************************)
\* At most one request is between its read and its write.
Alone == \A r, s \in Request : pc[r] # "idle" /\ pc[s] # "idle" => r = s

\* What the request read still holds.
StillTrue ==
    \A r \in Request : /\ pc[r] = "create" => Cardinality(Usable) < MaxKeys
                       /\ pc[r] = "rotate" => target[r] \in Usable

\* A key awaits expiry exactly when it has an heir, and it has one heir.
HeirsAgree ==
    \A k \in issued : /\ \A x, y \in heirs[k] : x = y
                      /\ k \in expiring <=> heirs[k] # {}

Undisturbed ==
    ~overlap => Alone /\ StillTrue /\ HeirsAgree /\ Cardinality(Usable) <= MaxKeys

\* Finitely many keys are issued, and a key that was not has no heir.
Issuance == IsFiniteSet(issued) /\ \A k \in Key \ issued : heirs[k] = {}

\* A request rotates a key that was issued.
Holding == \A r \in Request : pc[r] = "rotate" => target[r] \in issued

Inv == TypeOK /\ Issuance /\ Holding /\ Undisturbed

\* The row inserted next is a new one.
LEMMA FreshIsNew == ASSUME TypeOK, issued # Key PROVE Fresh \in Key \ issued
  BY DEF TypeOK, Fresh

\* The usable keys can be counted.
LEMMA UsableFinite == ASSUME Issuance PROVE IsFiniteSet(Usable) /\ Cardinality(Usable) \in Nat
  <1>1. Usable \subseteq issued
    BY DEF Usable
  <1> QED
    BY <1>1, FS_Subset, FS_CardinalityType DEF Issuance

LEMMA Initially == ASSUME Init PROVE Inv
  <1>1. TypeOK
    BY DEF Init, TypeOK
  <1>2. Issuance
    BY FS_EmptySet DEF Init, Issuance
  <1>3. Usable = {} /\ Cardinality(Usable) = 0
    BY FS_EmptySet DEF Init, Usable
  <1>4. Holding /\ Alone /\ StillTrue /\ HeirsAgree
    BY DEF Init, Holding, Alone, StillTrue, HeirsAgree
  <1> QED
    BY <1>1, <1>2, <1>3, <1>4, LimitAssumption DEF Inv, Undisturbed

LEMMA Stutters == Inv /\ UNCHANGED vars => Inv'
  <1> SUFFICES ASSUME Inv, UNCHANGED vars PROVE Inv'
    OBVIOUS
  <1>1. TypeOK' /\ Issuance' /\ Holding'
    BY DEF vars, Inv, TypeOK, Issuance, Holding
  <1>2. Usable' = Usable
    BY DEF vars, Usable
  <1>3. Undisturbed'
    BY <1>2 DEF vars, Inv, Undisturbed, Alone, StillTrue, HeirsAgree
  <1> QED
    BY <1>1, <1>3 DEF Inv

LEMMA CountKeysKeeps == ASSUME NEW r \in Request, Inv, CountKeys(r) PROVE Inv'
  <1>1. TypeOK' /\ Issuance' /\ Holding'
    BY DEF CountKeys, Inv, TypeOK, Issuance, Holding
  <1>2. Usable' = Usable
    BY DEF CountKeys, Usable
  <1>3. Undisturbed'
    BY <1>2 DEF CountKeys, BelowLimit, InFlight, Inv, TypeOK, Undisturbed, Alone, StillTrue,
           HeirsAgree
  <1> QED
    BY <1>1, <1>3 DEF Inv

LEMMA ReadKeyKeeps == ASSUME NEW r \in Request, NEW k \in Key, Inv, ReadKey(r, k) PROVE Inv'
  <1>1. TypeOK' /\ Issuance' /\ Holding'
    BY DEF ReadKey, Rotatable, Usable, Inv, TypeOK, Issuance, Holding
  <1>2. Usable' = Usable
    BY DEF ReadKey, Usable
  <1>3. Undisturbed'
    BY <1>2 DEF ReadKey, Rotatable, InFlight, Inv, TypeOK, Undisturbed, Alone, StillTrue, HeirsAgree
  <1> QED
    BY <1>1, <1>3 DEF Inv

LEMMA AbortKeeps == ASSUME NEW r \in Request, Inv, Abort(r) PROVE Inv'
  <1>1. TypeOK' /\ Issuance' /\ Holding'
    BY DEF Abort, Inv, TypeOK, Issuance, Holding
  <1>2. Usable' = Usable
    BY DEF Abort, Usable
  <1>3. Undisturbed'
    BY <1>2 DEF Abort, Inv, TypeOK, Undisturbed, Alone, StillTrue, HeirsAgree
  <1> QED
    BY <1>1, <1>3 DEF Inv

LEMMA GraceEndsKeeps == ASSUME NEW k \in Key, Inv, GraceEnds(k) PROVE Inv'
  <1>1. TypeOK' /\ Issuance' /\ Holding'
    BY DEF GraceEnds, Inv, TypeOK, Issuance, Holding
  <1>2. Usable' = Usable
    BY DEF GraceEnds, Usable
  <1>3. Undisturbed'
    BY <1>2 DEF GraceEnds, Inv, Undisturbed, Alone, StillTrue, HeirsAgree
  <1> QED
    BY <1>1, <1>3 DEF Inv

\* An expired key was not usable, so deactivating it disturbs no request.
LEMMA UseExpiredKeeps == ASSUME NEW k \in Key, Inv, UseExpired(k) PROVE Inv'
  <1>1. TypeOK' /\ Issuance' /\ Holding'
    BY DEF UseExpired, Inv, TypeOK, Issuance, Holding
  <1>2. Usable' = Usable
    BY DEF UseExpired, Usable, Inv, TypeOK
  <1>3. Undisturbed'
    BY <1>2 DEF UseExpired, Inv, Undisturbed, Alone, StillTrue, HeirsAgree
  <1> QED
    BY <1>1, <1>3 DEF Inv

\* A revocation outside every request can only make room.
LEMMA RevokeKeyKeeps == ASSUME NEW k \in Key, Inv, RevokeKey(k) PROVE Inv'
  <1>1. TypeOK' /\ Issuance' /\ Holding'
    BY DEF RevokeKey, Inv, TypeOK, Issuance, Holding
  <1>2. Undisturbed'
    <2> SUFFICES ASSUME ~overlap'
                 PROVE  (Alone /\ StillTrue /\ HeirsAgree /\ Cardinality(Usable) <= MaxKeys)'
      BY DEF Undisturbed
    <2>1. ~overlap /\ \A r \in Request : pc[r] = "idle"
      BY DEF RevokeKey, InFlight, Inv, TypeOK
    <2>2. Alone' /\ StillTrue' /\ HeirsAgree'
      BY <2>1 DEF RevokeKey, Inv, Undisturbed, Alone, StillTrue, HeirsAgree
    <2>3. Usable' \subseteq Usable
      BY DEF RevokeKey, Usable
    <2>4. Cardinality(Usable') <= Cardinality(Usable) /\ Cardinality(Usable') \in Nat
      BY <2>3, UsableFinite, FS_Subset, FS_CardinalityType DEF Inv
    <2>5. Cardinality(Usable) \in Nat /\ Cardinality(Usable) <= MaxKeys
      BY <2>1, UsableFinite DEF Inv, Undisturbed
    <2> QED
      BY <2>2, <2>4, <2>5, LimitAssumption
  <1> QED
    BY <1>1, <1>2 DEF Inv

LEMMA CreateKeyKeeps == ASSUME NEW r \in Request, Inv, CreateKey(r) PROVE Inv'
  <1>1. Fresh \in Key \ issued
    BY FreshIsNew DEF CreateKey, Inv
  <1>2. TypeOK'
    BY <1>1 DEF CreateKey, Inv, TypeOK
  <1>3. Issuance' /\ Holding'
    BY <1>1, FS_AddElement DEF CreateKey, Inv, TypeOK, Issuance, Holding
  <1>4. Undisturbed'
    <2> SUFFICES ASSUME ~overlap'
                 PROVE  (Alone /\ StillTrue /\ HeirsAgree /\ Cardinality(Usable) <= MaxKeys)'
      BY DEF Undisturbed
    <2>1. ~overlap /\ Alone /\ HeirsAgree /\ Cardinality(Usable) < MaxKeys
      BY DEF CreateKey, Inv, Undisturbed, StillTrue
    <2>2. \A s \in Request : pc'[s] = "idle"
      BY <2>1 DEF CreateKey, Inv, TypeOK, Alone
    <2>3. Alone' /\ StillTrue'
      BY <2>2 DEF Alone, StillTrue
    <2>4. HeirsAgree'
      BY <1>1, <2>1 DEF CreateKey, Inv, TypeOK, Issuance, HeirsAgree
    <2>5. Usable' = Usable \cup {Fresh}
      BY <1>1 DEF CreateKey, Usable, Inv, TypeOK
    <2>6. Fresh \notin Usable
      BY <1>1 DEF Usable
    <2>7. Cardinality(Usable') = Cardinality(Usable) + 1
      BY <2>5, <2>6, UsableFinite, FS_AddElement DEF Inv
    <2> QED
      BY <2>1, <2>3, <2>4, <2>7, UsableFinite, LimitAssumption DEF Inv
  <1> QED
    BY <1>2, <1>3, <1>4 DEF Inv

\* The heir takes the place of the rotated key among the usable ones.
LEMMA RotateKeyKeeps == ASSUME NEW r \in Request, Inv, RotateKey(r) PROVE Inv'
  <1> DEFINE old == target[r]
  <1>1. Fresh \in Key \ issued
    BY FreshIsNew DEF RotateKey, Inv
  <1>2. old \in issued
    BY DEF RotateKey, Inv, Holding
  <1>3. TypeOK' /\ Issuance' /\ Holding'
    BY <1>1, <1>2, FS_AddElement DEF RotateKey, Inv, TypeOK, Issuance, Holding
  <1>4. Undisturbed'
    <2> SUFFICES ASSUME ~overlap'
                 PROVE  (Alone /\ StillTrue /\ HeirsAgree /\ Cardinality(Usable) <= MaxKeys)'
      BY DEF Undisturbed
    <2>1. ~overlap /\ Alone /\ HeirsAgree /\ Cardinality(Usable) <= MaxKeys
      BY DEF RotateKey, Inv, Undisturbed
    <2>2. old \in Usable
      BY <2>1 DEF RotateKey, Inv, Undisturbed, StillTrue
    <2>3. \A s \in Request : pc'[s] = "idle"
      BY <2>1 DEF RotateKey, Inv, TypeOK, Alone
    <2>4. Alone' /\ StillTrue'
      BY <2>3 DEF Alone, StillTrue
    <2>5. heirs[old] = {}
      BY <2>1, <2>2 DEF HeirsAgree, Usable
    <2>6. /\ issued' = issued \cup {Fresh} /\ expiring' = expiring \cup {old}
          /\ heirs' = [heirs EXCEPT ![old] = {Fresh}]
      BY <2>5 DEF RotateKey
    <2>7. HeirsAgree'
      BY <1>1, <1>2, <2>1, <2>6 DEF Inv, TypeOK, Issuance, HeirsAgree
    <2>8. Usable' = (Usable \ {old}) \cup {Fresh}
      BY <1>1, <1>2, <2>6 DEF RotateKey, Usable, Inv, TypeOK
    <2>9. Fresh \notin Usable \ {old}
      BY <1>1 DEF Usable
    <2>10. IsFiniteSet(Usable \ {old}) /\ Cardinality(Usable \ {old}) = Cardinality(Usable) - 1
      BY <2>2, UsableFinite, FS_RemoveElement DEF Inv
    <2>11. Cardinality((Usable \ {old}) \cup {Fresh}) = Cardinality(Usable \ {old}) + 1
      BY <2>9, <2>10, FS_AddElement
    <2>12. Cardinality(Usable') = Cardinality(Usable)
      BY <2>8, <2>10, <2>11, UsableFinite DEF Inv
    <2> QED
      BY <2>1, <2>4, <2>7, <2>12
  <1> QED
    BY <1>3, <1>4 DEF Inv

LEMMA StepKeeps == ASSUME Inv, [Next]_vars PROVE Inv'
  BY Stutters, CountKeysKeeps, CreateKeyKeeps, RotateKeyKeeps, AbortKeeps, ReadKeyKeeps,
     RevokeKeyKeeps, GraceEndsKeeps, UseExpiredKeeps DEF Next

\* The keys, their heirs and what requests have read agree at every step.
THEOREM KeysConsistent == Spec => []Inv
  BY Initially, StepKeeps, PTL DEF Spec

\* Every variable of the keys keeps its type.
THEOREM KeysTyped == Spec => []TypeOK
  <1>1. Inv => TypeOK
    BY DEF Inv
  <1> QED
    BY <1>1, KeysConsistent, PTL

\* As long as no two requests overlap, creations, rotations, revocations, lazy expiry and
\* failed requests keep the user within any limit.
THEOREM LimitHoldsAlone == Spec => []LimitHolds
  <1>1. Inv => LimitHolds
    BY DEF Inv, Undisturbed, LimitHolds
  <1> QED
    BY <1>1, KeysConsistent, PTL

\* As long as no two requests overlap, a rotated key has one heir, and a key is scheduled
\* to expire exactly when it has one.
THEOREM OneHeirAlone == Spec => []OneHeir
  <1>1. Inv => OneHeir
    BY AtMostOne DEF Inv, Undisturbed, HeirsAgree, OneHeir
  <1> QED
    BY <1>1, KeysConsistent, PTL

-----------------------------------------------------------------------------
(***************************************************************************)
(* Refresh tokens                                                          *)
(*                                                                         *)
(* A live refresh token is exchanged at most once, for any number of       *)
(* tokens and of concurrent refreshes.                                     *)
(*                                                                         *)
(* SingleUse is not inductive: a refresh decides by what other refreshes   *)
(* with its token are about to do.  Claimed and Exchanged say what each    *)
(* of them holds: the row in the making, the committed row.                *)
(***************************************************************************)
Live == Token \ expiredTokens

\* A request works with a token that was issued.
TokenHeld == \A r \in Refresh : refreshPc[r] # "idle" => token[r] \in issuedTokens

\* Until its commit the blacklist does not have the token; after it, no successor exists.
Claimed ==
    \A r \in Refresh : token[r] \in Live =>
        /\ refreshPc[r] = "commit" => token[r] \notin burned
        /\ refreshPc[r] = "issue" => token[r] \in burned /\ successors[token[r]] = {}

\* Of the refreshes with a live token one is past the unique index.
OneClaims ==
    \A r, s \in Refresh :
        /\ token[r] \in Live /\ token[s] = token[r]
        /\ refreshPc[r] \in {"commit", "issue"} /\ refreshPc[s] \in {"commit", "issue"}
        => r = s

\* A live token has no successor before it is burned, and one at most.
Exchanged ==
    \A t \in Live : /\ successors[t] # {} => t \in burned
                    /\ \A x, y \in successors[t] : x = y

TokenInv == TokenTypeOK /\ TokenHeld /\ Claimed /\ OneClaims /\ Exchanged

\* The token signed next is one that was not issued.
LEMMA FreshTokenIsNew ==
    ASSUME TokenTypeOK, issuedTokens # Token PROVE FreshToken \in Token \ issuedTokens
  BY DEF TokenTypeOK, FreshToken

LEMMA TokensInitially == TokenInit => TokenInv
  BY DEF TokenInit, TokenInv, TokenTypeOK, TokenHeld, Claimed, OneClaims, Exchanged, Live

LEMMA TokensStutter == TokenInv /\ UNCHANGED tokenVars => TokenInv'
  BY DEF TokenInv, tokenVars, TokenTypeOK, TokenHeld, Claimed, OneClaims, Exchanged, Live

LEMMA LoginKeeps == TokenInv /\ Login => TokenInv'
  BY FreshTokenIsNew
     DEF Login, TokenInv, TokenTypeOK, TokenHeld, Claimed, OneClaims, Exchanged, Live

LEMMA ExpireKeeps == ASSUME NEW t \in Token, TokenInv, Expire(t) PROVE TokenInv'
  BY DEF Expire, TokenInv, TokenTypeOK, TokenHeld, Claimed, OneClaims, Exchanged, Live

LEMMA CheckKeeps == ASSUME NEW r \in Refresh, NEW t \in Token, TokenInv, Check(r, t) PROVE TokenInv'
  BY DEF Check, Accepts, Goto, TokenInv, TokenTypeOK, TokenHeld, Claimed, OneClaims, Exchanged, Live

LEMMA DecodeFailsKeeps == ASSUME NEW r \in Refresh, TokenInv, DecodeFails(r) PROVE TokenInv'
  BY DEF DecodeFails, Goto, TokenInv, TokenTypeOK, TokenHeld, Claimed, OneClaims, Exchanged, Live

LEMMA InsertKeeps == ASSUME NEW r \in Refresh, TokenInv, InsertClaim(r) PROVE TokenInv'
  BY DEF InsertClaim, Unclaimed, Goto, TokenInv, TokenTypeOK, TokenHeld, Claimed, OneClaims,
         Exchanged, Live

LEMMA FinishKeeps ==
    ASSUME NEW r \in Refresh, TokenInv, Finish(r),
           UNCHANGED <<issuedTokens, expiredTokens, burned, successors>>
    PROVE  TokenInv'
  BY DEF Finish, Goto, TokenInv, TokenTypeOK, TokenHeld, Claimed, OneClaims, Exchanged, Live

LEMMA CommitKeeps == ASSUME NEW r \in Refresh, TokenInv, CommitClaim(r) PROVE TokenInv'
  BY DEF CommitClaim, Goto, TokenInv, TokenTypeOK, TokenHeld, Claimed, OneClaims, Exchanged, Live

LEMMA IssueKeeps == ASSUME NEW r \in Refresh, TokenInv, Issue(r) PROVE TokenInv'
  BY FreshTokenIsNew
     DEF Issue, Finish, Goto, TokenInv, TokenTypeOK, TokenHeld, Claimed, OneClaims, Exchanged,
         Live

LEMMA TokenStepKeeps == TokenInv /\ [TokenNext]_tokenVars => TokenInv'
  BY TokensStutter, LoginKeeps, ExpireKeeps, CheckKeeps, DecodeFailsKeeps, InsertKeeps, FinishKeeps,
     CommitKeeps, IssueKeeps DEF TokenNext, ClaimFails, AbortRefresh

\* The refreshes, the blacklist and the successors agree at every step.
THEOREM RefreshesConsistent == TokenSpec => []TokenInv
  BY TokensInitially, TokenStepKeeps, PTL DEF TokenSpec

\* Every variable of the refreshes keeps its type.
THEOREM TokensTyped == TokenSpec => []TokenTypeOK
  <1>1. TokenInv => TokenTypeOK
    BY DEF TokenInv
  <1> QED
    BY <1>1, RefreshesConsistent, PTL

\* However refreshes with one token overlap, fail and die, a token that has not expired
\* is exchanged at most once, and only after it was blacklisted.
THEOREM TokenIsUsedOnce == TokenSpec => []SingleUse
  <1>1. TokenInv => SingleUse
    BY AtMostOne DEF TokenInv, Exchanged, SingleUse, Live, TokenTypeOK
  <1> QED
    BY <1>1, RefreshesConsistent, PTL

-----------------------------------------------------------------------------
(***************************************************************************)
(* Usage reports                                                           *)
(*                                                                         *)
(* The totals of a summary and of the key page agree, for any requests and *)
(* ids, any length of days and months, and any records written meanwhile.  *)
(*                                                                         *)
(* ReportNested compares the results of queries that saw different tables. *)
(* Nested compares each with what the next window would count now, which   *)
(* only grows while the summary is assembled (WindowGrows).                *)
(***************************************************************************)
Stages == {"none", "top", "today", "days", "month", "months", "year", "done"}
Asked == Stages \ {"none", "done"}
Windows == {"top", "today", "month", "year"}

ReportShape ==
    /\ DOMAIN report = {"now", "stage", "top", "today", "days", "month", "months", "year"}
    /\ report.stage \in Stages /\ report.now \in Nat

\* A request carries the key only once that exists.
KeyKnown == \A r \in ApiRequest : row[r].key => keyMade

\* What is reported already, against what the next longer window would count now.
Nested ==
    /\ report.stage \in {"today", "days", "month"} =>
          report.top.total <= Window(ThisMonth).total
    /\ report.stage \in {"days", "month"} => report.today.total <= Window(ThisMonth).total
    /\ report.stage \in {"months", "year", "done"} =>
          report.top.total <= report.month.total /\ report.today.total <= report.month.total
    /\ report.stage \in {"months", "year"} => report.month.total <= Window(LongAgo).total
    /\ report.stage = "done" => report.month.total <= report.year.total

UsageInv ==
    /\ UsageTypeOK /\ ReportShape /\ KeyKnown
    /\ Nested /\ CountsSplit /\ KeyPageAgrees

LEMMA TheseRequestsAreFinite == IsFiniteSet(ApiRequest) /\ Cardinality(ApiRequest) \in Nat
  BY UsageAssumption, FS_CardinalityType

\* The ids of some requests.
IdsOf(f, R) == {f[r].id : r \in R}

\* Requests have as many ids as requests at most.
LEMMA IdsAreFinite ==
    ASSUME NEW f, NEW R \in SUBSET ApiRequest
    PROVE  IsFiniteSet(IdsOf(f, R)) /\ Cardinality(IdsOf(f, R)) \in 0..Cardinality(ApiRequest)
  <1> DEFINE g == [r \in R |-> f[r].id]
  <1>1. IsFiniteSet(R) /\ Cardinality(R) \in Nat /\ Cardinality(R) <= Cardinality(ApiRequest)
    BY TheseRequestsAreFinite, FS_Subset, FS_CardinalityType
  <1>2. g \in Surjection(R, IdsOf(f, R))
    BY DEF Surjection, IdsOf
  <1> HIDE DEF g
  <1>3. IsFiniteSet(IdsOf(f, R)) /\ Cardinality(IdsOf(f, R)) <= Cardinality(R)
    BY <1>1, <1>2, FS_Surjection
  <1>4. Cardinality(IdsOf(f, R)) \in Nat
    BY <1>3, FS_CardinalityType
  <1> QED
    BY <1>1, <1>3, <1>4, TheseRequestsAreFinite

\* More requests have no fewer ids.
LEMMA IdsGrow ==
    ASSUME NEW f, NEW g, NEW R \in SUBSET ApiRequest, NEW T \in SUBSET ApiRequest,
           R \subseteq T, \A r \in R : g[r].id = f[r].id
    PROVE  Cardinality(IdsOf(f, R)) <= Cardinality(IdsOf(g, T))
  <1>1. IdsOf(f, R) \in SUBSET IdsOf(g, T)
    BY DEF IdsOf
  <1>2. IsFiniteSet(IdsOf(g, T))
    BY IdsAreFinite
  <1> QED
    BY <1>1, <1>2, FS_Subset

LEMMA CountGrows ==
    ASSUME NEW R \in SUBSET ApiRequest, NEW T \in SUBSET R PROVE Count(T) <= Count(R)
  <1>1. Count(T) = Cardinality(IdsOf(row, T)) /\ Count(R) = Cardinality(IdsOf(row, R))
    BY DEF Count, IdsOf
  <1> QED
    BY <1>1, IdsGrow

LEMMA CountsTyped == ASSUME NEW R \in SUBSET ApiRequest PROVE Counts(R) \in CountType
  <1>1. \A T \in SUBSET ApiRequest : Count(T) \in 0..Cardinality(ApiRequest)
    BY IdsAreFinite DEF Count, IdsOf
  <1>2. {r \in R : row[r].ok} \in SUBSET ApiRequest /\ {r \in R : ~row[r].ok} \in SUBSET ApiRequest
    OBVIOUS
  <1> QED
    BY <1>1, <1>2, TheseRequestsAreFinite DEF Counts, CountType

\* Each id is one of a success or of a failure; only one that two requests use is both.
LEMMA OutcomesCover ==
    ASSUME NEW R \in SUBSET Recorded
    PROVE  /\ Counts(R).total <= Counts(R).ok + Counts(R).failed
           /\ ~Reused => Counts(R).total = Counts(R).ok + Counts(R).failed
  <1> DEFINE good == {r \in R : row[r].ok}
             bad == {r \in R : ~row[r].ok}
             goodIds == IdsOf(row, good)
             badIds == IdsOf(row, bad)
  <1>1. good \in SUBSET ApiRequest /\ bad \in SUBSET ApiRequest
    BY DEF Recorded
  <1>2. IsFiniteSet(goodIds) /\ IsFiniteSet(badIds)
    BY <1>1, IdsAreFinite
  <1>3. IdsOf(row, R) = goodIds \cup badIds
    BY DEF IdsOf
  <1>4. ~Reused => goodIds \cap badIds = {}
    <2> SUFFICES ASSUME NEW r \in good, NEW t \in bad, row[r].id = row[t].id PROVE Reused
      BY DEF IdsOf
    <2>1. r # t /\ r \in Recorded /\ t \in Recorded
      OBVIOUS
    <2> QED
      BY <2>1 DEF Reused
  <1> DEFINE both == goodIds \cap badIds
  <1>5. /\ Cardinality(goodIds) \in Nat /\ Cardinality(badIds) \in Nat
        /\ IsFiniteSet(both) /\ Cardinality(both) \in Nat
    <2>1. IsFiniteSet(both)
      BY <1>2, FS_Subset
    <2> QED
      BY <1>2, <2>1, FS_CardinalityType
  <1>6. Cardinality(goodIds \cup badIds)
            = Cardinality(goodIds) + Cardinality(badIds) - Cardinality(both)
    BY <1>2, FS_Union
  <1>7. ~Reused => Cardinality(both) = 0
    BY <1>4, FS_EmptySet
  <1>8. /\ Counts(R).total = Cardinality(goodIds \cup badIds)
        /\ Counts(R).ok = Cardinality(goodIds) /\ Counts(R).failed = Cardinality(badIds)
    BY <1>3 DEF Counts, Count, IdsOf
  <1> HIDE DEF good, bad, goodIds, badIds, both
  <1> QED
    BY <1>5, <1>6, <1>7, <1>8

LEMMA WindowTyped ==
    ASSUME NEW start
    PROVE  /\ Window(start) \in CountType
           /\ Window(start).total <= Window(start).ok + Window(start).failed
           /\ ~Reused => Window(start).total = Window(start).ok + Window(start).failed
  <1> DEFINE W == {r \in Recorded : start <= row[r].at /\ row[r].at < report.now}
  <1>1. W \in SUBSET Recorded /\ W \in SUBSET ApiRequest
    BY DEF Recorded
  <1>2. Window(start) = Counts(W)
    BY DEF Window
  <1> HIDE DEF W
  <1> QED
    BY <1>1, <1>2, CountsTyped, OutcomesCover

\* A longer window counts no fewer requests.
LEMMA WindowNests ==
    ASSUME UsageTypeOK, NEW early \in Int, NEW late \in Int, early <= late
    PROVE  Window(late).total <= Window(early).total
  <1> DEFINE W(start) == {r \in Recorded : start <= row[r].at /\ row[r].at < report.now}
  <1>1. \A r \in ApiRequest : row[r].at \in Nat
    BY UsageAssumption DEF UsageTypeOK
  <1>2. W(early) \in SUBSET ApiRequest /\ W(late) \in SUBSET W(early)
    BY <1>1 DEF Recorded
  <1>3. Count(W(late)) <= Count(W(early))
    BY <1>2, CountGrows
  <1> QED
    BY <1>3 DEF Window, Counts

\* While records are added a window never counts fewer.
LEMMA WindowGrows ==
    ASSUME NEW start, report' = report, Recorded \subseteq Recorded',
           \A r \in Recorded : row'[r] = row[r]
    PROVE  /\ Window(start).total \in Nat /\ Window(start)'.total \in Nat
           /\ Window(start).total <= Window(start)'.total
  <1> DEFINE W == {r \in Recorded : start <= row[r].at /\ row[r].at < report.now}
             W1 == {r \in Recorded' : start <= row'[r].at /\ row'[r].at < report'.now}
  <1>1. W \in SUBSET ApiRequest /\ W1 \in SUBSET ApiRequest
    BY DEF Recorded
  <1>2. W \subseteq W1 /\ \A r \in W : row'[r].id = row[r].id
    OBVIOUS
  <1>3. Window(start).total = Cardinality(IdsOf(row, W))
    BY DEF Window, Counts, Count, IdsOf
  <1>4. Window(start)'.total = Cardinality(IdsOf(row', W1))
    BY DEF Window, Counts, Count, IdsOf
  <1> HIDE DEF W, W1
  <1>5. Cardinality(IdsOf(row, W)) <= Cardinality(IdsOf(row', W1))
    BY <1>1, <1>2, IdsGrow
  <1>6. Cardinality(IdsOf(row, W)) \in Nat /\ Cardinality(IdsOf(row', W1)) \in Nat
    BY <1>1, IdsAreFinite, TheseRequestsAreFinite
  <1> QED
    BY <1>3, <1>4, <1>5, <1>6

\* Windows begin at no negative time.
LEMMA MonthsBegin == ASSUME report.now \in Nat PROVE ThisMonth \in Nat /\ LongAgo \in Nat
  <1>1. ThisMonth \in Nat
    <2>1. report.now \div MonthTicks \in Nat /\ MonthTicks \in Nat
      BY UsageAssumption
    <2> QED
      BY <2>1 DEF ThisMonth
  <1> DEFINE far == ThisMonth - MonthsBack * MonthTicks
  <1>2. far \in Int
    <2>1. MonthsBack * MonthTicks \in Int
      BY UsageAssumption
    <2> QED
      BY <1>1, <2>1
  <1>3. LongAgo = CHOOSE x \in {0, far} : \A y \in {0, far} : x >= y
    BY DEF LongAgo, Max
  <1> HIDE DEF far
  <1>4. \E x \in {0, far} : \A y \in {0, far} : x >= y
    BY <1>2
  <1>5. LongAgo \in {0, far} /\ LongAgo >= 0
    BY <1>3, <1>4
  <1> QED
    BY <1>1, <1>2, <1>5

\* A month begins no later than its days, and the long window no later than the month.
LEMMA WindowOrder ==
    ASSUME report.now \in Nat
    PROVE  /\ LongAgo \in Int /\ ThisMonth \in Int /\ Today \in Int
           /\ LongAgo <= ThisMonth /\ ThisMonth <= Today
  <1> DEFINE n == report.now
             k == MonthTicks \div DayTicks
             q == n \div MonthTicks
  <1>1. /\ DayTicks \in Nat /\ DayTicks > 0 /\ MonthTicks \in Nat /\ MonthTicks > 0
        /\ MonthsBack \in Nat
    BY UsageAssumption
  <1>2. k \in Nat /\ MonthTicks = k * DayTicks
    BY <1>1, UsageAssumption
  <1>3. q \in Nat /\ q * MonthTicks <= n
    BY <1>1
  <1>4. n \div DayTicks \in Nat /\ n < (n \div DayTicks + 1) * DayTicks
    BY <1>1
  <1>5. q * k \in Nat /\ (q * k) * DayTicks <= n
    BY <1>1, <1>2, <1>3
  <1> HIDE DEF n, k, q
  <1>6. \A a, b \in Nat : a * DayTicks < (b + 1) * DayTicks => a <= b
    <2> SUFFICES ASSUME NEW a \in Nat, NEW b \in Nat, b + 1 <= a
                 PROVE  ~(a * DayTicks < (b + 1) * DayTicks)
      OBVIOUS
    <2>1. (a - (b + 1)) * DayTicks >= 0
      BY <1>1
    <2> QED
      BY <1>1, <2>1
  <1>7. q * k <= n \div DayTicks
    <2>1. (q * k) * DayTicks < (n \div DayTicks + 1) * DayTicks
      BY <1>1, <1>4, <1>5 DEF n
    <2> QED
      BY <1>4, <1>5, <1>6, <2>1
  <1>8. (q * k) * DayTicks <= (n \div DayTicks) * DayTicks
    <2>1. ((n \div DayTicks) - q * k) * DayTicks >= 0
      BY <1>1, <1>4, <1>5, <1>7
    <2> QED
      BY <1>1, <1>4, <1>5, <2>1
  <1>9. ThisMonth = q * MonthTicks /\ Today = (n \div DayTicks) * DayTicks
    BY DEF ThisMonth, Today, n, q
  <1>10. ThisMonth \in Nat /\ Today \in Nat /\ ThisMonth <= Today
    BY <1>1, <1>2, <1>3, <1>4, <1>5, <1>8, <1>9
  <1>11. LongAgo \in {0, ThisMonth - MonthsBack * MonthTicks}
    <2> DEFINE far == ThisMonth - MonthsBack * MonthTicks
    <2>1. far \in Int
      BY <1>1, <1>10
    <2> HIDE DEF far
    <2>2. \E x \in {0, far} : \A y \in {0, far} : x >= y
      BY <2>1
    <2> QED
      BY <2>2 DEF LongAgo, Max, far
  <1>12. MonthsBack * MonthTicks \in Nat
    BY <1>1
  <1> QED
    BY <1>10, <1>11, <1>12

LEMMA UsageInitially == UsageInit => UsageInv
  <1> SUFFICES ASSUME UsageInit PROVE UsageInv
    OBVIOUS
  <1>1. UsageTypeOK
    <2>1. Zero \in CountType
      BY TheseRequestsAreFinite DEF Zero, CountType
    <2>2. page \in PageType
      BY DEF UsageInit, NoPage, PageType, Zero
    <2>3. \A w \in {"top", "today", "month", "year"} : report[w] = Zero
      BY DEF UsageInit, Blank
    <2>4. row \in [ApiRequest -> [id : Id \cup {NoId}, ok : BOOLEAN, key : BOOLEAN, at : 0..now]]
      BY DEF UsageInit, NoRow
    <2>5. now \in 0..MaxNow
      <3>1. MaxNow \in Nat
        BY UsageAssumption
      <3>2. now = 0
        BY DEF UsageInit
      <3> QED
        BY <3>1, <3>2
    <2>8. keyMade \in BOOLEAN
      BY Zenon DEF UsageInit
    <2>6. usagePc \in [ApiRequest -> {"new", "task", "inserted", "recorded"}]
      BY DEF UsageInit
    <2>7. \A w \in {"top", "today", "month", "year"} : report[w] \in CountType
      BY <2>1, <2>3
    <2> QED
      BY <2>2, <2>4, <2>5, <2>6, <2>7, <2>8, Zenon DEF UsageTypeOK
  <1>2. ReportShape /\ KeyKnown /\ Nested
    BY DEF UsageInit, NoRow, Blank, ReportShape, Stages, KeyKnown, Nested
  <1>3. CountsSplit /\ KeyPageAgrees
    BY DEF UsageInit, Blank, Zero, CountsSplit, NoPage, KeyPageAgrees
  <1> QED
    BY <1>1, <1>2, <1>3 DEF UsageInv

\* A step that writes records, and neither a report nor a page.
LEMMA WritingKeeps ==
    ASSUME UsageInv, UsageTypeOK', KeyKnown', UNCHANGED <<report, page>>, keyMade => keyMade',
           Recorded \subseteq Recorded', \A r \in Recorded : row'[r] = row[r]
    PROVE  UsageInv'
  <1>1. ReportShape'
    BY DEF UsageInv, ReportShape
  <1>2. KeyPageAgrees'
    BY DEF UsageInv, KeyPageAgrees
  <1>3. Reused => Reused'
    BY DEF Reused
  <1>4. CountsSplit'
    BY <1>3 DEF UsageInv, CountsSplit
  <1>5. Nested'
    <2>1. ThisMonth' = ThisMonth /\ LongAgo' = LongAgo
      BY DEF ThisMonth, LongAgo
    <2> DEFINE m == Window(ThisMonth).total
               y == Window(LongAgo).total
    <2>2. m \in Nat /\ m' \in Nat /\ m <= m' /\ y \in Nat /\ y' \in Nat /\ y <= y'
      BY <2>1, WindowGrows
    <2>3. \A w \in Windows : report[w].total \in Nat
      BY TheseRequestsAreFinite DEF Windows, UsageInv, UsageTypeOK, CountType
    <2> HIDE DEF m, y
    <2> QED
      BY <2>2, <2>3 DEF m, y, Windows, UsageInv, Nested
  <1> QED
    BY <1>1, <1>2, <1>4, <1>5 DEF UsageInv

LEMMA TickKeeps == ASSUME UsageInv, Tick PROVE UsageInv'
  <1>1. UsageTypeOK'
    <2>1. now' \in 0..MaxNow
      BY UsageAssumption DEF Tick, UsageInv, UsageTypeOK
    <2>2. row' \in [ApiRequest -> [id : Id \cup {NoId}, ok : BOOLEAN, key : BOOLEAN, at : 0..now']]
      <3>1. 0..now \subseteq 0..now'
        BY DEF Tick, UsageInv, UsageTypeOK
      <3> QED
        BY <3>1 DEF Tick, requests, UsageInv, UsageTypeOK
    <2> QED
      BY <2>1, <2>2 DEF Tick, requests, UsageInv, UsageTypeOK
  <1> QED
    BY <1>1, WritingKeeps DEF Tick, requests, UsageInv, KeyKnown, Recorded

LEMMA MakeKeyKeeps == ASSUME UsageInv, MakeKey PROVE UsageInv'
  <1>1. UsageTypeOK'
    BY DEF MakeKey, requests, UsageInv, UsageTypeOK
  <1> QED
    BY <1>1, WritingKeeps DEF MakeKey, requests, UsageInv, KeyKnown, Recorded

LEMMA RespondKeeps == ASSUME UsageInv, NEW r \in ApiRequest, Respond(r) PROVE UsageInv'
  <1>1. PICK i \in Id, ok \in BOOLEAN, key \in {FALSE, keyMade} :
            row' = [row EXCEPT ![r] = [id |-> i, ok |-> ok, key |-> key, at |-> 0]]
    BY DEF Respond
  <1>2. key \in BOOLEAN /\ 0 \in 0..now /\ usagePc' = [usagePc EXCEPT ![r] = "task"]
    <2>1. keyMade \in BOOLEAN
      BY Zenon DEF UsageInv, UsageTypeOK
    <2>2. key \in BOOLEAN
      BY <2>1, Zenon
    <2>3. now \in 0..MaxNow /\ MaxNow \in Nat
      BY UsageAssumption DEF UsageInv, UsageTypeOK
    <2>4. 0 \in 0..now
      BY <2>3
    <2>5. usagePc' = [usagePc EXCEPT ![r] = "task"]
      BY DEF Respond, Becomes
    <2> QED
      BY <2>2, <2>4, <2>5
  <1>3. row' \in [ApiRequest -> [id : Id \cup {NoId}, ok : BOOLEAN, key : BOOLEAN, at : 0..now]]
    BY <1>1, <1>2 DEF UsageInv, UsageTypeOK
  <1>4. UsageTypeOK'
    BY <1>2, <1>3 DEF Respond, UsageInv, UsageTypeOK
  <1>5. KeyKnown'
    <2>1. \A t \in ApiRequest : row'[t].key => row[t].key \/ keyMade
      BY <1>1 DEF UsageInv, UsageTypeOK
    <2>2. keyMade' = keyMade
      BY DEF Respond
    <2> QED
      BY <2>1, <2>2 DEF UsageInv, KeyKnown
  <1>6. Recorded \subseteq Recorded' /\ \A t \in Recorded : row'[t] = row[t]
    BY <1>1, <1>2 DEF Respond, UsageInv, UsageTypeOK, Recorded
  <1> QED
    BY <1>4, <1>5, <1>6, WritingKeeps DEF Respond

LEMMA InsertUsageKeeps == ASSUME UsageInv, NEW r \in ApiRequest, InsertUsage(r) PROVE UsageInv'
  <1>1. /\ usagePc[r] = "task" /\ usagePc' = [usagePc EXCEPT ![r] = "inserted"]
        /\ row' = [row EXCEPT ![r].at = now]
    BY DEF InsertUsage, Becomes
  <1>2. row' \in [ApiRequest -> [id : Id \cup {NoId}, ok : BOOLEAN, key : BOOLEAN, at : 0..now]]
    BY <1>1 DEF UsageInv, UsageTypeOK
  <1>3. UsageTypeOK'
    BY <1>1, <1>2 DEF InsertUsage, UsageInv, UsageTypeOK
  <1>4. KeyKnown'
    BY <1>1 DEF InsertUsage, UsageInv, UsageTypeOK, KeyKnown
  <1>5. Recorded \subseteq Recorded' /\ \A t \in Recorded : row'[t] = row[t]
    BY <1>1 DEF UsageInv, UsageTypeOK, Recorded
  <1> QED
    BY <1>3, <1>4, <1>5, WritingKeeps DEF InsertUsage

LEMMA CommitUsageKeeps == ASSUME UsageInv, NEW r \in ApiRequest, CommitUsage(r) PROVE UsageInv'
  <1>1. /\ usagePc' = [usagePc EXCEPT ![r] = "recorded"]
        /\ UNCHANGED <<now, row, keyMade, report, page>>
    BY DEF CommitUsage, Becomes
  <1>2. UsageTypeOK' /\ KeyKnown'
    BY <1>1 DEF UsageInv, UsageTypeOK, KeyKnown
  <1>3. Recorded \subseteq Recorded'
    BY <1>1 DEF UsageInv, UsageTypeOK, Recorded
  <1> QED
    BY <1>1, <1>2, <1>3, WritingKeeps

\* What is dropped was never recorded.
LEMMA DropKeeps == ASSUME UsageInv, NEW r \in ApiRequest, Drop(r) PROVE UsageInv'
  <1>1. /\ usagePc[r] \in {"task", "inserted"} /\ usagePc' = [usagePc EXCEPT ![r] = "new"]
        /\ row' = [row EXCEPT ![r] = NoRow]
    BY DEF Drop, Becomes
  <1>2. NoRow \in [id : Id \cup {NoId}, ok : BOOLEAN, key : BOOLEAN, at : 0..now]
    BY DEF NoRow, UsageInv, UsageTypeOK
  <1>3. UsageTypeOK'
    BY <1>1, <1>2 DEF Drop, UsageInv, UsageTypeOK
  <1>4. KeyKnown'
    BY <1>1 DEF Drop, NoRow, UsageInv, UsageTypeOK, KeyKnown
  <1>5. Recorded \subseteq Recorded' /\ \A t \in Recorded : row'[t] = row[t]
    BY <1>1 DEF UsageInv, UsageTypeOK, Recorded
  <1> QED
    BY <1>3, <1>4, <1>5, WritingKeeps DEF Drop

LEMMA StartReportKeeps == ASSUME UsageInv, StartReport PROVE UsageInv'
  <1>1. report' = [stage |-> "top", now |-> now, top |-> Zero, today |-> Zero, days |-> <<>>,
                   month |-> Zero, months |-> <<>>, year |-> Zero]
    BY DEF StartReport, Blank
  <1>2. UNCHANGED <<now, usagePc, row, keyMade, page>> /\ page.stage = "none"
    BY DEF StartReport, requests, Idle
  <1>3. \A w \in {"top", "today", "month", "year"} : report'[w] = Zero
    BY <1>1
  <1>4. Zero \in CountType
    BY TheseRequestsAreFinite DEF Zero, CountType
  <1>5. UsageTypeOK'
    BY <1>2, <1>3, <1>4 DEF UsageInv, UsageTypeOK
  <1>6. ReportShape' /\ Nested'
    BY <1>1, UsageAssumption DEF UsageInv, UsageTypeOK, ReportShape, Stages, Nested
  <1>7. KeyKnown' /\ KeyPageAgrees'
    BY <1>2 DEF UsageInv, KeyKnown, KeyPageAgrees
  <1>8. CountsSplit'
    BY <1>3 DEF Zero, CountsSplit
  <1> QED
    BY <1>5, <1>6, <1>7, <1>8 DEF UsageInv

\* The queries of a summary run in their order.
LEMMA StagesFollow ==
    /\ Following("top") = "today" /\ Following("today") = "days" /\ Following("days") = "month"
    /\ Following("month") = "months" /\ Following("months") = "year" /\ Following("year") = "done"
  <1>1. DOMAIN Order = 1..7
    BY DEF Order
  <1>2. \A stage : \A i \in 1..7 : Order[i] = stage /\ (\A j \in 1..7 : Order[j] = stage => j = i)
                      => Following(stage) = Order[1 + i]
    <2> SUFFICES ASSUME NEW stage, NEW i \in 1..7, Order[i] = stage,
                        \A j \in 1..7 : Order[j] = stage => j = i
                 PROVE  Following(stage) = Order[1 + i]
      OBVIOUS
    <2>1. (CHOOSE j \in DOMAIN Order : Order[j] = stage) = i
      BY <1>1
    <2> QED
      BY <2>1 DEF Following
  <1>3. /\ Order[1] = "top" /\ Order[2] = "today" /\ Order[3] = "days" /\ Order[4] = "month"
        /\ Order[5] = "months" /\ Order[6] = "year" /\ Order[7] = "done"
    BY DEF Order
  <1>4. \A i, j \in 1..7 : Order[i] = Order[j] => i = j
    BY <1>3
  <1> HIDE DEF Order
  <1> QED
    BY <1>2, <1>3, <1>4

LEMMA QueryKeeps == ASSUME UsageInv, Query PROVE UsageInv'
  <1>1. report.stage \in Asked /\ UNCHANGED <<now, usagePc, row, keyMade, page>>
    BY DEF Query, requests, UsageInv, ReportShape, Asked
  <1> DEFINE stage == report.stage
  <1>2. /\ DOMAIN report' = DOMAIN report
        /\ report'.stage = Following(stage) /\ report'.now = report.now
        /\ report'[stage] = Answer(stage)
        /\ \A w \in Windows : w # stage => report'[w] = report[w]
    BY <1>1 DEF Query, Asked, Stages, Windows, UsageInv, ReportShape
  <1>3. /\ ThisMonth' = ThisMonth /\ LongAgo' = LongAgo
        /\ \A x : Window(x)' = Window(x)
    BY <1>1, <1>2 DEF ThisMonth, LongAgo, Window, Recorded, Counts, Count
  <1>4. /\ Answer("top") = Window(ThisMonth) /\ Answer("month") = Window(ThisMonth)
        /\ Answer("today") = Window(Today) /\ Answer("year") = Window(LongAgo)
    BY DEF Answer
  <1>5. \A w \in Windows : \/ report'[w] = report[w]
                           \/ \E x : report'[w] = Window(x)
    BY <1>2, <1>4 DEF Windows
  <1>6. UsageTypeOK'
    <2>1. \A w \in {"top", "today", "month", "year"} : report'[w] \in CountType
      BY <1>5, WindowTyped DEF Windows, UsageInv, UsageTypeOK
    <2> QED
      BY <1>1, <2>1 DEF UsageInv, UsageTypeOK
  <1>7. ReportShape'
    BY <1>1, <1>2, StagesFollow DEF Asked, Stages, UsageInv, ReportShape
  <1>8. KeyKnown' /\ KeyPageAgrees'
    BY <1>1 DEF UsageInv, KeyKnown, KeyPageAgrees
  <1>9. CountsSplit'
    <2>1. Reused' <=> Reused
      BY <1>1 DEF Reused, Recorded
    <2>2. \A w \in Windows : /\ report'[w].total <= report'[w].ok + report'[w].failed
                             /\ ~Reused => report'[w].total = report'[w].ok + report'[w].failed
      BY <1>5, WindowTyped DEF Windows, UsageInv, CountsSplit
    <2> QED
      BY <2>1, <2>2 DEF Windows, CountsSplit
  <1>10. Nested'
    <2> DEFINE m == Window(ThisMonth).total
               y == Window(LongAgo).total
               d == Window(Today).total
    <2>1. m <= y /\ d <= m
      BY WindowOrder, WindowNests DEF UsageInv, ReportShape
    <2>2. m \in Nat /\ y \in Nat /\ d \in Nat
      BY WindowTyped, TheseRequestsAreFinite DEF CountType
    <2>3. \A w \in Windows : report[w].total \in Nat
      BY TheseRequestsAreFinite DEF Windows, UsageInv, UsageTypeOK, CountType
    <2>4. m' = m /\ y' = y
      BY <1>3
    <2>5. /\ stage = "top" => report'.top.total = m
          /\ stage = "today" => report'.today.total = d
          /\ stage = "month" => report'.month.total = m
          /\ stage = "year" => report'.year.total = y
      BY <1>2, <1>4
    <2> HIDE DEF m, y, d
    <2> QED
      BY <1>1, <1>2, <2>1, <2>2, <2>3, <2>4, <2>5, StagesFollow
         DEF m, y, Asked, Stages, Windows, UsageInv, Nested
  <1> QED
    BY <1>6, <1>7, <1>8, <1>9, <1>10 DEF UsageInv

LEMMA ListKeysKeeps == ASSUME UsageInv, ListKeys PROVE UsageInv'
  <1>1. /\ page' = [stage |-> "keys", listed |-> keyMade, keys |-> Zero, apis |-> Zero]
        /\ UNCHANGED <<now, usagePc, row, keyMade, report>>
    BY DEF ListKeys, NoPage, requests
  <1>2. page' \in PageType
    BY <1>1 DEF PageType, Zero, UsageInv, UsageTypeOK
  <1>3. UsageTypeOK' /\ ReportShape' /\ KeyKnown'
    BY <1>1, <1>2 DEF UsageInv, UsageTypeOK, ReportShape, KeyKnown
  <1>4. KeyPageAgrees'
    BY <1>1 DEF KeyPageAgrees
  <1>5. CountsSplit' /\ Nested'
    BY <1>1 DEF UsageInv, CountsSplit, Reused, Recorded, Nested, ThisMonth, LongAgo, Window,
           Counts, Count
  <1> QED
    BY <1>3, <1>4, <1>5 DEF UsageInv

\* Without a key nothing was recorded for one.
LEMMA CountKeyUsageKeeps == ASSUME UsageInv, CountKeyUsage PROVE UsageInv'
  <1>1. UNCHANGED <<now, usagePc, row, keyMade, report>>
    BY DEF CountKeyUsage, requests
  <1> DEFINE all == Grouped(Keyed)
  <1>2. page' = [page EXCEPT !.stage = "done", !.apis = all,
                             !.keys = IF page.listed THEN all ELSE Zero]
    BY DEF CountKeyUsage, Keyed
  <1>3. all \in [total : Nat, ok : Nat, failed : Nat]
    <2>1. Keyed \in SUBSET ApiRequest
      BY DEF Keyed, Recorded
    <2>2. \A R \in SUBSET ApiRequest : Count(R) \in Nat
      <3> TAKE R \in SUBSET ApiRequest
      <3>1. Count(R) = Cardinality(IdsOf(row, R))
        BY DEF Count, IdsOf
      <3> QED
        BY <3>1, IdsAreFinite, TheseRequestsAreFinite, FS_CardinalityType
    <2>3. Point(Keyed) \in Nat
      <3>1. /\ {r \in Keyed : row[r].ok} \in SUBSET ApiRequest
            /\ {r \in Keyed : ~row[r].ok} \in SUBSET ApiRequest
        BY <2>1
      <3> QED
        BY <2>2, <3>1 DEF Point
    <2>4. Counts(Keyed) \in [total : Nat, ok : Nat, failed : Nat]
      BY <2>1, CountsTyped, TheseRequestsAreFinite DEF CountType
    <2> QED
      BY <2>3, <2>4 DEF Grouped
  <1>4. ~keyMade => all = Zero
    <2> SUFFICES ASSUME ~keyMade PROVE all = Zero
      OBVIOUS
    <2>1. Keyed = {}
      BY DEF Keyed, Recorded, UsageInv, KeyKnown
    <2>2. Count({}) = 0
      <3>1. IdsOf(row, {}) = {}
        BY DEF IdsOf
      <3> QED
        BY <3>1, FS_EmptySet DEF Count, IdsOf
    <2>3. Counts({}) = Zero
      BY <2>2 DEF Counts, Zero
    <2>4. Point({}) = 0
      BY <2>2 DEF Point
    <2> QED
      BY <2>1, <2>3, <2>4 DEF Grouped, Zero
  <1> HIDE DEF all
  <1>5. page' = [stage |-> "done", listed |-> page.listed, apis |-> all,
                 keys |-> IF page.listed THEN all ELSE Zero]
    BY <1>2 DEF UsageInv, UsageTypeOK, PageType
  <1>6. page' \in PageType
    BY <1>3, <1>5 DEF PageType, Zero, UsageInv, UsageTypeOK
  <1>7. UsageTypeOK' /\ ReportShape' /\ KeyKnown'
    BY <1>1, <1>6 DEF UsageInv, UsageTypeOK, ReportShape, KeyKnown
  <1>8. KeyPageAgrees'
    BY <1>1, <1>3, <1>4, <1>5 DEF Zero, KeyPageAgrees
  <1>9. CountsSplit' /\ Nested'
    BY <1>1 DEF UsageInv, CountsSplit, Reused, Recorded, Nested, ThisMonth, LongAgo, Window,
           Counts, Count
  <1> QED
    BY <1>7, <1>8, <1>9 DEF UsageInv

LEMMA UsageStutters == UsageInv /\ UNCHANGED usageVars => UsageInv'
  BY WritingKeeps DEF usageVars, requests, UsageInv, UsageTypeOK, KeyKnown, Recorded

LEMMA UsageStepKeeps == UsageInv /\ [UsageNext]_usageVars => UsageInv'
  BY UsageStutters, TickKeeps, MakeKeyKeeps, StartReportKeeps, QueryKeeps, ListKeysKeeps,
     CountKeyUsageKeeps, RespondKeeps, InsertUsageKeeps, CommitUsageKeeps, DropKeeps DEF UsageNext

\* The records, the summary and the key page agree at every step.
THEOREM UsageConsistent == UsageSpec => []UsageInv
  BY UsageInitially, UsageStepKeeps, PTL DEF UsageSpec

\* Every variable of the reports keeps its type.
THEOREM UsageTyped == UsageSpec => []UsageTypeOK
  <1>1. UsageInv => UsageTypeOK
    BY DEF UsageInv
  <1> QED
    BY <1>1, UsageConsistent, PTL

\* Whatever is recorded between the queries of a summary, its windows nest, its outcomes
\* add up and the two sums of the key page agree.
THEOREM ReportsStayConsistent == UsageSpec => []ReportsAgree
  <1>1. UsageInv => ReportsAgree
    BY DEF UsageInv, Nested, ReportNested, ReportsAgree
  <1> QED
    BY <1>1, UsageConsistent, PTL

-----------------------------------------------------------------------------
(* The points of a series.  Each record of a window is in the bucket of its time and in no
   other, so the buckets counted so far add up to the records in them (InBuckets). *)

\* Without an id used again, requests are counted one by one.
LEMMA CountIs ==
    ASSUME NEW R \in SUBSET Recorded, ~Reused
    PROVE  /\ IsFiniteSet(R) /\ Cardinality(R) \in Nat
           /\ Count(R) = Cardinality(R) /\ Point(R) = Cardinality(R)
  <1>1. ASSUME NEW T \in SUBSET Recorded
        PROVE  IsFiniteSet(T) /\ Cardinality(T) \in Nat /\ Count(T) = Cardinality(T)
    <2> DEFINE g == [r \in T |-> row[r].id]
    <2>1. T \in SUBSET ApiRequest
      BY DEF Recorded
    <2>2. IsFiniteSet(T) /\ Cardinality(T) \in Nat
      BY <2>1, TheseRequestsAreFinite, FS_Subset, FS_CardinalityType
    <2>3. g \in Surjection(T, IdsOf(row, T))
      BY DEF Surjection, IdsOf
    <2>4. \A r, s \in T : row[r].id = row[s].id => r = s
      BY DEF Reused
    <2>5. g \in Injection(T, IdsOf(row, T))
      <3>1. \A r, s \in T : g[r] = g[s] => r = s
        BY <2>4
      <3>2. g \in [T -> IdsOf(row, T)] /\ DOMAIN g = T
        BY DEF IdsOf
      <3> HIDE DEF g
      <3> QED
        BY <3>1, <3>2 DEF Injection, IsInjective
    <2> HIDE DEF g
    <2>6. Cardinality(IdsOf(row, T)) = Cardinality(T)
      BY <2>2, <2>3, <2>5, FS_Surjection
    <2> QED
      BY <2>2, <2>6 DEF Count, IdsOf
  <1> DEFINE good == {r \in R : row[r].ok}
             bad == {r \in R : ~row[r].ok}
  <1>2. good \in SUBSET Recorded /\ bad \in SUBSET Recorded /\ R = good \cup bad
        /\ good \cap bad = {}
    OBVIOUS
  <1>3. Point(R) = Count(good) + Count(bad)
    BY DEF Point
  <1> HIDE DEF good, bad
  <1>4. /\ IsFiniteSet(good) /\ Cardinality(good) \in Nat /\ Count(good) = Cardinality(good)
        /\ IsFiniteSet(bad) /\ Cardinality(bad) \in Nat /\ Count(bad) = Cardinality(bad)
    BY <1>1, <1>2
  <1>5. Cardinality(R) = Cardinality(good) + Cardinality(bad)
    <2>1. Cardinality(good \cup bad) = Cardinality(good) + Cardinality(bad) - Cardinality(good \cap bad)
      BY <1>4, FS_Union
    <2>2. Cardinality(good \cap bad) = 0
      BY <1>2, FS_EmptySet
    <2>3. Cardinality(good \cup bad) = Cardinality(good) + Cardinality(bad)
      BY <1>4, <2>1, <2>2
    <2> QED
      BY <1>2, <2>3
  <1> QED
    BY <1>1, <1>3, <1>4, <1>5

\* Later times have no smaller quotient.
LEMMA QuotientsRise ==
    ASSUME NEW a \in Nat, NEW b \in Nat, a <= b, NEW size \in Nat \ {0}
    PROVE  a \div size \in Nat /\ b \div size \in Nat /\ a \div size <= b \div size
  <1> DEFINE p == a \div size
             q == b \div size
  <1>1. /\ p \in Nat /\ q \in Nat /\ p * size <= a /\ b < (q + 1) * size
    OBVIOUS
  <1> HIDE DEF p, q
  <1>2. ASSUME q + 1 <= p PROVE FALSE
    <2>1. (p - (q + 1)) * size >= 0
      BY <1>1, <1>2
    <2>2. (p - (q + 1)) * size = p * size - (q + 1) * size
      BY <1>1
    <2>3. p * size \in Int /\ (q + 1) * size \in Int
      BY <1>1
    <2> QED
      BY <1>1, <2>1, <2>2, <2>3
  <1> QED
    BY <1>1, <1>2 DEF p, q

InWindow(start) == {r \in Recorded : start <= row[r].at /\ row[r].at < report.now}
InBuckets(start, size, T) == {r \in InWindow(start) : row[r].at \div size \in T}

\* A series adds up to the total of its window.
LEMMA SeriesIs ==
    ASSUME UsageInv, ~Reused, NEW start \in Nat, NEW size \in Nat \ {0}
    PROVE  Sum(Series(start, size)) = Window(start).total
  <1> DEFINE f == Series(start, size)
             D == start \div size .. report.now \div size
             g == [T \in SUBSET D |-> Cardinality(InBuckets(start, size, T))]
  <1>1. /\ report.now \in Nat /\ \A r \in Recorded : row[r].at \in Nat
        /\ InWindow(start) \in SUBSET Recorded
        /\ \A T : InBuckets(start, size, T) \in SUBSET Recorded
    BY UsageAssumption DEF UsageInv, ReportShape, UsageTypeOK, Recorded, InWindow, InBuckets
  <1>2. \A n \in D : f[n] = Point(Bucket(start, size, n))
    BY DEF Series
  <1>3. ASSUME NEW n \in D
        PROVE  /\ Bucket(start, size, n) = InBuckets(start, size, {n})
               /\ f[n] = Cardinality(InBuckets(start, size, {n}))
    <2>1. Bucket(start, size, n) = InBuckets(start, size, {n})
      BY DEF Bucket, InBuckets, InWindow
    <2>2. Point(InBuckets(start, size, {n})) = Cardinality(InBuckets(start, size, {n}))
      BY <1>1, CountIs
    <2> QED
      BY <1>2, <2>1, <2>2
  <1>4. IsFiniteSet(D)
    <2>1. start \div size \in Int /\ report.now \div size \in Int
      BY <1>1
    <2> QED
      BY <2>1, FS_Interval
  <1>5. DOMAIN f = D
    BY DEF Series
  <1> HIDE DEF f, D
  <1>6. Adds(g, f, D)
    <2>1. g \in [SUBSET D -> Int]
      <3>1. \A T \in SUBSET D : Cardinality(InBuckets(start, size, T)) \in Int
        BY <1>1, CountIs
      <3> QED
        BY <3>1
    <2>2. g[{}] = 0
      <3>1. InBuckets(start, size, {}) = {}
        BY DEF InBuckets
      <3> QED
        BY <3>1, FS_EmptySet
    <2>3. ASSUME NEW T \in SUBSET D, NEW n \in T PROVE g[T] = f[n] + g[T \ {n}]
      <3> DEFINE A == InBuckets(start, size, {n})
                 B == InBuckets(start, size, T \ {n})
                 C == InBuckets(start, size, T)
      <3>1. C = A \cup B /\ A \cap B = {}
        BY DEF InBuckets
      <3>2. A \in SUBSET Recorded /\ B \in SUBSET Recorded
        BY <1>1
      <3>3. g[T] = Cardinality(C) /\ g[T \ {n}] = Cardinality(B) /\ f[n] = Cardinality(A)
        BY <1>3
      <3> HIDE DEF A, B, C, g
      <3>4. /\ IsFiniteSet(A) /\ Cardinality(A) \in Nat
            /\ IsFiniteSet(B) /\ Cardinality(B) \in Nat
        BY <3>2, CountIs
      <3>5. Cardinality(A \cup B) = Cardinality(A) + Cardinality(B) - Cardinality(A \cap B)
        BY <3>4, FS_Union
      <3>6. Cardinality(A \cap B) = 0
        BY <3>1, FS_EmptySet
      <3>7. Cardinality(C) = Cardinality(A) + Cardinality(B)
        BY <3>1, <3>4, <3>5, <3>6
      <3> QED
        BY <3>3, <3>7
    <2> HIDE DEF g
    <2> QED
      BY <2>1, <2>2, <2>3 DEF Adds
  <1>7. g[D] = Cardinality(InWindow(start))
    <2>1. ASSUME NEW r \in InWindow(start) PROVE row[r].at \div size \in D
      <3>1. /\ row[r].at \in Nat /\ start <= row[r].at /\ row[r].at <= report.now
        BY <1>1 DEF InWindow
      <3>2. /\ start \div size <= row[r].at \div size /\ row[r].at \div size <= report.now \div size
            /\ row[r].at \div size \in Nat /\ start \div size \in Nat /\ report.now \div size \in Nat
        BY <1>1, <3>1, QuotientsRise
      <3> QED
        BY <3>2 DEF D
    <2>2. InBuckets(start, size, D) = InWindow(start)
      BY <2>1 DEF InBuckets
    <2> QED
      BY <2>2
  <1> HIDE DEF g
  <1>8. Summed(f, D) = Cardinality(InWindow(start))
    BY <1>4, <1>6, <1>7, SummedIs
  <1>9. Sum(f) = Summed(f, D)
    BY <1>5 DEF Sum, FoldFunction, Summed
  <1>10. Window(start).total = Cardinality(InWindow(start))
    <2>1. Window(start).total = Count(InWindow(start))
      BY DEF Window, Counts, InWindow
    <2> QED
      BY <1>1, <2>1, CountIs
  <1> QED
    BY <1>8, <1>9, <1>10 DEF f

\* What a series adds up to, from its query on, against the count of its window: that
\* count only grows until it is queried too (WindowGrows).
SeriesKept ==
    ~Reused =>
        /\ report.stage \in {"month", "months", "year", "done"} => Sum(report.days) \in Nat
        /\ report.stage \in {"year", "done"} => Sum(report.months) \in Nat
        /\ report.stage = "month" => Covers(Window(ThisMonth).total, report.days)
        /\ report.stage \in {"months", "year", "done"} => Covers(report.month.total, report.days)
        /\ report.stage = "year" => Covers(Window(LongAgo).total, report.months)
        /\ report.stage = "done" => Covers(report.year.total, report.months)

\* A step that writes no report: records committed meanwhile disturb it.
LEMMA SeriesStay ==
    ASSUME SeriesKept, report' = report, disturbed => disturbed',
           Recorded \subseteq Recorded', \A r \in Recorded : row'[r] = row[r],
           Recorded' = Recorded \/ disturbed' \/ report.stage \in {"none", "done"}
    PROVE  SeriesKept'
  <1>1. Reused => Reused'
    BY DEF Reused
  <1>2. ThisMonth' = ThisMonth /\ LongAgo' = LongAgo
    BY DEF ThisMonth, LongAgo
  <1>3. ASSUME NEW start
        PROVE  /\ Window(start).total \in Nat /\ Window(start)'.total \in Nat
               /\ Window(start).total <= Window(start)'.total
    BY WindowGrows
  <1>4. ASSUME Recorded' = Recorded, NEW start
        PROVE  Window(start)'.total = Window(start).total
    <2>1. InWindow(start)' = InWindow(start)
      BY <1>4 DEF InWindow
    <2>2. Window(start).total = Cardinality(IdsOf(row, InWindow(start)))
      BY DEF Window, Counts, Count, IdsOf, InWindow
    <2>3. Window(start)'.total = Cardinality(IdsOf(row', InWindow(start)'))
      BY DEF Window, Counts, Count, IdsOf, InWindow
    <2>4. IdsOf(row', InWindow(start)) = IdsOf(row, InWindow(start))
      BY <1>4 DEF IdsOf, InWindow
    <2> QED
      BY <2>1, <2>2, <2>3, <2>4
  <1>5. ASSUME NEW start, NEW f, report.stage \notin {"none", "done"}, Sum(f) \in Nat,
               Sum(f) <= Window(start).total, ~disturbed => Sum(f) = Window(start).total
        PROVE  /\ Sum(f) <= Window(start)'.total
               /\ ~disturbed' => Sum(f) = Window(start)'.total
    BY <1>3, <1>4, <1>5
  <1> SUFFICES ASSUME ~Reused'
               PROVE  /\ report.stage \in {"month", "months", "year", "done"} =>
                            Sum(report.days) \in Nat
                      /\ report.stage \in {"year", "done"} => Sum(report.months) \in Nat
                      /\ report.stage = "month" => Covers(Window(ThisMonth).total, report.days)'
                      /\ report.stage \in {"months", "year", "done"} =>
                            Covers(report.month.total, report.days)'
                      /\ report.stage = "year" => Covers(Window(LongAgo).total, report.months)'
                      /\ report.stage = "done" => Covers(report.year.total, report.months)'
    BY DEF SeriesKept
  <1>6. /\ report.stage = "month" => Covers(Window(ThisMonth).total, report.days)'
        /\ report.stage = "year" => Covers(Window(LongAgo).total, report.months)'
    BY <1>1, <1>2, <1>5 DEF SeriesKept, Covers
  <1>7. /\ report.stage \in {"months", "year", "done"} => Covers(report.month.total, report.days)'
        /\ report.stage = "done" => Covers(report.year.total, report.months)'
    BY <1>1 DEF SeriesKept, Covers
  <1> QED
    BY <1>1, <1>6, <1>7 DEF SeriesKept

LEMMA QuerySeries == ASSUME UsageInv, SeriesKept, Query PROVE SeriesKept'
  <1>1. report.stage \in Asked /\ UNCHANGED <<usagePc, row, disturbed>>
    BY DEF Query, requests, UsageInv, ReportShape, Asked
  <1> DEFINE stage == report.stage
  <1>2. /\ report'.stage = Following(stage) /\ report'.now = report.now
        /\ report'[stage] = Answer(stage)
        /\ \A w \in {"days", "month", "months", "year"} : w # stage => report'[w] = report[w]
    BY <1>1 DEF Query, Asked, Stages, UsageInv, ReportShape
  <1>3. /\ ThisMonth' = ThisMonth /\ LongAgo' = LongAgo
        /\ Window(ThisMonth)' = Window(ThisMonth) /\ Window(LongAgo)' = Window(LongAgo)
    BY <1>1, <1>2 DEF ThisMonth, LongAgo, Window, Recorded, Counts, Count
  <1>4. Reused' <=> Reused
    BY <1>1 DEF Reused, Recorded
  <1> SUFFICES ASSUME ~Reused
               PROVE  /\ report'.stage \in {"month", "months", "year", "done"} =>
                            Sum(report'.days) \in Nat
                      /\ report'.stage \in {"year", "done"} => Sum(report'.months) \in Nat
                      /\ report'.stage = "month" => Covers(Window(ThisMonth).total, report'.days)
                      /\ report'.stage \in {"months", "year", "done"} =>
                            Covers(report'.month.total, report'.days)
                      /\ report'.stage = "year" => Covers(Window(LongAgo).total, report'.months)
                      /\ report'.stage = "done" => Covers(report'.year.total, report'.months)
    BY <1>1, <1>3, <1>4 DEF SeriesKept, Covers
  <1>5. /\ stage \in {"month", "months", "year"} => Sum(report.days) \in Nat
        /\ stage = "year" => Sum(report.months) \in Nat
        /\ stage = "month" => Covers(Window(ThisMonth).total, report.days)
        /\ stage \in {"months", "year"} => Covers(report.month.total, report.days)
        /\ stage = "year" => Covers(Window(LongAgo).total, report.months)
    BY DEF SeriesKept
  <1>6. /\ Answer("month") = Window(ThisMonth) /\ Answer("year") = Window(LongAgo)
        /\ Answer("days") = Series(ThisMonth, DayTicks)
        /\ Answer("months") = Series(LongAgo, MonthTicks)
    BY DEF Answer
  <1>7. \A start : Window(start).total \in Nat
    BY WindowTyped, TheseRequestsAreFinite DEF CountType
  <1>8. /\ Sum(Series(ThisMonth, DayTicks)) \in Nat
        /\ Covers(Window(ThisMonth).total, Series(ThisMonth, DayTicks))
    <2>1. Sum(Series(ThisMonth, DayTicks)) = Window(ThisMonth).total
      BY MonthsBegin, SeriesIs, UsageAssumption DEF UsageInv, ReportShape
    <2> QED
      BY <1>7, <2>1 DEF Covers
  <1>9. /\ Sum(Series(LongAgo, MonthTicks)) \in Nat
        /\ Covers(Window(LongAgo).total, Series(LongAgo, MonthTicks))
    <2>1. Sum(Series(LongAgo, MonthTicks)) = Window(LongAgo).total
      BY MonthsBegin, SeriesIs, UsageAssumption DEF UsageInv, ReportShape
    <2> QED
      BY <1>7, <2>1 DEF Covers
  <1>10. CASE stage \in {"top", "today"}
    BY <1>2, <1>10, StagesFollow
  <1>11. CASE stage = "days"
    BY <1>2, <1>6, <1>8, <1>11, StagesFollow
  <1>12. CASE stage = "month"
    BY <1>2, <1>5, <1>6, <1>12, StagesFollow
  <1>13. CASE stage = "months"
    BY <1>2, <1>5, <1>6, <1>9, <1>13, StagesFollow
  <1>14. CASE stage = "year"
    BY <1>2, <1>5, <1>6, <1>14, StagesFollow
  <1> QED
    BY <1>1, <1>10, <1>11, <1>12, <1>13, <1>14 DEF Asked, Stages

LEMMA SeriesStepKeeps ==
    ASSUME UsageInv, SeriesKept, [UsageNext]_usageVars
    PROVE  SeriesKept'
  <1>1. CASE StartReport
    <2>1. report'.stage = "top"
      BY <1>1 DEF StartReport, Blank
    <2> QED
      BY <2>1 DEF SeriesKept
  <1>2. CASE Query
    BY <1>2, QuerySeries
  <1>3. CASE UNCHANGED <<requests, report, disturbed>>
    BY <1>3, SeriesStay DEF requests, Recorded
  <1>4. ASSUME NEW r \in ApiRequest, Respond(r) \/ InsertUsage(r) \/ Drop(r) PROVE SeriesKept'
    <2>1. /\ usagePc[r] \in {"new", "task", "inserted"} /\ report' = report /\ disturbed' = disturbed
          /\ \E place \in {"new", "task", "inserted"} : usagePc' = [usagePc EXCEPT ![r] = place]
          /\ \E x : row' = [row EXCEPT ![r] = x]
      BY <1>4 DEF Respond, InsertUsage, Drop, Becomes
    <2>2. Recorded' = Recorded /\ \A t \in Recorded : row'[t] = row[t]
      BY <2>1 DEF Recorded, UsageInv, UsageTypeOK
    <2> QED
      BY <2>1, <2>2, SeriesStay
  <1>5. ASSUME NEW r \in ApiRequest, CommitUsage(r) PROVE SeriesKept'
    <2>1. /\ report' = report /\ row' = row
          /\ usagePc' = [usagePc EXCEPT ![r] = "recorded"]
          /\ disturbed' = (disturbed \/ report.stage \notin {"none", "done"})
      BY <1>5 DEF CommitUsage, Becomes
    <2>2. Recorded \subseteq Recorded'
      BY <2>1 DEF Recorded, UsageInv, UsageTypeOK
    <2>3. (disturbed => disturbed') /\ (disturbed' \/ report.stage \in {"none", "done"})
      BY <2>1
    <2> QED
      BY <2>1, <2>2, <2>3, SeriesStay
  <1>6. CASE Tick \/ MakeKey \/ ListKeys \/ CountKeyUsage
    BY <1>3, <1>6 DEF Tick, MakeKey, ListKeys, CountKeyUsage
  <1>7. CASE UNCHANGED usageVars
    BY <1>3, <1>7 DEF usageVars
  <1> QED
    BY <1>1, <1>2, <1>4, <1>5, <1>6, <1>7 DEF UsageNext

\* The points of a series add up to no more than the total of its window, whatever is
\* recorded between the two queries, and to all of it when nothing is, for any lengths of
\* days and months and any records, unless an id was used again (_build_time_series and
\* get_window_counts, usage).
THEOREM SeriesAddsUp == UsageSpec => []SeriesAddUp
  <1>1. UsageInit => SeriesKept
    BY DEF UsageInit, Blank, SeriesKept
  <1>2. UsageInv /\ SeriesKept /\ [UsageNext]_usageVars => SeriesKept'
    BY SeriesStepKeeps
  <1>3. SeriesKept => SeriesAddUp
    BY DEF SeriesKept, SeriesAddUp, Covers
  <1> QED
    BY <1>1, <1>2, <1>3, UsageConsistent, PTL DEF UsageSpec


-----------------------------------------------------------------------------
(***************************************************************************)
(* The instances TLC explores: their steps are steps of the parts, so what *)
(* is proved of a part holds of it there.                                  *)
(***************************************************************************)
\* The keys, tokens and reports explored together behave as each does by itself.
THEOREM AccountsRunParts == MCSpec => Spec /\ TokenSpec /\ UsageSpec
<1>1. MCInit => Init /\ TokenInit /\ UsageInit
  BY DEF MCInit
<1>2. [MCNext]_<<vars, tokenVars, usageVars, focus>>
          => [Next]_vars /\ [TokenNext]_tokenVars /\ [UsageNext]_usageVars
  BY DEF MCNext
<1> QED
  BY <1>1, <1>2, PTL DEF MCSpec, Spec, TokenSpec, UsageSpec

\* Every variable of the account's parts has its type (the tables of keys, of refresh
\* tokens and of API usage events), where they are explored together.
THEOREM AccountsTyped == MCSpec => []TypesOK
<1>1. TypeOK /\ TokenTypeOK /\ UsageTypeOK => TypesOK
  BY DEF TypesOK
<1> QED
  BY <1>1, AccountsRunParts, KeysTyped, TokensTyped, UsageTyped, PTL
=============================================================================
