----------------------------- MODULE MCAccounts -----------------------------
(***************************************************************************)
(* What a dashboard user's account keeps, on small instances: its API      *)
(* keys, the refresh tokens of its sessions and its usage reports.  They   *)
(* share no state, so TLC explores them one at a time (focus names the     *)
(* part that moves, the others rest).                                      *)
(***************************************************************************)
EXTENDS ApiKeys, RefreshTokens, UsageReports, TLC

CONSTANTS r1, r2, r3, i1, i2

VARIABLE focus

(* Keys: two requests at a time, four keys *)
Requests == {r1, r2}
Keys == 1..4

(* Tokens: three refreshes at a time, four tokens *)
Refreshes == {r1, r2, r3}
Tokens == 1..4

(* Usage: two requests that may repeat an id *)
Ids == {i1, i2}
Symmetry == {p @@ q : p \in Permutations(Requests), q \in Permutations(Ids)}

MCInit ==
    /\ focus \in {"usage", "keys", "tokens"}
    /\ Init /\ TokenInit /\ UsageInit

MCNext ==
    \/ focus = "keys" /\ Next /\ UNCHANGED <<tokenVars, usageVars, focus>>
    \/ focus = "tokens" /\ TokenNext /\ UNCHANGED <<vars, usageVars, focus>>
    \/ focus = "usage" /\ UsageNext /\ UNCHANGED <<vars, tokenVars, focus>>

MCSpec == MCInit /\ [][MCNext]_<<vars, tokenVars, usageVars, focus>>

\* Every variable has its type.
TypesOK == TypeOK /\ TokenTypeOK /\ UsageTypeOK
=============================================================================
