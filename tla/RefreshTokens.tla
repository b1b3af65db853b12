---------------------------- MODULE RefreshTokens ----------------------------
(***************************************************************************)
(* Refresh-token rotation (src/auth, AuthService.refresh).                 *)
(*                                                                         *)
(* A refresh checks the blacklist, inserts the token's jti into it (the    *)
(* column is unique: a second insert waits for the first to end and then   *)
(* fails), commits, and only then issues the successor.  The token is      *)
(* decoded twice, and its lifetime may end between the two.                *)
(***************************************************************************)
EXTENDS Integers, FiniteSets

CONSTANTS
    Token,    \* refresh tokens; a bound on how many are issued
    Refresh,  \* requests in flight at one time
    NoToken

VARIABLES
    issuedTokens,     \* tokens handed out
    expiredTokens,    \* tokens past their exp
    burned,           \* jtis in blacklisted_tokens, committed
    successors,       \* history: what each token was exchanged for
    refreshPc, token  \* where each request is, and with which token

tokenVars == <<issuedTokens, expiredTokens, burned, successors, refreshPc, token>>

Goto(r, place) == refreshPc' = [refreshPc EXCEPT ![r] = place]
Finish(r) == Goto(r, "idle") /\ token' = [token EXCEPT ![r] = NoToken]

\* The token signed next.
FreshToken == CHOOSE t \in Token : t \notin issuedTokens

Login ==
    /\ issuedTokens # Token
    /\ issuedTokens' = issuedTokens \cup {FreshToken}
    /\ UNCHANGED <<expiredTokens, burned, successors, refreshPc, token>>

Expire(t) ==
    /\ t \in issuedTokens \ expiredTokens
    /\ expiredTokens' = expiredTokens \cup {t}
    /\ UNCHANGED <<issuedTokens, burned, successors, refreshPc, token>>

Accepts(t) == t \in issuedTokens \ (expiredTokens \cup burned)

\* get_current_user_from_token: decode, then look the jti up.
Check(r, t) ==
    /\ refreshPc[r] = "idle"
    /\ Accepts(t)
    /\ token' = [token EXCEPT ![r] = t]
    /\ Goto(r, "decode")
    /\ UNCHANGED <<issuedTokens, expiredTokens, burned, successors>>

\* The second decode fails on a token that has expired since; the insert is skipped.
DecodeFails(r) ==
    /\ refreshPc[r] = "decode"
    /\ token[r] \in expiredTokens
    /\ Goto(r, "issue")
    /\ UNCHANGED <<issuedTokens, expiredTokens, burned, successors, token>>

\* Fault: no unique constraint on jti.
FreeForAll(r) == TRUE
\* The unique index: no other open transaction holds the jti, and none has committed it.
Unclaimed(r) == /\ token[r] \notin burned
                /\ \A s \in Refresh : ~(refreshPc[s] = "commit" /\ token[s] = token[r])

InsertClaim(r) ==
    /\ refreshPc[r] = "decode"
    /\ token[r] \notin expiredTokens
    /\ Unclaimed(r)
    /\ Goto(r, "commit")
    /\ UNCHANGED <<issuedTokens, expiredTokens, burned, successors, token>>

\* The second insert fails once the first has committed.
ClaimFails(r) ==
    /\ refreshPc[r] = "decode"
    /\ token[r] \in burned \ expiredTokens
    /\ Finish(r)
    /\ UNCHANGED <<issuedTokens, expiredTokens, burned, successors>>

CommitClaim(r) ==
    /\ refreshPc[r] = "commit"
    /\ burned' = burned \cup {token[r]}
    /\ Goto(r, "issue")
    /\ UNCHANGED <<issuedTokens, expiredTokens, successors, token>>

Issue(r) ==
    /\ refreshPc[r] = "issue" /\ issuedTokens # Token
    /\ issuedTokens' = issuedTokens \cup {FreshToken}
    /\ successors' = [successors EXCEPT ![token[r]] = @ \cup {FreshToken}]
    /\ Finish(r)
    /\ UNCHANGED <<expiredTokens, burned>>

\* The request dies; before its commit the insert rolls back, after it the token
\* stays burned and the client has no successor.
AbortRefresh(r) ==
    /\ refreshPc[r] # "idle"
    /\ Finish(r)
    /\ UNCHANGED <<issuedTokens, expiredTokens, burned, successors>>

TokenInit ==
    /\ issuedTokens = {} /\ expiredTokens = {} /\ burned = {}
    /\ successors = [t \in Token |-> {}]
    /\ refreshPc = [r \in Refresh |-> "idle"]
    /\ token = [r \in Refresh |-> NoToken]

TokenNext ==
    \/ Login
    \/ \E t \in Token : Expire(t) \/ \E r \in Refresh : Check(r, t)
    \/ \E r \in Refresh : \/ DecodeFails(r) \/ InsertClaim(r) \/ ClaimFails(r)
                          \/ CommitClaim(r) \/ Issue(r) \/ AbortRefresh(r)

TokenSpec == TokenInit /\ [][TokenNext]_tokenVars

-----------------------------------------------------------------------------
(* Properties *)

\* Every variable has its type; only issued tokens expire, burn or succeed another.
TokenTypeOK ==
    /\ issuedTokens \subseteq Token
    /\ expiredTokens \subseteq issuedTokens
    /\ burned \subseteq issuedTokens
    /\ successors \in [Token -> SUBSET issuedTokens]
    /\ refreshPc \in [Refresh -> {"idle", "decode", "commit", "issue"}]
    /\ token \in [Refresh -> Token \cup {NoToken}]

\* A token that has not expired is exchanged at most once, and only after it was
\* blacklisted: of two concurrent refreshes with it at most one gets a successor.
SingleUse ==
    \A t \in issuedTokens \ expiredTokens :
        /\ Cardinality(successors[t]) <= 1
        /\ successors[t] # {} => t \in burned

=============================================================================
