------------------------------ MODULE Account -------------------------------
(***************************************************************************)
(* backend/internal/auth: the one user, the copy of the row the repository *)
(* keeps in memory, reset tokens and refresh tokens.  A request runs in    *)
(* steps of one database call or one critical section of the repository.   *)
(* A hash stands for the password it was made from.                        *)
(***************************************************************************)
EXTENDS Integers, FiniteSets

CONSTANTS Requests, Passwords,
          ResetTokens, RefreshTokens,  \* bound: tokens ever issued
          MaxSessionVersion            \* bound: session_version
NoToken == 0
\* A change with the present password has no token.
ASSUME TokensAssumption == NoToken \notin ResetTokens /\ MaxSessionVersion \in Nat \ {0}

VARIABLES accRow, accCache,    \* the users row, Repository.user
          accReset,            \* status of each reset token
          accRefresh,          \* status of each refresh token; history: the password
                               \*   verified for it, and whether that was overtaken
          accAccess,           \* session versions of the access tokens handed out
          accReq,              \* what each request holds in local variables
          accResetUses,        \* history: password changes made with each reset token
          accStale,            \* history: the row changed and the copy was not reloaded
          accCut               \* history: a change of password stopped before RevokeAll
accountVars == <<accRow, accCache, accReset, accRefresh, accAccess, accReq,
                 accResetUses, accStale, accCut>>

-----------------------------------------------------------------------------
NoUser == [hash |-> "none"]
UserRows == [hash : Passwords, ver : 1..MaxSessionVersion]
FreeToken == [at |-> "free"]
RefreshRows == [at : {"active"}, proof : Passwords, crossed : BOOLEAN]
            \cup [at : {"revoked", "expired"}]
RequestIdle == [pc |-> "idle"]
AccRequests == {RequestIdle}
   \cup [pc : {"insert", "cache"}, hash : Passwords]
   \cup [pc : {"rotate"}, token : RefreshTokens, proof : Passwords, crossed : BOOLEAN]
   \cup [pc : {"issue"}, proof : Passwords, crossed : BOOLEAN]
   \cup [pc : {"claim"}, token : ResetTokens, hash : Passwords]
   \cup [pc : {"update"}, token : ResetTokens \cup {NoToken}, hash : Passwords]
   \cup [pc : {"store", "revoke", "increment"}]

AccountInit ==
    /\ accRow = NoUser /\ accCache = NoUser
    /\ accReset = [t \in ResetTokens |-> "free"]
    /\ accRefresh = [t \in RefreshTokens |-> FreeToken]
    /\ accAccess = {}
    /\ accReq = [r \in Requests |-> RequestIdle]
    /\ accResetUses = [t \in ResetTokens |-> 0]
    /\ accStale = FALSE /\ accCut = FALSE

setRequest(r, next) == accReq' = [accReq EXCEPT ![r] = next]
idle(r) == accReq[r].pc = "idle"
at(r, pc) == accReq[r].pc = pc
beingCached == \E r \in Requests : at(r, "cache")
\* A new password is in force and RevokeAll has not run for it.
changing == accCut \/ \E r \in Requests : at(r, "revoke")
\* A fresh random token: which of the unused ones makes no difference.
nextFree(tokens, free) == CHOOSE t \in tokens : free[t]

\* GetPasswordHash, GetSessionVersion: the copy, loaded first when there is none.
user == IF accCache # NoUser THEN accCache ELSE accRow
loadUser == user # NoUser /\ accCache' = user

-----------------------------------------------------------------------------
\* CompleteSetup: no user yet, then the insert, then the copy.
CompleteSetup(r, p) ==
    /\ idle(r) /\ accRow = NoUser
    /\ setRequest(r, [pc |-> "insert", hash |-> p])
    /\ UNCHANGED <<accRow, accCache, accReset, accRefresh, accAccess, accResetUses, accStale, accCut>>

\* The primary key 'local-user' refuses a second row.
CreateAdminUser(r) ==
    /\ at(r, "insert")
    /\ IF accRow = NoUser
       THEN /\ accRow' = [hash |-> accReq[r].hash, ver |-> 1]
            /\ setRequest(r, [accReq[r] EXCEPT !.pc = "cache"])
       ELSE UNCHANGED accRow /\ setRequest(r, RequestIdle)
    /\ UNCHANGED <<accCache, accReset, accRefresh, accAccess, accResetUses, accStale, accCut>>

CacheAdminUser(r) ==
    /\ at(r, "cache")
    /\ accCache' = [hash |-> accReq[r].hash, ver |-> 1]
    /\ setRequest(r, RequestIdle)
    /\ UNCHANGED <<accRow, accReset, accRefresh, accAccess, accResetUses, accStale, accCut>>

-----------------------------------------------------------------------------
Login(r, p) ==
    /\ idle(r) /\ loadUser /\ user.hash = p
    /\ setRequest(r, [pc |-> "issue", proof |-> p, crossed |-> accStale])
    /\ UNCHANGED <<accRow, accReset, accRefresh, accAccess, accResetUses, accStale, accCut>>

RevokeAllRefreshTokens ==
    /\ accRefresh' = [t \in RefreshTokens |->
          IF accRefresh[t].at = "active" THEN [at |-> "revoked"] ELSE accRefresh[t]]
    /\ accCut' = FALSE

\* A token presented again after its rotation ends every session.
Refresh(r, t) ==
    /\ idle(r) /\ accRefresh[t].at \in {"active", "revoked"}
    /\ IF accRefresh[t].at = "revoked"
       THEN RevokeAllRefreshTokens /\ UNCHANGED accReq
       ELSE /\ setRequest(r, [pc |-> "rotate", token |-> t, proof |-> accRefresh[t].proof,
                              crossed |-> accRefresh[t].crossed \/ changing])
            /\ UNCHANGED <<accRefresh, accCut>>
    /\ UNCHANGED <<accRow, accCache, accReset, accAccess, accResetUses, accStale>>

\* WHERE revoked_at IS NULL; how many rows that were is not looked at.
RevokeRefreshToken(r) ==
    /\ at(r, "rotate")
    /\ LET s == accReq[r]
       IN /\ accRefresh' = [accRefresh EXCEPT ![s.token] = IF @.at = "active" THEN [at |-> "revoked"] ELSE @]
          /\ setRequest(r, [pc |-> "issue", proof |-> s.proof, crossed |-> s.crossed])
    /\ UNCHANGED <<accRow, accCache, accReset, accAccess, accResetUses, accStale, accCut>>

\* generateToken and CreateRefreshToken, of a login and of a rotation.
IssueTokens(r) ==
    LET free == [t \in RefreshTokens |-> accRefresh[t] = FreeToken]
    IN /\ at(r, "issue") /\ (\E t \in RefreshTokens : free[t])
       /\ loadUser
       /\ accAccess' = accAccess \cup {user.ver}
       /\ accRefresh' = [accRefresh EXCEPT ![nextFree(RefreshTokens, free)] =
             [at |-> "active", proof |-> accReq[r].proof, crossed |-> accReq[r].crossed]]
       /\ setRequest(r, RequestIdle)
       /\ UNCHANGED <<accRow, accReset, accResetUses, accStale, accCut>>

\* AuthMiddleware: the caller holds an access token of the current session version.
AuthMiddleware == accCache # NoUser /\ accCache.ver \in accAccess

Logout(r) ==
    /\ idle(r) /\ AuthMiddleware
    /\ RevokeAllRefreshTokens
    /\ setRequest(r, [pc |-> "increment"])
    /\ UNCHANGED <<accRow, accCache, accReset, accAccess, accResetUses, accStale>>

bumpedNot(copy) == copy                    \* the copy of the row is forgotten
bumped(copy) == IF copy = NoUser THEN NoUser ELSE [copy EXCEPT !.ver = @ + 1]

IncrementSessionVersion(r) ==
    /\ at(r, "increment") /\ accRow.ver < MaxSessionVersion
    /\ accRow' = [accRow EXCEPT !.ver = @ + 1]
    /\ accCache' = bumped(accCache)
    /\ accStale' = (accStale \/ beingCached)
    /\ setRequest(r, RequestIdle)
    /\ UNCHANGED <<accReset, accRefresh, accAccess, accResetUses, accCut>>

-----------------------------------------------------------------------------
ChangePassword(r, current, new) ==
    /\ idle(r) /\ AuthMiddleware
    /\ current # new /\ accCache.hash = current
    /\ setRequest(r, [pc |-> "update", token |-> NoToken, hash |-> new])
    /\ UNCHANGED <<accRow, accCache, accReset, accRefresh, accAccess, accResetUses, accStale, accCut>>

RequestPasswordReset(r) ==
    /\ idle(r) /\ accCache # NoUser
    /\ accReset' = [t \in ResetTokens |-> IF accReset[t] = "active" THEN "deleted" ELSE accReset[t]]
    /\ setRequest(r, [pc |-> "store"])
    /\ UNCHANGED <<accRow, accCache, accRefresh, accAccess, accResetUses, accStale, accCut>>

CreatePasswordResetToken(r) ==
    LET free == [t \in ResetTokens |-> accReset[t] = "free"]
    IN /\ at(r, "store") /\ (\E t \in ResetTokens : free[t])
       /\ accReset' = [accReset EXCEPT ![nextFree(ResetTokens, free)] = "active"]
       /\ setRequest(r, RequestIdle)
       /\ UNCHANGED <<accRow, accCache, accRefresh, accAccess, accResetUses, accStale, accCut>>

ResetPassword(r, t, new) ==
    /\ idle(r) /\ accReset[t] = "active"
    /\ setRequest(r, [pc |-> "claim", token |-> t, hash |-> new])
    /\ UNCHANGED <<accRow, accCache, accReset, accRefresh, accAccess, accResetUses, accStale, accCut>>

claimableAgain(t) == TRUE                  \* without used_at IS NULL
claimable(t) == accReset[t] = "active"

\* UPDATE ... WHERE used_at IS NULL AND expires_at > now: one request gets it.
ClaimPasswordResetToken(r) ==
    LET s == accReq[r]
    IN /\ at(r, "claim")
       /\ IF claimable(s.token)
          THEN accReset' = [accReset EXCEPT ![s.token] = "used"] /\ setRequest(r, [s EXCEPT !.pc = "update"])
          ELSE UNCHANGED accReset /\ setRequest(r, RequestIdle)
       /\ UNCHANGED <<accRow, accCache, accRefresh, accAccess, accResetUses, accStale, accCut>>

\* Requests that have verified a password or read a token before the change.
overtaken == [q \in Requests |-> IF accReq[q].pc \in {"rotate", "issue"}
                                 THEN [accReq[q] EXCEPT !.crossed = TRUE] ELSE accReq[q]]

\* Under the repository's lock: UPDATE, then the row is read again.  A failure of
\* the second call fails the request and leaves the copy as it was.
UpdatePasswordHash(r, reloaded) ==
    LET s == accReq[r]
    IN /\ at(r, "update") /\ accRow.ver < MaxSessionVersion
       /\ accRow' = [hash |-> s.hash, ver |-> accRow.ver + 1]
       /\ accResetUses' = IF s.token = NoToken THEN accResetUses
                          ELSE [accResetUses EXCEPT ![s.token] = @ + 1]
       /\ IF reloaded
          THEN accCache' = accRow' /\ accStale' = beingCached /\ UNCHANGED accCut
          ELSE UNCHANGED accCache /\ accStale' = TRUE /\ accCut' = TRUE
       /\ accReq' = [overtaken EXCEPT ![r] = IF reloaded THEN [pc |-> "revoke"] ELSE RequestIdle]
       /\ UNCHANGED <<accReset, accRefresh, accAccess>>

RevokeAfterChangeForgotten(r) ==           \* RevokeAll is left out
    /\ at(r, "revoke") /\ setRequest(r, RequestIdle) /\ accCut' = FALSE
    /\ UNCHANGED <<accRow, accCache, accReset, accRefresh, accAccess, accResetUses, accStale>>
RevokeAfterChange(r) ==
    /\ at(r, "revoke")
    /\ RevokeAllRefreshTokens
    /\ setRequest(r, RequestIdle)
    /\ UNCHANGED <<accRow, accCache, accReset, accAccess, accResetUses, accStale>>

-----------------------------------------------------------------------------
ResetTokenExpires(t) ==
    /\ accReset[t] = "active" /\ accReset' = [accReset EXCEPT ![t] = "expired"]
    /\ UNCHANGED <<accRow, accCache, accRefresh, accAccess, accReq, accResetUses, accStale, accCut>>

RefreshTokenExpires(t) ==
    /\ accRefresh[t].at = "active" /\ accRefresh' = [accRefresh EXCEPT ![t] = [at |-> "expired"]]
    /\ UNCHANGED <<accRow, accCache, accReset, accAccess, accReq, accResetUses, accStale, accCut>>

\* A failed database call ends the request where it is.
RequestFails(r) ==
    /\ ~idle(r)
    /\ setRequest(r, RequestIdle)
    /\ accCut' = (accCut \/ at(r, "revoke"))
    /\ UNCHANGED <<accRow, accCache, accReset, accRefresh, accAccess, accResetUses, accStale>>

\* NewRepository loads the row, if there is one.
RestartAPI ==
    /\ accCache' = accRow /\ accStale' = FALSE
    /\ accReq' = [r \in Requests |-> RequestIdle]
    /\ accCut' = (accCut \/ \E r \in Requests : at(r, "revoke"))
    /\ UNCHANGED <<accRow, accReset, accRefresh, accAccess, accResetUses>>

AccountNext ==
    \/ \E r \in Requests :
          \/ \E p \in Passwords : CompleteSetup(r, p) \/ Login(r, p)
          \/ CreateAdminUser(r) \/ CacheAdminUser(r)
          \/ \E t \in RefreshTokens : Refresh(r, t)
          \/ RevokeRefreshToken(r) \/ IssueTokens(r)
          \/ Logout(r) \/ IncrementSessionVersion(r)
          \/ \E p, new \in Passwords : ChangePassword(r, p, new)
          \/ RequestPasswordReset(r) \/ CreatePasswordResetToken(r)
          \/ \E t \in ResetTokens, new \in Passwords : ResetPassword(r, t, new)
          \/ ClaimPasswordResetToken(r)
          \/ \E reloaded \in BOOLEAN : UpdatePasswordHash(r, reloaded)
          \/ RevokeAfterChange(r) \/ RequestFails(r)
    \/ \E t \in ResetTokens : ResetTokenExpires(t)
    \/ \E t \in RefreshTokens : RefreshTokenExpires(t)
    \/ RestartAPI

AccountSpec == AccountInit /\ [][AccountNext]_accountVars

-----------------------------------------------------------------------------
AccountTypeOK ==
    /\ accRow \in UserRows \cup {NoUser} /\ accCache \in UserRows \cup {NoUser}
    /\ accReset \in [ResetTokens -> {"free", "active", "used", "deleted", "expired"}]
    /\ accRefresh \in [RefreshTokens -> RefreshRows \cup {FreeToken}]
    /\ accAccess \subseteq 1..MaxSessionVersion
    /\ accReq \in [Requests -> AccRequests]
    /\ accResetUses \in [ResetTokens -> Nat]
    /\ accStale \in BOOLEAN /\ accCut \in BOOLEAN

\* "Single-use even under concurrent requests", says ClaimPasswordResetToken: a
\* reset token changes the password at most once, whatever requests present it
\* together, fail half way, or outlive a restart.
ResetTokenSingleUse == \A t \in ResetTokens : accResetUses[t] <= 1

\* Logins and the middleware trust the copy of the row.  It is the row, or
\* absent, through every interleaving of setup, logins, logouts and changes of
\* password; only a failed reload, or a change made between a setup's insert and
\* its caching, leaves it behind, until a restart or the next change.
AccountCacheCurrent == ~accStale => accCache \in {accRow, NoUser}

\* A change of password ends the sessions begun with the old one.  Once its
\* RevokeAll has run, every refresh token that still works descends from a login
\* with the present password.  Excepted are logins and rotations under way between
\* the two, for good: they insert their token after RevokeAll has passed.
SessionsFollowThePassword ==
    ~changing =>
        \A t \in RefreshTokens : accRefresh[t].at = "active" =>
            accRefresh[t].crossed \/ accRefresh[t].proof = accRow.hash
=============================================================================
