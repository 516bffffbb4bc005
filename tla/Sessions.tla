------------------------------ MODULE Sessions ------------------------------
(***************************************************************************)
(* The web client's session: frontend/src/lib/api/client.ts in each tab,   *)
(* the route handler /api/auth/[...proxy] of the Next server, the cookie,  *)
(* and the refresh tokens the backend keeps (in full in Account).  The     *)
(* route handler does nothing between calls, so its steps are those of the *)
(* call it makes.                                                          *)
(***************************************************************************)
EXTENDS Integers, FiniteSets

CONSTANTS Tabs, Calls,         \* Calls: API calls of each tab
          Refreshes,           \* bound: refreshes in flight or awaited at once
          WebTokens            \* bound: refresh tokens ever issued, a set of naturals

ASSUME SessionsAssumption == WebTokens \subseteq Nat \ {0}   \* 0 is no cookie

VARIABLES webToken,            \* backend: status of each refresh token
          webCookie,           \* the refresh token in the session cookie
          webRefresh,          \* each POST /api/auth/refresh
          webPending,          \* pendingRefresh of each tab
          webCall,             \* each apiFetchWithRefresh
          webOverlap           \* history: a refresh was sent while another was under
                               \*   way, or the answer of one was lost
sessionsVars == <<webToken, webCookie, webRefresh, webPending, webCall, webOverlap>>

-----------------------------------------------------------------------------
NoCookie == 0
NoRefresh == "none"
RefreshFree == [st |-> "free"]
RefreshStates == {RefreshFree}
   \cup [st : {"sent", "rotate"}, token : WebTokens]
   \cup [st : {"answer"}, cookie : WebTokens \cup {NoCookie}]
   \cup [st : {"ok", "failed"}]
CallIdle == [pc |-> "idle"]
CallStates == {CallIdle, [pc |-> "retry"]} \cup [pc : {"waiting"}, on : Refreshes]

SessionsInit ==
    /\ webToken = [k \in WebTokens |-> "free"]
    /\ webCookie = NoCookie
    /\ webRefresh = [p \in Refreshes |-> RefreshFree]
    /\ webPending = [t \in Tabs |-> NoRefresh]
    /\ webCall = [t \in Tabs |-> [c \in Calls |-> CallIdle]]
    /\ webOverlap = FALSE

underWay(p) == webRefresh[p].st \in {"sent", "rotate", "answer"}
awaited(p) == \E t \in Tabs : webPending[t] = p \/ \E c \in Calls : webCall[t][c] = [pc |-> "waiting", on |-> p]
freeTokens == {k \in WebTokens : webToken[k] = "free"}
newToken == CHOOSE k \in freeTokens : TRUE   \* a fresh random one
setCall(t, c, next) == webCall' = [webCall EXCEPT ![t][c] = next]

-----------------------------------------------------------------------------
\* handleLogin: the backend's tokens go into the cookie.
HandleLogin ==
    /\ freeTokens # {}
    /\ webToken' = [webToken EXCEPT ![newToken] = "active"]
    /\ webCookie' = newToken
    /\ UNCHANGED <<webRefresh, webPending, webCall, webOverlap>>

\* handleLogout: the backend refuses the call, which carries no Authorization
\* header, and the failure is ignored; the cookie goes.
HandleLogout ==
    /\ webCookie # NoCookie
    /\ webCookie' = NoCookie
    /\ UNCHANGED <<webToken, webRefresh, webPending, webCall, webOverlap>>

\* apiFetchWithRefresh: a call is answered 401 (the backend reads no cookie), and
\* joins the refresh the tab remembers or starts one with the cookie as it is.
\* Without a cookie the route handler answers 401 itself.
Unauthorized(t, c, p) ==
    /\ webCall[t][c] = CallIdle
    /\ IF webPending[t] # NoRefresh
       THEN p = webPending[t] /\ UNCHANGED <<webRefresh, webPending, webOverlap>>
       ELSE /\ ~underWay(p) /\ ~awaited(p)
            /\ webRefresh' = [webRefresh EXCEPT ![p] =
                  IF webCookie = NoCookie THEN [st |-> "failed"] ELSE [st |-> "sent", token |-> webCookie]]
            /\ webPending' = [webPending EXCEPT ![t] = p]
            /\ webOverlap' = (webOverlap \/ \E q \in Refreshes : underWay(q))
    /\ setCall(t, c, [pc |-> "waiting", on |-> p])
    /\ UNCHANGED <<webToken, webCookie>>

\* Service.Refresh looks the token up.  A revoked one ends all sessions and the
\* route handler deletes the cookie.
RefreshLookup(p) ==
    /\ webRefresh[p].st = "sent"
    /\ IF webToken[webRefresh[p].token] = "active"
       THEN webRefresh' = [webRefresh EXCEPT ![p].st = "rotate"] /\ UNCHANGED webToken
       ELSE /\ webRefresh' = [webRefresh EXCEPT ![p] = [st |-> "answer", cookie |-> NoCookie]]
            /\ webToken' = [k \in WebTokens |-> IF webToken[k] = "active" THEN "revoked" ELSE webToken[k]]
    /\ UNCHANGED <<webCookie, webPending, webCall, webOverlap>>

\* It revokes the token and issues the next.
RefreshRotate(p) ==
    /\ webRefresh[p].st = "rotate" /\ freeTokens # {}
    /\ webToken' = [webToken EXCEPT ![webRefresh[p].token] = "revoked", ![newToken] = "active"]
    /\ webRefresh' = [webRefresh EXCEPT ![p] = [st |-> "answer", cookie |-> newToken]]
    /\ UNCHANGED <<webCookie, webPending, webCall, webOverlap>>

\* Any failure of the backend, before or after the token was revoked, is an answer
\* that deletes the cookie, as is an expired token.
RefreshRefused(p) ==
    LET r == webRefresh[p]
    IN /\ r.st \in {"sent", "rotate"}
       /\ \/ UNCHANGED webToken
          \/ r.st = "rotate" /\ webToken' = [webToken EXCEPT ![r.token] = "revoked"]
       /\ webRefresh' = [webRefresh EXCEPT ![p] = [st |-> "answer", cookie |-> NoCookie]]
       /\ UNCHANGED <<webCookie, webPending, webCall, webOverlap>>

RefreshAnsweredUnset(p) ==                 \* the new token is not put into the cookie
    /\ webRefresh[p].st = "answer"
    /\ webRefresh' = [webRefresh EXCEPT ![p] = [st |-> "ok"]]
    /\ UNCHANGED <<webToken, webCookie, webPending, webCall, webOverlap>>
\* The answer sets or deletes the cookie, whatever the cookie is by now.
RefreshAnswered(p) ==
    /\ webRefresh[p].st = "answer"
    /\ webCookie' = webRefresh[p].cookie
    /\ webRefresh' = [webRefresh EXCEPT ![p] = [st |-> IF webCookie' = NoCookie THEN "failed" ELSE "ok"]]
    /\ UNCHANGED <<webToken, webPending, webCall, webOverlap>>

\* The network or the route handler fails: nothing is set.
RefreshLost(p) ==
    /\ underWay(p)
    /\ webRefresh' = [webRefresh EXCEPT ![p] = [st |-> "failed"]]
    /\ webOverlap' = TRUE
    /\ UNCHANGED <<webToken, webCookie, webPending, webCall>>

\* Every waiter's finally forgets the refresh the tab remembers, its own or not.
forget(t) == webPending' = [webPending EXCEPT ![t] = NoRefresh]

\* All calls of a tab that await a refresh hear of it before any of them goes on.
heard(t, p, next) ==
    LET waiting == {c \in Calls : webCall[t][c] = [pc |-> "waiting", on |-> p]}
    IN /\ waiting # {}
       /\ webCall' = [webCall EXCEPT ![t] =
             [c \in Calls |-> IF c \in waiting THEN next ELSE webCall[t][c]]]

RefreshSettles(t, p) ==
    /\ \/ webRefresh[p].st = "ok" /\ heard(t, p, [pc |-> "retry"]) /\ UNCHANGED webPending
       \/ webRefresh[p].st = "failed" /\ heard(t, p, CallIdle) /\ forget(t)
    /\ UNCHANGED <<webToken, webCookie, webRefresh, webOverlap>>

RetryEnds(t, c) ==
    /\ webCall[t][c].pc = "retry"
    /\ setCall(t, c, CallIdle) /\ forget(t)
    /\ UNCHANGED <<webToken, webCookie, webRefresh, webOverlap>>

SessionsNext ==
    \/ HandleLogin \/ HandleLogout
    \/ \E t \in Tabs, c \in Calls : \/ \E p \in Refreshes : Unauthorized(t, c, p)
                                   \/ RetryEnds(t, c)
    \/ \E t \in Tabs, p \in Refreshes : RefreshSettles(t, p)
    \/ \E p \in Refreshes : \/ RefreshLookup(p) \/ RefreshRotate(p) \/ RefreshRefused(p)
                               \/ RefreshAnswered(p) \/ RefreshLost(p)

SessionsSpec == SessionsInit /\ [][SessionsNext]_sessionsVars

-----------------------------------------------------------------------------
SessionsTypeOK ==
    /\ webToken \in [WebTokens -> {"free", "active", "revoked"}]
    /\ webCookie \in WebTokens \cup {NoCookie}
    /\ webRefresh \in [Refreshes -> RefreshStates]
    /\ webPending \in [Tabs -> Refreshes \cup {NoRefresh}]
    /\ webCall \in [Tabs -> [Calls -> CallStates]]
    /\ webOverlap \in BOOLEAN

\* As long as no refresh was sent while another was under way and no answer was
\* lost, the cookie of a browser at rest holds a token the backend accepts, whatever
\* logins, logouts and shared refreshes came before.  Refreshes that overlap are
\* excepted, and they do occur: see RefreshIsShared.
CookieIsCurrent ==
    ~webOverlap /\ webCookie # NoCookie /\ (\A p \in Refreshes : ~underWay(p)) =>
        webToken[webCookie] = "active"

\* "Concurrent 401 responses are deduplicated - only one refresh call is made", says
\* apiFetchWithRefresh.  A tab can have two under way: a call that waited for an
\* earlier refresh forgets, when its repeated request ends, the one that has been started
\* since, and the next 401 starts another with the token that one is about to rotate.
RefreshIsShared == Cardinality({p \in Refreshes : underWay(p)}) <= Cardinality(Tabs)
=============================================================================
