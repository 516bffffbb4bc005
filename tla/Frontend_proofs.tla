-------------------------- MODULE Frontend_proofs ---------------------------
(***************************************************************************)
(* Theorems about the frontend and the tokens and profile it shares with   *)
(* the backend, for any tabs, requests and edits: without overlapping      *)
(* refreshes the cookie stays current, what is shown once all has settled  *)
(* is the row, a form saves only what was edited, and a save replaces the  *)
(* profile it saw.                                                         *)
(***************************************************************************)
EXTENDS Sessions, QueryCache, ConfigForms, Profile,
        FiniteSetTheorems, TLAPS

-----------------------------------------------------------------------------
\* Sessions: Sessions.tla.

\* Without overlap one refresh is under way at most, and an answer that sets the
\* cookie brings the token the backend accepts.
OneRefresh == \A p, q \in Refreshes : underWay(p) /\ underWay(q) => p = q
AnswerIsCurrent == \A p \in Refreshes :
    webRefresh[p].st = "answer" /\ webRefresh[p].cookie # NoCookie =>
        webToken[webRefresh[p].cookie] = "active"

SessionsInv ==
    /\ SessionsTypeOK
    /\ ~webOverlap => OneRefresh /\ AnswerIsCurrent
    /\ CookieIsCurrent

-----------------------------------------------------------------------------
\* What a refresh holds, by its state.
LEMMA RefreshShapes ==
    ASSUME NEW r \in RefreshStates
    PROVE  /\ r.st \in {"free", "sent", "rotate", "answer", "ok", "failed"}
           /\ r.st \in {"sent", "rotate"} => r \in [st : {"sent", "rotate"}, token : WebTokens]
           /\ r.st = "answer" => r.cookie \in WebTokens \cup {NoCookie}
BY DEF RefreshStates, RefreshFree

\* As long as a token is free the new token is one of them.
LEMMA NewTokenIsFree ==
    ASSUME freeTokens # {}
    PROVE  newToken \in WebTokens /\ webToken[newToken] = "free" /\ newToken # NoCookie
<1>1. newToken \in freeTokens
  BY DEF newToken
<1>2. QED
  BY <1>1, SessionsAssumption DEF freeTokens, NoCookie

\* A step of refresh p that leaves no other under way.
LEMMA OneUnderWay ==
    ASSUME SessionsTypeOK, OneRefresh, NEW p \in Refreshes, NEW r \in RefreshStates,
           underWay(p), webRefresh' = [webRefresh EXCEPT ![p] = r]
    PROVE  /\ OneRefresh'
           /\ \A q \in Refreshes : q # p => ~underWay(q)
           /\ \A q \in Refreshes : q # p => webRefresh'[q] = webRefresh[q]
           /\ webRefresh'[p] = r
BY DEF SessionsTypeOK, OneRefresh, underWay

\* Nobody has a cookie and no refresh is under way.
LEMMA SessionsInitInv == SessionsInit => SessionsInv
<1> SUFFICES ASSUME SessionsInit PROVE SessionsInv
  OBVIOUS
<1>1. SessionsTypeOK
  <2>1. RefreshFree \in RefreshStates /\ CallIdle \in CallStates
    BY DEF RefreshStates, CallStates
  <2>2. QED
    BY <2>1 DEF SessionsInit, SessionsTypeOK
<1>2. \A p \in Refreshes : webRefresh[p].st = "free"
  BY DEF SessionsInit, RefreshFree
<1>3. QED
  BY <1>1, <1>2 DEF SessionsInit, SessionsInv, OneRefresh, AnswerIsCurrent, CookieIsCurrent,
     underWay

-----------------------------------------------------------------------------
\* A login sets the cookie to its token, and a logout takes it away.
LEMMA CookieIsSetKeeps ==
    ASSUME SessionsInv, HandleLogin \/ HandleLogout
    PROVE  SessionsInv'
<1>1. CASE HandleLogin
  <2>1. newToken \in WebTokens /\ webToken[newToken] = "free" /\ newToken # NoCookie
    BY <1>1, NewTokenIsFree DEF HandleLogin
  <2>2. /\ webToken' = [webToken EXCEPT ![newToken] = "active"] /\ webCookie' = newToken
        /\ UNCHANGED <<webRefresh, webPending, webCall, webOverlap>>
    BY <1>1 DEF HandleLogin
  <2>3. SessionsTypeOK'
    BY <2>1, <2>2 DEF SessionsInv, SessionsTypeOK
  <2>4. webToken'[webCookie'] = "active"
    BY <2>1, <2>2 DEF SessionsInv, SessionsTypeOK
  <2>5. \A k \in WebTokens : webToken[k] = "active" => webToken'[k] = "active"
    BY <2>1, <2>2 DEF SessionsInv, SessionsTypeOK
  <2>6. \A p \in Refreshes : webRefresh[p].st = "answer" =>
            webRefresh[p].cookie \in WebTokens \cup {NoCookie}
    BY RefreshShapes DEF SessionsInv, SessionsTypeOK
  <2>7. QED
    BY <2>2, <2>3, <2>4, <2>5, <2>6
       DEF SessionsInv, OneRefresh, AnswerIsCurrent, CookieIsCurrent, underWay
<1>2. CASE HandleLogout
  BY <1>2 DEF HandleLogout, SessionsInv, SessionsTypeOK, OneRefresh, AnswerIsCurrent,
     CookieIsCurrent, underWay, NoCookie
<1>3. QED
  BY <1>1, <1>2

\* A refresh starts when none is under way, or the overlap is on record.
LEMMA UnauthorizedKeeps ==
    ASSUME SessionsInv, NEW t \in Tabs, NEW c \in Calls, NEW p \in Refreshes, Unauthorized(t, c, p)
    PROVE  SessionsInv'
<1> USE DEF Unauthorized
<1>1. [pc |-> "waiting", on |-> p] \in CallStates
  BY DEF CallStates
<1>2. webCall' \in [Tabs -> [Calls -> CallStates]]
  BY <1>1 DEF setCall, SessionsInv, SessionsTypeOK
<1>3. UNCHANGED <<webToken, webCookie>>
  OBVIOUS
<1>4. CASE webPending[t] # NoRefresh
  <2>1. UNCHANGED <<webRefresh, webPending, webOverlap>>
    BY <1>4
  <2>2. SessionsTypeOK'
    BY <1>2, <1>3, <2>1 DEF SessionsInv, SessionsTypeOK
  <2>3. QED
    BY <1>3, <2>1, <2>2 DEF SessionsInv, OneRefresh, AnswerIsCurrent, CookieIsCurrent, underWay
<1>5. CASE webPending[t] = NoRefresh
  <2>1. PICK r \in RefreshStates :
            /\ r = IF webCookie = NoCookie THEN [st |-> "failed"] ELSE [st |-> "sent", token |-> webCookie]
            /\ r.st \in {"failed", "sent"}
    <3>1. [st |-> "failed"] \in RefreshStates
      BY DEF RefreshStates
    <3>2. webCookie # NoCookie => [st |-> "sent", token |-> webCookie] \in RefreshStates
      BY DEF RefreshStates, SessionsInv, SessionsTypeOK
    <3>3. QED
      BY <3>1, <3>2
  <2>2. /\ webRefresh' = [webRefresh EXCEPT ![p] = r] /\ ~underWay(p)
        /\ webPending' = [webPending EXCEPT ![t] = p]
        /\ webOverlap' = (webOverlap \/ \E q \in Refreshes : underWay(q))
    BY <1>5, <2>1
  <2>3. SessionsTypeOK'
    BY <1>2, <1>3, <2>2 DEF SessionsInv, SessionsTypeOK
  <2>4. webRefresh'[p] = r /\ \A q \in Refreshes : q # p => webRefresh'[q] = webRefresh[q]
    BY <2>2 DEF SessionsInv, SessionsTypeOK
  <2>5. SUFFICES ASSUME ~webOverlap' PROVE OneRefresh' /\ AnswerIsCurrent' /\ CookieIsCurrent'
    BY <2>3 DEF SessionsInv, CookieIsCurrent
  <2>6. ~webOverlap /\ \A q \in Refreshes : ~underWay(q)
    BY <2>2, <2>5 DEF SessionsInv, SessionsTypeOK
  <2>7. OneRefresh'
    BY <2>4, <2>6 DEF OneRefresh, underWay
  <2>8. AnswerIsCurrent'
    BY <1>3, <2>1, <2>4, <2>6 DEF AnswerIsCurrent, SessionsInv
  <2>9. CookieIsCurrent'
    BY <1>3, <2>6 DEF CookieIsCurrent, SessionsInv
  <2>10. QED
    BY <2>7, <2>8, <2>9
<1>6. QED
  BY <1>4, <1>5

\* The backend's answers: whoever lost the session has no cookie afterwards.
LEMMA BackendKeeps ==
    ASSUME SessionsInv, NEW p \in Refreshes,
           RefreshLookup(p) \/ RefreshRotate(p) \/ RefreshRefused(p)
    PROVE  SessionsInv'
<1>1. /\ webRefresh[p].st \in {"sent", "rotate"} /\ underWay(p)
      /\ UNCHANGED <<webCookie, webPending, webCall, webOverlap>>
  BY DEF RefreshLookup, RefreshRotate, RefreshRefused, underWay
<1>2. webRefresh[p] \in [st : {"sent", "rotate"}, token : WebTokens]
  BY <1>1, RefreshShapes DEF SessionsInv, SessionsTypeOK
<1>3. PICK r \in RefreshStates :
          /\ webRefresh' = [webRefresh EXCEPT ![p] = r] /\ r.st \in {"rotate", "answer"}
          /\ r.st = "answer" /\ r.cookie # NoCookie => webToken'[r.cookie] = "active"
  <2>1. CASE RefreshLookup(p)
    <3>1. [webRefresh[p] EXCEPT !.st = "rotate"] \in RefreshStates
          /\ [webRefresh[p] EXCEPT !.st = "rotate"].st = "rotate"
      BY <1>2 DEF RefreshStates
    <3>2. [st |-> "answer", cookie |-> NoCookie] \in RefreshStates
      BY DEF RefreshStates
    <3>3. CASE webToken[webRefresh[p].token] = "active"
      BY <2>1, <3>1, <3>3 DEF RefreshLookup
    <3>4. CASE webToken[webRefresh[p].token] # "active"
      BY <2>1, <3>2, <3>4 DEF RefreshLookup
    <3>5. QED
      BY <3>3, <3>4
  <2>2. CASE RefreshRotate(p)
    <3>1. newToken \in WebTokens /\ webToken[newToken] = "free"
      BY <2>2, NewTokenIsFree DEF RefreshRotate
    <3>2. [st |-> "answer", cookie |-> newToken] \in RefreshStates
      BY <3>1 DEF RefreshStates
    <3>3. webToken'[newToken] = "active"
      BY <2>2, <3>1 DEF RefreshRotate, SessionsInv, SessionsTypeOK
    <3>4. QED
      BY <2>2, <3>2, <3>3 DEF RefreshRotate
  <2>3. CASE RefreshRefused(p)
    <3>1. [st |-> "answer", cookie |-> NoCookie] \in RefreshStates
      BY DEF RefreshStates
    <3>2. QED
      BY <2>3, <3>1 DEF RefreshRefused
  <2>4. QED
    BY <2>1, <2>2, <2>3
<1>4. webToken' \in [WebTokens -> {"free", "active", "revoked"}]
  <2>1. freeTokens # {} => newToken \in WebTokens
    BY NewTokenIsFree
  <2>2. QED
    BY <1>2, <2>1 DEF RefreshLookup, RefreshRotate, RefreshRefused, SessionsInv, SessionsTypeOK
<1>5. SessionsTypeOK'
  BY <1>1, <1>3, <1>4 DEF SessionsInv, SessionsTypeOK
<1>6. SUFFICES ASSUME ~webOverlap PROVE OneRefresh' /\ AnswerIsCurrent' /\ CookieIsCurrent'
  BY <1>1, <1>5 DEF SessionsInv, CookieIsCurrent
<1>7. /\ OneRefresh' /\ webRefresh'[p] = r
      /\ \A q \in Refreshes : q # p => ~underWay(q) /\ webRefresh'[q] = webRefresh[q]
  BY <1>1, <1>3, <1>6, OneUnderWay DEF SessionsInv
<1>8. AnswerIsCurrent'
  BY <1>3, <1>7 DEF AnswerIsCurrent, underWay
<1>9. underWay(p)'
  BY <1>3, <1>7 DEF underWay
<1>10. CookieIsCurrent'
  BY <1>9 DEF CookieIsCurrent
<1>11. QED
  BY <1>7, <1>8, <1>10

\* The browser's part: the one answer sets the cookie.
LEMMA RefreshAnswerKeeps ==
    ASSUME SessionsInv, NEW p \in Refreshes, RefreshAnswered(p)
    PROVE  SessionsInv'
<1> USE DEF RefreshAnswered
<1>1. webRefresh[p].cookie \in WebTokens \cup {NoCookie} /\ underWay(p)
  BY RefreshShapes DEF SessionsInv, SessionsTypeOK, underWay
<1>2. PICK r \in RefreshStates : webRefresh' = [webRefresh EXCEPT ![p] = r] /\ r.st \in {"ok", "failed"}
  <2>1. [st |-> "ok"] \in RefreshStates /\ [st |-> "failed"] \in RefreshStates
    BY DEF RefreshStates
  <2>2. \/ webRefresh' = [webRefresh EXCEPT ![p] = [st |-> "ok"]]
        \/ webRefresh' = [webRefresh EXCEPT ![p] = [st |-> "failed"]]
    OBVIOUS
  <2>3. QED
    BY <2>1, <2>2
<1>3. SessionsTypeOK'
  BY <1>1, <1>2 DEF SessionsInv, SessionsTypeOK
<1>4. SUFFICES ASSUME ~webOverlap PROVE OneRefresh' /\ AnswerIsCurrent' /\ CookieIsCurrent'
  BY <1>3 DEF SessionsInv, CookieIsCurrent
<1>5. /\ OneRefresh' /\ webRefresh'[p] = r
      /\ \A q \in Refreshes : q # p => ~underWay(q) /\ webRefresh'[q] = webRefresh[q]
  BY <1>1, <1>2, <1>4, OneUnderWay DEF SessionsInv
<1>6. AnswerIsCurrent'
  BY <1>2, <1>5 DEF AnswerIsCurrent, underWay
<1>7. CookieIsCurrent'
  BY <1>4 DEF CookieIsCurrent, SessionsInv, AnswerIsCurrent
<1>8. QED
  BY <1>5, <1>6, <1>7

\* A lost answer is on record, and a call that settles changes no token.
LEMMA RestKeeps ==
    ASSUME SessionsInv,
           \/ \E p \in Refreshes : RefreshLost(p)
           \/ \E t \in Tabs, p \in Refreshes : RefreshSettles(t, p)
           \/ \E t \in Tabs, c \in Calls : RetryEnds(t, c)
           \/ UNCHANGED sessionsVars
    PROVE  SessionsInv'
<1>1. ASSUME NEW p \in Refreshes, RefreshLost(p) PROVE SessionsInv'
  <2>1. [st |-> "failed"] \in RefreshStates
    BY DEF RefreshStates
  <2>2. QED
    BY <1>1, <2>1 DEF RefreshLost, SessionsInv, SessionsTypeOK, CookieIsCurrent
<1>2. ASSUME NEW t \in Tabs,
             (\E p \in Refreshes : RefreshSettles(t, p)) \/ (\E c \in Calls : RetryEnds(t, c))
      PROVE  SessionsInv'
  <2>1. UNCHANGED <<webToken, webCookie, webRefresh, webOverlap>>
    BY <1>2 DEF RefreshSettles, RetryEnds
  <2>2. [pc |-> "retry"] \in CallStates /\ CallIdle \in CallStates
    BY DEF CallStates
  <2>3. webPending' \in [Tabs -> Refreshes \cup {NoRefresh}]
    BY <1>2 DEF RefreshSettles, RetryEnds, forget, SessionsInv, SessionsTypeOK
  <2>4. webCall' \in [Tabs -> [Calls -> CallStates]]
    <3>1. ASSUME NEW p \in Refreshes, RefreshSettles(t, p)
          PROVE  webCall' \in [Tabs -> [Calls -> CallStates]]
      <4>1. PICK next \in CallStates : heard(t, p, next)
        BY <3>1, <2>2 DEF RefreshSettles
      <4> DEFINE waiting == {c \in Calls : webCall[t][c] = [pc |-> "waiting", on |-> p]}
                 after == [c \in Calls |-> IF c \in waiting THEN next ELSE webCall[t][c]]
      <4>2. webCall \in [Tabs -> [Calls -> CallStates]]
        BY DEF SessionsInv, SessionsTypeOK
      <4>3. after \in [Calls -> CallStates]
        <5> HIDE DEF waiting
        <5>1. QED
          BY <4>2
      <4>4. webCall' = [webCall EXCEPT ![t] = after]
        BY <4>1 DEF heard
      <4> HIDE DEF after
      <4>5. QED
        BY <4>2, <4>3, <4>4
    <3>2. ASSUME NEW c \in Calls, RetryEnds(t, c)
          PROVE  webCall' \in [Tabs -> [Calls -> CallStates]]
      BY <3>2, <2>2 DEF RetryEnds, setCall, SessionsInv, SessionsTypeOK
    <3>3. QED
      BY <1>2, <3>1, <3>2
  <2>5. QED
    BY <2>1, <2>3, <2>4 DEF SessionsInv, SessionsTypeOK, OneRefresh, AnswerIsCurrent,
       CookieIsCurrent, underWay
<1>3. CASE UNCHANGED sessionsVars
  BY <1>3 DEF sessionsVars, SessionsInv, SessionsTypeOK, OneRefresh, AnswerIsCurrent,
     CookieIsCurrent, underWay
<1>4. QED
  BY <1>1, <1>2, <1>3

-----------------------------------------------------------------------------
\* Every step keeps the invariant of the sessions.
LEMMA SessionsNextKeeps == SessionsInv /\ [SessionsNext]_sessionsVars => SessionsInv'
BY CookieIsSetKeeps, UnauthorizedKeeps, BackendKeeps, RefreshAnswerKeeps, RestKeeps DEF SessionsNext

\* The tabs, calls and refreshes hold what their types say.
THEOREM SessionsType == SessionsSpec => []SessionsTypeOK
<1>1. SessionsInv => SessionsTypeOK
  BY DEF SessionsInv
<1>2. QED
  BY <1>1, SessionsInitInv, SessionsNextKeeps, PTL DEF SessionsSpec

\* For any number of tabs, calls and tokens, the cookie of a browser at rest is one
\* the backend accepts, unless a refresh was sent while another was under way or an
\* answer was lost.
THEOREM CookieStaysCurrent == SessionsSpec => []CookieIsCurrent
<1>1. SessionsInv => CookieIsCurrent
  BY DEF SessionsInv
<1>2. QED
  BY <1>1, SessionsInitInv, SessionsNextKeeps, PTL DEF SessionsSpec

-----------------------------------------------------------------------------
\* The query cache: QueryCache.tla.

\* The mutations that are done and whose hook refetched the query.
Refetched == {e \in EditIds : qcEdits[e].pc = "told" /\ qcEdits[e].refetched}

\* A mutation that will invalidate the query when it settles, whatever it has patched.
WillSettle == \E e \in EditIds : /\ qcKey = "detail"
                                 /\ qcEdits[e].pc = "sent" /\ qcEdits[e].hook.kind = "optimistic"

MutationSound(e) ==
    LET edit == qcEdits[e]
    IN /\ edit.pc = "mutate" => edit.hook.kind = "optimistic"
       /\ edit.pc = "sent" => /\ edit.landed => e \in qcRow
                              /\ edit.previous # NoData => qcKey = "detail" /\ edit.hook.kind = "optimistic"

\* What has the rows of the database: an answer on its way, and data that are fresh.
Shows(row, blind) == row \subseteq qcRow /\ (~blind => Refetched \subseteq row)

QueryInv ==
    /\ QueryTypeOK
    /\ \A e \in EditIds : MutationSound(e)
    /\ Refetched \subseteq qcRow
    /\ qcFetch.at = "answer" => Shows(qcFetch.row, qcFetch.blind)
    /\ qcData # NoData /\ ~qcStale => WillSettle \/ Shows(qcData.row, qcBlind)

-----------------------------------------------------------------------------
\* An optimistic hook always invalidates the detail it has patched, and no hook removes
\* a query that it also invalidates.
LEMMA OptimisticHooks ==
    \A h \in AllHooks : /\ h.kind = "optimistic" => "detail" \in h.invalidates
                        /\ h.removes \cap h.invalidates = {}
<1>1. \A h \in JobHooks \cup ApplicationHooks \cup ApprovalHooks \cup ResumeHooks \cup CoverLetterHooks
                \cup EmailHooks \cup InterviewHooks :
          /\ h.kind = "optimistic" => "detail" \in h.invalidates
          /\ h.removes \cap h.invalidates = {}
  BY DEF JobHooks, ApplicationHooks, ApprovalHooks, ResumeHooks, CoverLetterHooks, EmailHooks,
         InterviewHooks, Hook, Detail
<1>2. \A d \in Domains : HooksOf[d] \in {JobHooks, ApplicationHooks, ApprovalHooks, ResumeHooks,
                                         CoverLetterHooks, EmailHooks, InterviewHooks}
  BY DEF Domains, HooksOf
<1>3. QED
  BY <1>1, <1>2 DEF AllHooks

\* What the query and its mutations hold, by where they are.
LEMMA QueryShapes ==
    /\ \A d \in QueryData : d # NoData => d.row \in DatabaseRows
    /\ NoData \in QueryData /\ \A row \in DatabaseRows : Data(row) \in QueryData /\ Data(row).row = row
    /\ NoFetch \in QueryFetches /\ NoFetch.at = "none"
    /\ \A b \in BOOLEAN : [at |-> "sent", blind |-> b] \in QueryFetches
    /\ \A f \in QueryFetches : /\ f # NoFetch => f.blind \in BOOLEAN
                               /\ f.at = "answer" => f.row \in DatabaseRows
                               /\ f = NoFetch <=> f.at = "none"
    /\ \A s \in QueryEdits : /\ s.pc \in {"mutate", "sent"} => s.hook \in AllHooks
                             /\ s.pc = "sent" => s.previous \in QueryData /\ s.landed \in BOOLEAN
                             /\ s.pc = "told" => s.refetched \in BOOLEAN
    /\ NotStarted \in QueryEdits /\ NotStarted.pc = "new"
<1>1. /\ \A d \in QueryData : d # NoData => d.row \in DatabaseRows
      /\ NoData \in QueryData /\ \A row \in DatabaseRows : Data(row) \in QueryData /\ Data(row).row = row
  BY DEF QueryData, NoData, Data
<1>2. NoFetch \in QueryFetches /\ NoFetch.at = "none"
  BY DEF QueryFetches, NoFetch
<1>3. \A b \in BOOLEAN : [at |-> "sent", blind |-> b] \in QueryFetches
  BY DEF QueryFetches
<1>4. ASSUME NEW f \in QueryFetches
      PROVE  /\ f # NoFetch => f.blind \in BOOLEAN
             /\ f.at = "answer" => f.row \in DatabaseRows
             /\ f = NoFetch <=> f.at = "none"
  <2>1. CASE f = NoFetch
    BY <2>1 DEF NoFetch
  <2>2. CASE f \in [at : {"sent"}, blind : BOOLEAN]
    <3>1. f.at = "sent" /\ f.blind \in BOOLEAN
      BY <2>2
    <3>2. QED
      BY <3>1 DEF NoFetch
  <2>3. CASE f \in [at : {"answer"}, blind : BOOLEAN, row : DatabaseRows]
    <3>1. f.at = "answer" /\ f.blind \in BOOLEAN /\ f.row \in DatabaseRows
      BY <2>3
    <3>2. QED
      BY <3>1 DEF NoFetch
  <2>4. QED
    BY <2>1, <2>2, <2>3 DEF QueryFetches
<1>5. ASSUME NEW s \in QueryEdits
      PROVE  /\ s.pc \in {"mutate", "sent"} => s.hook \in AllHooks
             /\ s.pc = "sent" => s.previous \in QueryData /\ s.landed \in BOOLEAN
             /\ s.pc = "told" => s.refetched \in BOOLEAN
  <2>1. CASE s \in {NotStarted, [pc |-> "over"], [pc |-> "late"]}
    BY <2>1 DEF NotStarted
  <2>2. CASE s \in [pc : {"mutate"}, hook : AllHooks]
    BY <2>2
  <2>3. CASE s \in [pc : {"sent"}, hook : AllHooks, previous : QueryData, landed : BOOLEAN]
    BY <2>3
  <2>4. CASE s \in [pc : {"told"}, refetched : BOOLEAN]
    BY <2>4
  <2>5. QED
    BY <2>1, <2>2, <2>3, <2>4 DEF QueryEdits
<1>6. NotStarted \in QueryEdits /\ NotStarted.pc = "new"
  BY DEF QueryEdits, NotStarted
<1>7. QED
  BY <1>1, <1>2, <1>3, <1>4, <1>5, <1>6

\* Every state a mutation may be put into is one of its states.
LEMMA MutationStates ==
    /\ [pc |-> "over"] \in QueryEdits /\ [pc |-> "late"] \in QueryEdits
    /\ \A h \in AllHooks : [pc |-> "mutate", hook |-> h] \in QueryEdits
    /\ \A h \in AllHooks, d \in QueryData, l \in BOOLEAN :
          [pc |-> "sent", hook |-> h, previous |-> d, landed |-> l] \in QueryEdits
    /\ \A b \in BOOLEAN : [pc |-> "told", refetched |-> b] \in QueryEdits
BY DEF QueryEdits

-----------------------------------------------------------------------------
\* Nothing is cached and nothing edited at first.
LEMMA QueryInitInv == QueryInit => QueryInv
<1>1. SUFFICES ASSUME QueryInit PROVE QueryInv
  OBVIOUS
<1>2. /\ \A e \in EditIds : qcEdits[e] = NotStarted
      /\ qcEdits \in [EditIds -> QueryEdits]
  BY <1>1, QueryShapes DEF QueryInit
<1>3. QueryTypeOK
  BY <1>1, <1>2, QueryShapes DEF QueryInit, QueryTypeOK, DatabaseRows
<1>4. \A e \in EditIds : qcEdits[e].pc = "new"
  BY <1>2, QueryShapes
<1>5. Refetched = {}
  BY <1>4 DEF Refetched
<1>6. QED
  BY <1>1, <1>3, <1>4, <1>5, QueryShapes DEF QueryInit, QueryInv, MutationSound

\* The query moves, no mutation does.
LEMMA QueryMoves ==
    ASSUME QueryInv, UNCHANGED <<qcDomain, qcKey, qcRow, qcEdits>>,
           NEW fetch \in QueryFetches, qcFetch' = fetch,
           fetch.at = "answer" => Shows(fetch.row, fetch.blind),
           NEW data \in QueryData, qcData' = data,
           NEW stale \in BOOLEAN, qcStale' = stale, NEW blind \in BOOLEAN, qcBlind' = blind,
           qcMounted' \in BOOLEAN,
           data # NoData /\ ~stale => WillSettle \/ Shows(data.row, blind)
    PROVE  QueryInv'
<1>1. QueryTypeOK'
  BY DEF QueryInv, QueryTypeOK
<1>2. Refetched' = Refetched /\ (WillSettle <=> WillSettle')
  BY DEF Refetched, WillSettle
<1>3. \A e \in EditIds : MutationSound(e)'
  BY DEF QueryInv, MutationSound
<1>4. \A row, b : Shows(row, b) => Shows(row, b)'
  BY <1>2 DEF Shows
<1>5. qcFetch'.at = "answer" => Shows(qcFetch.row, qcFetch.blind)'
  BY <1>2 DEF Shows
<1>6. qcData' # NoData /\ ~qcStale' => WillSettle' \/ Shows(qcData.row, qcBlind)'
  BY <1>2 DEF Shows
<1>7. QED
  BY <1>1, <1>2, <1>3, <1>5, <1>6 DEF QueryInv

\* The fetches of the query.
LEMMA FetchesKeep ==
    ASSUME QueryInv, Mount \/ Unmount \/ Refetch \/ ServerAnswers \/ QueryFetched \/ QueryFails
    PROVE  QueryInv'
<1>0. /\ qcData \in QueryData /\ qcFetch \in QueryFetches /\ qcStale \in BOOLEAN /\ qcMounted \in BOOLEAN
      /\ qcBlind \in BOOLEAN /\ qcRow \in DatabaseRows
      /\ qcFetch.at = "answer" => Shows(qcFetch.row, qcFetch.blind)
      /\ qcData # NoData /\ ~qcStale => WillSettle \/ Shows(qcData.row, qcBlind)
  BY DEF QueryInv, QueryTypeOK
<1>1. NoFetch \in QueryFetches /\ NoFetch.at # "answer" /\ [at |-> "sent", blind |-> FALSE] \in QueryFetches
  BY QueryShapes
<1>2. ASSUME NEW fetch \in QueryFetches, qcFetch' = fetch, fetch = qcFetch \/ fetch.at # "answer",
             qcMounted' \in BOOLEAN, UNCHANGED <<qcDomain, qcKey, qcRow, qcData, qcStale, qcEdits, qcBlind>>
      PROVE  QueryInv'
  BY <1>0, <1>2, QueryMoves
<1>3. CASE Mount
  <2>1. qcFetch' = [at |-> "sent", blind |-> FALSE] \/ qcFetch' = qcFetch
    BY <1>3 DEF Mount
  <2>2. QED
    BY <1>0, <1>1, <1>2, <1>3, <2>1 DEF Mount
<1>4. CASE Unmount
  <2>1. qcFetch' = NoFetch \/ qcFetch' = qcFetch
    BY <1>4 DEF Unmount
  <2>2. QED
    BY <1>0, <1>1, <1>2, <1>4, <2>1 DEF Unmount
<1>5. CASE Refetch
  BY <1>0, <1>1, <1>2, <1>5 DEF Refetch
<1>6. CASE ServerAnswers
  <2>1. qcFetch.blind \in BOOLEAN
    BY <1>0, <1>6, QueryShapes DEF ServerAnswers
  <2>2. PICK fetch \in QueryFetches : fetch = [at |-> "answer", blind |-> qcFetch.blind, row |-> qcRow]
    BY <1>0, <2>1 DEF QueryFetches
  <2>3. Shows(fetch.row, fetch.blind)
    BY <2>2 DEF Shows, QueryInv
  <2>4. QED
    BY <1>0, <1>6, <2>2, <2>3, QueryMoves DEF ServerAnswers
<1>7. CASE QueryFetched
  <2>1. PICK data \in QueryData : data = Data(qcFetch.row) /\ data.row = qcFetch.row
    BY <1>0, <1>7, QueryShapes DEF QueryFetched
  <2>2. qcFetch.blind \in BOOLEAN
    BY <1>0, <1>1, <1>7, QueryShapes DEF QueryFetched
  <2>3. Shows(data.row, qcFetch.blind)
    BY <1>0, <1>7, <2>1 DEF QueryFetched
  <2>4. QED
    BY <1>0, <1>1, <1>7, <2>1, <2>2, <2>3, QueryMoves DEF QueryFetched
<1>8. CASE QueryFails
  BY <1>0, <1>1, <1>8, QueryMoves DEF QueryFails
<1>9. QED
  BY <1>3, <1>4, <1>5, <1>6, <1>7, <1>8

-----------------------------------------------------------------------------
\* One mutation moves.
LEMMA MutationMoves ==
    ASSUME QueryTypeOK, NEW e \in EditIds, NEW next \in QueryEdits, setEdit(e, next)
    PROVE  /\ qcEdits' \in [EditIds -> QueryEdits] /\ qcEdits'[e] = next
           /\ \A f \in EditIds \ {e} : qcEdits'[f] = qcEdits[f]
           /\ Refetched' = (Refetched \ {e}) \cup (IF next.pc = "told" /\ next.refetched THEN {e} ELSE {})
<1>1. /\ qcEdits' \in [EditIds -> QueryEdits] /\ qcEdits'[e] = next
      /\ \A f \in EditIds \ {e} : qcEdits'[f] = qcEdits[f]
  BY DEF setEdit, QueryTypeOK
<1>2. QED
  BY <1>1 DEF Refetched

\* A mutation starts, patches the data, or lands.
LEMMA MutationStarts ==
    ASSUME QueryInv, NEW e \in EditIds, NEW hook \in HooksOf[qcDomain], Mutate(e, hook)
    PROVE  QueryInv'
<1>0. /\ QueryTypeOK
      /\ hook \in AllHooks
  BY DEF QueryInv, QueryTypeOK, AllHooks
<1>1. PICK next \in QueryEdits :
          /\ setEdit(e, next) /\ next.pc \in {"mutate", "sent"} /\ (next.pc = "mutate" => next.hook.kind = "optimistic")
          /\ next.pc = "sent" => ~next.landed /\ next.previous = NoData
  <2>1. \/ hook.kind = "optimistic" /\ setEdit(e, [pc |-> "mutate", hook |-> hook])
        \/ setEdit(e, [pc |-> "sent", hook |-> hook, previous |-> NoData, landed |-> FALSE])
    BY DEF Mutate
  <2>2. QED
    BY <1>0, <2>1, MutationStates, QueryShapes
<1>2. /\ qcFetch' = NoFetch \/ qcFetch' = qcFetch
      /\ qcEdits[e] = NotStarted /\ UNCHANGED <<qcDomain, qcKey, qcRow, qcData, qcStale, qcMounted, qcBlind>>
  BY DEF Mutate
<1>3. Refetched' = Refetched
  BY <1>0, <1>1, <1>2, MutationMoves, QueryShapes DEF Refetched
<1>4. QueryTypeOK'
  BY <1>0, <1>1, <1>2, MutationMoves, QueryShapes DEF QueryTypeOK
<1>5. ASSUME NEW f \in EditIds PROVE MutationSound(f)'
  <2>1. CASE f = e
    BY <1>0, <1>1, <2>1, MutationMoves DEF MutationSound
  <2>2. CASE f # e
    BY <1>0, <1>1, <1>2, <2>2, MutationMoves DEF MutationSound, QueryInv
  <2>3. QED
    BY <2>1, <2>2
<1>6. WillSettle => WillSettle'
  BY <1>0, <1>1, <1>2, MutationMoves, QueryShapes DEF WillSettle
<1>7. qcFetch'.at = "answer" => Shows(qcFetch.row, qcFetch.blind)'
  BY <1>2, <1>3, QueryShapes DEF QueryInv, Shows
<1>8. qcData' # NoData /\ ~qcStale' => WillSettle' \/ Shows(qcData.row, qcBlind)'
  BY <1>2, <1>3, <1>6 DEF QueryInv, Shows
<1>9. QED
  BY <1>2, <1>3, <1>4, <1>5, <1>7, <1>8 DEF QueryInv

\* An optimistic hook patches the cache before the request is sent.
LEMMA PatchKeeps ==
    ASSUME QueryInv, NEW e \in EditIds, Patch(e)
    PROVE  QueryInv'
<1> DEFINE patches == qcKey = "detail" /\ qcData # NoData
<1>0. /\ QueryTypeOK
      /\ qcEdits[e] \in QueryEdits /\ qcEdits[e].pc = "mutate" /\ qcEdits[e].hook.kind = "optimistic"
      /\ qcData \in QueryData
  BY DEF QueryInv, QueryTypeOK, Patch, MutationSound
<1>1. PICK previous \in QueryData : previous = IF patches THEN qcData ELSE NoData
  BY <1>0, QueryShapes
<1>2. PICK next \in QueryEdits :
          next = [pc |-> "sent", hook |-> qcEdits[e].hook, previous |-> previous, landed |-> FALSE]
  BY <1>0, MutationStates, QueryShapes
<1>3. /\ setEdit(e, next) /\ qcStale' = (qcStale /\ ~patches)
      /\ qcData' = IF patches THEN Data(qcData.row \cup {e}) ELSE qcData
      /\ UNCHANGED <<qcDomain, qcKey, qcRow, qcMounted, qcFetch, qcBlind>>
  BY <1>1, <1>2 DEF Patch
<1>4. qcData' \in QueryData
  <2>1. patches => qcData.row \cup {e} \in DatabaseRows
    BY <1>0, QueryShapes DEF DatabaseRows
  <2>2. QED
    BY <1>0, <1>3, <2>1, QueryShapes
<1>5. QueryTypeOK' /\ Refetched' = Refetched
  BY <1>0, <1>2, <1>3, <1>4, MutationMoves DEF QueryTypeOK, Refetched
<1>6. ASSUME NEW f \in EditIds PROVE MutationSound(f)'
  <2>1. CASE f = e
    BY <1>0, <1>1, <1>2, <1>3, <2>1, MutationMoves DEF MutationSound
  <2>2. CASE f # e
    BY <1>0, <1>2, <1>3, <2>2, MutationMoves DEF MutationSound, QueryInv
  <2>3. QED
    BY <2>1, <2>2
<1>7. WillSettle => WillSettle'
  BY <1>0, <1>2, <1>3, MutationMoves DEF WillSettle
<1>8. patches => WillSettle'
  BY <1>0, <1>2, <1>3, MutationMoves DEF WillSettle
<1>9. qcFetch'.at = "answer" => Shows(qcFetch.row, qcFetch.blind)'
  BY <1>3, <1>5 DEF QueryInv, Shows
<1>10. qcData' # NoData /\ ~qcStale' => WillSettle' \/ Shows(qcData.row, qcBlind)'
  BY <1>3, <1>5, <1>7, <1>8 DEF QueryInv, Shows
<1>11. QED
  BY <1>3, <1>5, <1>6, <1>9, <1>10 DEF QueryInv

\* A request of a mutation takes effect on the row.
LEMMA LandKeeps ==
    ASSUME QueryInv, NEW e \in EditIds, Land(e)
    PROVE  QueryInv'
<1>0. QueryTypeOK /\ qcEdits[e] \in QueryEdits
  BY DEF QueryInv, QueryTypeOK
<1>1. PICK next \in QueryEdits :
          /\ setEdit(e, next)
          /\ \/ qcEdits[e].pc = "late" /\ next.pc = "over"
             \/ /\ qcEdits[e].pc = "sent" /\ next.pc = "sent" /\ next.hook = qcEdits[e].hook
                /\ next.previous = qcEdits[e].previous
  <2>1. CASE qcEdits[e].pc = "late" /\ setEdit(e, [pc |-> "over"])
    BY <2>1, MutationStates
  <2>2. CASE qcEdits[e].pc = "sent" /\ setEdit(e, [qcEdits[e] EXCEPT !.landed = TRUE])
    <3>1. qcEdits[e] \in [pc : {"sent"}, hook : AllHooks, previous : QueryData, landed : BOOLEAN]
      BY <1>0, <2>2 DEF QueryEdits, NotStarted
    <3>2. PICK next \in [pc : {"sent"}, hook : AllHooks, previous : QueryData, landed : BOOLEAN] :
              next = [qcEdits[e] EXCEPT !.landed = TRUE]
      BY <3>1
    <3>3. next \in QueryEdits
      BY DEF QueryEdits
    <3>4. QED
      BY <2>2, <3>1, <3>2, <3>3
  <2>3. QED
    BY <2>1, <2>2 DEF Land
<1>2. /\ qcRow' = qcRow \cup {e}
      /\ UNCHANGED <<qcDomain, qcKey, qcData, qcStale, qcMounted, qcFetch, qcBlind>>
  BY DEF Land
<1>3. QueryTypeOK' /\ Refetched' = Refetched
  BY <1>0, <1>1, <1>2, MutationMoves DEF QueryTypeOK, Refetched, DatabaseRows
<1>4. ASSUME NEW f \in EditIds PROVE MutationSound(f)'
  <2>1. CASE f = e
    BY <1>0, <1>1, <1>2, <2>1, MutationMoves DEF MutationSound, QueryInv
  <2>2. CASE f # e
    BY <1>0, <1>1, <1>2, <2>2, MutationMoves DEF MutationSound, QueryInv
  <2>3. QED
    BY <2>1, <2>2
<1>5. WillSettle => WillSettle'
  BY <1>0, <1>1, <1>2, MutationMoves DEF WillSettle
<1>6. qcFetch'.at = "answer" => Shows(qcFetch.row, qcFetch.blind)'
  BY <1>2, <1>3 DEF QueryInv, Shows
<1>7. qcData' # NoData /\ ~qcStale' => WillSettle' \/ Shows(qcData.row, qcBlind)'
  BY <1>2, <1>3, <1>5 DEF QueryInv, Shows
<1>8. QED
  BY <1>2, <1>3, <1>4, <1>6, <1>7 DEF QueryInv

-----------------------------------------------------------------------------
\* A mutation settles: over, or told to the hook.  Either it invalidates the query or it
\* is not one that patches.
LEMMA SettlesSoundly ==
    ASSUME QueryInv, NEW e \in EditIds, qcEdits[e].pc = "sent",
           NEW next \in QueryEdits, setEdit(e, next), next.pc \in {"told", "over", "late"},
           next.pc = "told" => qcEdits[e].landed,
           NEW data \in QueryData, qcData' = data, NEW stale \in BOOLEAN, qcStale' = stale,
           NEW fetch \in QueryFetches, qcFetch' = fetch,
           \/ /\ stale \/ data = NoData
              /\ fetch.at = "answer" => fetch.row \subseteq qcRow /\ fetch.blind
           \/ /\ ~(next.pc = "told" /\ next.refetched) /\ data = qcData /\ stale = qcStale /\ fetch = qcFetch
              /\ ~(qcKey = "detail" /\ qcEdits[e].hook.kind = "optimistic"),
           UNCHANGED <<qcDomain, qcKey, qcRow, qcMounted, qcBlind>>
    PROVE  QueryInv'
<1>0. /\ QueryTypeOK
      /\ MutationSound(e) /\ Refetched \subseteq qcRow
  BY DEF QueryInv
<1>1. QueryTypeOK'
  BY <1>0, MutationMoves DEF QueryTypeOK
<1>2. Refetched' \subseteq qcRow'
  BY <1>0, MutationMoves DEF MutationSound
<1>3. ASSUME NEW f \in EditIds PROVE MutationSound(f)'
  <2>1. CASE f = e
    BY <1>0, <2>1, MutationMoves DEF MutationSound
  <2>2. CASE f # e
    BY <1>0, <2>2, MutationMoves DEF MutationSound, QueryInv
  <2>3. QED
    BY <2>1, <2>2
<1>4. CASE /\ stale \/ data = NoData
           /\ fetch.at = "answer" => fetch.row \subseteq qcRow /\ fetch.blind
  <2>1. qcFetch'.at = "answer" => Shows(qcFetch.row, qcFetch.blind)'
    BY <1>4 DEF Shows
  <2>2. QED
    BY <1>1, <1>2, <1>3, <1>4, <2>1 DEF QueryInv
<1>5. CASE /\ ~(next.pc = "told" /\ next.refetched) /\ data = qcData /\ stale = qcStale /\ fetch = qcFetch
           /\ ~(qcKey = "detail" /\ qcEdits[e].hook.kind = "optimistic")
  <2>1. Refetched' = Refetched
    BY <1>0, <1>5, MutationMoves DEF Refetched
  <2>2. WillSettle => WillSettle'
    BY <1>0, <1>5, MutationMoves DEF WillSettle
  <2>3. qcFetch'.at = "answer" => Shows(qcFetch.row, qcFetch.blind)'
    BY <1>5, <2>1 DEF QueryInv, Shows
  <2>4. qcData' # NoData /\ ~qcStale' => WillSettle' \/ Shows(qcData.row, qcBlind)'
    BY <1>5, <2>1, <2>2 DEF QueryInv, Shows
  <2>5. QED
    BY <1>1, <1>2, <1>3, <2>3, <2>4 DEF QueryInv
<1>6. QED
  BY <1>4, <1>5

\* What is fetched after an invalidation is a new fetch, or known to be an old one.
LEMMA Invalidated ==
    ASSUME QueryInv, invalidate
    PROVE  /\ qcFetch' \in QueryFetches
           /\ qcFetch'.at = "answer" => qcFetch'.row \subseteq qcRow /\ qcFetch'.blind
<1>0. qcFetch \in QueryFetches /\ (qcFetch.at = "answer" => qcFetch.row \subseteq qcRow)
  BY DEF QueryInv, QueryTypeOK, Shows
<1>1. \/ qcFetch' = [at |-> "sent", blind |-> FALSE] \/ qcFetch' = NoFetch
      \/ qcFetch # NoFetch /\ qcFetch' = [qcFetch EXCEPT !.blind = TRUE]
  <2>1. CASE qcMounted /\ (qcFetch = NoFetch \/ qcData # NoData)
    BY <2>1 DEF invalidate
  <2>2. CASE ~(qcMounted /\ (qcFetch = NoFetch \/ qcData # NoData)) /\ qcFetch = NoFetch
    BY <2>2 DEF invalidate
  <2>3. CASE ~(qcMounted /\ (qcFetch = NoFetch \/ qcData # NoData)) /\ qcFetch # NoFetch
    BY <2>3 DEF invalidate
  <2>4. QED
    BY <2>1, <2>2, <2>3
<1>2. CASE qcFetch' = [at |-> "sent", blind |-> FALSE] \/ qcFetch' = NoFetch
  <2>1. [at |-> "sent", blind |-> FALSE] \in QueryFetches /\ NoFetch \in QueryFetches
    BY QueryShapes
  <2>2. qcFetch'.at # "answer"
    BY <1>2 DEF NoFetch
  <2>3. QED
    BY <1>2, <2>1, <2>2
<1>3. CASE qcFetch # NoFetch /\ qcFetch' = [qcFetch EXCEPT !.blind = TRUE]
  <2>1. CASE qcFetch \in [at : {"sent"}, blind : BOOLEAN]
    <3>1. qcFetch' \in [at : {"sent"}, blind : BOOLEAN]
      BY <1>3, <2>1
    <3>2. QED
      BY <3>1 DEF QueryFetches
  <2>2. CASE qcFetch \in [at : {"answer"}, blind : BOOLEAN, row : DatabaseRows]
    <3>1. /\ qcFetch' \in [at : {"answer"}, blind : BOOLEAN, row : DatabaseRows]
          /\ qcFetch'.row = qcFetch.row /\ qcFetch'.blind = TRUE
      BY <1>3, <2>2
    <3>2. QED
      BY <1>0, <2>2, <3>1 DEF QueryFetches
  <2>3. QED
    BY <1>0, <1>3, <2>1, <2>2 DEF QueryFetches
<1>4. QED
  BY <1>1, <1>2, <1>3

\* The answer of a mutation settles it, and its hook invalidates or writes the cache.
LEMMA EditSucceedsKeeps ==
    ASSUME QueryInv, NEW e \in EditIds, EditSucceeds(e)
    PROVE  QueryInv'
<1> DEFINE hook == qcEdits[e].hook
<1>0. /\ QueryTypeOK
      /\ qcEdits[e] \in QueryEdits /\ qcEdits[e].pc = "sent" /\ qcEdits[e].landed
      /\ qcData \in QueryData /\ qcFetch \in QueryFetches /\ qcStale \in BOOLEAN
      /\ UNCHANGED <<qcDomain, qcKey, qcRow, qcMounted, qcBlind>>
  BY DEF QueryInv, QueryTypeOK, EditSucceeds
<1>1. hook \in AllHooks
  <2>1. qcEdits[e].hook \in AllHooks
    BY <1>0, QueryShapes
  <2>2. QED
    BY <2>1
<1>2. PICK next \in QueryEdits : /\ next = [pc |-> "told", refetched |-> qcKey \in hook.invalidates]
                                /\ setEdit(e, next)
  <2>1. (qcKey \in hook.invalidates) \in BOOLEAN
    OBVIOUS
  <2>2. [pc |-> "told", refetched |-> qcKey \in hook.invalidates] \in QueryEdits
    BY <2>1 DEF QueryEdits
  <2>3. setEdit(e, [pc |-> "told", refetched |-> qcKey \in hook.invalidates])
    BY DEF EditSucceeds
  <2>4. QED
    BY <2>2, <2>3
<1>3. next.pc = "told" /\ (next.refetched => qcKey \in hook.invalidates)
  BY <1>2
<1>4. setEdit(e, next)
  BY <1>2
<1>5. CASE qcKey \in hook.removes
  <2>1. qcData' = NoData /\ qcStale' = FALSE /\ qcFetch' = NoFetch
    <3>1. qcKey \notin hook.invalidates
      BY <1>1, <1>5, OptimisticHooks
    <3>2. QED
      BY <1>5, <3>1 DEF EditSucceeds
  <2>2. NoData \in QueryData /\ NoFetch \in QueryFetches /\ NoFetch.at = "none"
    BY QueryShapes
  <2>3. QED
    BY <1>0, <1>3, <1>4, <2>1, <2>2, SettlesSoundly
<1>6. CASE qcKey \notin hook.removes /\ qcKey \in hook.invalidates
  <2>1. qcStale' = TRUE /\ invalidate /\ UNCHANGED qcData
    BY <1>6 DEF EditSucceeds
  <2>2. QED
    BY <1>0, <1>3, <1>4, <2>1, Invalidated, SettlesSoundly
<1>7. CASE qcKey \notin hook.removes /\ qcKey \notin hook.invalidates
  <2>1. UNCHANGED <<qcData, qcStale, qcFetch>>
    BY <1>7 DEF EditSucceeds
  <2>2. ~(qcKey = "detail" /\ hook.kind = "optimistic")
    BY <1>1, <1>7, OptimisticHooks
  <2>3. ~(next.pc = "told" /\ next.refetched)
    BY <1>3, <1>7
  <2>4. next.pc = "told"
    BY <1>3
  <2>5. QED
    BY <1>0, <1>4, <2>1, <2>2, <2>3, <2>4, SettlesSoundly
<1>8. QED
  BY <1>5, <1>6, <1>7

\* The failure of a mutation rolls its patch back and settles it.
LEMMA EditFailsKeeps ==
    ASSUME QueryInv, NEW e \in EditIds, EditFails(e)
    PROVE  QueryInv'
<1> DEFINE hook == qcEdits[e].hook
           settles == hook.kind # "plain" /\ qcKey \in hook.invalidates
<1>0. /\ QueryTypeOK
      /\ qcEdits[e] \in QueryEdits /\ qcEdits[e].pc = "sent" /\ MutationSound(e)
      /\ qcData \in QueryData /\ qcFetch \in QueryFetches /\ qcStale \in BOOLEAN
      /\ UNCHANGED <<qcDomain, qcKey, qcRow, qcMounted, qcBlind>>
  BY DEF QueryInv, QueryTypeOK, EditFails
<1>1. hook \in AllHooks /\ qcEdits[e].previous \in QueryData
  BY <1>0, QueryShapes
<1>2. PICK next \in QueryEdits :
          /\ setEdit(e, next) /\ next.pc \in {"told", "over", "late"}
          /\ next.pc = "told" => qcEdits[e].landed /\ hook.kind # "plain"
                                 /\ (next.refetched => qcKey \in hook.invalidates)
  <2> DEFINE told == [pc |-> "told", refetched |-> qcKey \in hook.invalidates]
  <2>1. \/ qcEdits[e].landed /\ hook.kind # "plain" /\ setEdit(e, told)
        \/ setEdit(e, [pc |-> "over"]) \/ setEdit(e, [pc |-> "late"])
    <3>1. fails(e, hook.kind # "plain")
      BY DEF EditFails
    <3>2. CASE hook.kind # "plain"
      BY <3>1, <3>2 DEF fails
    <3>3. CASE hook.kind = "plain"
      BY <3>1, <3>3 DEF fails
    <3>4. QED
      BY <3>2, <3>3
  <2>2. CASE qcEdits[e].landed /\ hook.kind # "plain" /\ setEdit(e, told)
    <3>1. (qcKey \in hook.invalidates) \in BOOLEAN
      OBVIOUS
    <3>2. told \in QueryEdits
      BY <3>1 DEF QueryEdits
    <3>3. told.pc = "told" /\ (told.refetched => qcKey \in hook.invalidates)
      OBVIOUS
    <3> HIDE DEF told
    <3>4. QED
      BY <2>2, <3>2, <3>3
  <2>3. CASE setEdit(e, [pc |-> "over"]) \/ setEdit(e, [pc |-> "late"])
    BY <2>3, MutationStates
  <2>4. QED
    BY <2>1, <2>2, <2>3
<1>3. PICK data \in QueryData : data = IF qcEdits[e].previous # NoData THEN qcEdits[e].previous ELSE qcData
  BY <1>0, <1>1
<1>4. qcData' = data
  BY <1>3 DEF EditFails, fails
<1>5. CASE settles
  <2>1. qcStale' = TRUE /\ invalidate
    BY <1>5 DEF EditFails
  <2>2. QED
    BY <1>0, <1>2, <1>4, <2>1, Invalidated, SettlesSoundly
<1>6. CASE ~settles
  <2>1. UNCHANGED <<qcStale, qcFetch>>
    BY <1>6 DEF EditFails
  <2>2. ~(qcKey = "detail" /\ hook.kind = "optimistic")
    BY <1>1, <1>6, OptimisticHooks
  <2>3. data = qcData
    BY <1>0, <1>3, <2>2 DEF MutationSound
  <2>4. ~(next.pc = "told" /\ next.refetched)
    BY <1>2, <1>6
  <2>5. QED
    BY <1>0, <1>2, <1>4, <2>1, <2>2, <2>3, <2>4, SettlesSoundly
<1>7. QED
  BY <1>5, <1>6

\* Every step keeps the invariant of the cache.
LEMMA QueryNextKeeps == QueryInv /\ [QueryNext]_queryVars => QueryInv'
<1>1. ASSUME QueryInv, UNCHANGED queryVars PROVE QueryInv'
  BY <1>1 DEF queryVars, QueryInv, QueryTypeOK, MutationSound, Refetched, WillSettle, Shows
<1>2. ASSUME QueryInv, QueryNext PROVE QueryInv'
  BY <1>2, FetchesKeep, MutationStarts, PatchKeeps, LandKeeps, EditSucceedsKeeps, EditFailsKeeps DEF QueryNext
<1>3. QED
  BY <1>1, <1>2

-----------------------------------------------------------------------------
\* A settled query that is fresh shows the row as the database has it, for any number of
\* mutations of any of the hooks.
THEOREM FreshDataAreTheRow == QuerySpec => []SettledIsShown
<1>1. QueryInv => SettledIsShown
  <2>1. SUFFICES ASSUME QueryInv, QueryAtRest, qcData # NoData, ~qcStale, ~qcBlind
                 PROVE  qcData.row \subseteq qcRow /\ Refetched \subseteq qcData.row
    BY DEF SettledIsShown, Refetched
  <2>2. ~WillSettle
    BY <2>1 DEF WillSettle, QueryAtRest
  <2>3. QED
    BY <2>1, <2>2 DEF QueryInv, Shows
<1>2. QED
  BY <1>1, QueryInitInv, QueryNextKeeps, PTL DEF QuerySpec

\* The entry, the query in flight and the saves keep their shape.
THEOREM QueryType == QuerySpec => []QueryTypeOK
<1>1. QueryInv => QueryTypeOK
  BY DEF QueryInv
<1>2. QED
  BY <1>1, QueryInitInv, QueryNextKeeps, PTL DEF QuerySpec

-----------------------------------------------------------------------------
\* The settings forms: ConfigForms.tla.

typable(f) == KindOf[formKinds[f]].typed

\* What a save closed over could be entered, and differs only where it was entered.
EditSound(edit) ==
    /\ edit \in Edits
    /\ \A f \in FormFields : edit.texts[f] \in typable(f)
    /\ edit.changed \subseteq edit.typed

\* The fields a save has passed were not refused, and what it sends is not cleared.
SaveSound(save) ==
    /\ save \in SubmitStates
    /\ save.pc \in {"deleting", "sending"} => EditSound(save.edit)
    /\ save.pc = "deleting" => \A f \in save.edit.changed :
                                  f <= save.field => ~refuses(f, save.edit.texts[f])
    /\ save.pc = "sending" => \A f \in save.pending : /\ ~refuses(f, save.edit.texts[f])
                                                      /\ ~clears(f, save.edit.texts[f])

\* A field of the form that nobody has typed in shows the cached configuration.
ShowsData ==
    form # NotMounted => /\ formData # NoConfig
                         /\ \A f \in FormFields : /\ form.texts[f] \in typable(f)
                                                  /\ form.texts[f] # formData.row[f] => f \in form.typed

FormInv == /\ FormTypeOK /\ ShowsData
           /\ \A s \in 1..MaxSubmits : SaveSound(formSaves[s])

-----------------------------------------------------------------------------
\* What can be entered is a text, a value can always be entered, and only a value is
\* neither refused, nor cleared, nor invalid; a text that is cleared is not refused.
LEMMA KindsOfFields ==
    ASSUME formKinds \in SectionFields, NEW f \in FormFields
    PROVE  /\ typable(f) \subseteq FormTexts /\ Settled \subseteq typable(f)
           /\ \A text \in typable(f) :
                 /\ ~refuses(f, text) /\ ~clears(f, text) /\ isValid(f, text) => text \in Settled
                 /\ clears(f, text) => ~refuses(f, text)
<1>1. formKinds[f] \in {"number", "choice", "text", "free", "url", "action", "clearable"}
  BY DEF SectionFields, ScoringFields, TierFields, EmailFields, LLMFields, AutomationFields,
         VoiceFields, FormFields
<1>2. QED
  BY <1>1 DEF typable, KindOf, refuses, clears, isValid, Settled, FormTexts

\* The form and the configuration, by whether they are there.
LEMMA FormShapes ==
    /\ \A s \in FormStates : s # NotMounted =>
          /\ s \in [at : {"form"}, texts : [FormFields -> FormTexts], typed : SUBSET FormFields,
                    save : 0..MaxSubmits]
          /\ s.texts \in [FormFields -> FormTexts] /\ s.typed \subseteq FormFields
    /\ NotMounted \in FormStates
    /\ \A d \in {NoConfig} \cup [has : {TRUE}, row : ConfigRows] : d # NoConfig => d.row \in ConfigRows
    /\ \A row \in ConfigRows : /\ [has |-> TRUE, row |-> row] # NoConfig
                               /\ [has |-> TRUE, row |-> row].row = row
    /\ ConfigRows \subseteq [FormFields -> FormTexts]
<1>1. \A s \in FormStates : s # NotMounted =>
          /\ s \in [at : {"form"}, texts : [FormFields -> FormTexts], typed : SUBSET FormFields,
                    save : 0..MaxSubmits]
          /\ s.texts \in [FormFields -> FormTexts] /\ s.typed \subseteq FormFields
  BY DEF FormStates
<1>2. NotMounted \in FormStates
  BY DEF FormStates
<1>3. /\ \A d \in {NoConfig} \cup [has : {TRUE}, row : ConfigRows] : d # NoConfig => d.row \in ConfigRows
      /\ \A row \in ConfigRows : [has |-> TRUE, row |-> row].row = row
  OBVIOUS
<1>4. \A row \in ConfigRows : [has |-> TRUE, row |-> row] # NoConfig
  BY DEF NoConfig
<1>5. ConfigRows \subseteq [FormFields -> FormTexts]
  BY DEF ConfigRows, Settled, FormTexts
<1>6. QED
  BY <1>1, <1>2, <1>3, <1>4, <1>5

\* A form that has just been shown a configuration.
LEMMA FreshForm ==
    ASSUME formKinds \in SectionFields, NEW row \in ConfigRows
    PROVE  /\ Fresh(row) \in FormStates /\ Fresh(row).texts = row
           /\ \A f \in FormFields : row[f] \in typable(f)
<1>1. Fresh(row) \in FormStates /\ Fresh(row).texts = row
  BY FormAssumption, FormShapes DEF Fresh, FormStates
<1>2. \A f \in FormFields : row[f] \in typable(f)
  BY KindsOfFields DEF ConfigRows
<1>3. QED
  BY <1>1, <1>2

\* The states a save is put into are states of a save.
LEMMA SubmitShapes ==
    /\ \A pc \in {"new", "over", "stuck"} : [pc |-> pc] \in SubmitStates
    /\ \A edit \in Edits, f \in FormFields, l \in BOOLEAN :
          [pc |-> "deleting", edit |-> edit, field |-> f, landed |-> l] \in SubmitStates
    /\ \A edit \in Edits, p \in SUBSET FormFields, l \in SUBSET FormFields :
          [pc |-> "sending", edit |-> edit, pending |-> p, landed |-> l] \in SubmitStates
    /\ \A s \in SubmitStates :
          /\ s.pc = "deleting" => s \in [pc : {"deleting"}, edit : Edits, field : FormFields, landed : BOOLEAN]
          /\ s.pc = "sending" => s \in [pc : {"sending"}, edit : Edits, pending : SUBSET FormFields,
                                        landed : SUBSET FormFields]
BY DEF SubmitStates

-----------------------------------------------------------------------------
\* handleSubmit goes on with the edit it was given, past fields that are not refused.
LEMMA SubmitsSoundly ==
    ASSUME formKinds \in SectionFields, NEW edit, EditSound(edit), NEW from \in 1..3,
           \A f \in edit.changed : f < from => ~refuses(f, edit.texts[f])
    PROVE  SaveSound(handleSubmit(edit, from))
<1> DEFINE clearing == {f \in edit.changed : clears(f, edit.texts[f])}
           halts == {f \in edit.changed : f >= from /\ (refuses(f, edit.texts[f]) \/ f \in clearing)}
           first == CHOOSE f \in halts : \A g \in halts : f <= g
<1>0. edit \in Edits /\ edit.changed \subseteq FormFields /\ edit.texts \in [FormFields -> FormTexts]
  BY DEF EditSound, Edits
<1>1. SaveSound([pc |-> "over"])
  BY SubmitShapes DEF SaveSound
<1>2. CASE halts # {}
  <2>1. halts \subseteq {1, 2}
    BY <1>0 DEF FormFields
  <2>2. \E f \in halts : \A g \in halts : f <= g
    <3>1. CASE 1 \in halts
      BY <2>1, <3>1
    <3>2. CASE 1 \notin halts
      <4>1. 2 \in halts /\ \A g \in halts : g = 2
        BY <1>2, <2>1, <3>2
      <4>2. QED
        BY <4>1
    <3>3. QED
      BY <3>1, <3>2
  <2>3. first \in halts /\ \A g \in halts : first <= g
    BY <2>2
  <2> HIDE DEF first
  <2>4. CASE first \in clearing
    <3>1. handleSubmit(edit, from) = [pc |-> "deleting", edit |-> edit, field |-> first, landed |-> FALSE]
      BY <1>2, <2>4 DEF handleSubmit, first
    <3>2. first \in FormFields
      BY <1>0, <2>3
    <3>3. [pc |-> "deleting", edit |-> edit, field |-> first, landed |-> FALSE] \in SubmitStates
      BY <1>0, <3>2, SubmitShapes
    <3>4. \A f \in edit.changed : f <= first => ~refuses(f, edit.texts[f])
      <4>1. SUFFICES ASSUME NEW f \in edit.changed, f <= first, refuses(f, edit.texts[f])
                     PROVE  FALSE
        OBVIOUS
      <4>2. f \in halts
        BY <4>1, <1>0 DEF FormFields
      <4>3. f = first
        BY <2>1, <2>3, <4>1, <4>2
      <4>4. ~refuses(f, edit.texts[f])
        BY <1>0, <2>4, <4>3, KindsOfFields DEF EditSound
      <4>5. QED
        BY <4>1, <4>4
    <3>5. QED
      BY <3>1, <3>3, <3>4 DEF SaveSound
  <2>5. CASE first \notin clearing
    BY <1>1, <1>2, <2>5 DEF handleSubmit, first
  <2>6. QED
    BY <2>4, <2>5
<1>3. CASE halts = {} /\ edit.changed = clearing
  BY <1>1, <1>3 DEF handleSubmit
<1>4. CASE halts = {} /\ edit.changed # clearing
  <2>1. handleSubmit(edit, from) =
            [pc |-> "sending", edit |-> edit, pending |-> edit.changed \ clearing, landed |-> {}]
    BY <1>4 DEF handleSubmit
  <2>2. edit.changed \ clearing \in SUBSET FormFields /\ {} \in SUBSET FormFields
    BY <1>0
  <2>3. \A f \in edit.changed \ clearing : ~refuses(f, edit.texts[f]) /\ ~clears(f, edit.texts[f])
    BY <1>0, <1>4 DEF FormFields
  <2> HIDE DEF clearing
  <2>4. [pc |-> "sending", edit |-> edit, pending |-> edit.changed \ clearing, landed |-> {}] \in SubmitStates
    BY <1>0, <2>2, SubmitShapes
  <2>5. QED
    BY <2>1, <2>3, <2>4 DEF SaveSound
<1>5. QED
  BY <1>2, <1>3, <1>4

-----------------------------------------------------------------------------
\* No form is open and no row fetched at first.
LEMMA FormInitInv == FormInit => FormInv
<1>1. SUFFICES ASSUME FormInit PROVE FormInv
  OBVIOUS
<1>2. formRow \in ConfigRows
  BY <1>1 DEF FormInit, ConfigRows, Settled
<1>3. \A s \in 1..MaxSubmits : formSaves[s] = [pc |-> "new"]
  BY <1>1 DEF FormInit
<1>4. SaveSound([pc |-> "new"])
  BY SubmitShapes DEF SaveSound
<1>5. FormTypeOK
  <2>1. formSaves \in [1..MaxSubmits -> SubmitStates]
    BY <1>1, SubmitShapes DEF FormInit
  <2>2. form \in FormStates /\ formElsewhere \in 0..MaxElsewhere
    BY <1>1, FormShapes, FormAssumption DEF FormInit
  <2>3. formFetch \in [at : {"none", "sent"}]
    BY <1>1 DEF FormInit
  <2>4. QED
    BY <1>1, <1>2, <2>1, <2>2, <2>3 DEF FormInit, FormTypeOK
<1>6. QED
  BY <1>1, <1>3, <1>4, <1>5 DEF FormInit, FormInv, ShowsData

\* A step of the page's query, its tabs or its fields.
LEMMA PageKeeps ==
    ASSUME FormInv,
           ConfigAnswered \/ ConfigFetched \/ ConfigFetchFails \/ ConfigRefetch \/ SetActiveSection
           \/ \E f \in FormFields, text \in FormTexts : Type(f, text)
    PROVE  FormTypeOK' /\ ShowsData' /\ UNCHANGED <<formKinds, formSaves>>
<1>0. /\ FormTypeOK /\ ShowsData
      /\ formRow \in ConfigRows /\ formKinds \in SectionFields /\ form \in FormStates
      /\ formTab \in BOOLEAN /\ formError \in BOOLEAN
  BY DEF FormInv, FormTypeOK
<1>1. CASE ConfigAnswered
  <2>1. [at |-> "answer", row |-> formRow] \in [at : {"answer"}, row : ConfigRows]
    BY <1>0
  <2>2. QED
    BY <1>0, <1>1, <2>1 DEF ConfigAnswered, FormTypeOK, ShowsData, typable
<1>2. CASE ConfigFetched
  <2>1. PICK row \in ConfigRows : row = formFetch.row
    BY <1>0, <1>2 DEF FormTypeOK, ConfigFetched
  <2>2. /\ formData' = [has |-> TRUE, row |-> row] /\ formError' = FALSE /\ formFetch' = [at |-> "none"]
        /\ UNCHANGED <<formKinds, formRow, formTab, formSaves, formElsewhere>>
    BY <1>2, <2>1 DEF ConfigFetched
  <2>3. /\ formData' \in {NoConfig} \cup [has : {TRUE}, row : ConfigRows]
        /\ formData' # NoConfig /\ formData'.row = row
    BY <2>2, FormShapes
  <2>4. CASE ~formTab
    <3>1. form' = NotMounted
      BY <1>2, <2>4 DEF ConfigFetched
    <3>2. QED
      BY <1>0, <2>2, <2>3, <3>1, FormShapes DEF FormTypeOK, ShowsData
  <2>5. CASE formTab /\ form = NotMounted
    <3>1. form' = Fresh(row)
      BY <1>2, <2>1, <2>5 DEF ConfigFetched
    <3>2. /\ form' \in FormStates /\ form'.texts = row
          /\ \A f \in FormFields : row[f] \in typable(f)
      BY <1>0, <3>1, FreshForm
    <3>3. QED
      BY <1>0, <2>2, <2>3, <3>2 DEF FormTypeOK, ShowsData, typable
  <2>6. CASE formTab /\ form # NotMounted /\ row = formData.row
    <3>1. form \in [at : {"form"}, texts : [FormFields -> FormTexts], typed : SUBSET FormFields,
                    save : 0..MaxSubmits]
      BY <1>0, <2>6, FormShapes
    <3>2. form' = [form EXCEPT !.texts = form.texts, !.typed = form.typed]
      BY <1>2, <2>1, <2>6 DEF ConfigFetched, syncTexts
    <3>3. form' = form
      BY <3>1, <3>2
    <3>4. QED
      BY <1>0, <2>2, <2>3, <2>6, <3>3 DEF FormTypeOK, ShowsData, typable
  <2>7. CASE formTab /\ form # NotMounted /\ row # formData.row
    <3>1. form \in [at : {"form"}, texts : [FormFields -> FormTexts], typed : SUBSET FormFields,
                    save : 0..MaxSubmits]
      BY <1>0, <2>7, FormShapes
    <3>2. form' = [form EXCEPT !.texts = row, !.typed = {}]
      BY <1>2, <2>1, <2>7 DEF ConfigFetched, syncTexts
    <3>3. row \in [FormFields -> FormTexts] /\ \A f \in FormFields : row[f] \in typable(f)
      BY <1>0, FormShapes, FreshForm
    <3>4. /\ form' \in [at : {"form"}, texts : [FormFields -> FormTexts], typed : SUBSET FormFields,
                        save : 0..MaxSubmits]
          /\ form'.texts = row
      BY <3>1, <3>2, <3>3
    <3>5. QED
      BY <1>0, <2>2, <2>3, <3>3, <3>4 DEF FormTypeOK, ShowsData, typable, FormStates
  <2>8. QED
    BY <1>0, <2>4, <2>5, <2>6, <2>7
<1>3. CASE ConfigFetchFails
  BY <1>0, <1>3, FormShapes DEF ConfigFetchFails, FormTypeOK, ShowsData
<1>4. CASE ConfigRefetch
  BY <1>0, <1>4 DEF ConfigRefetch, FormTypeOK, ShowsData, typable
<1>5. CASE SetActiveSection
  <2>1. formData.row \in ConfigRows
    BY <1>0, <1>5, FormShapes DEF FormTypeOK, SetActiveSection
  <2>2. /\ Fresh(formData.row) \in FormStates /\ Fresh(formData.row).texts = formData.row
        /\ \A f \in FormFields : formData.row[f] \in typable(f)
    BY <1>0, <2>1, FreshForm
  <2>3. CASE formTab
    BY <1>0, <1>5, <2>3, FormShapes DEF SetActiveSection, FormTypeOK, ShowsData
  <2>4. CASE ~formTab
    BY <1>0, <1>5, <2>2, <2>4 DEF SetActiveSection, FormTypeOK, ShowsData, typable
  <2>5. QED
    BY <2>3, <2>4
<1>6. ASSUME NEW f \in FormFields, NEW text \in FormTexts, Type(f, text)
      PROVE  FormTypeOK' /\ ShowsData' /\ UNCHANGED <<formKinds, formSaves>>
  <2>1. /\ form # NotMounted /\ text \in typable(f)
        /\ form' = [form EXCEPT !.texts[f] = text, !.typed = form.typed \cup {f}]
        /\ UNCHANGED <<formKinds, formRow, formData, formError, formFetch, formTab, formSaves,
                       formElsewhere>>
    BY <1>6 DEF Type, typable
  <2>2. form \in [at : {"form"}, texts : [FormFields -> FormTexts], typed : SUBSET FormFields,
                  save : 0..MaxSubmits]
    BY <1>0, <2>1, FormShapes
  <2>3. /\ form' \in [at : {"form"}, texts : [FormFields -> FormTexts], typed : SUBSET FormFields,
                      save : 0..MaxSubmits]
        /\ form'.texts = [form.texts EXCEPT ![f] = text] /\ form'.typed = form.typed \cup {f}
    BY <2>1, <2>2
  <2>4. \A g \in FormFields : form'.texts[g] = IF g = f THEN text ELSE form.texts[g]
    BY <2>2, <2>3
  <2>5. QED
    BY <1>0, <2>1, <2>3, <2>4 DEF FormTypeOK, ShowsData, typable, FormStates
<1>7. QED
  BY <1>1, <1>2, <1>3, <1>4, <1>5, <1>6

\* A save moves to a sound state; the row stays a row.
LEMMA SaveMoves ==
    ASSUME FormInv, NEW s \in 1..MaxSubmits, NEW next, SaveSound(next), setSubmit(s, next),
           formRow' \in ConfigRows, formElsewhere' \in 0..MaxElsewhere,
           formFetch' \in [at : {"none", "sent"}] \cup [at : {"answer"}, row : ConfigRows],
           form' \in FormStates, ShowsData',
           UNCHANGED <<formKinds, formData, formError, formTab>>
    PROVE  FormInv'
<1>0. FormTypeOK /\ \A t \in 1..MaxSubmits : SaveSound(formSaves[t])
  BY DEF FormInv
<1>1. \A t \in 1..MaxSubmits : formSaves'[t] = IF t = s THEN next ELSE formSaves[t]
  BY <1>0 DEF FormTypeOK, setSubmit
<1>2. formSaves' \in [1..MaxSubmits -> SubmitStates]
  BY <1>0 DEF FormTypeOK, setSubmit, SaveSound
<1>3. FormTypeOK'
  BY <1>0, <1>2 DEF FormTypeOK
<1>4. ASSUME NEW t \in 1..MaxSubmits
      PROVE  SaveSound(formSaves[t])'
  <2>1. CASE t = s
    BY <1>1, <2>1 DEF SaveSound, EditSound, typable, refuses, clears
  <2>2. CASE t # s
    BY <1>0, <1>1, <2>2 DEF SaveSound, EditSound, typable, refuses, clears
  <2>3. QED
    BY <2>1, <2>2
<1>5. QED
  BY <1>3, <1>4 DEF FormInv

\* After an invalidation the query is being fetched again or stays as it is.
LEMMA QueryInvalidated ==
    ASSUME FormTypeOK, invalidateConfig
    PROVE  formFetch' \in [at : {"none", "sent"}] \cup [at : {"answer"}, row : ConfigRows]
<1>1. formFetch' = formFetch \/ formFetch' = [at |-> "sent"]
  BY DEF invalidateConfig
<1>2. [at |-> "sent"] \in [at : {"none", "sent"}]
  OBVIOUS
<1>3. QED
  BY <1>1, <1>2 DEF FormTypeOK

\* What is left of a save when one of its answers is in.
LEMMA SettledSoundly ==
    ASSUME FormInv, NEW s \in 1..MaxSubmits, NEW f \in FormFields, formSaves[s].pc = "sending"
    PROVE  SaveSound(settled(s, f))
<1> DEFINE save == formSaves[s]
           next == [save EXCEPT !.pending = save.pending \ {f}, !.landed = save.landed \ {f}]
<1>0. SaveSound(save)
  BY DEF FormInv
<1>1. CASE settled(s, f) = [pc |-> "over"]
  BY <1>1, SubmitShapes DEF SaveSound
<1>2. CASE settled(s, f) = next
  <2>1. save \in [pc : {"sending"}, edit : Edits, pending : SUBSET FormFields,
                  landed : SUBSET FormFields]
    BY <1>0, SubmitShapes DEF SaveSound
  <2>2. /\ next \in [pc : {"sending"}, edit : Edits, pending : SUBSET FormFields,
                     landed : SUBSET FormFields]
        /\ next.edit = save.edit /\ next.pending \subseteq save.pending /\ next.pc = "sending"
    BY <2>1
  <2>3. next \in SubmitStates
    BY <2>2 DEF SubmitStates
  <2> HIDE DEF next
  <2>4. SaveSound(next)
    BY <1>0, <2>2, <2>3 DEF SaveSound
  <2>5. QED
    BY <1>2, <2>4
<1>3. QED
  BY <1>1, <1>2 DEF settled

\* Every step keeps the invariant of the forms.
LEMMA FormNextKeeps == FormInv /\ [FormNext]_formVars => FormInv'
<1>1. SUFFICES ASSUME FormInv, [FormNext]_formVars PROVE FormInv'
  OBVIOUS
<1>0. /\ FormTypeOK /\ ShowsData /\ \A s \in 1..MaxSubmits : SaveSound(formSaves[s])
      /\ formRow \in ConfigRows /\ formKinds \in SectionFields /\ form \in FormStates
      /\ formElsewhere \in 0..MaxElsewhere
      /\ formFetch \in [at : {"none", "sent"}] \cup [at : {"answer"}, row : ConfigRows]
  BY <1>1 DEF FormInv, FormTypeOK
<1>2. CASE UNCHANGED formVars
  BY <1>1, <1>2 DEF formVars, FormInv, FormTypeOK, ShowsData, SaveSound, EditSound, typable,
                    refuses, clears
<1>3. CASE \/ ConfigAnswered \/ ConfigFetched \/ ConfigFetchFails \/ ConfigRefetch
           \/ SetActiveSection \/ \E f \in FormFields, text \in FormTexts : Type(f, text)
  <2>1. FormTypeOK' /\ ShowsData' /\ UNCHANGED <<formKinds, formSaves>>
    BY <1>1, <1>3, PageKeeps
  <2>2. QED
    BY <1>0, <2>1 DEF FormInv, SaveSound, EditSound, typable, refuses, clears
<1>4. ASSUME NEW f \in FormFields, NEW value \in Settled, SetElsewhere(f, value)
      PROVE  FormInv'
  <2>1. /\ formRow' \in ConfigRows /\ formElsewhere' \in 0..MaxElsewhere
        /\ UNCHANGED <<formKinds, formData, formError, formFetch, formTab, form, formSaves>>
    BY <1>0, <1>4, FormAssumption DEF SetElsewhere, ConfigRows
  <2>2. QED
    BY <1>0, <2>1 DEF FormInv, FormTypeOK, ShowsData, SaveSound, EditSound, typable, refuses, clears
<1>5. ASSUME NEW s \in 1..MaxSubmits, Submit(s)
      PROVE  FormInv'
  <2> DEFINE edit == [texts |-> form.texts, typed |-> form.typed,
                      changed |-> {f \in FormFields : form.texts[f] # formData.row[f]}]
             next == handleSubmit(edit, 1)
  <2>1. form \in [at : {"form"}, texts : [FormFields -> FormTexts], typed : SUBSET FormFields,
                  save : 0..MaxSubmits]
    BY <1>0, <1>5, FormShapes DEF Submit
  <2>2. edit \in Edits
    BY <2>1 DEF Edits
  <2>3. EditSound(edit)
    <3>1. /\ edit.changed = {f \in FormFields : form.texts[f] # formData.row[f]}
          /\ edit.typed = form.typed /\ edit.texts = form.texts
      OBVIOUS
    <3> HIDE DEF edit
    <3>2. QED
      BY <1>0, <1>5, <2>2, <3>1 DEF EditSound, ShowsData, Submit
  <2>4. SaveSound(next)
    <3>1. \A f \in edit.changed : ~(f < 1)
      BY DEF FormFields
    <3> HIDE DEF edit
    <3>2. QED
      BY <1>0, <2>3, <3>1, SubmitsSoundly
  <2>5. /\ setSubmit(s, next) /\ form' = [form EXCEPT !.save = s]
        /\ UNCHANGED <<formKinds, formRow, formData, formError, formFetch, formTab, formElsewhere>>
    BY <1>5 DEF Submit
  <2>6. /\ form' \in [at : {"form"}, texts : [FormFields -> FormTexts], typed : SUBSET FormFields,
                      save : 0..MaxSubmits]
        /\ form'.texts = form.texts /\ form'.typed = form.typed
    BY <2>1, <2>5, FormAssumption
  <2>7. form' \in FormStates /\ ShowsData'
    BY <1>0, <1>5, <2>5, <2>6 DEF FormStates, ShowsData, typable, Submit
  <2> HIDE DEF next
  <2>8. QED
    BY <1>0, <1>1, <2>4, <2>5, <2>7, SaveMoves
<1>6. ASSUME NEW s \in 1..MaxSubmits, DeleteLands(s)
      PROVE  FormInv'
  <2> DEFINE save == formSaves[s]
             next == [save EXCEPT !.landed = TRUE]
  <2>1. save \in [pc : {"deleting"}, edit : Edits, field : FormFields, landed : BOOLEAN]
    BY <1>0, <1>6, SubmitShapes DEF DeleteLands, SaveSound
  <2>2. /\ next \in [pc : {"deleting"}, edit : Edits, field : FormFields, landed : BOOLEAN]
        /\ next.edit = save.edit /\ next.field = save.field /\ next.pc = "deleting"
    BY <2>1
  <2>3. next \in SubmitStates
    BY <2>2 DEF SubmitStates
  <2>4. /\ setSubmit(s, next) /\ formRow' = [formRow EXCEPT ![save.field] = "a"]
        /\ UNCHANGED <<formKinds, formData, formError, formFetch, formTab, form, formElsewhere>>
    BY <1>6 DEF DeleteLands
  <2> HIDE DEF next
  <2>5. SaveSound(next)
    BY <1>0, <2>1, <2>2, <2>3 DEF SaveSound
  <2>6. formRow' \in ConfigRows /\ ShowsData'
    BY <1>0, <2>4 DEF ConfigRows, Settled, ShowsData, typable
  <2>7. QED
    BY <1>0, <1>1, <2>4, <2>5, <2>6, SaveMoves
<1>7. ASSUME NEW s \in 1..MaxSubmits, DeleteAnswered(s)
      PROVE  FormInv'
  <2> DEFINE save == formSaves[s]
             next == handleSubmit(save.edit, save.field + 1)
  <2>1. /\ setSubmit(s, next) /\ invalidateConfig /\ save.pc = "deleting" /\ SaveSound(save)
        /\ UNCHANGED <<formKinds, formRow, formData, formError, formTab, form, formElsewhere>>
    BY <1>0, <1>7 DEF DeleteAnswered
  <2>2. /\ save.field \in FormFields /\ EditSound(save.edit)
        /\ \A f \in save.edit.changed : f <= save.field => ~refuses(f, save.edit.texts[f])
        /\ save.edit.changed \subseteq FormFields
    BY <2>1, SubmitShapes DEF SaveSound, EditSound, Edits
  <2>3. /\ save.field + 1 \in 1..3
        /\ \A f \in save.edit.changed : f < save.field + 1 => ~refuses(f, save.edit.texts[f])
    BY <2>2 DEF FormFields
  <2>4. SaveSound(next)
    BY <1>0, <2>2, <2>3, SubmitsSoundly
  <2>5. ShowsData' /\ formFetch' \in [at : {"none", "sent"}] \cup [at : {"answer"}, row : ConfigRows]
    BY <1>0, <2>1, QueryInvalidated DEF ShowsData, typable
  <2> HIDE DEF next
  <2>6. QED
    BY <1>0, <1>1, <2>1, <2>4, <2>5, SaveMoves
<1>8. ASSUME NEW s \in 1..MaxSubmits, DeleteOverrideFails(s)
      PROVE  FormInv'
  <2>1. SaveSound([pc |-> "stuck"])
    BY SubmitShapes DEF SaveSound
  <2>2. /\ setSubmit(s, [pc |-> "stuck"])
        /\ UNCHANGED <<formKinds, formRow, formData, formError, formFetch, formTab, form, formElsewhere>>
    BY <1>8 DEF DeleteOverrideFails
  <2>3. ShowsData'
    BY <1>0, <2>2 DEF ShowsData, typable
  <2>4. QED
    BY <1>0, <1>1, <2>1, <2>2, <2>3, SaveMoves
<1>9. ASSUME NEW s \in 1..MaxSubmits, NEW f \in FormFields, SetOverrideLands(s, f)
      PROVE  FormInv'
  <2> DEFINE save == formSaves[s]
             next == [save EXCEPT !.pending = save.pending \ {f}, !.landed = save.landed \cup {f}]
  <2>1. save \in [pc : {"sending"}, edit : Edits, pending : SUBSET FormFields,
                  landed : SUBSET FormFields]
    BY <1>0, <1>9, SubmitShapes DEF SetOverrideLands, SaveSound
  <2>2. /\ next \in [pc : {"sending"}, edit : Edits, pending : SUBSET FormFields,
                     landed : SUBSET FormFields]
        /\ next.edit = save.edit /\ next.pending \subseteq save.pending /\ next.pc = "sending"
    BY <2>1
  <2>3. next \in SubmitStates
    BY <2>2 DEF SubmitStates
  <2>4. /\ setSubmit(s, next) /\ formRow' = [formRow EXCEPT ![f] = save.edit.texts[f]]
        /\ UNCHANGED <<formKinds, formData, formError, formFetch, formTab, form, formElsewhere>>
    BY <1>9 DEF SetOverrideLands
  <2> HIDE DEF next
  <2>5. SaveSound(next)
    BY <1>0, <2>1, <2>2, <2>3 DEF SaveSound
  <2>6. save.edit.texts[f] \in Settled
    BY <1>0, <1>9, <2>1, KindsOfFields DEF SetOverrideLands, SaveSound, EditSound
  <2>7. formRow' \in ConfigRows /\ ShowsData'
    BY <1>0, <2>4, <2>6 DEF ConfigRows, ShowsData, typable
  <2>8. QED
    BY <1>0, <1>1, <2>4, <2>5, <2>7, SaveMoves
<1>10. ASSUME NEW s \in 1..MaxSubmits, NEW f \in FormFields,
              SetOverrideAnswered(s, f) \/ SetOverrideFails(s, f)
       PROVE  FormInv'
  <2>1. /\ setSubmit(s, settled(s, f)) /\ formSaves[s].pc = "sending"
        /\ UNCHANGED <<formKinds, formRow, formData, formError, formTab, form, formElsewhere>>
    BY <1>10 DEF SetOverrideAnswered, SetOverrideFails
  <2>2. SaveSound(settled(s, f))
    BY <1>1, <2>1, SettledSoundly
  <2>3. ShowsData'
    BY <1>0, <2>1 DEF ShowsData, typable
  <2>4. formFetch' \in [at : {"none", "sent"}] \cup [at : {"answer"}, row : ConfigRows]
    BY <1>0, <1>10, QueryInvalidated DEF SetOverrideAnswered, SetOverrideFails
  <2>5. QED
    BY <1>0, <1>1, <2>1, <2>2, <2>3, <2>4, SaveMoves
<1>11. QED
  BY <1>1, <1>2, <1>3, <1>4, <1>5, <1>6, <1>7, <1>8, <1>9, <1>10 DEF FormNext

\* OnlyEditsAreSaved holds with any number of saves and of writes from elsewhere: no form
\* of the configuration page sends or deletes a field that was not typed in.
THEOREM FormsSaveOnlyEdits == FormSpec => []OnlyEditsAreSaved
<1>1. FormInv => OnlyEditsAreSaved
  BY DEF FormInv, OnlyEditsAreSaved, SaveSound, EditSound
<1>2. QED
  BY <1>1, FormInitInv, FormNextKeeps, PTL DEF FormSpec

\* The fields, the sections and the submits in flight keep their shape.
THEOREM FormType == FormSpec => []FormTypeOK
<1>1. FormInv => FormTypeOK
  BY DEF FormInv
<1>2. QED
  BY <1>1, FormInitInv, FormNextKeeps, PTL DEF FormSpec

-----------------------------------------------------------------------------
\* The profile tabs: Profile.tla.

\* The shapes of the rows and of the requests, without the bound on the saves.
Versioned == [version : Nat \ {0}, data : [Sections -> Nat]]
FetchShapes == {NoRequest, [pc |-> "get"], [pc |-> "create"]} \cup [pc : {"answer"}, profile : Versioned]
SaveShapes == {NoRequest, [pc |-> "conflict"]} \cup [pc : {"answer"}, profile : Versioned]
    \cup [pc : {"get"}, save : Nat, sections : SUBSET Sections, base : Versioned]
    \cup [pc : {"update"}, id : ProfileIds, save : Nat, sections : SUBSET Sections, base : Versioned]
    \cup [pc : {"reread"}, id : ProfileIds]

ProfileTyped ==
    /\ profRow \in [ProfileIds -> Versioned \cup {NoProfile}]
    /\ profCache \in [ProfileTabs -> Versioned \cup {NoProfile}]
    /\ profFetch \in [ProfileTabs -> FetchShapes]
    /\ profSave \in [ProfileTabs -> SaveShapes]
    /\ profSaves \in Nat /\ profBlind \in BOOLEAN

\* A profile somebody holds is the first row's, or one of an earlier version.
Current(p) ==
    /\ profRow[1] # NoProfile /\ p.version <= profRow[1].version
    /\ p.version = profRow[1].version => p = profRow[1]

\* What a tab holds: its cache c, its fetch f and its save s.
TabSound(c, f, s) ==
    /\ s.pc \in {"update", "reread"} => profRow[s.id] # NoProfile
    /\ profRow[2] = NoProfile =>
          /\ c # NoProfile => Current(c)
          /\ f.pc = "answer" => Current(f.profile)
          /\ s.pc \in {"get", "update"} => Current(s.base)
          /\ s.pc = "answer" => Current(s.profile)

ProfileInv ==
    /\ ProfileTyped
    /\ profRow[2] # NoProfile => profRow[1] # NoProfile
    /\ profRow[2] = NoProfile => ~profBlind
    /\ \A t \in ProfileTabs : TabSound(profCache[t], profFetch[t], profSave[t])

-----------------------------------------------------------------------------
\* What requests hold, by where they are.
LEMMA RequestShapes ==
    /\ NoProfile \notin Versioned
    /\ \A p \in Versioned : p.version \in Nat /\ p.version # 0
    /\ \A f \in FetchShapes : f.pc = "answer" => f.profile \in Versioned
    /\ \A s \in SaveShapes :
          /\ s.pc \in {"update", "reread"} => s.id \in ProfileIds
          /\ s.pc \in {"get", "update"} =>
                s.base \in Versioned /\ s.save \in Nat /\ s.sections \in SUBSET Sections
          /\ s.pc = "answer" => s.profile \in Versioned
BY DEF NoProfile, Versioned, FetchShapes, SaveShapes, NoRequest

\* With the second row empty, the number of rows is the first's.
LEMMA RowsCounted ==
    ASSUME ProfileInv
    PROVE  /\ profRow[1] = NoProfile => rowsOf = {} /\ Cardinality(rowsOf) = 0
           /\ profRow[1] # NoProfile /\ profRow[2] = NoProfile => Cardinality(rowsOf) = 1
           /\ profRow[2] # NoProfile => Cardinality(rowsOf) = 2
<1>1. CASE profRow[1] = NoProfile
  <2>1. rowsOf = {} /\ profRow[2] = NoProfile
    BY <1>1 DEF ProfileInv, rowsOf, ProfileIds
  <2>2. QED
    BY <1>1, <2>1, FS_EmptySet
<1>2. CASE profRow[1] # NoProfile /\ profRow[2] = NoProfile
  <2>1. rowsOf = {1}
    BY <1>2 DEF rowsOf, ProfileIds
  <2>2. QED
    BY <1>2, <2>1, FS_Singleton
<1>3. CASE profRow[1] # NoProfile /\ profRow[2] # NoProfile
  <2>1. rowsOf = {1} \cup {2}
    BY <1>3 DEF rowsOf, ProfileIds
  <2>2. IsFiniteSet({1}) /\ Cardinality({1}) = 1
    BY FS_Singleton
  <2>3. 2 \notin {1}
    OBVIOUS
  <2>4. Cardinality({1} \cup {2}) = 1 + 1
    BY <2>2, <2>3, FS_AddElement
  <2>5. QED
    BY <1>3, <2>1, <2>4
<1>4. QED
  BY <1>1, <1>2, <1>3 DEF ProfileInv

\* A step that leaves the rows alone and after which the tab it moves is sound.
LEMMA TabMoves ==
    ASSUME ProfileInv, NEW t \in ProfileTabs, ProfileTyped', UNCHANGED <<profRow, profBlind>>,
           \A u \in ProfileTabs \ {t} : /\ profCache'[u] = profCache[u]
                                        /\ profFetch'[u] = profFetch[u]
                                        /\ profSave'[u] = profSave[u],
           TabSound(profCache'[t], profFetch'[t], profSave'[t])
    PROVE  ProfileInv'
<1>1. ASSUME NEW u \in ProfileTabs
      PROVE  TabSound(profCache'[u], profFetch'[u], profSave'[u])
  BY DEF ProfileInv
<1>2. ASSUME NEW u \in ProfileTabs PROVE TabSound(profCache[u], profFetch[u], profSave[u])'
  BY <1>1 DEF TabSound, Current
<1>3. QED
  BY <1>2 DEF ProfileInv

-----------------------------------------------------------------------------
\* The requests of a tab, up to the one that writes a row.
LEMMA FetchSteps ==
    ASSUME ProfileInv, NEW t \in ProfileTabs,
           FetchProfile(t) \/ GetProfile(t) \/ FetchEnds(t) \/ FetchFails(t)
    PROVE  ProfileInv'
<1>0. /\ profCache[t] \in Versioned \cup {NoProfile} /\ profFetch[t] \in FetchShapes
      /\ TabSound(profCache[t], profFetch[t], profSave[t]) /\ ProfileTyped
  BY DEF ProfileInv, ProfileTyped
<1>1. ASSUME NEW f \in FetchShapes, setFetch(t, f), UNCHANGED <<profRow, profCache, profSave, profSaves, profBlind>>,
             f.pc = "answer" => profRow[2] # NoProfile \/ Current(f.profile)
      PROVE  ProfileInv'
  <2>1. ProfileTyped'
    BY <1>0, <1>1 DEF ProfileTyped, setFetch
  <2>2. profFetch'[t] = f /\ \A u \in ProfileTabs \ {t} : profFetch'[u] = profFetch[u]
    BY <1>0, <1>1 DEF ProfileTyped, setFetch
  <2>3. TabSound(profCache'[t], profFetch'[t], profSave'[t])
    BY <1>0, <1>1, <2>2 DEF TabSound
  <2>4. QED
    BY <1>1, <2>1, <2>2, <2>3, TabMoves
<1>2. NoRequest \in FetchShapes /\ NoRequest.pc # "answer"
  BY DEF FetchShapes, NoRequest
<1>3. CASE FetchProfile(t)
  <2>1. [pc |-> "get"] \in FetchShapes
    BY DEF FetchShapes
  <2>2. QED
    BY <1>1, <1>3, <2>1 DEF FetchProfile
<1>4. CASE GetProfile(t)
  <2>1. CASE rowsOf = {}
    <3>1. [pc |-> "create"] \in FetchShapes
      BY DEF FetchShapes
    <3>2. QED
      BY <1>1, <1>4, <2>1, <3>1 DEF GetProfile
  <2>2. CASE rowsOf # {}
    <3>1. PICK i \in rowsOf : setFetch(t, [pc |-> "answer", profile |-> profRow[i]])
      BY <1>4, <2>2 DEF GetProfile
    <3>2. i \in {1, 2} /\ profRow[i] # NoProfile /\ profRow[i] \in Versioned
      BY <1>0 DEF rowsOf, ProfileTyped, ProfileIds
    <3>3. [pc |-> "answer", profile |-> profRow[i]] \in FetchShapes
      BY <3>2 DEF FetchShapes
    <3>4. profRow[2] # NoProfile \/ Current(profRow[i])
      BY <3>2, RequestShapes DEF Current
    <3>5. QED
      BY <1>1, <1>4, <3>1, <3>3, <3>4 DEF GetProfile
  <2>3. QED
    BY <2>1, <2>2
<1>5. CASE FetchEnds(t)
  <2>1. profFetch[t].profile \in Versioned
    BY <1>0, <1>5, RequestShapes DEF FetchEnds
  <2>2. ProfileTyped'
    BY <1>0, <1>2, <1>5, <2>1 DEF ProfileTyped, FetchEnds, setFetch
  <2>3. profFetch'[t] = NoRequest /\ profCache'[t] = profFetch[t].profile /\ UNCHANGED profSave
    BY <1>0, <1>5 DEF ProfileTyped, FetchEnds, setFetch
  <2>4. TabSound(profCache'[t], profFetch'[t], profSave'[t])
    BY <1>0, <1>2, <1>5, <2>3 DEF TabSound, FetchEnds
  <2>5. \A u \in ProfileTabs \ {t} : profFetch'[u] = profFetch[u] /\ profCache'[u] = profCache[u]
    BY <1>0, <1>5 DEF ProfileTyped, FetchEnds, setFetch
  <2>6. QED
    BY <1>5, <2>2, <2>3, <2>4, <2>5, TabMoves DEF FetchEnds
<1>6. CASE FetchFails(t)
  BY <1>1, <1>2, <1>6 DEF FetchFails
<1>7. QED
  BY <1>3, <1>4, <1>5, <1>6

\* A save reads the profile it replaces before it replaces it.
LEMMA SaveSteps ==
    ASSUME ProfileInv, NEW t \in ProfileTabs,
           \/ \E sections \in SUBSET Sections : SaveProfile(t, sections)
           \/ GetForSave(t) \/ Reread(t) \/ SaveSucceeds(t) \/ SaveConflicts(t) \/ SaveProfileFails(t)
    PROVE  ProfileInv'
<1>0. /\ profCache[t] \in Versioned \cup {NoProfile} /\ profSave[t] \in SaveShapes
      /\ TabSound(profCache[t], profFetch[t], profSave[t]) /\ ProfileTyped
  BY DEF ProfileInv, ProfileTyped
<1>1. ASSUME NEW s \in SaveShapes, setSave(t, s), UNCHANGED <<profRow, profCache, profFetch, profBlind>>,
             profSaves' \in Nat, s.pc \in {"update", "reread"} => profRow[s.id] # NoProfile,
             s.pc \in {"get", "update"} => profRow[2] # NoProfile \/ Current(s.base),
             s.pc = "answer" => profRow[2] # NoProfile \/ Current(s.profile)
      PROVE  ProfileInv'
  <2>1. ProfileTyped'
    BY <1>0, <1>1 DEF ProfileTyped, setSave
  <2>2. profSave'[t] = s /\ \A u \in ProfileTabs \ {t} : profSave'[u] = profSave[u]
    BY <1>0, <1>1 DEF ProfileTyped, setSave
  <2>3. TabSound(profCache'[t], profFetch'[t], profSave'[t])
    BY <1>0, <1>1, <2>2 DEF TabSound
  <2>4. QED
    BY <1>1, <2>1, <2>2, <2>3, TabMoves
<1>2. NoRequest \in SaveShapes /\ NoRequest.pc = "none"
  BY DEF SaveShapes, NoRequest
<1>3. ASSUME NEW sections \in SUBSET Sections, SaveProfile(t, sections) PROVE ProfileInv'
  <2>1. PICK n \in Nat : n = profSaves + 1
    BY <1>0 DEF ProfileTyped
  <2> DEFINE s == [pc |-> "get", save |-> n, sections |-> sections, base |-> profCache[t]]
  <2>2. profCache[t] \in Versioned
    BY <1>0, <1>3 DEF SaveProfile
  <2>3. s \in SaveShapes
    BY <2>2 DEF SaveShapes
  <2>4. profRow[2] # NoProfile \/ Current(profCache[t])
    BY <1>0, <1>3 DEF TabSound, SaveProfile
  <2>5. setSave(t, s) /\ profSaves' \in Nat
    BY <1>3, <2>1 DEF SaveProfile
  <2>6. QED
    BY <1>1, <1>3, <2>3, <2>4, <2>5 DEF SaveProfile
<1>4. CASE GetForSave(t)
  <2>1. PICK i \in rowsOf : setSave(t, [pc |-> "update", id |-> i, save |-> profSave[t].save,
                                        sections |-> profSave[t].sections, base |-> profSave[t].base])
    BY <1>4 DEF GetForSave
  <2> DEFINE s == [pc |-> "update", id |-> i, save |-> profSave[t].save,
                   sections |-> profSave[t].sections, base |-> profSave[t].base]
  <2>2. i \in ProfileIds /\ profRow[i] # NoProfile
    BY DEF rowsOf
  <2>3. /\ profSave[t].base \in Versioned /\ profSave[t].save \in Nat
        /\ profSave[t].sections \in SUBSET Sections
    BY <1>0, <1>4, RequestShapes DEF GetForSave
  <2>4. s \in SaveShapes
    BY <2>2, <2>3 DEF SaveShapes
  <2>5. profRow[2] # NoProfile \/ Current(profSave[t].base)
    BY <1>0, <1>4 DEF TabSound, GetForSave
  <2>6. setSave(t, s) /\ profSaves' \in Nat /\ UNCHANGED <<profRow, profCache, profFetch, profBlind>>
    BY <1>0, <1>4, <2>1 DEF GetForSave, ProfileTyped
  <2>7. QED
    BY <1>1, <2>2, <2>4, <2>5, <2>6
<1>5. CASE Reread(t)
  <2> DEFINE s == [pc |-> "answer", profile |-> profRow[profSave[t].id]]
  <2>1. profSave[t].id \in ProfileIds /\ profRow[profSave[t].id] # NoProfile
    BY <1>0, <1>5, RequestShapes DEF TabSound, Reread
  <2>2. profRow[profSave[t].id] \in Versioned
    BY <1>0, <2>1 DEF ProfileTyped
  <2>3. s \in SaveShapes
    BY <2>2 DEF SaveShapes
  <2>4. profRow[2] # NoProfile \/ Current(profRow[profSave[t].id])
    BY <2>1, <2>2, RequestShapes DEF Current, ProfileIds
  <2>5. setSave(t, s) /\ profSaves' \in Nat /\ UNCHANGED <<profRow, profCache, profFetch, profBlind>>
    BY <1>0, <1>5 DEF Reread, ProfileTyped
  <2>6. QED
    BY <1>1, <2>3, <2>4, <2>5
<1>6. CASE SaveSucceeds(t)
  <2>1. profSave[t].profile \in Versioned
    BY <1>0, <1>6, RequestShapes DEF SaveSucceeds
  <2>2. ProfileTyped'
    BY <1>0, <1>2, <1>6, <2>1 DEF ProfileTyped, SaveSucceeds, setSave
  <2>3. profSave'[t] = NoRequest /\ profCache'[t] = profSave[t].profile /\ UNCHANGED profFetch
    BY <1>0, <1>6 DEF ProfileTyped, SaveSucceeds, setSave
  <2>4. TabSound(profCache'[t], profFetch'[t], profSave'[t])
    BY <1>0, <1>2, <1>6, <2>3 DEF TabSound, SaveSucceeds
  <2>5. \A u \in ProfileTabs \ {t} : profSave'[u] = profSave[u] /\ profCache'[u] = profCache[u]
    BY <1>0, <1>6 DEF ProfileTyped, SaveSucceeds, setSave
  <2>6. QED
    BY <1>6, <2>2, <2>3, <2>4, <2>5, TabMoves DEF SaveSucceeds
<1>7. CASE SaveConflicts(t)
  <2>1. [pc |-> "get"] \in FetchShapes /\ [pc |-> "get"].pc # "answer"
    BY DEF FetchShapes
  <2>2. ProfileTyped'
    BY <1>0, <1>2, <1>7, <2>1 DEF ProfileTyped, SaveConflicts, setSave, setFetch
  <2>3. profSave'[t] = NoRequest /\ profFetch'[t] = [pc |-> "get"] /\ UNCHANGED profCache
    BY <1>0, <1>7 DEF ProfileTyped, SaveConflicts, setSave, setFetch
  <2>4. TabSound(profCache'[t], profFetch'[t], profSave'[t])
    BY <1>0, <1>2, <1>7, <2>1, <2>3 DEF TabSound, SaveConflicts
  <2>5. \A u \in ProfileTabs \ {t} : profSave'[u] = profSave[u] /\ profFetch'[u] = profFetch[u]
    BY <1>0, <1>7 DEF ProfileTyped, SaveConflicts, setSave, setFetch
  <2>6. QED
    BY <1>7, <2>2, <2>3, <2>4, <2>5, TabMoves DEF SaveConflicts
<1>8. CASE SaveProfileFails(t)
  BY <1>0, <1>1, <1>2, <1>8 DEF SaveProfileFails, ProfileTyped
<1>9. QED
  BY <1>3, <1>4, <1>5, <1>6, <1>7, <1>8

-----------------------------------------------------------------------------
\* Nobody holds a profile before the first row, and the second ends what is
\* promised about one row.
LEMMA CreateProfileKeeps ==
    ASSUME ProfileInv, NEW t \in ProfileTabs, CreateProfile(t)
    PROVE  ProfileInv'
<1> DEFINE created == [version |-> 1, data |-> [s \in Sections |-> 0]]
           id == Cardinality(rowsOf) + 1
<1>0. ProfileTyped /\ \A u \in ProfileTabs : TabSound(profCache[u], profFetch[u], profSave[u])
  BY DEF ProfileInv
<1>1. created \in Versioned
  BY DEF Versioned
<1>2. [pc |-> "answer", profile |-> created] \in FetchShapes
  BY <1>1 DEF FetchShapes
<1>3. id \in ProfileIds /\ profRow' = [profRow EXCEPT ![id] = created]
      /\ profFetch' = [profFetch EXCEPT ![t] = [pc |-> "answer", profile |-> created]]
      /\ UNCHANGED <<profCache, profSave, profSaves, profBlind>>
  BY DEF CreateProfile, setFetch
<1> HIDE DEF created, id
<1>4. ProfileTyped'
  BY <1>0, <1>1, <1>2, <1>3 DEF ProfileTyped
<1>5. profRow'[id] = created /\ \A i \in ProfileIds \ {id} : profRow'[i] = profRow[i]
  BY <1>0, <1>3 DEF ProfileTyped
<1>6. created # NoProfile
  BY <1>1, RequestShapes
<1>7. CASE profRow[1] = NoProfile
  <2>1. id = 1 /\ profRow[2] = NoProfile
    BY <1>7, RowsCounted DEF id, ProfileInv
  <2>2. profRow'[1] = created /\ profRow'[2] = NoProfile
    BY <1>5, <2>1 DEF ProfileIds
  <2>3. ASSUME NEW u \in ProfileTabs
        PROVE  TabSound(profCache[u], profFetch[u], profSave[u])'
    <3>1. profFetch'[u] = profFetch[u] \/ profFetch'[u] = [pc |-> "answer", profile |-> created]
      BY <1>0, <1>3 DEF ProfileTyped
    <3>2. /\ profCache[u] = NoProfile /\ profFetch[u].pc # "answer"
          /\ profSave[u].pc \notin {"get", "update", "answer", "reread"}
      <4>1. profSave[u].pc = "reread" => profSave[u].id \in ProfileIds
        BY <1>0, RequestShapes DEF ProfileTyped
      <4>2. QED
        BY <1>0, <1>7, <2>1, <4>1 DEF TabSound, Current, ProfileIds
    <3>3. Current(created)'
      BY <1>6, <2>2 DEF Current, created
    <3>4. QED
      BY <1>3, <2>2, <3>1, <3>2, <3>3 DEF TabSound
  <2>4. QED
    BY <1>3, <1>4, <1>6, <2>1, <2>2, <2>3 DEF ProfileInv
<1>8. CASE profRow[1] # NoProfile
  <2>1. id = 2
    BY <1>3, <1>8, RowsCounted DEF id, ProfileInv, ProfileIds
  <2>2. profRow'[1] = profRow[1] /\ profRow'[2] = created
    BY <1>5, <2>1 DEF ProfileIds
  <2>3. ASSUME NEW u \in ProfileTabs
        PROVE  TabSound(profCache[u], profFetch[u], profSave[u])'
    <3>1. profSave[u].pc \in {"update", "reread"} => profSave[u].id \in ProfileIds
      BY <1>0, RequestShapes DEF ProfileTyped
    <3>2. QED
      BY <1>0, <1>3, <1>6, <1>8, <2>2, <3>1 DEF TabSound, ProfileIds
  <2>4. QED
    BY <1>4, <1>6, <1>8, <2>2, <2>3 DEF ProfileInv
<1>9. QED
  BY <1>7, <1>8

\* The UPDATE whose version matches replaces the profile its tab had in the cache:
\* all that anybody else holds is an earlier version from then on.
LEMMA UpdateProfileKeeps ==
    ASSUME ProfileInv, NEW t \in ProfileTabs, UpdateProfile(t)
    PROVE  ProfileInv'
<1>0. ProfileTyped /\ \A u \in ProfileTabs : TabSound(profCache[u], profFetch[u], profSave[u])
  BY DEF ProfileInv
<1>1. PICK s \in SaveShapes : s = profSave[t] /\ s.pc = "update"
  BY <1>0 DEF ProfileTyped, UpdateProfile
<1>2. /\ s.id \in ProfileIds /\ profRow[s.id] \in Versioned /\ profRow[s.id] # NoProfile
      /\ s.base \in Versioned /\ s.save \in Nat
  BY <1>0, <1>1, RequestShapes DEF TabSound, ProfileTyped
<1>3. PICK saves : saves = savedProfile(s)
  OBVIOUS
<1>4. saves \in Versioned /\ saves.version = s.base.version + 1 /\ saves # NoProfile
  <2>1. \A x \in Sections : profRow[s.id].data[x] \in Nat
    BY <1>2 DEF Versioned
  <2>2. s.base.version + 1 \in Nat \ {0}
    BY <1>2, RequestShapes
  <2>3. saves \in Versioned /\ saves.version = s.base.version + 1
    BY <1>2, <1>3, <2>1, <2>2 DEF savedProfile, Versioned
  <2>4. QED
    BY <2>3, RequestShapes
<1>5. UNCHANGED <<profCache, profFetch, profSaves>>
  BY DEF UpdateProfile
<1>6. CASE profRow[s.id].version = s.base.version
  <2>1. PICK next \in {[pc |-> "reread", id |-> s.id], [pc |-> "answer", profile |-> saves]} :
            profSave' = [profSave EXCEPT ![t] = next]
    BY <1>1, <1>3, <1>6 DEF UpdateProfile, setSave
  <2>2. next \in SaveShapes
    BY <1>2, <1>4, <2>1 DEF SaveShapes
  <2>3. /\ profRow' = [profRow EXCEPT ![s.id] = saves]
        /\ profBlind' = (profBlind \/ profRow[s.id].data # s.base.data)
    BY <1>1, <1>3, <1>6 DEF UpdateProfile, replaceProfile
  <2>4. ProfileTyped'
    BY <1>0, <1>2, <1>4, <1>5, <2>1, <2>2, <2>3 DEF ProfileTyped
  <2>5. /\ profRow'[s.id] = saves /\ \A i \in ProfileIds \ {s.id} : profRow'[i] = profRow[i]
        /\ profSave'[t] = next /\ \A u \in ProfileTabs \ {t} : profSave'[u] = profSave[u]
    BY <1>0, <1>2, <2>1, <2>3 DEF ProfileTyped
  <2>6. \A i \in ProfileIds : (profRow'[i] = NoProfile) = (profRow[i] = NoProfile)
    BY <1>2, <1>4, <2>5
  <2>7. profRow'[2] = NoProfile => ~profBlind'
    <3> SUFFICES ASSUME profRow'[2] = NoProfile PROVE ~profBlind'
      OBVIOUS
    <3>1. profRow[2] = NoProfile /\ s.id = 1
      BY <1>2, <1>4, <2>5, <2>6 DEF ProfileIds
    <3>2. Current(s.base)
      BY <1>0, <1>1, <3>1 DEF TabSound
    <3>3. s.base = profRow[1]
      BY <1>6, <3>1, <3>2 DEF Current
    <3>4. QED
      BY <2>3, <3>1, <3>3 DEF ProfileInv
  <2>8. ASSUME NEW u \in ProfileTabs
        PROVE  TabSound(profCache[u], profFetch[u], profSave[u])'
    <3>1. profSave'[u].pc \in {"update", "reread"} => profRow'[profSave'[u].id] # NoProfile
      <4>1. CASE u = t
        BY <1>4, <2>1, <2>5, <4>1
      <4>2. CASE u # t
        <5>1. profSave[u].pc \in {"update", "reread"} =>
                  profSave[u].id \in ProfileIds /\ profRow[profSave[u].id] # NoProfile
          BY <1>0, RequestShapes DEF ProfileTyped, TabSound
        <5>2. QED
          BY <2>5, <2>6, <4>2, <5>1
      <4>3. QED
        BY <4>1, <4>2
    <3>2. ASSUME profRow'[2] = NoProfile
          PROVE  /\ profCache'[u] # NoProfile => Current(profCache[u])'
                 /\ profFetch'[u].pc = "answer" => Current(profFetch[u].profile)'
                 /\ profSave'[u].pc \in {"get", "update"} => Current(profSave[u].base)'
                 /\ profSave'[u].pc = "answer" => Current(profSave[u].profile)'
      <4>1. profRow[2] = NoProfile /\ s.id = 1 /\ profRow'[1] = saves
        BY <1>2, <1>4, <2>5, <2>6, <3>2 DEF ProfileIds
      <4>2. ASSUME NEW p \in Versioned, Current(p)
            PROVE  p.version <= profRow'[1].version /\ p.version # profRow'[1].version
        <5>1. p.version \in Nat /\ profRow[1].version \in Nat
          BY <1>2, <4>1, RequestShapes
        <5>2. p.version <= profRow[1].version /\ saves.version = profRow[1].version + 1
          BY <1>4, <1>6, <4>1, <4>2 DEF Current
        <5>3. QED
          BY <4>1, <5>1, <5>2
      <4>3. TabSound(profCache[u], profFetch[u], profSave[u])
        BY <1>0
      <4>4. profCache'[u] # NoProfile => Current(profCache[u])'
        <5>1. profCache[u] # NoProfile => profCache[u] \in Versioned
          BY <1>0 DEF ProfileTyped
        <5>2. QED
          BY <1>4, <1>5, <4>1, <4>2, <4>3, <5>1 DEF TabSound, Current
      <4>5. profFetch'[u].pc = "answer" => Current(profFetch[u].profile)'
        <5>1. profFetch[u].pc = "answer" => profFetch[u].profile \in Versioned
          BY <1>0, RequestShapes DEF ProfileTyped
        <5>2. QED
          BY <1>4, <1>5, <4>1, <4>2, <4>3, <5>1 DEF TabSound, Current
      <4>6. /\ profSave'[u].pc \in {"get", "update"} => Current(profSave[u].base)'
            /\ profSave'[u].pc = "answer" => Current(profSave[u].profile)'
        <5>1. CASE u = t
          <6>1. next.pc \in {"reread", "answer"} /\ (next.pc = "answer" => next.profile = saves)
            BY <2>1
          <6>2. profSave'[u] = next
            BY <2>5, <5>1
          <6>3. saves.version <= saves.version
            BY <1>4, RequestShapes
          <6>4. QED
            BY <1>4, <4>1, <6>1, <6>2, <6>3 DEF Current
        <5>2. CASE u # t
          <6>1. /\ profSave[u].pc \in {"get", "update"} => profSave[u].base \in Versioned
                /\ profSave[u].pc = "answer" => profSave[u].profile \in Versioned
            BY <1>0, RequestShapes DEF ProfileTyped
          <6>2. profSave'[u] = profSave[u]
            BY <2>5, <5>2
          <6>3. QED
            BY <1>4, <4>1, <4>2, <4>3, <6>1, <6>2 DEF TabSound, Current
        <5>3. QED
          BY <5>1, <5>2
      <4>7. QED
        BY <4>4, <4>5, <4>6
    <3>3. QED
      BY <3>1, <3>2 DEF TabSound
  <2>9. (profRow[2] # NoProfile => profRow[1] # NoProfile)'
    BY <2>6 DEF ProfileInv, ProfileIds
  <2>10. QED
    BY <2>4, <2>7, <2>8, <2>9 DEF ProfileInv
<1>7. CASE profRow[s.id].version # s.base.version
  <2>1. /\ profSave' = [profSave EXCEPT ![t] = [pc |-> "conflict"]]
        /\ UNCHANGED <<profRow, profBlind>>
    BY <1>1, <1>7 DEF UpdateProfile, setSave
  <2>2. [pc |-> "conflict"] \in SaveShapes /\ [pc |-> "conflict"].pc = "conflict"
    BY DEF SaveShapes
  <2>3. ProfileTyped'
    BY <1>0, <1>5, <2>1, <2>2 DEF ProfileTyped
  <2>4. profSave'[t] = [pc |-> "conflict"] /\ \A u \in ProfileTabs \ {t} : profSave'[u] = profSave[u]
    BY <1>0, <2>1 DEF ProfileTyped
  <2>5. TabSound(profCache'[t], profFetch'[t], profSave'[t])
    BY <1>0, <1>5, <2>2, <2>4 DEF TabSound
  <2>6. QED
    BY <1>5, <2>1, <2>3, <2>4, <2>5, TabMoves
<1>8. QED
  BY <1>6, <1>7

-----------------------------------------------------------------------------
\* Without rows and requests there is nothing to be sound.
LEMMA ProfileInitInv == ProfileInit => ProfileInv
<1> SUFFICES ASSUME ProfileInit PROVE ProfileInv
  OBVIOUS
<1>1. ProfileTyped
  BY DEF ProfileInit, ProfileTyped, FetchShapes, SaveShapes
<1>2. ASSUME NEW t \in ProfileTabs PROVE TabSound(profCache[t], profFetch[t], profSave[t])
  BY DEF ProfileInit, TabSound, NoRequest
<1>3. QED
  BY <1>1, <1>2 DEF ProfileInit, ProfileInv, ProfileIds

\* Every step keeps the invariant of the profile.
LEMMA ProfileNextKeeps == ProfileInv /\ [ProfileNext]_profileVars => ProfileInv'
<1> SUFFICES ASSUME ProfileInv, [ProfileNext]_profileVars PROVE ProfileInv'
  OBVIOUS
<1>1. CASE UNCHANGED profileVars
  BY <1>1 DEF profileVars, ProfileInv, ProfileTyped, TabSound, Current
<1>2. ASSUME NEW t \in ProfileTabs,
             FetchProfile(t) \/ GetProfile(t) \/ FetchEnds(t) \/ FetchFails(t)
      PROVE  ProfileInv'
  BY <1>2, FetchSteps
<1>3. ASSUME NEW t \in ProfileTabs, CreateProfile(t) PROVE ProfileInv'
  BY <1>3, CreateProfileKeeps
<1>4. ASSUME NEW t \in ProfileTabs, UpdateProfile(t) PROVE ProfileInv'
  BY <1>4, UpdateProfileKeeps
<1>5. ASSUME NEW t \in ProfileTabs,
             \/ SaveProfile(t, Sections) \/ \E section \in Sections : SaveProfile(t, {section})
             \/ GetForSave(t) \/ Reread(t) \/ SaveSucceeds(t) \/ SaveConflicts(t) \/ SaveProfileFails(t)
      PROVE  ProfileInv'
  <2>1. Sections \in SUBSET Sections /\ \A section \in Sections : {section} \in SUBSET Sections
    OBVIOUS
  <2>2. QED
    BY <1>5, <2>1, SaveSteps
<1>6. QED
  BY <1>1, <1>2, <1>3, <1>4, <1>5 DEF ProfileNext

\* PUT and PATCH /profile with the ETag of the tab's cache: for any number of tabs,
\* sections and saves, an accepted save replaces the very profile its tab showed, as
\* long as there is one row.
THEOREM SavesReplaceWhatTheySaw == ProfileSpec => []ETagNamesTheProfile
<1>1. ProfileInv => ETagNamesTheProfile
  BY RowsCounted DEF ProfileInv, ETagNamesTheProfile
<1>2. QED
  BY <1>1, ProfileInitInv, ProfileNextKeeps, PTL DEF ProfileSpec

-----------------------------------------------------------------------------
\* Every save makes one version more: what was read after n saves has a version of at
\* most n + 1, and what a save replaces, one of at most its own number.
VersionsCounted(c, f, s) ==
    /\ c # NoProfile => c.version <= profSaves + 1
    /\ f.pc = "answer" => f.profile.version <= profSaves + 1
    /\ s.pc = "answer" => s.profile.version <= profSaves + 1
    /\ s.pc \in {"get", "update"} => s.base.version <= s.save /\ s.save <= profSaves

ProfileCounts ==
    /\ ProfileInv /\ ProfileTypeOK
    /\ \A i \in ProfileIds : profRow[i] # NoProfile => profRow[i].version <= profSaves + 1
    /\ \A t \in ProfileTabs : VersionsCounted(profCache[t], profFetch[t], profSave[t])

\* What requests hold, within the bound.
LEMMA RequestRows ==
    /\ NoProfile \notin ProfileRows /\ ProfileRows \subseteq Versioned
    /\ \A f \in ProfileFetches : f.pc = "answer" => f.profile \in ProfileRows
    /\ \A s \in ProfileSaves :
          /\ s.pc = "answer" => s.profile \in ProfileRows
          /\ s.pc \in {"get", "update"} =>
                s.base \in ProfileRows /\ s.save \in 1..MaxSaves /\ s.sections \in SUBSET Sections
          /\ s.pc \in {"update", "reread"} => s.id \in ProfileIds
<1>1. NoProfile \notin ProfileRows
  BY DEF NoProfile, ProfileRows
<1>2. ProfileRows \subseteq Versioned
  BY SavesAssumption DEF SavesAssumption, ProfileRows, Versioned
<1>3. \A f \in ProfileFetches : f.pc = "answer" => f.profile \in ProfileRows
  BY DEF ProfileFetches, NoRequest, Answered
<1>4. ASSUME NEW s \in ProfileSaves
      PROVE  /\ s.pc = "answer" => s.profile \in ProfileRows
             /\ s.pc \in {"get", "update"} =>
                   s.base \in ProfileRows /\ s.save \in 1..MaxSaves /\ s.sections \in SUBSET Sections
             /\ s.pc \in {"update", "reread"} => s.id \in ProfileIds
  BY DEF ProfileSaves, NoRequest, Answered
<1>5. QED
  BY <1>1, <1>2, <1>3, <1>4

\* A version there is now is one the next save counts too.
LEMMA MoreSaves ==
    ASSUME ProfileCounts, NEW t \in ProfileTabs, profSaves' \in {profSaves, profSaves + 1}
    PROVE  /\ profCache[t] # NoProfile => profCache[t].version <= profSaves' + 1
           /\ profFetch[t].pc = "answer" => profFetch[t].profile.version <= profSaves' + 1
           /\ profSave[t].pc = "answer" => profSave[t].profile.version <= profSaves' + 1
           /\ profSave[t].pc \in {"get", "update"} =>
                 profSave[t].base.version <= profSave[t].save /\ profSave[t].save <= profSaves'
           /\ \A i \in ProfileIds : profRow[i] # NoProfile => profRow[i].version <= profSaves' + 1
<1>1. profSaves \in Nat /\ profSaves' \in Nat /\ profSaves <= profSaves'
  BY DEF ProfileCounts, ProfileInv, ProfileTyped
<1>2. \A p \in Versioned : p.version <= profSaves + 1 => p.version <= profSaves' + 1
  BY <1>1, RequestShapes
<1>3. \A i \in ProfileIds : profRow[i] # NoProfile => profRow[i] \in Versioned
  BY DEF ProfileCounts, ProfileInv, ProfileTyped
<1>4. /\ profCache[t] # NoProfile => profCache[t] \in Versioned
      /\ profFetch[t].pc = "answer" => profFetch[t].profile \in Versioned
      /\ profSave[t].pc = "answer" => profSave[t].profile \in Versioned
      /\ profSave[t].pc \in {"get", "update"} => profSave[t].save \in Nat
  BY RequestShapes DEF ProfileCounts, ProfileInv, ProfileTyped
<1>5. VersionsCounted(profCache[t], profFetch[t], profSave[t])
  BY DEF ProfileCounts
<1>6. profSave[t].pc \in {"get", "update"} => profSave[t].save <= profSaves'
  BY <1>1, <1>4, <1>5 DEF VersionsCounted
<1>7. QED
  BY <1>2, <1>3, <1>4, <1>5, <1>6 DEF VersionsCounted, ProfileCounts

\* A step that leaves the rows alone moves one tab.
LEMMA TabCounts ==
    ASSUME ProfileCounts, NEW t \in ProfileTabs, ProfileInv', UNCHANGED profRow,
           profSaves' \in {profSaves, profSaves + 1} \cap 0..MaxSaves,
           NEW c \in ProfileRows \cup {NoProfile}, NEW f \in ProfileFetches, NEW s \in ProfileSaves,
           profCache' = [profCache EXCEPT ![t] = c],
           profFetch' = [profFetch EXCEPT ![t] = f],
           profSave' = [profSave EXCEPT ![t] = s],
           VersionsCounted(c, f, s)'
    PROVE  ProfileCounts'
<1>1. ProfileTypeOK'
  BY DEF ProfileCounts, ProfileTypeOK, ProfileInv, ProfileTyped
<1>2. ASSUME NEW u \in ProfileTabs
      PROVE  VersionsCounted(profCache[u], profFetch[u], profSave[u])'
  <2>1. CASE u = t
    BY <2>1 DEF ProfileCounts, ProfileTypeOK, VersionsCounted
  <2>2. CASE u # t
    <3>1. profCache'[u] = profCache[u] /\ profFetch'[u] = profFetch[u] /\ profSave'[u] = profSave[u]
      BY <2>2 DEF ProfileCounts, ProfileTypeOK
    <3>2. QED
      BY <3>1, MoreSaves DEF VersionsCounted
  <2>3. QED
    BY <2>1, <2>2
<1>3. \A i \in ProfileIds : profRow'[i] # NoProfile => profRow'[i].version <= profSaves' + 1
  BY MoreSaves
<1>4. QED
  BY <1>1, <1>2, <1>3 DEF ProfileCounts

\* A fetch brings a row's profile into the cache.
LEMMA FetchCounts ==
    ASSUME ProfileCounts, NEW t \in ProfileTabs, ProfileInv',
           FetchProfile(t) \/ GetProfile(t) \/ FetchEnds(t) \/ FetchFails(t)
    PROVE  ProfileCounts'
<1>0. /\ profCache[t] \in ProfileRows \cup {NoProfile} /\ profFetch[t] \in ProfileFetches
      /\ profSave[t] \in ProfileSaves /\ profSaves \in 0..MaxSaves /\ profSaves' = profSaves
      /\ profCache = [profCache EXCEPT ![t] = profCache[t]]
      /\ profSave = [profSave EXCEPT ![t] = profSave[t]]
      /\ VersionsCounted(profCache[t], profFetch[t], profSave[t])
  BY DEF ProfileCounts, ProfileTypeOK, FetchProfile, GetProfile, FetchEnds, FetchFails
<1>1. NoRequest \in ProfileFetches /\ NoRequest.pc # "answer"
  BY DEF ProfileFetches, NoRequest
<1>2. ASSUME NEW f \in ProfileFetches, setFetch(t, f), UNCHANGED <<profRow, profCache, profSave>>,
             f.pc = "answer" => f.profile.version <= profSaves + 1
      PROVE  ProfileCounts'
  <2>1. VersionsCounted(profCache[t], f, profSave[t])'
    BY <1>0, <1>2 DEF VersionsCounted
  <2>2. QED
    BY <1>0, <1>2, <2>1, TabCounts DEF setFetch
<1>3. CASE FetchProfile(t)
  <2>1. [pc |-> "get"] \in ProfileFetches
    BY DEF ProfileFetches
  <2>2. QED
    BY <1>2, <1>3, <2>1 DEF FetchProfile
<1>4. CASE GetProfile(t)
  <2>1. CASE rowsOf = {}
    <3>1. [pc |-> "create"] \in ProfileFetches
      BY DEF ProfileFetches
    <3>2. QED
      BY <1>2, <1>4, <2>1, <3>1 DEF GetProfile
  <2>2. CASE rowsOf # {}
    <3>1. PICK i \in rowsOf : setFetch(t, [pc |-> "answer", profile |-> profRow[i]])
      BY <1>4, <2>2 DEF GetProfile
    <3>2. i \in ProfileIds /\ profRow[i] # NoProfile /\ profRow[i] \in ProfileRows
      BY DEF rowsOf, ProfileCounts, ProfileTypeOK
    <3>3. [pc |-> "answer", profile |-> profRow[i]] \in ProfileFetches
      BY <3>2 DEF ProfileFetches, Answered
    <3>4. profRow[i].version <= profSaves + 1
      BY <3>2 DEF ProfileCounts
    <3>5. QED
      BY <1>2, <1>4, <3>1, <3>3, <3>4 DEF GetProfile
  <2>3. QED
    BY <2>1, <2>2
<1>5. CASE FetchEnds(t)
  <2>1. PICK p \in ProfileRows : p = profFetch[t].profile /\ p.version <= profSaves + 1
    BY <1>0, <1>5, RequestRows DEF FetchEnds, VersionsCounted
  <2>2. VersionsCounted(p, NoRequest, profSave[t])'
    BY <1>0, <1>1, <1>5, <2>1 DEF VersionsCounted, FetchEnds
  <2>3. QED
    BY <1>0, <1>1, <1>5, <2>1, <2>2, TabCounts DEF FetchEnds, setFetch
<1>6. CASE FetchFails(t)
  BY <1>1, <1>2, <1>6 DEF FetchFails
<1>7. QED
  BY <1>3, <1>4, <1>5, <1>6

\* A save is of what its tab has in the cache, and the next one to be counted.
LEMMA SaveCounts ==
    ASSUME ProfileCounts, NEW t \in ProfileTabs, ProfileInv',
           \/ \E sections \in SUBSET Sections : SaveProfile(t, sections)
           \/ GetForSave(t) \/ Reread(t) \/ SaveSucceeds(t) \/ SaveConflicts(t) \/ SaveProfileFails(t)
    PROVE  ProfileCounts'
<1>0. /\ profCache[t] \in ProfileRows \cup {NoProfile} /\ profFetch[t] \in ProfileFetches
      /\ profSave[t] \in ProfileSaves /\ profSaves \in 0..MaxSaves
      /\ profCache = [profCache EXCEPT ![t] = profCache[t]]
      /\ profFetch = [profFetch EXCEPT ![t] = profFetch[t]]
      /\ VersionsCounted(profCache[t], profFetch[t], profSave[t])
      /\ TabSound(profCache[t], profFetch[t], profSave[t])
  BY DEF ProfileCounts, ProfileTypeOK, ProfileInv
<1>1. NoRequest \in ProfileSaves /\ NoRequest.pc = "none"
  BY DEF ProfileSaves, NoRequest
<1>2. ASSUME NEW s \in ProfileSaves, setSave(t, s), UNCHANGED <<profRow, profCache, profFetch, profSaves>>,
             s.pc = "answer" => s.profile.version <= profSaves + 1,
             s.pc \in {"get", "update"} => s.base.version <= s.save /\ s.save <= profSaves
      PROVE  ProfileCounts'
  <2>1. VersionsCounted(profCache[t], profFetch[t], s)'
    BY <1>0, <1>2 DEF VersionsCounted
  <2>2. QED
    BY <1>0, <1>2, <2>1, TabCounts DEF setSave
<1>3. ASSUME NEW sections \in SUBSET Sections, SaveProfile(t, sections) PROVE ProfileCounts'
  <2>1. PICK n \in 1..MaxSaves : n = profSaves' /\ n = profSaves + 1
    BY <1>0, <1>3, SavesAssumption DEF SavesAssumption, SaveProfile
  <2>2. PICK c \in ProfileRows : c = profCache[t] /\ c.version <= n
    BY <1>0, <1>3, <2>1 DEF SaveProfile, VersionsCounted
  <2> DEFINE s == [pc |-> "get", save |-> n, sections |-> sections, base |-> c]
  <2>3. s \in ProfileSaves
    BY <2>1, <2>2 DEF ProfileSaves
  <2>4. setSave(t, s) /\ UNCHANGED <<profRow, profCache, profFetch>>
    BY <1>3, <2>1, <2>2 DEF SaveProfile
  <2>5. VersionsCounted(c, profFetch[t], s)'
    <3>1. c.version <= n + 1
      BY <2>1, <2>2, RequestRows, RequestShapes
    <3>2. profFetch[t].pc = "answer" => profFetch[t].profile.version <= n + 1
      BY <2>1, MoreSaves
    <3>3. n <= n
      BY <2>1
    <3>4. QED
      BY <2>1, <2>2, <2>4, <3>1, <3>2, <3>3 DEF VersionsCounted
  <2>6. /\ profCache' = [profCache EXCEPT ![t] = c] /\ profFetch' = [profFetch EXCEPT ![t] = profFetch[t]]
        /\ profSave' = [profSave EXCEPT ![t] = s]
    BY <1>0, <2>2, <2>4 DEF setSave
  <2>7. profSaves' \in {profSaves, profSaves + 1} \cap 0..MaxSaves /\ UNCHANGED profRow
    BY <1>0, <2>1, <2>4
  <2> HIDE DEF s
  <2>8. QED
    BY <1>0, <2>2, <2>3, <2>5, <2>6, <2>7, TabCounts
<1>4. CASE GetForSave(t)
  <2>1. PICK i \in rowsOf : setSave(t, [pc |-> "update", id |-> i, save |-> profSave[t].save,
                                        sections |-> profSave[t].sections, base |-> profSave[t].base])
    BY <1>4 DEF GetForSave
  <2>2. i \in ProfileIds
    BY DEF rowsOf
  <2>3. /\ profSave[t].base \in ProfileRows /\ profSave[t].save \in 1..MaxSaves
        /\ profSave[t].sections \in SUBSET Sections
    BY <1>0, <1>4, RequestRows DEF GetForSave
  <2>4. [pc |-> "update", id |-> i, save |-> profSave[t].save, sections |-> profSave[t].sections,
         base |-> profSave[t].base] \in ProfileSaves
    BY <2>2, <2>3 DEF ProfileSaves
  <2>5. profSave[t].base.version <= profSave[t].save /\ profSave[t].save <= profSaves
    BY <1>0, <1>4 DEF GetForSave, VersionsCounted
  <2>6. QED
    BY <1>2, <1>4, <2>1, <2>4, <2>5 DEF GetForSave
<1>5. CASE Reread(t)
  <2>1. profSave[t].id \in ProfileIds /\ profRow[profSave[t].id] # NoProfile
    BY <1>0, <1>5, RequestRows DEF TabSound, Reread
  <2>2. /\ profRow[profSave[t].id] \in ProfileRows
        /\ profRow[profSave[t].id].version <= profSaves + 1
    BY <2>1 DEF ProfileCounts, ProfileTypeOK
  <2>3. [pc |-> "answer", profile |-> profRow[profSave[t].id]] \in ProfileSaves
    BY <2>2 DEF ProfileSaves, Answered
  <2>4. QED
    BY <1>2, <1>5, <2>2, <2>3 DEF Reread
<1>6. CASE SaveSucceeds(t)
  <2>1. PICK p \in ProfileRows : p = profSave[t].profile /\ p.version <= profSaves + 1
    BY <1>0, <1>6, RequestRows DEF SaveSucceeds, VersionsCounted
  <2>2. VersionsCounted(p, profFetch[t], NoRequest)'
    BY <1>0, <1>1, <1>6, <2>1 DEF VersionsCounted, SaveSucceeds
  <2>3. QED
    BY <1>0, <1>1, <1>6, <2>1, <2>2, TabCounts DEF SaveSucceeds, setSave
<1>7. CASE SaveConflicts(t)
  <2>1. [pc |-> "get"] \in ProfileFetches /\ [pc |-> "get"].pc # "answer"
    BY DEF ProfileFetches
  <2>2. VersionsCounted(profCache[t], [pc |-> "get"], NoRequest)'
    BY <1>0, <1>1, <1>7, <2>1 DEF VersionsCounted, SaveConflicts
  <2>3. QED
    BY <1>0, <1>1, <1>7, <2>1, <2>2, TabCounts DEF SaveConflicts, setSave, setFetch
<1>8. CASE SaveProfileFails(t)
  BY <1>1, <1>2, <1>8 DEF SaveProfileFails
<1>9. QED
  BY <1>3, <1>4, <1>5, <1>6, <1>7, <1>8

\* A first read's row has version one, and an UPDATE's one more than the profile it
\* replaces.
LEMMA WriteCounts ==
    ASSUME ProfileCounts, NEW t \in ProfileTabs, ProfileInv', CreateProfile(t) \/ UpdateProfile(t)
    PROVE  ProfileCounts'
<1>0. /\ profFetch \in [ProfileTabs -> ProfileFetches] /\ profSave \in [ProfileTabs -> ProfileSaves]
      /\ profRow \in [ProfileIds -> ProfileRows \cup {NoProfile}] /\ profSaves \in 0..MaxSaves
      /\ profSaves' = profSaves /\ profCache' = profCache /\ profBlind' \in BOOLEAN
      /\ \A u \in ProfileTabs : VersionsCounted(profCache[u], profFetch[u], profSave[u])
  BY DEF ProfileCounts, ProfileTypeOK, CreateProfile, UpdateProfile, ProfileInv, ProfileTyped
<1>1. ASSUME NEW i \in ProfileIds, NEW p \in ProfileRows, p.version <= profSaves + 1,
             profRow' = [profRow EXCEPT ![i] = p]
      PROVE  /\ profRow' \in [ProfileIds -> ProfileRows \cup {NoProfile}]
             /\ \A j \in ProfileIds : profRow'[j] # NoProfile => profRow'[j].version <= profSaves' + 1
  BY <1>0, <1>1 DEF ProfileCounts
<1>2. ASSUME NEW f \in ProfileFetches, profFetch' = [profFetch EXCEPT ![t] = f],
             f.pc = "answer" => f.profile.version <= profSaves + 1, profSave' = profSave
      PROVE  /\ profFetch' \in [ProfileTabs -> ProfileFetches]
             /\ \A u \in ProfileTabs : VersionsCounted(profCache[u], profFetch[u], profSave[u])'
  BY <1>0, <1>2 DEF VersionsCounted
<1>3. ASSUME NEW s \in ProfileSaves, profSave' = [profSave EXCEPT ![t] = s], profFetch' = profFetch,
             s.pc = "answer" => s.profile.version <= profSaves + 1, s.pc \notin {"get", "update"}
      PROVE  /\ profSave' \in [ProfileTabs -> ProfileSaves]
             /\ \A u \in ProfileTabs : VersionsCounted(profCache[u], profFetch[u], profSave[u])'
  BY <1>0, <1>3 DEF VersionsCounted
<1>4. CASE CreateProfile(t)
  <2>1. PICK created \in ProfileRows :
           created = [version |-> 1, data |-> [s \in Sections |-> 0]] /\ created.version = 1
    <3>1. 1 \in 1..MaxSaves + 1 /\ 0 \in 0..MaxSaves
      BY SavesAssumption DEF SavesAssumption
    <3>2. [version |-> 1, data |-> [s \in Sections |-> 0]] \in ProfileRows
      BY <3>1 DEF ProfileRows
    <3>3. QED
      BY <3>2
  <2>2. PICK i \in ProfileIds : profRow' = [profRow EXCEPT ![i] = created]
    BY <1>4, <2>1 DEF CreateProfile
  <2>3. profFetch' = [profFetch EXCEPT ![t] = [pc |-> "answer", profile |-> created]] /\ profSave' = profSave
    BY <1>4, <2>1 DEF CreateProfile, setFetch
  <2>4. [pc |-> "answer", profile |-> created] \in ProfileFetches /\ created.version <= profSaves + 1
    BY <1>0, <2>1 DEF ProfileFetches, Answered
  <2>5. profRow' \in [ProfileIds -> ProfileRows \cup {NoProfile}]
        /\ \A j \in ProfileIds : profRow'[j] # NoProfile => profRow'[j].version <= profSaves' + 1
    BY <1>1, <2>2, <2>4
  <2>6. profFetch' \in [ProfileTabs -> ProfileFetches]
        /\ \A u \in ProfileTabs : VersionsCounted(profCache[u], profFetch[u], profSave[u])'
    BY <1>2, <2>3, <2>4
  <2>7. QED
    BY <1>0, <2>3, <2>5, <2>6 DEF ProfileCounts, ProfileTypeOK
<1>5. CASE UpdateProfile(t)
  <2>1. PICK s \in ProfileSaves : s = profSave[t] /\ s.pc = "update"
    BY <1>0, <1>5 DEF UpdateProfile
  <2>2. /\ s.id \in ProfileIds /\ s.base \in ProfileRows /\ s.save \in 1..MaxSaves
        /\ s.base.version <= s.save /\ s.save <= profSaves /\ profRow[s.id] \in ProfileRows
    BY <1>0, <2>1, RequestRows DEF VersionsCounted, ProfileCounts, ProfileInv, TabSound
  <2>3. PICK saves : saves = savedProfile(s)
    OBVIOUS
  <2>4. saves \in ProfileRows /\ saves.version <= profSaves + 1
    <3>1. PICK v \in 1..MaxSaves + 1 : v = s.base.version
      BY <2>2 DEF ProfileRows
    <3>2. v + 1 \in 1..MaxSaves + 1 /\ v + 1 <= profSaves + 1
      BY <1>0, <2>2, <3>1, SavesAssumption DEF SavesAssumption
    <3>3. \A x \in Sections : profRow[s.id].data[x] \in 0..MaxSaves /\ s.save \in 0..MaxSaves
      BY <2>2 DEF ProfileRows
    <3>4. saves \in ProfileRows /\ saves.version = v + 1
      BY <2>3, <3>1, <3>2, <3>3 DEF savedProfile, ProfileRows
    <3>5. QED
      BY <3>2, <3>4
  <2>5. CASE profRow[s.id].version = s.base.version
    <3>1. PICK next \in {[pc |-> "reread", id |-> s.id], [pc |-> "answer", profile |-> saves]} :
              profSave' = [profSave EXCEPT ![t] = next]
      BY <1>5, <2>1, <2>3, <2>5 DEF UpdateProfile, setSave
    <3>2. /\ next \in ProfileSaves /\ next.pc \in {"reread", "answer"}
          /\ next.pc = "answer" => next.profile = saves
      BY <2>2, <2>4, <3>1 DEF ProfileSaves, Answered
    <3>3. profRow' = [profRow EXCEPT ![s.id] = saves] /\ profFetch' = profFetch
      BY <1>5, <2>1, <2>3, <2>5 DEF UpdateProfile, replaceProfile
    <3>4. profRow' \in [ProfileIds -> ProfileRows \cup {NoProfile}]
          /\ \A j \in ProfileIds : profRow'[j] # NoProfile => profRow'[j].version <= profSaves' + 1
      BY <1>1, <2>2, <2>4, <3>3
    <3>5. profSave' \in [ProfileTabs -> ProfileSaves]
          /\ \A u \in ProfileTabs : VersionsCounted(profCache[u], profFetch[u], profSave[u])'
      BY <1>3, <2>4, <3>1, <3>2, <3>3
    <3>6. ProfileTypeOK'
      BY <1>0, <3>3, <3>4, <3>5 DEF ProfileCounts, ProfileTypeOK
    <3>7. QED
      BY <3>4, <3>5, <3>6 DEF ProfileCounts
  <2>6. CASE profRow[s.id].version # s.base.version
    <3>1. profSave' = [profSave EXCEPT ![t] = [pc |-> "conflict"]] /\ UNCHANGED <<profRow, profFetch>>
      BY <1>5, <2>1, <2>6 DEF UpdateProfile, setSave
    <3>2. [pc |-> "conflict"] \in ProfileSaves /\ [pc |-> "conflict"].pc = "conflict"
      BY DEF ProfileSaves
    <3>3. profSave' \in [ProfileTabs -> ProfileSaves]
          /\ \A u \in ProfileTabs : VersionsCounted(profCache[u], profFetch[u], profSave[u])'
      BY <1>3, <3>1, <3>2
    <3>4. QED
      BY <1>0, <3>1, <3>3 DEF ProfileCounts, ProfileTypeOK
  <2>7. QED
    BY <2>5, <2>6
<1>6. QED
  BY <1>4, <1>5

\* The profiles and requests have the shapes of the module, and no version is higher
\* than the number of saves sent allows.
THEOREM ProfileType == ProfileSpec => []ProfileTypeOK
<1>1. ProfileInit => ProfileCounts
  <2> SUFFICES ASSUME ProfileInit PROVE ProfileCounts
    OBVIOUS
  <2>1. ProfileTypeOK
    <3>0. profSaves = 0 /\ profBlind \in BOOLEAN
      BY DEF ProfileInit
    <3>1. 0 \in 0..MaxSaves
      BY SavesAssumption DEF SavesAssumption
    <3>2. profFetch \in [ProfileTabs -> ProfileFetches] /\ profSave \in [ProfileTabs -> ProfileSaves]
      BY DEF ProfileInit, ProfileFetches, ProfileSaves
    <3>3. QED
      BY <3>0, <3>1, <3>2 DEF ProfileInit, ProfileTypeOK
  <2>2. \A t \in ProfileTabs : VersionsCounted(profCache[t], profFetch[t], profSave[t])
    BY DEF ProfileInit, VersionsCounted, NoRequest
  <2>3. QED
    BY <2>1, <2>2, ProfileInitInv DEF ProfileInit, ProfileCounts
<1>2. ProfileCounts /\ [ProfileNext]_profileVars => ProfileCounts'
  <2> SUFFICES ASSUME ProfileCounts, [ProfileNext]_profileVars PROVE ProfileCounts'
    OBVIOUS
  <2>1. ProfileInv'
    BY ProfileNextKeeps DEF ProfileCounts
  <2>2. CASE UNCHANGED profileVars
    BY <2>1, <2>2 DEF profileVars, ProfileCounts, ProfileTypeOK, VersionsCounted
  <2>3. ASSUME NEW t \in ProfileTabs,
               FetchProfile(t) \/ GetProfile(t) \/ FetchEnds(t) \/ FetchFails(t)
        PROVE  ProfileCounts'
    BY <2>1, <2>3, FetchCounts
  <2>4. ASSUME NEW t \in ProfileTabs, CreateProfile(t) \/ UpdateProfile(t) PROVE ProfileCounts'
    BY <2>1, <2>4, WriteCounts
  <2>5. ASSUME NEW t \in ProfileTabs,
               \/ SaveProfile(t, Sections) \/ \E section \in Sections : SaveProfile(t, {section})
               \/ GetForSave(t) \/ Reread(t) \/ SaveSucceeds(t) \/ SaveConflicts(t) \/ SaveProfileFails(t)
        PROVE  ProfileCounts'
    <3>1. Sections \in SUBSET Sections /\ \A section \in Sections : {section} \in SUBSET Sections
      OBVIOUS
    <3>2. QED
      BY <2>1, <2>5, <3>1, SaveCounts
  <2>6. QED
    BY <2>2, <2>3, <2>4, <2>5 DEF ProfileNext
<1>3. ProfileCounts => ProfileTypeOK
  BY DEF ProfileCounts
<1>4. QED
  BY <1>1, <1>2, <1>3, PTL DEF ProfileSpec
=============================================================================
