----------------------------- MODULE QueryCache -----------------------------
(***************************************************************************)
(* What a page shows of a row: one query of the cache that hooks/useJobs,  *)
(* useApplications, useApprovals, useResumes, useEmails and useInterviews  *)
(* share with their mutations.  A row is the set of edits it has taken.    *)
(* The cache itself is the library's (TanStack Query).                     *)
(***************************************************************************)
EXTENDS Integers

CONSTANT MaxEdits            \* bound: mutations ever started

VARIABLES qcDomain, qcKey,   \* the query that is watched
          qcRow,             \* the row in the database
          qcData,            \* the query: its data, whether it was invalidated,
          qcStale,           \*   whether a component shows it, its fetch in flight
          qcMounted,
          qcFetch,
          qcEdits,           \* the mutations
          qcBlind            \* history: the data are of a fetch that an invalidation let go on
queryVars == <<qcDomain, qcKey, qcRow, qcData, qcStale, qcMounted, qcFetch, qcEdits, qcBlind>>

-----------------------------------------------------------------------------
\* A key has the keys under it as its prefix: "under" is what detail(id) begins.
Hook(kind, keys) == [kind |-> kind, invalidates |-> keys, removes |-> {}]
Detail == {"detail", "under"}

JobHooks ==                                \* apply and score, save, status, delete
    {Hook("plain", {"list"} \cup Detail), Hook("optimistic", Detail),
     Hook("optimistic", {"list"} \cup Detail),
     [kind |-> "plain", invalidates |-> {"list"}, removes |-> Detail]}
ApplicationHooks ==                        \* create, status, notes
    {Hook("plain", {"list", "stats"}), Hook("optimistic", {"list", "stats"} \cup Detail),
     Hook("optimistic", Detail)}
ApprovalHooks == {Hook("plain", {"list"} \cup Detail)}
ResumeHooks ==                             \* create and delete, update, generate
    {Hook("plain", {"list"}), Hook("plain", {"list"} \cup Detail), Hook("plain", Detail)}
CoverLetterHooks ==                        \* create and delete, generate and update
    {Hook("plain", {"list"}), Hook("plain", Detail)}
EmailHooks == {Hook("optimistic", {"list", "detail"}), Hook("settled", {"list", "detail"})}
InterviewHooks == {Hook("settled", {"list", "detail"}), Hook("optimistic", {"list", "detail"})}

Domains == {"jobs", "applications", "approvals", "resumes", "coverLetters", "emails",
            "interviews"}
HooksOf ==
    [jobs |-> JobHooks, applications |-> ApplicationHooks, approvals |-> ApprovalHooks,
     resumes |-> ResumeHooks, coverLetters |-> CoverLetterHooks, emails |-> EmailHooks,
     interviews |-> InterviewHooks]

QueriesOf ==
    [jobs |-> {"list", "detail", "under"}, applications |-> {"list", "stats", "detail", "under"},
     approvals |-> {"list", "detail"}, resumes |-> {"list", "detail", "under"},
     coverLetters |-> {"list", "detail"}, emails |-> {"list", "detail"},
     interviews |-> {"list", "detail"}]
\* The query functions that take the signal: their fetch ends with the last observer.
TakesSignal == {"emails", "interviews"}

-----------------------------------------------------------------------------
EditIds == 1..MaxEdits
DatabaseRows == SUBSET EditIds
NoData == [has |-> FALSE]
Data(row) == [has |-> TRUE, row |-> row]
QueryData == {NoData} \cup [has : {TRUE}, row : DatabaseRows]
NoFetch == [at |-> "none"]
QueryFetches == {NoFetch} \cup [at : {"sent"}, blind : BOOLEAN]
           \cup [at : {"answer"}, blind : BOOLEAN, row : DatabaseRows]
NotStarted == [pc |-> "new"]
AllHooks == UNION {HooksOf[d] : d \in Domains}
\* landed: the server has applied it.  Of the edits that are over only those matter
\* that landed before their hook ended (told), or may still land (late).
QueryEdits == {NotStarted, [pc |-> "over"], [pc |-> "late"]}
    \cup [pc : {"mutate"}, hook : AllHooks]
    \cup [pc : {"sent"}, hook : AllHooks, previous : QueryData, landed : BOOLEAN]
    \cup [pc : {"told"}, refetched : BOOLEAN]

QueryInit ==
    /\ qcDomain \in Domains /\ qcKey \in QueriesOf[qcDomain]
    /\ qcRow = {} /\ qcData = NoData /\ qcStale = FALSE /\ qcMounted = FALSE
    /\ qcFetch = NoFetch /\ qcEdits = [e \in EditIds |-> NotStarted]
    /\ qcBlind = FALSE

-----------------------------------------------------------------------------
\* A component shows the query: it is fetched unless it is fresh, which time decides.
Mount ==
    /\ ~qcMounted /\ qcMounted' = TRUE
    /\ \/ qcFetch = NoFetch /\ qcFetch' = [at |-> "sent", blind |-> FALSE]
       \/ (qcFetch = NoFetch => qcData # NoData /\ ~qcStale) /\ UNCHANGED qcFetch
    /\ UNCHANGED <<qcDomain, qcKey, qcRow, qcData, qcStale, qcEdits, qcBlind>>

Unmount ==
    /\ qcMounted /\ qcMounted' = FALSE
    /\ qcFetch' = IF qcDomain \in TakesSignal THEN NoFetch ELSE qcFetch
    /\ UNCHANGED <<qcDomain, qcKey, qcRow, qcData, qcStale, qcEdits, qcBlind>>

\* The refetch interval, a reconnection, or a retry button.
Refetch ==
    /\ qcMounted /\ qcFetch = NoFetch /\ qcFetch' = [at |-> "sent", blind |-> FALSE]
    /\ UNCHANGED <<qcDomain, qcKey, qcRow, qcData, qcStale, qcMounted, qcEdits, qcBlind>>

ServerAnswers ==
    /\ qcFetch.at = "sent"
    /\ qcFetch' = [at |-> "answer", blind |-> qcFetch.blind, row |-> qcRow]
    /\ UNCHANGED <<qcDomain, qcKey, qcRow, qcData, qcStale, qcMounted, qcEdits, qcBlind>>

QueryFetched ==
    /\ qcFetch.at = "answer" /\ qcFetch' = NoFetch
    /\ qcData' = Data(qcFetch.row) /\ qcStale' = FALSE /\ qcBlind' = qcFetch.blind
    /\ UNCHANGED <<qcDomain, qcKey, qcRow, qcMounted, qcEdits>>

QueryFails ==                              \* after its retries
    /\ qcFetch # NoFetch /\ qcFetch' = NoFetch /\ qcStale' = TRUE
    /\ UNCHANGED <<qcDomain, qcKey, qcRow, qcData, qcMounted, qcEdits, qcBlind>>

-----------------------------------------------------------------------------
setEdit(e, next) == qcEdits' = [qcEdits EXCEPT ![e] = next]

\* mutate(): an optimistic hook first cancels the fetches of the row, which puts the
\* query back to where it was before, and waits for that.
Mutate(e, hook) ==
    /\ qcEdits[e] = NotStarted /\ \A f \in 1..e - 1 : qcEdits[f] # NotStarted
    /\ IF hook.kind = "optimistic"
       THEN /\ setEdit(e, [pc |-> "mutate", hook |-> hook])
            /\ qcFetch' = IF qcKey \in Detail THEN NoFetch ELSE qcFetch
       ELSE /\ setEdit(e, [pc |-> "sent", hook |-> hook, previous |-> NoData, landed |-> FALSE])
            /\ UNCHANGED qcFetch
    /\ UNCHANGED <<qcDomain, qcKey, qcRow, qcData, qcStale, qcMounted, qcBlind>>

\* The rest of onMutate: the snapshot, and the edit applied to what there is.
Patch(e) ==
    /\ qcEdits[e].pc = "mutate"
    /\ LET patches == qcKey = "detail" /\ qcData # NoData
       IN /\ setEdit(e, [pc |-> "sent", hook |-> qcEdits[e].hook, landed |-> FALSE,
                         previous |-> IF patches THEN qcData ELSE NoData])
          /\ qcData' = IF patches THEN Data(qcData.row \cup {e}) ELSE qcData
          /\ qcStale' = (qcStale /\ ~patches)
    /\ UNCHANGED <<qcDomain, qcKey, qcRow, qcMounted, qcFetch, qcBlind>>

Land(e) ==
    /\ \/ qcEdits[e].pc = "late" /\ setEdit(e, [pc |-> "over"])
       \/ /\ qcEdits[e].pc = "sent" /\ ~qcEdits[e].landed
          /\ setEdit(e, [qcEdits[e] EXCEPT !.landed = TRUE])
    /\ qcRow' = qcRow \cup {e}
    /\ UNCHANGED <<qcDomain, qcKey, qcData, qcStale, qcMounted, qcFetch, qcBlind>>

\* invalidateQueries marks the query and fetches it if it is shown; a fetch in flight
\* is restarted only if there is data.
invalidate ==
    IF qcMounted /\ (qcFetch = NoFetch \/ qcData # NoData)
    THEN qcFetch' = [at |-> "sent", blind |-> FALSE]
    ELSE qcFetch' = IF qcFetch = NoFetch THEN NoFetch ELSE [qcFetch EXCEPT !.blind = TRUE]

EditSucceeds(e) ==
    /\ qcEdits[e].pc = "sent" /\ qcEdits[e].landed
    /\ LET hook == qcEdits[e].hook
       IN /\ setEdit(e, [pc |-> "told", refetched |-> qcKey \in hook.invalidates])
          /\ CASE qcKey \in hook.removes ->
                      qcData' = NoData /\ qcStale' = FALSE /\ qcFetch' = NoFetch
               [] qcKey \in hook.invalidates -> qcStale' = TRUE /\ invalidate /\ UNCHANGED qcData
               [] OTHER -> UNCHANGED <<qcData, qcStale, qcFetch>>
    /\ UNCHANGED <<qcDomain, qcKey, qcRow, qcMounted, qcBlind>>

\* Refused, timed out, or the answer is lost: onError puts the snapshot back, onSettled
\* invalidates.
fails(e, settles) ==
    LET edit == qcEdits[e]
    IN /\ \/ edit.landed /\ setEdit(e, IF settles THEN [pc |-> "told", refetched |-> qcKey \in
                                                         edit.hook.invalidates]
                                       ELSE [pc |-> "over"])
          \/ ~edit.landed /\ \E pc \in {"over", "late"} : setEdit(e, [pc |-> pc])
       /\ qcData' = IF edit.previous # NoData THEN edit.previous ELSE qcData
EditFailsUnsettled(e) ==                   \* refetches on success only
    /\ qcEdits[e].pc = "sent" /\ fails(e, TRUE)
    /\ UNCHANGED <<qcDomain, qcKey, qcRow, qcStale, qcMounted, qcFetch, qcBlind>>
EditFails(e) ==
    /\ qcEdits[e].pc = "sent"
    /\ LET hook == qcEdits[e].hook
       IN /\ fails(e, hook.kind # "plain")
          /\ IF hook.kind # "plain" /\ qcKey \in hook.invalidates
             THEN qcStale' = TRUE /\ invalidate
             ELSE UNCHANGED <<qcStale, qcFetch>>
    /\ UNCHANGED <<qcDomain, qcKey, qcRow, qcMounted, qcBlind>>

QueryNext ==
    \/ Mount \/ Unmount \/ Refetch \/ ServerAnswers \/ QueryFetched \/ QueryFails
    \/ \E e \in EditIds :
          \/ \E hook \in HooksOf[qcDomain] : Mutate(e, hook)
          \/ Patch(e) \/ Land(e) \/ EditSucceeds(e) \/ EditFails(e)

QuerySpec == QueryInit /\ [][QueryNext]_queryVars

-----------------------------------------------------------------------------
\* The query, its fetch and the mutations have their shapes.
QueryTypeOK ==
    /\ qcDomain \in Domains /\ qcKey \in QueriesOf[qcDomain]
    /\ qcRow \in DatabaseRows /\ qcData \in QueryData
    /\ qcStale \in BOOLEAN /\ qcMounted \in BOOLEAN /\ qcBlind \in BOOLEAN
    /\ qcFetch \in QueryFetches /\ qcEdits \in [EditIds -> QueryEdits]

\* At rest, what the cache takes to be fresh has no edit the row never took, and every
\* edit whose hook refetched it - although snapshots are taken over the patches of other
\* edits, fetches answer late, and calls fail or land after their time-out.  The one
\* exception is a fetch that an invalidation lets go on: the first, or one nobody awaits.
QueryAtRest == qcFetch = NoFetch /\ \A e \in EditIds : qcEdits[e].pc \notin {"mutate", "sent"}
SettledIsShown ==
    QueryAtRest /\ qcData # NoData /\ ~qcStale /\ ~qcBlind =>
        /\ qcData.row \subseteq qcRow
        /\ \A e \in EditIds :
              qcEdits[e].pc = "told" /\ qcEdits[e].refetched => e \in qcData.row
=============================================================================
