------------------------------ MODULE Profile -------------------------------
(***************************************************************************)
(* The profile: backend/internal/profile, the singleton row with its       *)
(* version, and the query cache and mutations of hooks/useProfile.ts in    *)
(* each browser tab.  A section says which save wrote it, 0 at first.      *)
(***************************************************************************)
EXTENDS Integers, FiniteSets

CONSTANTS Sections, ProfileTabs,
          MaxSaves             \* bound: saves ever sent

ASSUME SavesAssumption == MaxSaves \in Nat

VARIABLES profRow,             \* profiles: nothing makes its row the only one
          profCache,           \* per tab: profile and ETag of the query
          profFetch,           \* per tab: GET /profile in flight
          profSave,            \* per tab: PUT or PATCH /profile in flight
          profSaves,           \* saves sent so far
          profBlind            \* history: a save replaced another profile than the
                               \*   one in its tab's cache
profileVars == <<profRow, profCache, profFetch, profSave, profSaves, profBlind>>

-----------------------------------------------------------------------------
ProfileIds == {1, 2}                       \* the second is a racing first read's
NoProfile == [version |-> 0]
ProfileRows == [version : 1..MaxSaves + 1, data : [Sections -> 0..MaxSaves]]

NoRequest == [pc |-> "none"]
Answered == [pc : {"answer"}, profile : ProfileRows]
ProfileFetches == {NoRequest, [pc |-> "get"], [pc |-> "create"]} \cup Answered
\* sections: all of them for a PUT, the one of the form for a PATCH.
ProfileSaves == {NoRequest, [pc |-> "conflict"]} \cup Answered
    \cup [pc : {"get"}, save : 1..MaxSaves, sections : SUBSET Sections, base : ProfileRows]
    \cup [pc : {"update"}, id : ProfileIds, save : 1..MaxSaves, sections : SUBSET Sections,
          base : ProfileRows]
    \cup [pc : {"reread"}, id : ProfileIds]

rowsOf == {i \in ProfileIds : profRow[i] # NoProfile}

ProfileInit ==
    /\ profRow = [i \in ProfileIds |-> NoProfile]
    /\ profCache = [t \in ProfileTabs |-> NoProfile]
    /\ profFetch = [t \in ProfileTabs |-> NoRequest]
    /\ profSave = [t \in ProfileTabs |-> NoRequest]
    /\ profSaves = 0 /\ profBlind = FALSE

setFetch(t, next) == profFetch' = [profFetch EXCEPT ![t] = next]
setSave(t, next) == profSave' = [profSave EXCEPT ![t] = next]

-----------------------------------------------------------------------------
\* useProfile: the first render, or a later one once the profile is stale.
FetchProfile(t) ==
    /\ profFetch[t] = NoRequest
    /\ setFetch(t, [pc |-> "get"])
    /\ UNCHANGED <<profRow, profCache, profSave, profSaves, profBlind>>

\* GetOrCreate reads with LIMIT 1 and no order: any row there is.
GetProfile(t) ==
    /\ profFetch[t].pc = "get"
    /\ IF rowsOf = {} THEN setFetch(t, [pc |-> "create"])
       ELSE \E i \in rowsOf : setFetch(t, [pc |-> "answer", profile |-> profRow[i]])
    /\ UNCHANGED <<profRow, profCache, profSave, profSaves, profBlind>>

\* The insert of a first read; another's may have come first.
CreateProfile(t) ==
    /\ profFetch[t].pc = "create"
    /\ LET created == [version |-> 1, data |-> [s \in Sections |-> 0]]
           id == Cardinality(rowsOf) + 1
       IN /\ id \in ProfileIds
          /\ profRow' = [profRow EXCEPT ![id] = created]
          /\ setFetch(t, [pc |-> "answer", profile |-> created])
    /\ UNCHANGED <<profCache, profSave, profSaves, profBlind>>

\* Whichever answer comes last stays in the cache.
FetchEnds(t) ==
    /\ profFetch[t].pc = "answer"
    /\ profCache' = [profCache EXCEPT ![t] = profFetch[t].profile]
    /\ setFetch(t, NoRequest)
    /\ UNCHANGED <<profRow, profSave, profSaves, profBlind>>

FetchFails(t) ==
    /\ profFetch[t] # NoRequest /\ setFetch(t, NoRequest)
    /\ UNCHANGED <<profRow, profCache, profSave, profSaves, profBlind>>

-----------------------------------------------------------------------------
\* A mutation sends the ETag the cache has; an empty cache is filled first, which
\* is FetchProfile.
SaveProfile(t, sections) ==
    /\ profSave[t] = NoRequest /\ profCache[t] # NoProfile
    /\ profSaves < MaxSaves /\ profSaves' = profSaves + 1
    /\ setSave(t, [pc |-> "get", save |-> profSaves', sections |-> sections,
                   base |-> profCache[t]])
    /\ UNCHANGED <<profRow, profCache, profFetch, profBlind>>

\* Service.Update and UpdatePartial look for the row: GetOrCreate again.
GetForSave(t) ==
    /\ profSave[t].pc = "get"
    /\ LET s == profSave[t]
       IN \E i \in rowsOf : setSave(t, [pc |-> "update", id |-> i, save |-> s.save,
                                        sections |-> s.sections, base |-> s.base])
    /\ UNCHANGED <<profRow, profCache, profFetch, profSaves, profBlind>>

savedProfile(s) == [version |-> s.base.version + 1,
             data |-> [x \in Sections |-> IF x \in s.sections THEN s.save
                                          ELSE profRow[s.id].data[x]]]
replaceProfile(t, s) ==
    /\ profRow' = [profRow EXCEPT ![s.id] = savedProfile(s)]
    /\ profBlind' = (profBlind \/ profRow[s.id].data # s.base.data)

\* PATCH: ApplyPatch and UPDATE ... WHERE version, in one transaction with the row
\* locked.  PUT: the same UPDATE of all the sections by itself, and then a SELECT.
UpdateProfileUnguarded(t) ==                      \* WHERE id only
    /\ profSave[t].pc = "update"
    /\ LET s == profSave[t]
       IN /\ replaceProfile(t, s)
          /\ setSave(t, IF s.sections = Sections THEN [pc |-> "reread", id |-> s.id]
                        ELSE [pc |-> "answer", profile |-> savedProfile(s)])
    /\ UNCHANGED <<profCache, profFetch, profSaves>>
UpdateProfile(t) ==
    /\ profSave[t].pc = "update"
    /\ LET s == profSave[t]
       IN IF profRow[s.id].version = s.base.version
          THEN /\ replaceProfile(t, s)
               /\ setSave(t, IF s.sections = Sections THEN [pc |-> "reread", id |-> s.id]
                             ELSE [pc |-> "answer", profile |-> savedProfile(s)])
          ELSE setSave(t, [pc |-> "conflict"]) /\ UNCHANGED <<profRow, profBlind>>
    /\ UNCHANGED <<profCache, profFetch, profSaves>>

\* What the PUT answers may be a later save's profile.
Reread(t) ==
    /\ profSave[t].pc = "reread"
    /\ setSave(t, [pc |-> "answer", profile |-> profRow[profSave[t].id]])
    /\ UNCHANGED <<profRow, profCache, profFetch, profSaves, profBlind>>

\* onSuccess replaces the cached profile; a fetch in flight may replace it again.
SaveSucceeds(t) ==
    /\ profSave[t].pc = "answer"
    /\ profCache' = [profCache EXCEPT ![t] = profSave[t].profile]
    /\ setSave(t, NoRequest)
    /\ UNCHANGED <<profRow, profFetch, profSaves, profBlind>>

\* onError of a 409: the profile is fetched anew, and a fetch under way cancelled.
SaveConflicts(t) ==
    /\ profSave[t].pc = "conflict" /\ setSave(t, NoRequest)
    /\ setFetch(t, [pc |-> "get"])
    /\ UNCHANGED <<profRow, profCache, profSaves, profBlind>>

\* Invalid, an error of the database, or the answer is lost.
SaveProfileFails(t) ==
    /\ profSave[t].pc \in {"get", "update", "reread", "answer"} /\ setSave(t, NoRequest)
    /\ UNCHANGED <<profRow, profCache, profFetch, profSaves, profBlind>>

ProfileNext ==
    \E t \in ProfileTabs :
        \/ FetchProfile(t) \/ GetProfile(t) \/ CreateProfile(t) \/ FetchEnds(t) \/ FetchFails(t)
        \/ SaveProfile(t, Sections) \/ \E section \in Sections : SaveProfile(t, {section})
        \/ GetForSave(t) \/ UpdateProfile(t) \/ Reread(t)
        \/ SaveSucceeds(t) \/ SaveConflicts(t) \/ SaveProfileFails(t)

ProfileSpec == ProfileInit /\ [][ProfileNext]_profileVars

-----------------------------------------------------------------------------
\* Rows, caches and the requests in flight have their shapes.
ProfileTypeOK ==
    /\ profRow \in [ProfileIds -> ProfileRows \cup {NoProfile}]
    /\ profCache \in [ProfileTabs -> ProfileRows \cup {NoProfile}]
    /\ profFetch \in [ProfileTabs -> ProfileFetches]
    /\ profSave \in [ProfileTabs -> ProfileSaves]
    /\ profSaves \in 0..MaxSaves /\ profBlind \in BOOLEAN

\* A save that is accepted replaces the very profile its tab had in the cache when it
\* was sent, in every section: saves of other tabs, and answers that are late, lost,
\* overtaken or read after a later save, lead to a conflict.  Two first reads at once
\* are the exception: they insert a row each, and an ETag does not say of which row.
ETagNamesTheProfile == profBlind => Cardinality(rowsOf) = 2
=============================================================================
