---------------------------- MODULE MCComponents ----------------------------
EXTENDS Components, MCJobs

MCMailbox == <<"interview", "spam", "rejection">>
MCKind == [stack |-> "plain", team |-> "plain", size |-> "plain", how |-> "plain",
           pay |-> "sensitive", mhm |-> "noise"]
MCWords == [stack |-> {"go", "years"}, team |-> {"go", "team"}, size |-> {"team", "lead", "size"},
            how |-> {}, pay |-> {"salary"}, mhm |-> {}]
MCForms == {{"llm.primary.api_key", "voice.livekit.url"},
            {"voice.livekit.api_key", "email.ms_365.tenant_id", "email.ms_365.client_id"}}

\* The view: of the components that stand still there is nothing to compare, and who
\* of several alike is where makes no difference, only how many are.
Each(Alike, held(_)) ==
    [h \in {held(x) : x \in Alike} |-> Cardinality({x \in Alike : held(x) = h})]
InFocus ==
    <<focus,
      CASE focus = "interviews" -> <<ivRow, ivTasks, Each(Callers, LAMBDA c : ivOp[c])>>
        [] focus = "jobs" -> <<jobRow, jobApplications, jobApproval, jobScorings, jobDecided,
                               jobRaced, jobCrossed, Each(Scorers, LAMBDA w : jobScorer[w])>>
        [] focus = "resumes" -> <<resume, letter, resumeVersions, letterVersions,
                                  resumeHistory, letterHistory, unsaved, letterSource,
                                  Each(Writers, LAMBDA w : docWriter[w])>>
        [] focus = "emails" -> emailsVars
        [] focus = "account" -> <<accRow, accCache, accReset, accRefresh, accAccess,
                                  accResetUses, accStale, accCut,
                                  Each(Requests, LAMBDA r : accReq[r])>>
        [] focus = "sessions" -> sessionsVars
        [] focus = "profile" -> <<profRow, profSaves, profBlind, Each(ProfileTabs,
                                    LAMBDA t : <<profCache[t], profFetch[t], profSave[t]>>)>>
        [] focus = "settings" -> settingsVars
        [] focus = "vad" -> vadVars
        [] focus = "brain" -> <<brnReady, brnHeard, brnWindow, brnQuestions, brnTopics,
                                brnSince, brnAgain, Each(Turns, LAMBDA c : brnTurn[c])>>
        [] focus = "speech" -> ttsVars
        [] focus = "queries" -> queryVars
        [] focus = "forms" -> formVars
        [] focus = "endpoints" -> epVars
        [] focus = "scraping" -> <<scShared, scPromise, scLaunching, scLive, scLaunched, scUp,
                                   Each(Scrapes, LAMBDA r : <<scScrape[r],
                                            {c[2] : c \in {d \in scContexts : d[1] = r}}>>)>>
        [] focus = "room" -> roomVars>>
=============================================================================
