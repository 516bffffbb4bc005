------------------------- MODULE Components_proofs --------------------------
(***************************************************************************)
(* The components side by side: each of them runs by its own specification *)
(* or stands still, so what is proved of it alone holds of it among the    *)
(* others, for every value of the constants.                               *)
(***************************************************************************)
EXTENDS Components, Backend_proofs, Frontend_proofs, BrowserAgent_proofs

\* A step is one of the component in focus, and nobody else moves.
allVars ==
    <<focus, interviewsVars, jobVars, resumesVars, emailsVars, accountVars, sessionsVars,
      profileVars, settingsVars, vadVars, brainVars, ttsVars, queryVars, formVars, epVars,
      scrapingVars, roomVars>>

\* The components of the backend step by their own next-state relations.
LEMMA BackendSteps ==
    ASSUME [ComponentsNext]_allVars
    PROVE  /\ [InterviewsNext]_interviewsVars /\ [JobsNext]_jobVars
           /\ [ResumesNext]_resumesVars /\ [EmailsNext]_emailsVars
           /\ [AccountNext]_accountVars /\ [SettingsNext]_settingsVars
           /\ [EndpointsNext]_epVars
BY DEF ComponentsNext, allVars

\* So do those of the frontend.
LEMMA FrontendSteps ==
    ASSUME [ComponentsNext]_allVars
    PROVE  /\ [SessionsNext]_sessionsVars /\ [ProfileNext]_profileVars
           /\ [QueryNext]_queryVars /\ [FormNext]_formVars
BY DEF ComponentsNext, allVars

\* So do those of the browser agent.
LEMMA BrowserAgentSteps ==
    ASSUME [ComponentsNext]_allVars
    PROVE  /\ [VADNext]_vadVars /\ [BrainNext]_brainVars /\ [SpeechNext]_ttsVars
           /\ [ScrapingNext]_scrapingVars /\ [RoomNext]_roomVars
BY DEF ComponentsNext, allVars

\* Among the others each component behaves as its own specification says.
THEOREM ComponentsImplementEach ==
    ComponentsSpec =>
        /\ InterviewsSpec /\ JobsSpec /\ ResumesSpec /\ EmailsSpec
        /\ AccountSpec /\ SettingsSpec /\ EndpointsSpec
        /\ SessionsSpec /\ ProfileSpec /\ QuerySpec /\ FormSpec
        /\ VADSpec /\ BrainSpec /\ SpeechSpec /\ ScrapingSpec /\ RoomSpec
<1>1. ComponentsInit =>
         /\ InterviewsInit /\ JobsInit /\ ResumesInit /\ EmailsInit /\ AccountInit
         /\ SessionsInit /\ ProfileInit /\ SettingsInit /\ VADInit /\ BrainInit /\ SpeechInit
         /\ QueryInit /\ FormInit /\ EndpointsInit /\ ScrapingInit /\ RoomInit
  BY DEF ComponentsInit
<1>2. QED
  BY <1>1, BackendSteps, FrontendSteps, BrowserAgentSteps, PTL
     DEF ComponentsSpec, allVars, InterviewsSpec, JobsSpec, ResumesSpec, EmailsSpec, AccountSpec,
         SettingsSpec, EndpointsSpec, SessionsSpec, ProfileSpec, QuerySpec, FormSpec,
         VADSpec, BrainSpec, SpeechSpec, ScrapingSpec, RoomSpec

\* Whichever component runs, its state keeps its shape.
THEOREM ComponentsType == ComponentsSpec => []ComponentsTypeOK
<1>1. /\ InterviewsTypeOK /\ JobsTypeOK /\ ResumesTypeOK /\ EmailsTypeOK /\ AccountTypeOK
      /\ SessionsTypeOK /\ ProfileTypeOK /\ SettingsTypeOK /\ VADTypeOK /\ BrainTypeOK
      /\ SpeechTypeOK /\ QueryTypeOK /\ FormTypeOK /\ EndpointsTypeOK /\ ScrapingTypeOK
      /\ RoomTypeOK
      => ComponentsTypeOK
  BY DEF ComponentsTypeOK
<1>2. ComponentsSpec => [](/\ InterviewsTypeOK /\ JobsTypeOK /\ ResumesTypeOK /\ EmailsTypeOK
                           /\ AccountTypeOK /\ SettingsTypeOK /\ EndpointsTypeOK)
  BY ComponentsImplementEach, InterviewsType, JobsType, ResumesType, EmailsType,
     AccountTypeCorrect, SettingsTypeCorrect, EndpointsType, PTL
<1>3. ComponentsSpec => [](/\ SessionsTypeOK /\ ProfileTypeOK /\ QueryTypeOK /\ FormTypeOK)
  BY ComponentsImplementEach, SessionsType, ProfileType, QueryType, FormType, PTL
<1>4. ComponentsSpec => [](/\ VADTypeOK /\ BrainTypeOK /\ SpeechTypeOK /\ ScrapingTypeOK
                           /\ RoomTypeOK)
  BY ComponentsImplementEach, VADTypeCorrect, BrainType, SpeechType, ScrapingType, RoomType, PTL
<1>5. QED
  BY <1>1, <1>2, <1>3, <1>4, PTL

\* What the run of the components checks for one choice of the constants, the
\* backend's part: launches and transitions of interviews, the user's decisions
\* and tiers, versions and letters, mails, passwords, overrides, refusals.
THEOREM BackendCorrect ==
    ComponentsSpec =>
        /\ []OneVoiceSession /\ FollowsTransitionTable
        /\ []UserDecisionKept /\ []TierFitsScore
        /\ []VersionsAreRecoverable /\ []LetterIsTraceable /\ []EachMailActsOnce
        /\ []ResetTokenSingleUse /\ []AccountCacheCurrent /\ []SessionsFollowThePassword
        /\ []OverridesInForce /\ []RefusalChangesNothing
BY ComponentsImplementEach, LaunchesOnce, SessionFollowsItsTable, UserDecisionsKept, TiersFitScores,
   VersionsRecoverable, LetterTraceable, MailsActOnce, ResetTokenWorksOnce, CopyIsCurrent,
   SessionsEnd, OverridesTakeEffect, RefusalsChangeNothing, PTL

\* The parts of the frontend and of the browser agent: cookies, saves, what the
\* pages show and send; turns, prompts, rooms, browsers and postings.
THEOREM ClientsCorrect ==
    ComponentsSpec =>
        /\ []CookieIsCurrent /\ []ETagNamesTheProfile /\ []SettledIsShown /\ []OnlyEditsAreSaved
        /\ []SpeechIsDelimited /\ []FlagTellsTheRoom /\ []SpeechIsOwn
        /\ []WindowIsRecent /\ []RepetitionIsNoticed
        /\ []ChromiumIsContained /\ []PostingsAreDistinct
BY ComponentsImplementEach, CookieStaysCurrent, SavesReplaceWhatTheySaw, FreshDataAreTheRow,
   FormsSaveOnlyEdits, SpeechIsDelimitedAlways, FlagsTellTheRoom, CallsSpeakTheirOwn,
   PromptsAreRecent, RepetitionsAreNoticed, OneChromium, WorkersHearOfPostingsOnce, PTL
=============================================================================
