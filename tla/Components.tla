----------------------------- MODULE Components -----------------------------
(***************************************************************************)
(* The components that share no state with one another, side by side.  A   *)
(* behaviour runs one of them, its focus, from its initial state while the *)
(* others stand still: interleaving their steps adds nothing any of them   *)
(* could observe, and every property speaks of a single component.         *)
(***************************************************************************)
EXTENDS Interviews, Jobs, Resumes, Emails, Account, Sessions, Profile, Settings, VAD, Brain,
        SpeechDaemon, QueryCache, ConfigForms, Endpoints, Scraping, VoiceRoom

VARIABLE focus

Component == {"interviews", "jobs", "resumes", "emails", "account", "sessions", "profile",
              "settings", "vad", "brain", "speech", "queries", "forms", "endpoints", "scraping",
              "room"}

\* Some have several initial states; one will do where they stand still.
ComponentsInit ==
    /\ focus \in Component
    /\ InterviewsInit /\ JobsInit /\ ResumesInit /\ EmailsInit /\ AccountInit
    /\ SessionsInit /\ ProfileInit /\ SettingsInit /\ VADInit /\ BrainInit /\ SpeechInit
    /\ QueryInit /\ FormInit /\ EndpointsInit /\ ScrapingInit /\ RoomInit
    /\ focus # "settings" => cfgEnv = {} /\ cfgKey = "scoring.mode"
    /\ focus # "speech" => ttsUnbuffered
    /\ focus # "queries" => qcDomain = "jobs" /\ qcKey = "list"
    /\ focus # "forms" => formKinds = <<"free", "free">>
    /\ focus # "room" => roomWiring = {}

ComponentsNext ==
    \/ /\ focus = "interviews" /\ InterviewsNext
       /\ UNCHANGED <<focus, jobVars, resumesVars, emailsVars, accountVars, sessionsVars,
                     profileVars, settingsVars, vadVars, brainVars, ttsVars, queryVars,
                     formVars, epVars, scrapingVars, roomVars>>
    \/ /\ focus = "jobs" /\ JobsNext
       /\ UNCHANGED <<focus, interviewsVars, resumesVars, emailsVars, accountVars,
                     sessionsVars, profileVars, settingsVars, vadVars, brainVars, ttsVars,
                     queryVars, formVars, epVars, scrapingVars, roomVars>>
    \/ /\ focus = "resumes" /\ ResumesNext
       /\ UNCHANGED <<focus, interviewsVars, jobVars, emailsVars, accountVars, sessionsVars,
                     profileVars, settingsVars, vadVars, brainVars, ttsVars, queryVars,
                     formVars, epVars, scrapingVars, roomVars>>
    \/ /\ focus = "emails" /\ EmailsNext
       /\ UNCHANGED <<focus, interviewsVars, jobVars, resumesVars, accountVars,
                     sessionsVars, profileVars, settingsVars, vadVars, brainVars, ttsVars,
                     queryVars, formVars, epVars, scrapingVars, roomVars>>
    \/ /\ focus = "account" /\ AccountNext
       /\ UNCHANGED <<focus, interviewsVars, jobVars, resumesVars, emailsVars, sessionsVars,
                     profileVars, settingsVars, vadVars, brainVars, ttsVars, queryVars,
                     formVars, epVars, scrapingVars, roomVars>>
    \/ /\ focus = "sessions" /\ SessionsNext
       /\ UNCHANGED <<focus, interviewsVars, jobVars, resumesVars, emailsVars, accountVars,
                     profileVars, settingsVars, vadVars, brainVars, ttsVars, queryVars,
                     formVars, epVars, scrapingVars, roomVars>>
    \/ /\ focus = "profile" /\ ProfileNext
       /\ UNCHANGED <<focus, interviewsVars, jobVars, resumesVars, emailsVars, accountVars,
                     sessionsVars, settingsVars, vadVars, brainVars, ttsVars, queryVars,
                     formVars, epVars, scrapingVars, roomVars>>
    \/ /\ focus = "settings" /\ SettingsNext
       /\ UNCHANGED <<focus, interviewsVars, jobVars, resumesVars, emailsVars, accountVars,
                     sessionsVars, profileVars, vadVars, brainVars, ttsVars, queryVars,
                     formVars, epVars, scrapingVars, roomVars>>
    \/ /\ focus = "vad" /\ VADNext
       /\ UNCHANGED <<focus, interviewsVars, jobVars, resumesVars, emailsVars, accountVars,
                     sessionsVars, profileVars, settingsVars, brainVars, ttsVars, queryVars,
                     formVars, epVars, scrapingVars, roomVars>>
    \/ /\ focus = "brain" /\ BrainNext
       /\ UNCHANGED <<focus, interviewsVars, jobVars, resumesVars, emailsVars, accountVars,
                     sessionsVars, profileVars, settingsVars, vadVars, ttsVars, queryVars,
                     formVars, epVars, scrapingVars, roomVars>>
    \/ /\ focus = "speech" /\ SpeechNext
       /\ UNCHANGED <<focus, interviewsVars, jobVars, resumesVars, emailsVars, accountVars,
                     sessionsVars, profileVars, settingsVars, vadVars, brainVars, queryVars,
                     formVars, epVars, scrapingVars, roomVars>>
    \/ /\ focus = "queries" /\ QueryNext
       /\ UNCHANGED <<focus, interviewsVars, jobVars, resumesVars, emailsVars, accountVars,
                     sessionsVars, profileVars, settingsVars, vadVars, brainVars, ttsVars,
                     formVars, epVars, scrapingVars, roomVars>>
    \/ /\ focus = "forms" /\ FormNext
       /\ UNCHANGED <<focus, interviewsVars, jobVars, resumesVars, emailsVars, accountVars,
                     sessionsVars, profileVars, settingsVars, vadVars, brainVars, ttsVars,
                     queryVars, epVars, scrapingVars, roomVars>>
    \/ /\ focus = "endpoints" /\ EndpointsNext
       /\ UNCHANGED <<focus, interviewsVars, jobVars, resumesVars, emailsVars, accountVars,
                     sessionsVars, profileVars, settingsVars, vadVars, brainVars, ttsVars,
                     queryVars, formVars, scrapingVars, roomVars>>
    \/ /\ focus = "scraping" /\ ScrapingNext
       /\ UNCHANGED <<focus, interviewsVars, jobVars, resumesVars, emailsVars, accountVars,
                     sessionsVars, profileVars, settingsVars, vadVars, brainVars, ttsVars,
                     queryVars, formVars, epVars, roomVars>>
    \/ /\ focus = "room" /\ RoomNext
       /\ UNCHANGED <<focus, interviewsVars, jobVars, resumesVars, emailsVars, accountVars,
                     sessionsVars, profileVars, settingsVars, vadVars, brainVars, ttsVars,
                     queryVars, formVars, epVars, scrapingVars>>

ComponentsSpec ==
    ComponentsInit /\ [][ComponentsNext]_<<focus, interviewsVars, jobVars, resumesVars,
                                            emailsVars, accountVars, sessionsVars,
                                            profileVars, settingsVars, vadVars, brainVars,
                                            ttsVars, queryVars, formVars, epVars,
                                            scrapingVars, roomVars>>

\* The state of the component in focus has the shape its module declares: the
\* rows, the requests' local variables and the histories.
ComponentsTypeOK ==
    /\ focus = "interviews" => InterviewsTypeOK
    /\ focus = "jobs"       => JobsTypeOK
    /\ focus = "resumes"    => ResumesTypeOK
    /\ focus = "emails"     => EmailsTypeOK
    /\ focus = "account"    => AccountTypeOK
    /\ focus = "sessions"   => SessionsTypeOK
    /\ focus = "profile"    => ProfileTypeOK
    /\ focus = "settings"   => SettingsTypeOK
    /\ focus = "vad"        => VADTypeOK
    /\ focus = "brain"      => BrainTypeOK
    /\ focus = "speech"     => SpeechTypeOK
    /\ focus = "queries"    => QueryTypeOK
    /\ focus = "forms"      => FormTypeOK
    /\ focus = "endpoints"  => EndpointsTypeOK
    /\ focus = "scraping"   => ScrapingTypeOK
    /\ focus = "room"       => RoomTypeOK
=============================================================================
