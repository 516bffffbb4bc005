----------------------------- MODULE Endpoints ------------------------------
(***************************************************************************)
(* The REST API: backend/internal/api with its middleware, and the handler *)
(* of every route together with the service it calls, as the steps one     *)
(* request goes through.  Other requests and the worker do what they do in *)
(* the meantime: every condition a step checks may hold or not, and the    *)
(* row the path names may be deleted at any moment.                        *)
(***************************************************************************)
EXTENDS Integers, Sequences

VARIABLES epRoute,             \* the request: its handler, the row it names, its success
          epTodo,              \* the steps still to come
          epRow,               \* the row the path names is there
          epChanged,           \* what the request has changed so far
          epAnswer             \* the status answered
epVars == <<epRoute, epTodo, epRow, epChanged, epAnswer>>

-----------------------------------------------------------------------------
NoAnswer == 0                  \* the connection is closed without an answer
Continue == 100                \* an error that is logged and goes unnoticed
Pending == -1                  \* being handled

\* A step: what it changes; how it is refused by its own conditions, and when the row
\* is gone; what an error of it comes to; whether some requests go without it.
step(change, refusals, gone, error, may) ==
    [change |-> change, refusals |-> refusals, gone |-> gone, error |-> error, may |-> may]

checks(refusals) == step("nothing", refusals, {}, {}, FALSE)
valid == checks({400})                     \* the parameters, the query and the body
readsElse(error) == step("nothing", {}, {}, {error}, FALSE)
reads == readsElse(500)                    \* a query, or the LLM, or another server
findsElse(gone) == step("nothing", {}, {gone}, {500}, FALSE)
finds == findsElse(404)                    \* SELECT ... WHERE id
insertsElse(x, error) == step(x, {}, {}, {error}, FALSE)
inserts(x) == insertsElse(x, 500)          \* and every write that needs no such row
insertsUnless(x, refusals) == step(x, refusals, {}, {500}, FALSE)
tries(x) == insertsElse(x, Continue)
updatesUnless(x, refusals) == step(x, refusals, {404}, {500}, FALSE)
updates(x) == updatesUnless(x, {})         \* UPDATE or DELETE ... WHERE id
perhaps(s) == [s EXCEPT !.may = TRUE]

route(ok, steps) == [ok |-> ok, steps |-> steps]

-----------------------------------------------------------------------------
JobQueries == [
    ListJobs |-> route(200, <<valid, reads>>),
    GetJob   |-> route(200, <<valid, finds>>)]
\* TriggerScan: a source that cannot be enqueued after one that was.
JobEdits == [
    UpdateJob   |-> route(200, <<valid, updates("job")>>),
    TriggerScan |-> route(201, <<valid, inserts("task"), perhaps(insertsElse("task", 202))>>),
    ToggleSave  |-> route(200, <<valid, updates("job")>>)]
JobActions == [
    DeleteJob |-> route(204, <<valid, inserts("job")>>),
    ApplyJob  |-> route(202, <<valid, finds, inserts("application"), tries("task")>>),
    ScoreJob  |-> route(200, <<valid, finds, findsElse(500), reads, inserts("job")>>)]
JobRelations == [
    SimilarJobs         |-> route(200, <<valid, findsElse(500), reads>>),
    ListJobApplications |-> route(200, <<valid, reads>>)]

ApplicationQueries == [
    ListApplications |-> route(200, <<valid, reads>>),
    GetApplication   |-> route(200, <<valid, finds>>)]
ApplicationEdits == [
    CreateApplication |-> route(201, <<valid, inserts("application")>>),
    UpdateStatus      |-> route(200, <<valid, finds, checks({400}),
                                       updatesUnless("application", {409})>>),
    UpdateNotes       |-> route(200, <<valid, updates("application")>>)]
ApplicationReads == [
    GetTimeline |-> route(200, <<valid, finds, reads>>),
    GetStats    |-> route(200, <<reads>>)]
\* The bridges NewHandler was given keep the nil service they were copied with.
VoiceContext == [
    GetApplicationResume  |-> route(NoAnswer, <<valid, finds, checks({404})>>),
    GetApplicationJob     |-> route(NoAnswer, <<valid, finds>>),
    GetApplicationCompany |-> route(NoAnswer, <<valid, finds>>)]

ScoreRoutes == [
    ScoreJobAsync |-> route(202, <<valid, inserts("task")>>),
    GetScore      |-> route(200, <<valid, finds>>)]
BatchScoreRoutes == [
    BatchScoreAsync |-> route(202, <<valid, tries("task"), perhaps(tries("task"))>>)]

\* StartInterview answers 500 when the task is not dispatched; the session has started.
InterviewEdits == [
    CreateInterview |-> route(201, <<valid, inserts("interview")>>),
    StartInterview  |-> route(200, <<valid, finds, updatesUnless("interview", {400, 409}),
                                     inserts("task"), finds>>),
    StopInterview   |-> route(200, <<valid, finds, checks({400}),
                                     updatesUnless("interview", {400})>>)]
\* HandleEvent: what is wrong with an event that is not about the status is an error.
InterviewEvents == [
    HandleEvent |-> route(200, <<valid, finds, readsElse(500),
                                 updatesUnless("interview", {400, 409})>>)]
InterviewQueries == [
    GetInterview   |-> route(200, <<valid, finds>>),
    ListInterviews |-> route(200, <<valid, reads>>)]

ResumeQueries == [
    ListResumes  |-> route(200, <<reads>>),
    GetResume    |-> route(200, <<valid, finds>>),
    CreateResume |-> route(201, <<valid, inserts("resume")>>)]
ResumeEdits == [
    UpdateResume |-> route(200, <<valid, finds, valid, updatesUnless("resume", {409})>>),
    DeleteResume |-> route(200, <<valid, updates("resume")>>)]
ContentRoutes == [
    GetContent      |-> route(200, <<valid, finds, checks({404})>>),
    UpdateContent   |-> route(200, <<valid, finds, tries("snapshot"),
                                     updatesUnless("resume", {409})>>),
    GenerateContent |-> route(200, <<valid, finds, reads, tries("snapshot"),
                                     updatesUnless("resume", {409})>>)]
VersionRoutes == [
    ListVersions |-> route(200, <<valid, finds, reads>>),
    GetVersion   |-> route(200, <<valid, finds>>)]
LetterQueries == [
    ListCoverLetters  |-> route(200, <<reads>>),
    GetCoverLetter    |-> route(200, <<valid, finds>>),
    CreateCoverLetter |-> route(201, <<valid, inserts("letter"), tries("snapshot")>>)]
\* GenerateLetter with the letter reset before the resume is looked up.
GenerateLetterUpdatesFirst ==
    route(200, <<valid, finds, updatesUnless("letter", {409}),
                 perhaps(insertsUnless("nothing", {404})), reads>>)
\* GenerateCoverLetter: the resume it is to be written from may be missing.
GenerateLetter ==
    route(200, <<valid, finds, tries("snapshot"), perhaps(insertsUnless("nothing", {404})),
                 reads, updatesUnless("letter", {409})>>)
LetterEdits == [
    GenerateCoverLetter      |-> GenerateLetter,
    UpdateCoverLetterContent |-> route(200, <<valid, finds, tries("snapshot"),
                                              updatesUnless("letter", {409})>>),
    DeleteCoverLetter        |-> route(200, <<valid, updates("letter")>>)]
LetterVersions == [
    ListCoverLetterVersions |-> route(200, <<valid, finds, reads>>),
    GetCoverLetterVersion   |-> route(200, <<valid, finds>>)]

-----------------------------------------------------------------------------
ApprovalQueries == [
    ListApprovals |-> route(200, <<valid, reads>>),
    GetApproval   |-> route(200, <<valid, finds>>)]
\* ApproveApproval: when the application is not queued, the approval that the 207 is
\* to be built from is nil.
ApprovalDecisions == [
    ApproveApproval |-> route(200, <<valid, updatesUnless("approval", {400, 409}), finds,
                                     tries("activity"), insertsElse("application", NoAnswer),
                                     insertsElse("task", 207)>>),
    RejectApproval  |-> route(200, <<valid, updatesUnless("approval", {400, 409}),
                                     findsElse(500)>>)]

SearchRoutes == [
    Search |-> route(200, <<valid, reads>>)]
EmbeddingRoutes == [
    ListEmbeddings  |-> route(200, <<valid, reads>>),
    GetEmbedding    |-> route(200, <<valid, finds>>),
    DeleteEmbedding |-> route(200, <<valid, updates("embedding")>>)]

\* The first read of the profile creates it.  Only the header and the body are refused
\* with 400: a profile that Validate refuses is answered 500, as if the read before the
\* write had failed.  UpdateProfile and PatchProfile share this.
ProfileEdits ==
    route(200, <<valid, reads, perhaps(inserts("default profile")), reads,
                 insertsUnless("profile", {409}), reads>>)
ProfileRoutes == [
    GetProfile    |-> route(200, <<reads, perhaps(inserts("default profile"))>>),
    UpdateProfile |-> ProfileEdits,
    PatchProfile  |-> ProfileEdits]

EmailQueries == [
    Store   |-> route(201, <<valid, reads, inserts("email"), reads>>),
    List    |-> route(200, <<valid, reads>>),
    GetByID |-> route(200, <<valid, finds>>)]
EmailEdits == [
    Update     |-> route(200, <<valid, perhaps(updates("read flag")),
                                perhaps(updates("draft")), findsElse(500)>>),
    Reclassify |-> route(200, <<valid, finds, reads, updates("classification")>>)]

ActivityRoutes == [
    List    |-> route(200, <<valid, reads>>),
    GetByID |-> route(200, <<valid, finds>>)]
TaskRoutes == [
    CreateTask |-> route(201, <<valid, inserts("task")>>),
    GetTask    |-> route(200, <<valid, finds>>),
    ListTasks  |-> route(200, <<valid, reads>>)]
\* A malformed key is a bad request to set, and an internal error to delete: the error of
\* ValidateOverrideKey is none the handler knows, and DeleteOverride does not wrap it.
ConfigRoutes == [
    GetEffectiveConfig |-> route(200, <<reads>>),
    SetOverride        |-> route(200, <<valid, inserts("override")>>),
    DeleteOverride     |-> route(200, <<checks({500}), inserts("override")>>)]

LoginRoute == route(200, <<valid, reads, checks({401}), reads, inserts("refresh token"),
                      tries("last login")>>)
\* A refresh token that was used before takes the others with it, and is refused.
RefreshRoutes == [
    Refresh |-> route(200, <<valid, checks({401}), inserts("refresh tokens"), reads,
                             inserts("refresh token")>>),
    RefreshReused |-> route(401, <<valid, tries("refresh tokens")>>)]
\* RequestPasswordReset answers 200 for an address that is not the user's.
PasswordRoutes == [
    RequestPasswordReset |-> route(200, <<valid, readsElse(200), checks({200}), reads,
                                          inserts("reset tokens"), inserts("reset token")>>),
    ResetPassword |-> route(200, <<valid, checks({401}), insertsUnless("reset token", {401}),
                                   inserts("password"), inserts("refresh tokens")>>)]
SessionRoutes == [
    ChangePassword |-> route(200, <<valid, reads, checks({401}), inserts("password"),
                                    inserts("refresh tokens")>>),
    Logout         |-> route(200, <<inserts("refresh tokens"), inserts("session version")>>)]
\* CompleteSetup: the loser of a race is told 500.
SetupRoutes == [
    SetupStatus   |-> route(200, <<reads>>),
    CompleteSetup |-> route(200, <<valid, reads, checks({400, 409}), inserts("user")>>)]
CredentialTests == [
    TestLLMKey      |-> route(200, <<valid, reads>>),
    TestVoiceConfig |-> route(200, <<valid, reads>>),
    TestEmailConfig |-> route(200, <<valid, reads>>)]
OnboardingRoutes == [
    SaveOnboardingConfig |-> route(200, <<valid, perhaps(inserts("override")),
                                          perhaps(inserts("override"))>>),
    UpdateOnboardingStep |-> route(200, <<valid, inserts("onboarding")>>),
    CompleteOnboarding   |-> route(200, <<inserts("onboarding")>>)]

-----------------------------------------------------------------------------
\* What a request passes before its handler.
CORS == checks({403})
RateLimit == checks({429})
SetupMiddleware == checks({403})
OnboardingCompleteMiddleware == checks({410})
Authenticate == checks({401})            \* an error of the lookup is a 401, too
internalSecretMiddleware == checks({401})

\* SetupRouter: the groups of routes.
SetupRouter == [
    public     |-> [chain |-> <<CORS, RateLimit, SetupMiddleware, RateLimit>>,
                    tables |-> {[LoginRoute |-> LoginRoute], RefreshRoutes, PasswordRoutes}],
    setup      |-> [chain |-> <<CORS, RateLimit, RateLimit>>, tables |-> {SetupRoutes}],
    onboarding |-> [chain |-> <<CORS, RateLimit, RateLimit, RateLimit,
                                OnboardingCompleteMiddleware>>,
                    tables |-> {CredentialTests, OnboardingRoutes}],
    protected  |-> [chain |-> <<CORS, RateLimit, SetupMiddleware, Authenticate>>,
                    tables |-> {JobQueries, JobEdits, JobActions, JobRelations,
                                ApplicationQueries, ApplicationEdits, ApplicationReads,
                                VoiceContext, ScoreRoutes, BatchScoreRoutes, InterviewEdits,
                                InterviewQueries, ResumeQueries, ResumeEdits, ContentRoutes,
                                VersionRoutes, LetterQueries, LetterEdits, LetterVersions,
                                ApprovalQueries, ApprovalDecisions, SearchRoutes,
                                EmbeddingRoutes, ProfileRoutes, EmailQueries, EmailEdits,
                                ActivityRoutes, TaskRoutes, ConfigRoutes, SessionRoutes}],
    internal   |-> [chain |-> <<CORS, RateLimit, SetupMiddleware, internalSecretMiddleware>>,
                    tables |-> {InterviewEvents}]]

\* The rows a route can name that some route deletes.
Deletable == {JobQueries, JobEdits, JobActions, JobRelations, ScoreRoutes, ResumeQueries,
              ResumeEdits, ContentRoutes, VersionRoutes, LetterQueries, LetterEdits,
              LetterVersions, EmbeddingRoutes}

-----------------------------------------------------------------------------
EndpointsInit ==
    /\ epRoute = [handler |-> "none", deletable |-> FALSE, ok |-> NoAnswer]
    /\ epTodo = <<>> /\ epRow = FALSE /\ epChanged = {} /\ epAnswer = NoAnswer

Idle == epAnswer # Pending

HandleRequest ==
    /\ Idle
    /\ \E group \in DOMAIN SetupRouter : \E table \in SetupRouter[group].tables :
       \E h \in DOMAIN table :
          /\ epRoute' = [handler |-> h, deletable |-> table \in Deletable, ok |-> table[h].ok]
          /\ epTodo' = SetupRouter[group].chain \o table[h].steps
    /\ epRow' \in BOOLEAN
    /\ epChanged' = {} /\ epAnswer' = Pending

Answer(code) ==
    /\ epAnswer' = code /\ epTodo' = <<>>
    /\ UNCHANGED <<epRoute, epRow>>

Made(s) == IF s.change = "nothing" THEN epChanged ELSE epChanged \union {s.change}

\* The step is done, or is none of this request's.
Proceed(s) ==
    /\ \/ (s.gone = {} \/ epRow) /\ epChanged' = Made(s)
       \/ s.may /\ UNCHANGED epChanged
    /\ epTodo' = Tail(epTodo)
    /\ UNCHANGED <<epRoute, epRow, epAnswer>>

\* A condition of the step refuses the request.
Refused(s) == (\E code \in s.refusals : Answer(code)) /\ UNCHANGED epChanged

\* The row is not there, or not there any more.
Gone(s) == ~epRow /\ (\E code \in s.gone : Answer(code)) /\ UNCHANGED epChanged

\* The step fails; a write may have landed all the same.
Fails(s) ==
    /\ epChanged' \in {epChanged, Made(s)}
    /\ \E code \in s.error :
          IF code = Continue
          THEN epTodo' = Tail(epTodo) /\ UNCHANGED <<epRoute, epRow, epAnswer>>
          ELSE Answer(code)

Handle ==
    /\ ~Idle /\ epTodo # <<>>
    /\ LET s == Head(epTodo) IN Proceed(s) \/ Refused(s) \/ Gone(s) \/ Fails(s)

GiveAnswer == ~Idle /\ epTodo = <<>> /\ Answer(epRoute.ok) /\ UNCHANGED epChanged

\* Another request deletes the row.
RowDeleted ==
    /\ ~Idle /\ epRoute.deletable /\ epRow /\ epRow' = FALSE
    /\ UNCHANGED <<epRoute, epTodo, epChanged, epAnswer>>

\* The process ends.
Killed == ~Idle /\ Answer(NoAnswer) /\ UNCHANGED epChanged

EndpointsNext == HandleRequest \/ Handle \/ GiveAnswer \/ RowDeleted \/ Killed

EndpointsSpec == EndpointsInit /\ [][EndpointsNext]_epVars

-----------------------------------------------------------------------------
EndpointsTypeOK ==
    /\ epRow \in BOOLEAN /\ epRoute.deletable \in BOOLEAN
    /\ epAnswer \in {NoAnswer, Pending} \union 200..599
    /\ Idle => epTodo = <<>>
    /\ "nothing" \notin epChanged

\* A request that is refused has changed nothing: whatever its handler checks, and
\* whatever is deleted while it runs, comes before its first write.  Three writes may
\* precede a refusal and do no harm: the snapshot of a document about to be edited, the
\* profile every reader would have created, and the family of a refresh token used twice.
RefusalChangesNothing ==
    epAnswer \in 400..499 =>
        epChanged \subseteq {"snapshot", "default profile"}
            \union (IF epRoute.handler = "RefreshReused" THEN {"refresh tokens"} ELSE {})
=============================================================================
