# Verification of the AI job search agent

TLA+ models of the job search agent in this repository, checked with TLC and, in
part, proved with TLAPS. The models are written from the code; where a comment or
an API text promises something else, a run shows the disagreement.

Run a check with `tlc -config MCTasks.cfg MCTasks`, a proof with
`tlapm Applications_proofs.tla`.

## 1. The system

A Go API (`backend/cmd/api`) and a Go worker (`backend/cmd/worker`) share a
PostgreSQL database and an asynq queue in Redis. The worker calls a TypeScript
browser agent (`browser-agent`) over HTTP, which scrapes job portals, fills forms
and conducts voice interviews in LiveKit rooms. A Next.js frontend talks to the API.

| Part | State | Operations | What is hard | What makes it correct |
|---|---|---|---|---|
| applications | status, timestamps, audit trail of each application | create, update status, notes | four kinds of writer on one row, a check outside the transaction | the trail explains the status, changes are legal, timestamps agree |
| tasks, dispatcher | one row and one message per task | dispatch, start, complete, fail, cancel | two stores, unguarded row writes, redelivery | tracked, started once, bounded work, legal row changes, settles |
| worker | none of its own | eleven handlers with one skeleton | timeouts inside deadlines, retry after the effect | effects bounded, nothing lost |
| approvals | status of the request | create, approve, reject, workflow | concurrent decisions, three writes in a row | one decision, nothing submitted before it, one series of submissions |
| interviews | session row | create, start, stop, voice events | racing starts and events, failed dispatch | row follows the table, one voice session, sane timestamps |
| voice session | session state, audio queue, pending HTTP request | start, stop, transport and provider events, utterances | every await is a window for events | order of utterances, floor, silence after the end, an answer |
| jobs, scoring | job row, scores, drafts, the approval request | import, status, save, delete, apply, score | scorings against one another and against the user's own decision | user-owned statuses are kept but for a race, a tier fits its score unless scorings crossed |
| resumes, cover letters | content, version, snapshots, letters | generate, update, delete | optimistic locking next to snapshots, minutes between a read and its use | every replaced version can be recovered, a letter names what it was made from |
| emails | stored e-mails, status of the application | fetch, classify, reclassify, sync | partial failure of a batch and its retry | each message has its effect once |
| auth | users row, refresh and reset tokens, a copy of the row in memory | setup, login, rotate, logout, change and reset of the password | verification and insertion in two steps, cache invalidation | a reset token works once, the copy is current, no session known when the password changes survives it |
| system configuration, onboarding | overrides, YAML, environment | set, delete, resolve, onboarding entries | three lists of keys, several keys per request | what is stored is what is in force |
| frontend session | cookie, access token in memory, pending refresh | call, refresh, logout | several calls and tabs refresh one rotating token | a tab's refresh is shared (refuted), the cookie holds the live token if refreshes do not overlap |
| voice brain | transcript window, summary, facts, question lists | plan a turn, answer, record | concurrent turns, cut of the window | the window is the recent talk, a recorded question is recognised |
| voice activity detection | counters of the detector, the interviewer, a buffer | hear a chunk, reset | cut-off, gaps, dating back | a segment is one stretch of the interviewer's speech |
| profile | one row with its version, the cache of each tab | read, replace, patch | tabs save what they read long ago, answers come late | an accepted save replaces the profile its tab knew |
| voice providers, room | the Kokoro daemon and its pipes, the LiveKit transport | speak, connect, publish, disconnect | time-outs while the daemon still answers, a repeated request beside the first | a text is spoken with its own audio, a transport knows whether it is in the room |
| frontend queries, forms | query cache of TanStack Query, texts of the settings forms | optimistic edits, refetches, saves | edits over edits in flight, snapshots put back | what is shown at rest is what the server took |
| API, middleware | the row a path names, by route | every route with its chain | a handler is reads and writes without a transaction | a refusal has changed nothing |
| scrapers | a shared Chromium, contexts, pages | scrape, time out, shut down | repeated scrapes, crashes, launches at once | one Chromium, no posting twice |
| activity, rag, embeddings | logs, rows | routes only | - | as the API |
| form filler, other voice providers, setup wizard, pages | - | - | - | left out, see section 7 |

Interactions. The API dispatches tasks; the worker's handlers call the services of
the domains and the browser agent. An approval changes an application and dispatches
`application_submit`; the handler of that task fills the form and changes the
application again. Starting an interview dispatches `voice_session`; the worker's
HTTP call opens a voice session in the browser agent and waits for it.
`PROJECT.json` lists the components with their sources, and every hazard with its line.

## 2. Modules

| Module | Models | Composition |
|---|---|---|
| `StatusMachine` | abstract: a status that moves along the edges of a graph | contract of Applications, Interviews, SubmissionWorkflow |
| `Applications` | `backend/internal/applications`: one row and its trail | refinement of StatusMachine (refuted, see below) |
| `Tasks` | `backend/internal/tasks` and the handler skeleton | asynq is external |
| `SubmissionWorkflow` | `backend/internal/approvals` and the submission handler | INSTANCE of Applications with requests, deliveries and users as writers |
| `Interviews` | `backend/internal/interviews` | refinement of StatusMachine, focus of Components |
| `VoiceSession` | `browser-agent/src/voice/session.ts`, `queue.ts`, the interview route of `server.ts` | transport and providers are external |
| `Scoring` | `backend/internal/scoring`: the computation, as operators | used by Jobs |
| `Jobs` | `backend/internal/jobs`, the scrape and scoring tasks | extends Scoring, focus of Components |
| `Resumes` | `backend/internal/resumes` and the worker's document tasks | focus of Components |
| `Emails` | `backend/internal/emails` and the sync task | focus of Components |
| `Account` | `backend/internal/auth`: user, reset and refresh tokens | focus of Components |
| `Settings` | `backend/internal/systemconfig` and the onboarding | focus of Components |
| `Sessions` | `frontend/src/lib/api/client.ts`, the route handler that holds the cookie | focus of Components |
| `VAD` | `browser-agent/src/voice/vad.ts` and the buffers of `session.ts` | focus of Components |
| `Brain` | `browser-agent/src/voice/brain`: memory, planner, turns | focus of Components |
| `Profile` | `backend/internal/profile`, `frontend/src/hooks/useProfile.ts` | focus of Components |
| `SpeechDaemon` | `voice/providers/local-kokoro.ts` and `voice/scripts/kokoro_stream.py` | focus of Components; pipes are external |
| `QueryCache` | the query and mutation hooks of `frontend/src/hooks` | focus of Components; TanStack Query is external |
| `ConfigForms` | the settings page and its forms, `components/config` | focus of Components |
| `Endpoints` | `backend/internal/api` and the handler and service of every route | focus of Components |
| `Scraping` | the scrape route of `server.ts`, the scrapers, `utils/browser.ts` | focus of Components; pages and Chromium are external |
| `VoiceRoom` | the `voice_session` task, `voice/factory.ts`, `voice/providers/factory.ts`, `voice/livekit.ts` | focus of Components; LiveKit is external |
| `Components` | the modules above without shared state, side by side | extends them |
| `Applications_proofs`, `Tasks_proofs`, `SubmissionWorkflow_proofs`, `VoiceSession_proofs` | theorems | extend their module |
| `Backend_proofs` | theorems about Interviews, Scoring, Jobs, Resumes, Emails, Settings, Endpoints, Account | extends them |
| `Frontend_proofs` | theorems about Sessions, QueryCache, ConfigForms, Profile | extends them |
| `BrowserAgent_proofs` | theorems about VAD, VoiceRoom, SpeechDaemon, Brain, Scraping | extends them |
| `Components_proofs` | theorems about all components of `Components` at once | extends Components and the three above |
| `MC*` | small instances and symmetry sets for TLC | |

How state and actions correspond to the code:

**Applications.** The variables are the columns `status`, `applied_at`, `response_at`
(set or not) and the rows of `application_events` in commit order; `op` is what each
caller holds in local variables. `Service.UpdateStatus` is `CheckTransition`, the
repository method is `ReadInTx` (BEGIN, second read, timestamp), then `Commit` (guarded
UPDATE, INSERT, COMMIT: one step because of the row lock) or `Conflict`. Every early
return is `Abort`. An event carries two history fields, the position of the trail at
its check and at its timestamp; the code stores a time instead.

**Tasks.** One task, because tasks share no state of their own. `row` is the table
row, `queue` asynq's view of the message, `run[d]` the handler of delivery d: at one of
its service calls, at its work, or about to return. A service call is a read with the
transition check and then an unguarded write of the whole row, two steps (`CallRead`,
`CallWrite`). The context of a run is live, spent (the handler's own timeout) or
abandoned (asynq's deadline); without a live context no database call succeeds. The
work is one step that may take effect and may report success, independently.

**SubmissionWorkflow.** `approval` is the request's column, `req` the progress of each
HTTP request through `Workflow.Approve` or `Service.Reject`, `sub`, `msg` and `tries`
the submission each approval sets off, `fills` how often the portal got the form. All
status changes are actions of the instance `App`. The queue is the one of `Tasks`, cut
down to what the submission can see of it: at most MaxRetry + 1 deliveries, any of
which may be lost at any moment. Task rows are not repeated here.

**Interviews.** As Applications, but the repository validates the transition inside the
transaction. `Start` goes through `StartSession`, after whose commit the dispatch
succeeds or fails. Times are the number of changes committed before, plus one.

**VoiceSession.** An action runs from one await to the next. `state`, `stopping`,
`queue`, `processing` are the variables of that name; `starting` is the await of
`start()`, `stops` the calls of `stop()` inside `cleanup()`, `stage` how far each
utterance came, `outcome` what the request's promise resolved to. Whether a realtime
provider is present is chosen in the initial state.

**Jobs, Scoring.** A text is its set of keywords, a salary a number, the model's answer a
number: the factors, the weighted mean, the tiers and the three modes are computed as in
the code; `Best` stands for the descending sort of the roles' scores, of which only the first
three places are looked at. `callOllama` is what the client makes of an answer: the scores in
range, or none. `ScoreJob` reads and computes, the model answers, `persistAndReturn` writes the
score and its tier, then the task (not the request) reads the job again and writes score
and status in two more statements, and goes on to the draft and the approval request. A
scoring starts when a request asks for it; the import dispatches none.

**Resumes.** A writer holds the row it read, saves it under its version, and updates
WHERE the version is still that one; generations of either wait for the model between
the read and the rest. The contents a version ever had are kept as history.
`generateResume` and `generateLetter` are what the generators hand back: a resume must be
valid, a letter may be empty or the placeholder of the disabled generator, which replaces
the text. A `PUT` takes any document.

**Emails.** `Store`, `Reclassify`, `MarkRead`, `UpdateDraft` change stored rows. `mailSync`
is the task that walks over the mails found and changes the application; the mails it
gets are those of `Mailbox`, every delivery starts with the first.

**Account.** Each request runs in steps of one database call or one critical section of
the repository, whose copy of the users row is `accCache`. A refresh token carries, as
history, the password that was verified for it.

**Sessions.** Tabs with several calls each; a 401 starts or joins the pending refresh, the
route handler reads the cookie, asks the backend to rotate and sets the cookie from the
answer, any of which may be lost. All calls of a tab that wait for a refresh hear of it at
once, then each goes on with its repeated request.

**Settings.** The allowed keys, the checks and the setters are three tables, translated
each from its own function, and a value is its JSON type and whether the check of its
key likes it. The onboarding saves its entries one by one.

**VAD.** The counters are those of the class, in a coarse unit of samples; a chunk is its
length and whether its energy is above the adaptive threshold. The first participant heard is
the interviewer, and the audio of the others reaches neither the detector nor a buffer
(`session.ts:283-291`). The buffer holds the start of every segment it has audio of.

**Brain.** `Respond` is what happens up to the call of the model, `Generated` what follows
its answer; a text is what the planner's rules see of it, its kind and content words.
`buildPrompt` is the transcript that fits into the budget, `Replies` the shapes of an
answer `parseResponse` tells apart: JSON, JSON inside prose, and text that is salvaged.

**Profile.** `profRow` is the row, a section of it the number of the save that wrote it. A tab
has what its cache holds, its ETag and a save or a fetch under way, whose answer may be
late, lost or overtaken.

**SpeechDaemon.** A call of `synthesize` and the daemon are two processes with two pipes. A
frame is a length and a payload, the pipe hands over any prefix of what is in it, and the
daemon flushes each frame or not (`ttsUnbuffered`). A call may time out, fail or be given
up at any wait.

**QueryCache.** One row and one query of it. A row is the set of edits it has taken, so what
the cache shows can be compared with what the row is. `HooksOf` says of every mutation what
it patches, restores and invalidates, translated hook by hook.

**ConfigForms.** Two fields of one form, each with its text, what the form knew when it was
last filled, and the cached configuration. A save is one request per field that differs.

**Endpoints.** A table gives each route its chain: the middleware of its group, then the
handler's and service's checks and writes in their order. A request walks through its
chain; every check may refuse, and the row the path names may go in between.

**Scraping.** A scrape is at one await of its scraper (`at`). Chromium processes are
numbered by launch; `scShared` and `scPromise` are the variables of `utils/browser.ts`,
`scContexts` who has a context in which process.

**VoiceRoom.** `roomCall` is the worker's side of each delivery of the task, `roomAgent` the
session the agent built for it: at which await of `start()`, the flags of its transport,
whether an event of the room is still to come. `roomWiring` is what the configuration gives:
`createInterviewSessionFactory` is evaluated for every configuration, and a behaviour keeps
one result. The two requests have one identity, so the second takes the first's place.

**Components.** These components share no state and exchange nothing in the code that is
modelled, so a behaviour runs one of them, its focus, while the others stand still: the
state space is the sum of theirs, and interleaving them would add nothing any property
could see. The view `InFocus` compares states by the variables of the focus; those of the
others keep their first values, so nothing is lost. Where a component has several of a
kind (callers, scorers, writers, requests, tabs, turns, scrapes), the view has what they
hold and how many of them hold it: who holds it makes no difference to any action or
property.

## 3. Runs

| Run | Checks | Bounds |
|---|---|---|
| `applications` | `AuditTrailIsChain`, `EveryChangeWasOnceLegal`, `StagesFollowSubmission`, `TimelineInCommitOrder` | 3 writers, no new check once the trail has 4 events |
| `applications_race` | `FollowsTransitionTable` is violated | same module, 2 changes suffice |
| `tasks` | `DispatchedIsTracked`, `WorkIsBounded`, `WorkersNeverRace`, `EveryMessageSettles` | 1 retry, 1 shutdown |
| `tasks_out_of_sync` | `DoneIsNotFailed` is violated | same |
| `submission` | `NothingBeforeApproval`, `OneSubmissionSeries`, `DecidedOnce` | 3 requests, 1 other writer, 1 retry, 3 events |
| `rejected_approval` | `RejectionReachesApplication` is violated | 2 requests |
| `stranded_approval` | `DispatchIsRetried` is violated under fairness | 2 requests |
| `voice_session` | `InOrder`, `FloorIsTrue`, `NothingAfterEnd`, `EveryUtteranceSettles`, `EndAnswersRequest` | 3 utterances |
| `voice_unanswered` | `FailureAnswersRequest` is violated under fairness | 1 utterance |
| `components` | `ComponentsTypeOK` and the properties of the focused components, below | below |
| `refresh_overlap` | `RefreshIsShared` is violated | 1 tab with 2 calls, 2 refreshes, 4 tokens |
| `speech_frames` | `FramesAreRead` is violated | 2 calls, 2 frames of audio |

The type invariants of Applications, Tasks, SubmissionWorkflow and VoiceSession, and
`StartedOnce`, `TimestampsTellTheStory` and `UtteranceIsOneSegment`, are proved and not run.

What `components` shows, per focus:

| Focus | Properties | Bounds |
|---|---|---|
| interviews | `OneVoiceSession`, `FollowsTransitionTable` | 3 callers |
| jobs | `UserDecisionKept`, `TierFitsScore` | 1 job with a score, 2 scorings by 2 scorers, 3 modes, answers 85, 97, 130 (out of range), 50 (disabled) and a failed call, 2 profiles |
| resumes | `VersionsAreRecoverable`, `LetterIsTraceable` | 2 writers, 1 content beside the empty one and the placeholder, 3 versions |
| emails | `EachMailActsOnce` | 3 mails in the mailbox, 3 deliveries, 1 stored mail |
| account | `ResetTokenSingleUse`, `AccountCacheCurrent`, `SessionsFollowThePassword` | 2 requests, 2 passwords, 1 reset token, 2 refresh tokens |
| sessions | `CookieIsCurrent` | 1 tab with 2 calls, 2 refreshes in flight, 4 tokens |
| profile | `ETagNamesTheProfile` | 2 tabs, 2 saves, 2 sections |
| settings | `OverridesInForce` | every key of the three tables, 2 onboarding forms |
| vad | `SpeechIsDelimited` | 2 participants, chunks of 1 and 2, onset 2, silence 3, maximum 6, 14 samples |
| brain | `WindowIsRecent`, `RepetitionIsNoticed` | 6 segments, 2 concurrent turns, window and lists of 2, room for 3 lines in the prompt |
| speech | `SpeechIsOwn` | 2 calls, 2 frames of audio |
| queries | `SettledIsShown` | 2 edits, every hook of 7 domains |
| forms | `OnlyEditsAreSaved` | 1 save, 1 override from elsewhere, 6 pairs of kinds of fields |
| endpoints | `RefusalChangesNothing` | every route, one request, its row deleted at any moment, an error at every step, the end of the process |
| scraping | `ChromiumIsContained`, `PostingsAreDistinct` | 2 scrapes, 2 postings, 2 pages, 2 launches |
| room | `FlagTellsTheRoom` | 2 deliveries (the task has 1 retry), every configuration of providers |

`UserDecisionKept` and `TierFitsScore` are checked on a row that has a score from the
start: since the read of a scoring refuses every row that was only imported (section 4), such
a row's score columns must have been filled outside this code.

Some properties except a race that the code does lose, and so cover what is left of the hazard:

* `SessionsFollowThePassword` excepts a token that a login or a rotation inserts after the
  revocation (`auth/service.go:311`). It shows that these are the only ones to outlive a
  change of password, not that there are none.
* `CookieIsCurrent` excepts a browser whose refreshes overlapped or lost an answer. Overlaps
  within one tab do happen (`refresh_overlap`), and two tabs share nothing.
* `RepetitionIsNoticed` excepts a question planned before the other turn had recorded its
  own (`session.ts:312`): it is about the memory, not about concurrent turns.
* `UserDecisionKept` excepts a decision between a scoring's read of the status and its write,
  and `TierFitsScore` two scorings of one job that crossed (`jobs/service.go:280`).

Why the bounds are enough. A race on a row needs a stale reader, a writer that
overtakes it and, for the trail, a third change on top: three actors and four events.
A retry meets the run it replaces with one retry, and the uncounted redelivery with one
shutdown; two retries were run once and add nothing but states. Three utterances are
one in flight and two waiting, the shortest queue in which order can go wrong. The
bounds `MaxEvents`, `MaxRestarts` and `MaxSegments` cap what the code leaves unbounded;
`MaxRetry` is a constant of the code (3 for most tasks), smaller here. Symmetry is used in
the runs `applications` and `submission` only, where the writers are interchangeable. The
races of the components need two of a kind, and a third event that makes the loser's
state matter: a later save, a second refresh, the token after next. `SettledIsShown` has an
exception, a fetch that an invalidation lets go on (`qcBlind`): the library does not
cancel the first fetch of a query, nor one nobody awaits.
`CHECK_DEADLOCK FALSE` is set because every component comes to rest: a settled task, a
final status, an answered request.

Each property of a passing run has a mutant in `PROJECT.json`: a plausible bug in a
definition of the model that makes the run fail.

## 4. Disagreements the runs show

* `applications_race`: the transition table is checked on a status read before the
  transaction. Two writers of a draft commit draft -> rejected -> queued. What remains
  true is `EveryChangeWasOnceLegal` and the chain.
* `tasks_out_of_sync`: one failed try makes a row `failed` for good; the retry's start
  and completion are refused, while the queue counts the task done.
* `rejected_approval`: rejecting a request leaves its application in draft.
* `stranded_approval`: an approval whose dispatch failed is final and can never be
  dispatched, although the API answers that it is queued for retry.
* `voice_unanswered`: an ordinary disconnection puts the session in `error` without an
  error event; nobody calls `stop()`, so the waiting request is never answered.
* `refresh_overlap`: `apiFetchWithRefresh` clears `pendingRefresh` in the `finally` of every
  call that waited for a refresh, when its repeated request ends. Another refresh may have
  been started since, and the next 401 starts one beside it, where the comment promises
  that only one call is made (`client.ts:108`). Both
  present the same token, and the backend ends the session of whoever reuses one.
* `speech_frames`: the reader of the daemon's frames looks at its buffer only when a chunk
  arrives. A frame that arrives whole is not read: "ready" and "done" time out, and the
  daemon is killed.

Seen while modelling, in code a property relies on, without a run of their own:

Voice session, room and providers:

* The planner's strategies `defer` and `clarify` never reach the responder, which lets the
  model choose; `getSegmentsToSummarize`, `applySummary` and `addFact` have no caller, and
  the brain never initializes its retriever although `retrieval.ts:5` says it does. The
  prompt's lists of topics and questions are cut at their newest end.
* The audio chunks before the one that confirms an onset, and the chunk that ends a
  segment, are not buffered. `vad.ts` reads samples at `data.byteOffset + i * 2` of a
  buffer that already starts there.
* Nobody calls `session.stop()`: a session in `error` is never cleaned up and "ended" is
  never sent. A failed `initPublish` leaves the participant in the room: `connect` forgets
  the room without leaving it. `disconnect()` does nothing once `connected` is false, so the
  streams and the source stay open after the server hung up. The agent is not told when the
  worker gives up its request.
* `createInterviewSessionFactory` ignores the payload's provider and model. There is no
  `config/voice.yaml`, its default path (the settings are in `application.yaml`), so the
  realtime provider is always the one chosen. The default `local.tts`, local-piper, can never
  be built, because its section is handed on only if it is named; `local-kokoro` without
  `local_tts` builds piper without a model, which throws.
* A session that fails answers 200 with `success: false`, and the task completes.
* The Go client sends no `X-Internal-Secret`, and the callback route is registered as
  `/internal/internal/interviews/:id/events`.
* `daemonReady` stays true after a time-out has killed Kokoro.

Scraping and forms:

* `scoreJobLinks` gives every link one score, so `discoverWithPagination` finds nothing, and
  `scrapeJobPagesConcurrent` is never reached. Greenhouse's `extractBoardToken` returns
  "boards". `fetchPage` turns a third failure into an empty page; an entry that cannot be
  mapped makes a page look like the last. The custom scraper answers any error with no
  postings; the platform is detected before the page is opened; contexts are closed at
  shutdown only; `closeBrowser` does not see a launch in flight.
* The server answers `scrape_errors`, the Go client reads `errors`. `/emails/check` is
  always 501. The handler of `/forms/fill` awaits the fill without a `try` (`server.ts:252`):
  its request is never answered when the fill throws.
* `detectFormFields` evaluates functions of its module in the page, where they do not
  exist (`detector.ts:217-226`), so every fill throws; a radio group would get its first
  option (`submitter.ts:298-299`).

Scoring:

* Nothing starts the scoring of a new posting, although the repository's `README.md:13` says
  "New postings are scored and ranked automatically": the import ignores the scoring service it is given
  (`handlers_job.go:32`, "reserved for future per-job scoring dispatch"), and
  `DispatchJobScoring` is called by `POST /scoring/score` and `/scoring/batch` only. No
  liveness property is stated of it, since no scheduling of this code would justify its
  fairness.
* A scoring that is asked for fails on a row that was only imported: `scoring/repository.go:60`
  scans `score_tier`, NULL until a scoring has written it
  (`migrations/004_jobs_score_tier.up.sql:2`), into a string. Every retry fails the same way.

Documents and mails:

* The resume prompt executes its templates with `data`, not with `tmplData` it has just
  filled (`resumes/llm.go:182-205`): the model never sees the job. The cover letter's prompt
  (`application.yaml:201-218`) names fields its data lack; the fallback prompt asks for text,
  and the answer is parsed as JSON.
* The placeholder of the disabled letter generator replaces a letter's text, and an empty
  answer is stored; the disabled resume generator always fails validation, the disabled
  tailor's placeholder is not validated. The result of a letter task names the version it
  read before the generation.
* `DispatchResumeGenerate`, `DispatchCoverLetterGen`, `DispatchResumeTailor`,
  `DispatchInterviewPrep`, `DispatchEmbeddingGenerate` and `DispatchEmailCheck` have no caller.

API:

* The browser client never sends an `Authorization` header, the only thing the middleware
  reads (`auth.ts:28-30` says a cookie): 401. `saveJob` sends `save`, the handler requires
  `saved` (`jobs/handler.go:333`): 400. `fetchJobApplications` expects an array and gets an
  object. CORS does not allow `If-Match` (`router.go:109`).
* When queueing fails `Workflow.Approve` returns no approval, and the handler builds its
  answer from it (`approvals/handler.go:222`); the router has no Recovery although
  `router.go:92` lists it. `main.go:208-234` passes bridges by value before they are filled:
  the resume, job and company of an application cannot be read.
* `RejectApproval` calls the service, not the workflow. `POST /tasks` creates a row and
  enqueues nothing (`tasks/handler.go:44`). Transcripts, scores and feedback are accepted
  after the end of an interview (`interviews/service.go:255`). A repeated scoring task
  creates another draft and another request (`handlers_job.go:296-306`), and the requests
  have no id of their own.
* Answers of 500 for what are conflicts or bad input: a status conflict in `StopInterview`,
  an unchanged password, an invalid tenant of an e-mail test, an invalid profile or
  classification, a malformed key of an override to be deleted, a missing job in the
  similarity search and the scoring route, the loser of a race of first setups.

Configuration and pages:

* `approval_tiers.*.action` may be overridden, but no value is accepted; the sum of the
  weights and the order of the thresholds are not checked when an override is set.
* The onboarding may send an e-mail tenant id, which is not an allowed key: the request
  fails after the entries before it were saved. `POST /api/auth/setup` of the route handler
  goes to the wrong path (`route.ts:322-328`), and the setup page never resumes an
  onboarding (`page.tsx:179`). The login page trims the password, the setup page does not.
* A profile form keeps the fields of its mount and sends the newest ETag
  (`lib/api/profile.ts:52`); a field cannot be cleared; `useUpdateProfile` has no caller.
  Nothing makes the row of `profiles` the only one.
* `ApprovalTiersSection` deletes an override outside its `try` (it then saves for ever), and
  before the later fields are validated; a partial save resets every field by its refetch and
  shows success beside the failure. The forms admit empty values that the backend refuses; a
  failed refetch replaces the whole page.
* `useDeleteResume` and `useDeleteCoverLetter` leave the cached detail; approving and
  applying do not invalidate the applications. `apiFetchWithRefresh` turns every error of
  the repeated request into a failed refresh.

## 5. Fairness

Only liveness properties use it. `Tasks`: asynq delivers waiting messages, its deadlines
fire and its recoverer looks for lost leases; nothing is assumed of the handlers, which
is what makes `EveryMessageSettles` worth having. `SubmissionWorkflow` (for the refuted
property): somebody keeps approving, and neither requests nor workers stop between two
steps; even so the submission stays undispatched. `VoiceSession`: promises of the
external providers settle and the request that created a session starts it; nobody
promises to speak, to hang up or to call `stop()`.

## 6. Proofs

Every safety invariant and every action property the passing runs check holds for all values
of the constants that the named assumptions of the modules admit. The assumptions are about
types (a bound is a number, a mailbox a sequence, each constant text has one of the planner's
kinds, what the scoring compares are finite sets of keywords and a list of roles), repeat what
`Config.validate` refuses (thresholds out of order, a negative weight), and say that tokens
differ from the absence of a cookie and the callers of one application from each other. Bounds that
exist for TLC only (`MaxEvents`, `MaxScorings`, `MaxVersion`, `MaxHeard`, `MaxSamples`,
`MaxLaunches` and the like) are constants, too, so the theorems do not depend on them.

Each proof follows one pattern: an inductive invariant that adds to the
properties what a step in progress knows, a lemma per action that it is preserved, and the
properties as its consequences. The theorems about a component of `Components` are about the
component's own specification (`JobsSpec`, `ResumesSpec`, ...). `ComponentsImplementEach`
carries them over: every step of `Components` is one of the component in focus and leaves the
others alone. `ComponentsType`, `BackendCorrect` and `ClientsCorrect` state the properties of
the run `components` for all constants at once.

Applications. The inductive invariant adds to the four properties what a writer in
progress knows: its `from` and `at` are positions of the trail, the status it saw in its
transaction is the one the trail had at `at`, and the change it was allowed to make was
legal at `from`. The guard `status = seen` then makes the new event continue the chain.
For the timeline: the table never returns to a status, so on a legal trail the
status seen at `at` can be the current one only if nothing was committed since.

Interviews. The invariant adds that a writer inside its transaction validated the
transition from the status it saw, that its `now` lies between one and the changes so
far plus one, and after `started_at` if it saw the session active; and that at most one
caller is between the commit of a start and its dispatch, while no task exists yet. The
table enters `starting` from `pending` only, so a second start cannot commit. Steps of
the row are then steps of the table, which gives the refinement.

Tasks. Every delivery is paid for, by the enqueue, by a retry or by a shutdown: the number
of works and that of runs which have not worked yet, a cardinality, is within the number of
deliveries. Only the last delivery is asynq's. Once the dispatch has succeeded, a copy of
the row held by a call with a live context is the row, so its unguarded write overwrites
nothing.

SubmissionWorkflow. At most one request is past the commit of the approval; `approval`
leaves `pending` once, and every form filled is paid for by a delivery of that one request.
The part about the application itself is not proved again: every step is a step of the
instance `App` or leaves it alone (`UsesApplications`), and `Applications_proofs` is cited
through it. `ActorsAssumption` says that requests, workers and other writers are different
callers.

VoiceSession. The queue is sorted by arrival, the utterance being processed came before
all of it, and all earlier ones are over; there is one turn at a time. This is the separate
speech-to-text pipeline; a realtime provider starts its turns concurrently, and `InOrder`
and `FloorIsTrue` claim nothing of it.

VoiceRoom. For each agent, where its `start()` stands determines what its transport's flag
may be, given what the room knows of it (`Sound`). A step of one agent keeps the other
sound; LiveKit, which may drop a participant at any moment, leaves an event to come, and
until it is handled the flag is allowed to lag.

Account. `AccountInv` is a conjunction: before the first setup there are no tokens and no
sessions (`SetupInv`); the copy is never ahead of the row (`VersionInv`) and is the row, or
is known to be stale (`CacheInv`); a request about to issue a token was verified against the
present password or has been overtaken by a change of it (`LoginInv`); a reset token is
claimed before it is used, by one request (`ResetInv`).

Voice activity detection. The invariant `VADInv` relates the counters to one another
(`VADNumbers`) and to the history, separately for a detector outside a segment
(`BetweenSegments`: the run of loud samples is the counter above the threshold, the last
segment ended with its last talk) and inside one (`InSegment`: the silence so far is the
distance to the last loud chunk). Whoever is heard besides the interviewer changes nothing,
and the buffer has audio of the open segment or is empty. `MaxSamples` bounds
the recording for TLC only.

Jobs. `JobsInv` says what a scoring in progress knows of its job, as long as no decision
raced with it and no other scoring crossed it: past the read of the status, the job is one the user had
decided about only if the status it saw says so (`RespectsUser`), and the tier in the row is
that of the score it is about to write (`AgreesOnTier`). These two need nothing of
the score the heuristic computes, nor of the model's answer. That it is a whole percent
(`HeuristicIsPercent`, `JobsType`) is a fact about the arithmetic: a share of a finite set lies
between 0 and 100; of n scores there is a k-th best for every k up to n (`KthBest`), so the
mean of the three best roles is a number; the weighted mean is clamped.

Resumes. Three things are kept together (`DocInv`): what is saved under a version is what
the document had in it (`Kept`); the version a writer read is one the document had and, once
its snapshot was taken, one that is saved or whose insert failed (`Read`); the text of a
letter and the resume version it names belong together, in the row and in the hands of a
writer that waits for the model (`Traces`). The compare-and-set UPDATE then turns a snapshot
of what was read into one of what is replaced.

Emails. The transition table only leads further along the pipeline (`Progress`), and the
statuses mails lead to are distinct steps of it: a mail that has acted once finds the
application at or past its target, and cannot act again. The mails before the one the task
is at have acted if they ask for it. `mailBent` excepts a change of status the table forbids,
which a race of two writers can bring about (`applications_race`).

Settings. What is stored under a key was accepted for it or is a secret of the onboarding
(`StoredInv`). The rest is a comparison of three tables of the code, row by row: every type
the checks accept is one that a setter converts.

Endpoints. The invariant relates what a request has still to do to what it has done. A
handler is `Careful` if all its steps before a condition are quiet, that is, change
nothing that matters, and so are the steps before a look for the row, unless the row was
found by then and nobody deletes such rows. That each of the handlers is careful is
proved table by table, from lemmas about handlers of one to six steps; that a careful handler
stays careful when its first step is done, behind any chain of middleware, and while the row
is deleted, is proved once. `RefreshReused` is the one route that ends in a refusal after a
write; what it changes is named in the property.

Sessions. Without overlap (`webOverlap`) at most one refresh is under way, and an answer
that sets the cookie brings the token the backend accepts (`SessionsInv`).

QueryCache. What the cache shows when it is fresh, and what an answer on its way will show,
are edits the row has taken, and all those whose hooks refetched the query (`Shows`). An
optimistic patch may show more, but a mutation that invalidates the detail is then still
under way (`WillSettle`), which depends on a fact about every hook: who patches the
detail invalidates it.

ConfigForms. A field nobody has typed in shows the cached configuration (`ShowsData`), what
a save closed over differs from it only where something was typed (`EditSound`), and the
fields a save has passed were not refused and are not cleared (`SaveSound`).

Profile. As long as there is one row, a profile that a tab or a request holds is the row's,
or one of an earlier version (`Current`), so a matching ETag means that the row is what
was shown. `profBlind` stays false until a second row exists. For the bounds on versions
(`ProfileType`) the proof counts: a version that is held or stored exceeds the number of saves
made so far by at most one, and that a save replaces is at most its own number
(`VersionsCounted`).

SpeechDaemon. Unless a call was given up while the daemon went on (`ttsAbandoned`),
everything in both pipes is the current call's (`AllIsOf`); the frame that ends an answer is
the last in the pipe (`LastFrameEnds`), and has not been written while the daemon has
something left to say (`OnlyAudioYet`). Between calls the pipes are empty. How the writes are
cut into chunks does not matter: the reader takes parts of frames.

Brain. The window is the end of what was heard, without a gap, and all of it or at least
`max_recent_segments` (`WindowSound`); a question is where the questions recorded since have
moved it, as long as the list holds it (`QuestionsSound`).

Scraping. For a scrape, what the place it is at says of what it has found and answered
(`ScrapeSound`); for the browser, that the shared one is the one that runs, or a launch is
under way that everybody waits for, or none is up (`BrowserSound`); for the contexts, that they are
of the browser that runs, and Indeed's are closed before it answers (`ContextsSound`).
`deduplicate` keeps a posting where it comes first; that its result has none twice is a lemma
about sequences.

Only model-checked: all liveness, because fairness and ENABLED are outside the prover's
reach, and what the runs that expect a violation refute.

## 7. Not modelled

Contents and presentation: what messages, forms, transcripts and documents say; logging;
pagination and the numbers of statistics; the values of the YAML file; the last login, the
stored step of the onboarding and the cleanup of expired tokens; the payloads of interview
events. Of the pages, what is wording, layout or selectors: it has no state that outlives a
render.

Computed elsewhere: the similarity queries of rag and embeddings (the database), the token
buckets of the rate limit (a library, here a check that may refuse). The providers of
speech other than Kokoro are thin clients of external programs and services; what the
session sees of them is in VoiceSession and VoiceRoom.

Unreachable: the PDF keys (`UpdatePdfKey` and `UpdateCoverLetterPdfKey` have no caller), the
tasks nothing dispatches (tailoring, interview preparation, embeddings), the setup wizard
(its first request answers 400, and `proxy.ts` redirects an authenticated user away from
it), the form filler (every fill throws; it is the `Fill` step of SubmissionWorkflow, which
assumes it works), `session.stop()` of the agent (VoiceSession keeps it as an action,
VoiceRoom leaves it out).

Assumed of the database: a committed transaction is atomic, and an UPDATE with a WHERE
on the status locks the row.

## 8. Plan

1. Interview payloads after a terminal status; `ApplyJob` as a second entry to the
   submission (composition with SubmissionWorkflow); the summarisation once it has a
   caller.
2. Proofs: that the statuses of Jobs and Emails implement `StatusMachine` where the code
   follows its table.
