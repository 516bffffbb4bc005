SPECIFICATION ComponentsSpec
CONSTANTS
    Callers = {i1, i2, i3}
    AutoThreshold = 95
    ReviewThreshold = 80
    HybridRejectMargin = 20
    Weights <- MCWeights
    JobIds = {j1}
    Seeded = {j1}
    Posting <- MCPosting
    Profiles <- MCProfiles
    Modes = {"heuristic", "hybrid", "llm"}
    Answers = {85, 97, 130}
    Scorers = {w1, w2}
    MaxApplications = 1
    MaxScorings = 2
    Writers = {d1, d2}
    Contents = {c1}
    MaxVersion = 3
    Messages = {m1}
    Labels = {"interview", "offer", "junk"}
    Mailbox <- MCMailbox
    CheckDeliveries = 3
    Requests = {r1, r2}
    Passwords = {"p1", "p2"}
    ResetTokens = {1}
    RefreshTokens = {1, 2}
    MaxSessionVersion = 3
    Sections = {"skills", "links"}
    ProfileTabs = {b1, b2}
    MaxSaves = 2
    Tabs = {t1}
    Calls = {k1, k2}
    Refreshes = {f1, f2}
    WebTokens = {1, 2, 3, 4}
    Participants = {v1, v2}
    ChunkLengths = {1, 2}
    Onset = 2
    Silence = 3
    MaxSpeech = 6
    MaxSamples = 14
    Texts = {"stack", "team", "size", "how", "pay", "mhm"}
    Kind <- MCKind
    Words <- MCWords
    SmallTalk = {"team"}
    Turns = {a1, a2}
    max_recent_segments = 2
    max_accumulated_items = 2
    TranscriptLines = 3
    MaxHeard = 6
    Forms <- MCForms
    Savers = {s1}
    MaxCalls = 2
    MaxAudio = 2
    MaxEdits = 2
    MaxSubmits = 1
    MaxElsewhere = 1
    Scrapes = {q1, q2}
    Postings = {p1, p2}
    MAX_PAGES = 2
    PAGE_SIZE = 1
    JSONLD_MIN_THRESHOLD = 2
    MaxBoardPages = 2
    MaxLaunches = 2
    Deliveries = 2
INVARIANTS
    ComponentsTypeOK
    OneVoiceSession
    UserDecisionKept
    TierFitsScore
    VersionsAreRecoverable
    LetterIsTraceable
    EachMailActsOnce
    ResetTokenSingleUse
    AccountCacheCurrent
    SessionsFollowThePassword
    CookieIsCurrent
    SpeechIsDelimited
    FlagTellsTheRoom
    WindowIsRecent
    RepetitionIsNoticed
    OverridesInForce
    ETagNamesTheProfile
    SpeechIsOwn
    SettledIsShown
    OnlyEditsAreSaved
    RefusalChangesNothing
    ChromiumIsContained
    PostingsAreDistinct
PROPERTY FollowsTransitionTable
VIEW InFocus
CHECK_DEADLOCK FALSE
