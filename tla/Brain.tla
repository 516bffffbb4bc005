-------------------------------- MODULE Brain --------------------------------
(***************************************************************************)
(* The interview brain, browser-agent/src/voice/brain: what it remembers   *)
(* of the conversation and how it plans an answer.  An answer is planned at*)
(* once and recorded when the model has answered; a realtime provider's    *)
(* transcripts are answered concurrently, each in a turn of its own.       *)
(***************************************************************************)
EXTENDS Integers, FiniteSets, Sequences

CONSTANTS Texts,               \* what may be said; every speaker is a "user"
          Kind,                \* of a text: noise, sensitive, clarification or plain
          Words,               \* of a text: its content words
          SmallTalk,           \* texts the responder does not ask the model about
          Turns,
          max_recent_segments, max_accumulated_items,
          TranscriptLines,     \* lines the transcript section of a prompt has room for
          MaxHeard             \* bound: segments heard

ASSUME BrainAssumption ==
    /\ Kind \in [Texts -> {"noise", "sensitive", "clarification", "plain"}]
    /\ \A t \in Texts : IsFiniteSet(Words[t])
    /\ max_recent_segments \in Nat \ {0} /\ max_accumulated_items \in Nat \ {0}
    /\ TranscriptLines \in Nat /\ MaxHeard \in Nat

VARIABLES brnReady,            \* initialized
          brnHeard,            \* number of segments heard; a segment is its number
          brnWindow,           \* recentTranscript
          brnQuestions, brnTopics,
          brnTurn,             \* text and plan of each answer being generated
          brnSince,            \* history: questions recorded since a text was, at most
                               \*   max_accumulated_items of them
          brnAgain             \* history: texts planned afresh although recorded since
brainVars == <<brnReady, brnHeard, brnWindow, brnQuestions, brnTopics, brnTurn, brnSince, brnAgain>>

-----------------------------------------------------------------------------
TurnFree == [plan |-> "none"]
Plans == {"defer", "clarify", "repeated", "reference", "answer"}
BrainTurns == {TurnFree} \cup [plan : Plans, text : Texts]

BrainInit ==
    /\ brnReady = FALSE /\ brnHeard = 0 /\ brnWindow = <<>>
    /\ brnQuestions = <<>> /\ brnTopics = <<>>
    /\ brnTurn = [c \in Turns |-> TurnFree]
    /\ brnSince = [t \in Texts |-> max_accumulated_items]
    /\ brnAgain = {}

elements(s) == {s[i] : i \in DOMAIN s}

\* At least half of all words are shared, the default duplicateThreshold.
keywordOverlap(a, b) ==
    a # {} /\ b # {} /\ 2 * Cardinality(a \cap b) >= Cardinality(a \cup b)

isDuplicateQuestion(text) == \E q \in elements(brnQuestions) : keywordOverlap(Words[text], Words[q])
isCoveredTopic(text) == \E q \in elements(brnTopics) : Words[text] \cap Words[q] # {}

\* The strategy; noise gets no response at all.
planResponse(text) ==
    CASE Kind[text] = "sensitive"     -> "defer"
      [] Kind[text] = "clarification" -> "clarify"
      [] Kind[text] = "plain" ->
            IF isDuplicateQuestion(text) THEN "repeated"
            ELSE IF isCoveredTopic(text) THEN "reference" ELSE "answer"

addItemIfRoom(list, item, n) ==            \* a full list takes nothing more
    IF Len(list) >= n THEN list ELSE Append(list, item)
\* push, after a shift when the list is full: the newest n entries.
addItem(list, item, n) ==
    IF Len(list) >= n THEN Append(Tail(list), item) ELSE Append(list, item)

addSegmentKeepsOld(window, segment) ==     \* the wrong end is cut off
    LET pushed == Append(window, segment)
    IN IF Len(pushed) > 2 * max_recent_segments THEN SubSeq(pushed, 1, max_recent_segments) ELSE pushed
\* push; a window of more than twice the maximum is cut to the maximum.
addSegment(window, segment) ==
    LET pushed == Append(window, segment)
    IN IF Len(pushed) > 2 * max_recent_segments
       THEN SubSeq(pushed, Len(pushed) - max_recent_segments + 1, Len(pushed)) ELSE pushed

-----------------------------------------------------------------------------
\* Nobody initializes the retriever: its cache stays empty, and so is what it
\* finds of the resume, the job, the application and the company.
retrieve == {}

\* The newest lines that fit.
truncateFromEnd(lines, n) == IF Len(lines) <= n THEN lines ELSE SubSeq(lines, Len(lines) - n + 1, Len(lines))

\* What the model is shown besides the question; a window that the responder
\* has no room for is cut once more.
buildPrompt == [context |-> retrieve, transcript |-> truncateFromEnd(brnWindow, TranscriptLines),
                topics |-> brnTopics, questions |-> brnQuestions]

requiresResponse(text) == text \notin SmallTalk

\* What the call of the model comes to: an error, a well-formed reply that
\* answers or does something else, one that is not well-formed but prose or JSON
\* with a readable speech, or nothing of use.
Replies == {"failed", "answer", "other", "salvageable", "unusable"}

\* What can be salvaged is taken for an answer; else "Could you repeat the
\* question?"
fallbackResponse(reply) == IF reply = "salvageable" THEN "answer" ELSE "clarify"
parseResponse(reply) == IF reply \in {"answer", "other"} THEN reply ELSE fallbackResponse(reply)

\* The strategy of the response.  The model chooses it; the plan's is not used.
generate(text, reply) == IF requiresResponse(text) THEN parseResponse(reply) ELSE "silent"

-----------------------------------------------------------------------------
BrainInitialize ==
    /\ ~brnReady /\ brnReady' = TRUE
    /\ UNCHANGED <<brnHeard, brnWindow, brnQuestions, brnTopics, brnTurn, brnSince, brnAgain>>

\* The answers under way and the memory go on.
BrainDestroy ==
    /\ brnReady /\ brnReady' = FALSE
    /\ UNCHANGED <<brnHeard, brnWindow, brnQuestions, brnTopics, brnTurn, brnSince, brnAgain>>

\* respond, up to the call of the model.  Before initialize it answers a fixed
\* sentence and remembers nothing.
Respond(c, text) ==
    /\ brnReady /\ brnTurn[c] = TurnFree /\ brnHeard < MaxHeard
    /\ brnHeard' = brnHeard + 1
    /\ brnWindow' = addSegment(brnWindow, brnHeard + 1)
    /\ IF Kind[text] = "noise"
       THEN UNCHANGED <<brnTurn, brnAgain>>
       ELSE /\ brnTurn' = [brnTurn EXCEPT ![c] = [plan |-> planResponse(text), text |-> text]]
            /\ brnAgain' = IF /\ planResponse(text) \in {"answer", "reference"}
                              /\ brnSince[text] < max_accumulated_items
                           THEN brnAgain \cup {text} ELSE brnAgain
    /\ UNCHANGED <<brnReady, brnQuestions, brnTopics, brnSince>>

\* The rest of respond.
Generated(c, reply) ==
    LET text == brnTurn[c].text
    IN /\ brnTurn[c] # TurnFree
       /\ brnTopics' = IF generate(text, reply) = "answer"
                       THEN addItem(brnTopics, text, max_accumulated_items) ELSE brnTopics
       /\ brnQuestions' = addItem(brnQuestions, text, max_accumulated_items)
       /\ brnSince' = [t \in Texts |-> IF t = text THEN 0
                                       ELSE IF brnSince[t] < max_accumulated_items THEN brnSince[t] + 1
                                       ELSE max_accumulated_items]
       /\ brnTurn' = [brnTurn EXCEPT ![c] = TurnFree]
       /\ UNCHANGED <<brnReady, brnHeard, brnWindow, brnAgain>>

BrainNext ==
    \/ BrainInitialize \/ BrainDestroy
    \/ \E c \in Turns :
          \/ \E text \in Texts : Respond(c, text)
          \/ \E reply \in Replies : Generated(c, reply)

BrainSpec == BrainInit /\ [][BrainNext]_brainVars

-----------------------------------------------------------------------------
BrainTypeOK ==
    /\ brnReady \in BOOLEAN /\ brnHeard \in 0..MaxHeard
    /\ elements(brnWindow) \subseteq 1..MaxHeard
    /\ elements(brnQuestions) \cup elements(brnTopics) \subseteq Texts
    /\ brnTurn \in [Turns -> BrainTurns]
    /\ brnSince \in [Texts -> 0..max_accumulated_items] /\ brnAgain \subseteq Texts

\* What the model is shown of the conversation is its end, without a gap and
\* with the question itself: the last segments, max_recent_segments of them if
\* as many were heard and there is room, across any number of cuts of the memory
\* and of the prompt (nothing summarises the rest: getSegmentsToSummarize has no
\* caller).
WindowIsRecent ==
    LET shown == buildPrompt.transcript
        n == Len(shown)
    IN /\ Len(brnWindow) <= 2 * max_recent_segments
       /\ n >= max_recent_segments \/ n = TranscriptLines \/ n = brnHeard
       /\ \A i \in 1..n : shown[i] = brnHeard - n + i

\* A question is not answered twice as if it were new: once its answer is
\* recorded, the same question is planned as a repetition until as many others
\* as the memory holds were recorded.  Two that are asked before the first answer
\* is there are both planned afresh, as are texts without a content word.
RepetitionIsNoticed == \A t \in brnAgain : Words[t] = {}
=============================================================================
