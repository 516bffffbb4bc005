---------------------------- MODULE VoiceSession ----------------------------
(***************************************************************************)
(* One voice interview of the browser agent: the session orchestrator, its *)
(* audio queue and the HTTP request that waits for the interview to end    *)
(* (browser-agent/src/voice/session.ts, queue.ts and server.ts).           *)
(*                                                                         *)
(* The program is single threaded: an action runs from one await to the    *)
(* next, and every transport or provider event may come in between.  A     *)
(* segment is one utterance of the interviewer; what it says, the voice    *)
(* activity detection and the resampling are left out.  With separate      *)
(* speech-to-text the queue feeds segments one at a time to the brain; a   *)
(* realtime provider hands over transcripts as they come.                  *)
(***************************************************************************)
EXTENDS Naturals, Sequences

CONSTANT MaxSegments   \* bound: utterances heard in one session

ASSUME SegmentsAssumption == MaxSegments \in Nat

VARIABLES realtime,    \* deps.realtime is present
          state,       \* _state
          stopping,    \* _stopping
          starting,    \* which await start() is at
          connected,   \* transport.connected
          stops,       \* calls of stop() inside cleanup()
          queue,       \* segments waiting in the audio queue
          processing,  \* _processing of the audio queue
          stage,       \* how far each segment has come
          outcome      \* what the request's sessionPromise resolved to

lifeVars  == <<starting, connected, stops, stopping>>
audioVars == <<queue, processing, stage>>
vars == <<realtime, state, lifeVars, audioVars, outcome>>

Segments == 1 .. MaxSegments

SessionState == {"idle", "connecting", "listening", "thinking", "speaking", "ended",
                 "error", "reconnecting"}

SessionTransitions ==
    [idle         |-> {"connecting"},
     connecting   |-> {"listening", "error", "ended"},
     listening    |-> {"thinking", "speaking", "error", "ended"},
     thinking     |-> {"speaking", "listening", "error", "ended"},
     speaking     |-> {"listening", "error", "ended"},
     ended        |-> {},
     error        |-> {"ended"},
     reconnecting |-> {"listening", "error", "ended"}]

StartPcs == {"none", "transport", "brain", "providers", "returned", "cleanup", "threw"}
Stages   == {"new", "queued", "stt", "brain", "speak", "done", "dropped"}

Init ==
    /\ realtime \in BOOLEAN /\ state = "idle" /\ stopping = FALSE
    /\ starting = "none" /\ connected = FALSE /\ stops = 0
    /\ queue = <<>> /\ processing = FALSE /\ stage = [s \in Segments |-> "new"]
    /\ outcome = "pending"

Live  == state \notin {"ended", "error"}
\* Transport events reach the session (after a failed start() it ignores them).
Wired == starting \notin {"none", "transport"}

-----------------------------------------------------------------------------
\* setState: a transition that is not listed is blocked with a warning.
After(to) == IF to \in SessionTransitions[state] THEN to ELSE state
SetState(to) == state' = After(to)

Resolve(result) == outcome' = IF outcome = "pending" THEN result ELSE outcome

\* setState("error", {error}): listeners get an "error" event if it was allowed.
Fail == /\ SetState("error")
        /\ IF After("error") # state THEN Resolve("failed") ELSE UNCHANGED outcome

-----------------------------------------------------------------------------
\* The lifecycle.  Each await of start() may succeed or throw; nothing that
\* happens in between (an error, a stop) makes start() give up.  A room lost
\* before connect() returns is lost unnoticed: its events are wired afterwards.
Start ==
    /\ state = "idle"
    /\ SetState("connecting")
    /\ stopping' = FALSE
    /\ starting' = "transport"
    /\ UNCHANGED <<realtime, connected, stops, audioVars, outcome>>

StartContinues ==
    \/ /\ starting = "transport"
       /\ starting' = "brain" /\ connected' \in BOOLEAN
       /\ UNCHANGED <<realtime, state, stops, stopping, audioVars, outcome>>
    \/ /\ starting = "brain"
       /\ starting' = "providers"
       /\ UNCHANGED <<realtime, state, connected, stops, stopping, audioVars, outcome>>
    \/ /\ starting = "providers"
       /\ starting' = "returned"
       /\ SetState("listening")
       /\ UNCHANGED <<realtime, connected, stops, stopping, audioVars, outcome>>

StartFails ==
    /\ starting \in {"transport", "brain", "providers"}
    /\ Fail
    /\ starting' = "cleanup"
    /\ UNCHANGED <<realtime, connected, stops, stopping, audioVars>>

\* transport.disconnect() at the end of cleanup(); the session hears of it.
Disconnect ==
    /\ connected' = FALSE
    /\ state' = IF connected /\ Wired /\ Live THEN After("error") ELSE state

StartThrows ==
    /\ starting = "cleanup"
    /\ Disconnect
    /\ starting' = "threw"
    /\ UNCHANGED <<realtime, stops, stopping, audioVars, outcome>>

StopWithoutClear ==                        \* queue.clear() is forgotten
    /\ state # "ended" /\ ~stopping
    /\ stopping' = TRUE /\ stops' = stops + 1
    /\ SetState("ended")
    /\ UNCHANGED <<realtime, starting, connected, audioVars, outcome>>
\* stop(): everything before cleanup's first await, then the rest.
Stop ==
    /\ state # "ended" /\ ~stopping
    /\ stopping' = TRUE /\ stops' = stops + 1
    /\ SetState("ended")
    /\ queue' = <<>> /\ processing' = FALSE
    /\ stage' = [s \in Segments |-> IF stage[s] = "queued" THEN "dropped" ELSE stage[s]]
    /\ UNCHANGED <<realtime, starting, connected, outcome>>

StopReturnsSilently ==                     \* "ended" only while still connected
    /\ stops > 0 /\ stops' = stops - 1
    /\ Disconnect
    /\ IF connected THEN Resolve("ended") ELSE UNCHANGED outcome
    /\ UNCHANGED <<realtime, starting, stopping, audioVars>>
StopReturns ==
    /\ stops > 0 /\ stops' = stops - 1
    /\ Disconnect
    /\ Resolve("ended")
    /\ UNCHANGED <<realtime, starting, stopping, audioVars>>

-----------------------------------------------------------------------------
\* Events.  A disconnection carries no error object, so nobody hears of it.
Disconnected ==
    /\ connected /\ Wired
    /\ Disconnect
    /\ UNCHANGED <<realtime, starting, stops, stopping, audioVars, outcome>>

TransportError ==
    /\ Wired
    /\ Fail
    /\ UNCHANGED <<realtime, lifeVars, audioVars>>

ProviderWired == starting \notin {"none", "transport", "brain"}

RealtimeError ==
    /\ realtime /\ ProviderWired
    /\ Fail
    /\ UNCHANGED <<realtime, lifeVars, audioVars>>

-----------------------------------------------------------------------------
\* The audio queue.
ProcessNext(q, st) ==
    IF q = <<>>
    THEN processing' = FALSE /\ queue' = q /\ stage' = st
    ELSE processing' = TRUE /\ queue' = Tail(q) /\ stage' = [st EXCEPT ![Head(q)] = "stt"]

\* The promise of a segment settles, whichever way: the next one starts.
FinishOnSuccessOnly(s) ==                  \* catch() does not go on
    IF stage[s] = "stt" THEN stage' = [stage EXCEPT ![s] = "done"] /\ UNCHANGED <<queue, processing>>
    ELSE ProcessNext(queue, [stage EXCEPT ![s] = "done"])
Finish(s) ==
    IF realtime THEN stage' = [stage EXCEPT ![s] = "done"] /\ UNCHANGED <<queue, processing>>
    ELSE ProcessNext(queue, [stage EXCEPT ![s] = "done"])

Upcoming(s) == stage[s] = "new" /\ \A t \in Segments : t < s => stage[t] # "new"

\* The end of an utterance, in handleIncomingAudio.
HearParallel(s) ==                         \* the queue does not wait its turn
    /\ ~realtime /\ Upcoming(s)
    /\ state \in {"listening", "speaking"}
    /\ ProcessNext(Append(queue, s), [stage EXCEPT ![s] = "queued"])
    /\ UNCHANGED <<realtime, state, lifeVars, outcome>>
Hear(s) ==
    /\ ~realtime /\ Upcoming(s)
    /\ state \in {"listening", "speaking"}
    /\ IF processing
       THEN /\ queue' = Append(queue, s) /\ stage' = [stage EXCEPT ![s] = "queued"]
            /\ UNCHANGED processing
       ELSE ProcessNext(Append(queue, s), [stage EXCEPT ![s] = "queued"])
    /\ UNCHANGED <<realtime, state, lifeVars, outcome>>

\* handleTranscript, called by a realtime provider: nothing serialises it.
HearRealtime(s) ==
    /\ realtime /\ ProviderWired /\ Upcoming(s)
    /\ stage' = [stage EXCEPT ![s] = IF Live THEN "brain" ELSE "done"]
    /\ UNCHANGED <<realtime, state, lifeVars, queue, processing, outcome>>

\* Speech-to-text ends: a transcript for handleTranscript, none, or an error.
Transcribed(s) ==
    /\ stage[s] = "stt"
    /\ \/ Live /\ stage' = [stage EXCEPT ![s] = "brain"] /\ UNCHANGED <<queue, processing>>
       \/ Finish(s)
    /\ UNCHANGED <<realtime, state, lifeVars, outcome>>

\* brain.respond ends and handleBrainResponse runs: an error, silence, speech,
\* or neither.
Responded(s) ==
    /\ stage[s] = "brain"
    /\ \/ Finish(s) /\ Fail
       \/ Live /\ Finish(s) /\ SetState("listening") /\ UNCHANGED outcome
       \/ Live /\ SetState("speaking") /\ stage' = [stage EXCEPT ![s] = "speak"]
          /\ UNCHANGED <<queue, processing, outcome>>
       \/ Finish(s) /\ UNCHANGED <<state, outcome>>
    /\ UNCHANGED <<realtime, lifeVars>>

SpokenForgetsState(s) ==                   \* the floor is not given back
    /\ stage[s] = "speak"
    /\ Finish(s) /\ UNCHANGED <<state, outcome>>
    /\ UNCHANGED <<realtime, lifeVars>>
\* speakText ends; only a realtime provider reports its error.
Spoken(s) ==
    /\ stage[s] = "speak"
    /\ Finish(s)
    /\ \/ state' = (IF state = "speaking" THEN After("listening") ELSE state) /\ UNCHANGED outcome
       \/ realtime /\ Fail
    /\ UNCHANGED <<realtime, lifeVars>>

-----------------------------------------------------------------------------
Next == \/ Start \/ StartContinues \/ StartFails \/ StartThrows
        \/ Stop \/ StopReturns
        \/ Disconnected \/ TransportError \/ RealtimeError
        \/ \E s \in Segments : \/ Hear(s) \/ HearRealtime(s)
                               \/ Transcribed(s) \/ Responded(s) \/ Spoken(s)

\* Assumed of the external providers: an awaited promise settles.  The request
\* calls start(); nobody promises to call stop(), to speak or to hang up.
Fairness == /\ WF_vars(Start) /\ WF_vars(StartContinues) /\ WF_vars(StartThrows)
            /\ WF_vars(StopReturns)
            /\ \A s \in Segments : /\ WF_vars(Transcribed(s))
                                   /\ WF_vars(Responded(s))
                                   /\ WF_vars(Spoken(s))

Spec == Init /\ [][Next]_vars
FairSpec == Spec /\ Fairness

-----------------------------------------------------------------------------
\* The state is one of the table's, and everything else has its shape.
TypeOK ==
    /\ realtime \in BOOLEAN /\ stopping \in BOOLEAN
    /\ connected \in BOOLEAN /\ processing \in BOOLEAN
    /\ state \in SessionState
    /\ starting \in StartPcs
    /\ stops \in 0 .. 2
    /\ queue \in Seq(Segments)
    /\ stage \in [Segments -> Stages]
    /\ outcome \in {"pending", "failed", "ended"}

\* "FIFO order guarantees: segment N completes before segment N+1 starts", for
\* the whole way of a segment from speech-to-text to the spoken answer, whatever
\* errors, disconnections and stop() do to the flags in between.
InOrder ==
    ~realtime => \A s, t \in Segments :
        s < t /\ stage[t] \in {"stt", "brain", "speak", "done"} => stage[s] \in {"done", "dropped"}

\* The state tells who has the floor: "speaking" while an answer is being
\* spoken, unless the session failed or ended under it, and never otherwise.
FloorIsTrue ==
    ~realtime =>
        /\ state = "speaking" => \E s \in Segments : stage[s] = "speak"
        /\ \A s \in Segments : stage[s] = "speak" => state \in {"speaking", "error", "ended"}

\* Once stop() was called nothing is transcribed, answered or spoken any more:
\* what was in flight may finish its await and then ends.
NothingAfterEnd ==
    [][state = "ended" => \A s \in Segments : stage'[s] # stage[s] => stage'[s] = "done"]_vars

\* An utterance in the queue is never stuck there: the session may fail and
\* providers may throw, the queue goes on or is cleared.
EveryUtteranceSettles ==
    \A s \in Segments : (stage[s] = "queued") ~> (stage[s] \in {"done", "dropped"})

Answered == starting = "threw" \/ (starting = "returned" /\ outcome # "pending")

\* stop() always lets the waiting request answer, whatever start() is doing.
EndAnswersRequest == (state = "ended") ~> Answered

\* "Long-running endpoint - blocks until the interview completes": a session
\* that failed answers its request.  A plain disconnection emits no "error",
\* nobody calls stop(), and the request waits for ever.
FailureAnswersRequest == (state = "error") ~> Answered
=============================================================================
