------------------------------ MODULE VoiceRoom ------------------------------
(***************************************************************************)
(* The voice_session task of one interview and the LiveKit room it is held *)
(* in.  The worker (cmd/worker/handlers_application.go, browser_agent.go)  *)
(* asks the browser agent for the interview and asks once more when that   *)
(* failed or took too long; the agent builds a session for each request    *)
(* (voice/factory.ts, voice/providers/factory.ts) and joins the room       *)
(* through a transport of its own (voice/livekit.ts).  Nobody tells it     *)
(* that the worker has given up.  LiveKit is external: it keeps one        *)
(* participant of each identity, the newest, and both requests of an       *)
(* interview come with the same.  What a session does once it has started  *)
(* is the subject of VoiceSession; here it may report an error.            *)
(***************************************************************************)
EXTENDS Naturals, FiniteSets

CONSTANT Deliveries          \* how often the task is delivered: 1 + its retries

ASSUME DeliveriesAssumption == Deliveries \in Nat

VARIABLES roomWiring,        \* the providers this deployment gives a session
          roomCall,          \* what the worker knows of its call, by delivery
          roomAgent,         \* the agent's side of it
          roomPresent,       \* whose participant LiveKit has in the room
          roomGuest          \* the interviewer is in the room
roomVars == <<roomWiring, roomCall, roomAgent, roomPresent, roomGuest>>

Requested == 1 .. Deliveries

-----------------------------------------------------------------------------
\* What the YAML file and the environment say of voice providers.
Unset == "unset"
VoiceConfigs ==
    [provider  : {Unset, "openai_realtime", "elevenlabs", "local", "ollama"},
     stt       : {Unset, "local-whisper", "vosk"},
     tts       : {Unset, "local-piper", "local-kokoro", "elevenlabs", "espeak"},
     local_tts : {Unset, "piper", "kokoro", "espeak"},
     keys      : SUBSET {"OPENAI_API_KEY", "ELEVENLABS_API_KEY"},
     models    : SUBSET {"piper", "kokoro"}]

Or(value, default) == IF value = Unset THEN default ELSE value

isRealtimeProvider(name) == name = "openai_realtime"
isSTTProvider(name) == name \in {"local-whisper", "openai", "deepgram"}
isTTSProvider(name) == name \in {"local-piper", "local-kokoro", "elevenlabs"}

\* toProviderConfig hands on the section of an engine only where it is named.
handedOn(c, engine) == \/ c.local_tts = engine
                       \/ c.tts = [piper |-> "local-piper", kokoro |-> "local-kokoro"][engine]

\* The providers that are created, none where the creation throws.
createRealtimeProvider(c) == IF "OPENAI_API_KEY" \in c.keys THEN {"realtime"} ELSE {}
createSTTProvider(c) ==
    CASE c.provider = "elevenlabs" /\ "ELEVENLABS_API_KEY" \in c.keys -> {"whisper"}
      [] c.provider = "local" -> {"local-whisper"}
      [] OTHER -> {}
createTTSProvider(c) ==
    LET engine == IF c.local_tts = "kokoro" THEN "kokoro" ELSE "piper"
    IN  CASE c.provider = "elevenlabs" /\ "ELEVENLABS_API_KEY" \in c.keys -> {"elevenlabs"}
          [] c.provider = "local" /\ handedOn(c, engine) /\ engine \in c.models -> {engine}
          [] OTHER -> {}

createInterviewSessionFactory(c) ==
    IF isRealtimeProvider(Or(c.provider, "openai_realtime")) THEN createRealtimeProvider(c)
    ELSE IF isSTTProvider(Or(c.stt, "local-whisper")) /\ isTTSProvider(Or(c.tts, "local-piper"))
            /\ createSTTProvider(c) # {} /\ createTTSProvider(c) # {}
         THEN createSTTProvider(c) \union createTTSProvider(c)
         ELSE {}

Wirings == {createInterviewSessionFactory(c) : c \in VoiceConfigs}

-----------------------------------------------------------------------------
\* at: which await start() is at.  news: the room was lost, its event is to come.
NewAgent == [at |-> "none", connected |-> FALSE, disconnecting |-> FALSE, room |-> FALSE,
             track |-> FALSE, stream |-> FALSE, news |-> FALSE, failed |-> FALSE,
             answer |-> "none"]

RoomInit ==
    /\ roomWiring \in Wirings
    /\ roomCall = [d \in Requested |-> "none"]
    /\ roomAgent = [d \in Requested |-> NewAgent]
    /\ roomPresent = {} /\ roomGuest = FALSE

AgentAt(d, place) == roomAgent[d].at = place
AgentBecomes(d, a) == roomAgent' = [roomAgent EXCEPT ![d] = a]

\* Participants leave the room: whoever still listens will hear of it.
toldOf(agents, gone) ==
    [d \in Requested |-> IF d \in gone /\ agents[d].room THEN [agents[d] EXCEPT !.news = TRUE]
                         ELSE agents[d]]

-----------------------------------------------------------------------------
\* The worker.  asynq delivers the task again after a failure or a lost lease.
GivenBack == {"failed", "gave up"}

StartVoiceSession(d) ==
    /\ roomCall[d] = "none" /\ d > 1 => roomCall[d - 1] \in GivenBack
    /\ roomCall' = [roomCall EXCEPT ![d] = "waiting"]
    /\ UNCHANGED <<roomWiring, roomAgent, roomPresent, roomGuest>>

\* The 30 minutes are over, or the worker died: the request goes on by itself.
GivesUp(d) ==
    /\ roomCall[d] = "waiting"
    /\ roomCall' = [roomCall EXCEPT ![d] = "gave up"]
    /\ UNCHANGED <<roomWiring, roomAgent, roomPresent, roomGuest>>

\* 200, whatever its success says, completes the task; anything else fails it.
HearsAnswer(d) ==
    /\ roomCall[d] = "waiting" /\ roomAgent[d].answer # "none"
    /\ roomCall' = [roomCall EXCEPT ![d] = IF roomAgent[d].answer = "200" THEN "completed"
                                           ELSE "failed"]
    /\ UNCHANGED <<roomWiring, roomAgent, roomPresent, roomGuest>>

-----------------------------------------------------------------------------
\* The agent takes the request: the secret, the schema and the credentials of
\* LiveKit may refuse it, and so does a configuration without providers.
startInterview(d) ==
    /\ roomCall[d] = "waiting" /\ AgentAt(d, "none") /\ roomAgent[d].answer = "none"
    /\ \/ AgentBecomes(d, [NewAgent EXCEPT !.at = "threw", !.answer = "refused"])
       \/ roomWiring # {} /\ AgentBecomes(d, [NewAgent EXCEPT !.at = "connect", !.room = TRUE])
    /\ UNCHANGED <<roomWiring, roomCall, roomPresent, roomGuest>>

closeStream(a) == [a EXCEPT !.stream = FALSE]

\* start() throws, and cleanup ends in transport.disconnect(): nothing happens
\* unless connected.
cleanupFrom(a) ==
    IF a.connected /\ a.room
    THEN [closeStream(a) EXCEPT !.at = "cleanup", !.disconnecting = TRUE, !.track = FALSE]
    ELSE [a EXCEPT !.at = "threw", !.answer = "500"]

\* connect(): LiveKit lets the agent in, over an earlier participant of its name.
RoomConnect(d) ==
    /\ AgentAt(d, "connect")
    /\ \/ /\ roomPresent' = {d}
          /\ roomAgent' = toldOf([roomAgent EXCEPT ![d].at = "publish", ![d].connected = TRUE],
                                 roomPresent)
       \/ /\ AgentBecomes(d, cleanupFrom([roomAgent[d] EXCEPT !.room = FALSE]))
          /\ UNCHANGED roomPresent
    /\ UNCHANGED <<roomWiring, roomCall, roomGuest>>

\* The flag is not reset.
forgetRoomOnly(a) == cleanupFrom([a EXCEPT !.room = FALSE, !.news = FALSE])

\* initPublish(), the end of connect(): if it throws, connect() forgets the room
\* and its listeners, and has not left it.
forgetRoom(a) == cleanupFrom([a EXCEPT !.room = FALSE, !.connected = FALSE, !.news = FALSE])

InitPublish(d) ==
    /\ AgentAt(d, "publish")
    /\ \/ AgentBecomes(d, [roomAgent[d] EXCEPT !.at = "start", !.track = TRUE])
       \/ AgentBecomes(d, forgetRoom(roomAgent[d]))
    /\ UNCHANGED <<roomWiring, roomCall, roomPresent, roomGuest>>

\* The request is answered once start() has returned and an error was heard.
answered(a) ==
    IF a.at = "returned" /\ a.failed /\ a.answer = "none" THEN [a EXCEPT !.answer = "200"] ELSE a

\* The brain and the providers are started, or one of them throws.
StartProviders(d) ==
    /\ AgentAt(d, "start")
    /\ \/ AgentBecomes(d, answered([roomAgent[d] EXCEPT !.at = "returned"]))
       \/ AgentBecomes(d, cleanupFrom([roomAgent[d] EXCEPT !.failed = TRUE]))
    /\ UNCHANGED <<roomWiring, roomCall, roomPresent, roomGuest>>

\* A failed session stays as it is: its request is answered, nobody stops it.
SessionFails(d) ==
    /\ roomAgent[d].at \in {"start", "returned"} /\ ~roomAgent[d].failed
    /\ AgentBecomes(d, answered([roomAgent[d] EXCEPT !.failed = TRUE]))
    /\ UNCHANGED <<roomWiring, roomCall, roomPresent, roomGuest>>

\* publishAudio: what is spoken is dropped, refused with an error event, or played.
publishAudio(a, audio) ==
    CASE ~a.connected \/ a.disconnecting \/ ~a.track -> "dropped"
      [] audio \in {"another rate", "no channels"} -> "error"
      [] audio = "empty" -> "dropped"
      [] audio \in {"odd length", "not captured"} -> "error"
      [] OTHER -> "played"

Audio == {"speech", "another rate", "no channels", "empty", "odd length", "not captured"}

SpeakInRoom(d) ==
    /\ AgentAt(d, "returned")
    /\ \E audio \in Audio :
          /\ publishAudio(roomAgent[d], audio) = "error"
          /\ AgentBecomes(d, answered([roomAgent[d] EXCEPT !.failed = TRUE]))
    /\ UNCHANGED <<roomWiring, roomCall, roomPresent, roomGuest>>

\* disconnect(): the room is left, then the flags are reset.
RoomLeave(d) ==
    /\ AgentAt(d, "cleanup") /\ d \in roomPresent
    /\ roomPresent' = roomPresent \ {d}
    /\ UNCHANGED <<roomWiring, roomCall, roomAgent, roomGuest>>

RoomLeft(d) ==
    /\ AgentAt(d, "cleanup") /\ d \notin roomPresent
    /\ AgentBecomes(d, [roomAgent[d] EXCEPT !.at = "threw", !.answer = "500", !.room = FALSE,
                                            !.connected = FALSE, !.disconnecting = FALSE,
                                            !.news = FALSE])
    /\ UNCHANGED <<roomWiring, roomCall, roomPresent, roomGuest>>

-----------------------------------------------------------------------------
\* LiveKit loses a participant or takes it back, and the interviewer comes and goes.
RoomLost(d) ==
    /\ d \in roomPresent
    /\ roomPresent' = roomPresent \ {d} /\ roomAgent' = toldOf(roomAgent, {d})
    /\ UNCHANGED <<roomWiring, roomCall, roomGuest>>

GuestMoves ==
    /\ roomGuest' = ~roomGuest
    /\ UNCHANGED <<roomWiring, roomCall, roomAgent, roomPresent>>

\* RoomEvent.Disconnected: ignored while the transport is leaving by itself.  The
\* session turns to error without an event; its request is not answered.  (The
\* events Connected and Reconnected come while the flag is set and change nothing.)
RoomDisconnected(d) ==
    /\ roomAgent[d].news
    /\ AgentBecomes(d, [roomAgent[d] EXCEPT !.news = FALSE,
                                            !.connected = @ /\ roomAgent[d].disconnecting])
    /\ UNCHANGED <<roomWiring, roomCall, roomPresent, roomGuest>>

\* RoomEvent.TrackSubscribed of the interviewer: the agent's own track is ignored,
\* and an older stream of the interviewer is closed.
TrackSubscribed(d) ==
    /\ d \in roomPresent /\ roomAgent[d].room /\ roomGuest
    /\ ~roomAgent[d].disconnecting
    /\ AgentBecomes(d, [roomAgent[d] EXCEPT !.stream = TRUE])
    /\ UNCHANGED <<roomWiring, roomCall, roomPresent, roomGuest>>

\* ParticipantDisconnected or TrackUnsubscribed: closeStream.
TrackUnsubscribed(d) ==
    /\ roomAgent[d].room /\ roomAgent[d].stream /\ ~roomGuest
    /\ AgentBecomes(d, closeStream(roomAgent[d]))
    /\ UNCHANGED <<roomWiring, roomCall, roomPresent, roomGuest>>

-----------------------------------------------------------------------------
RoomNext ==
    \/ GuestMoves
    \/ \E d \in Requested :
          \/ StartVoiceSession(d) \/ GivesUp(d) \/ HearsAnswer(d)
          \/ startInterview(d) \/ RoomConnect(d) \/ InitPublish(d) \/ StartProviders(d)
          \/ SessionFails(d) \/ SpeakInRoom(d) \/ RoomLeave(d) \/ RoomLeft(d)
          \/ RoomLost(d) \/ RoomDisconnected(d) \/ TrackSubscribed(d) \/ TrackUnsubscribed(d)

RoomSpec == RoomInit /\ [][RoomNext]_roomVars

-----------------------------------------------------------------------------
AgentStates ==
    [at : {"none", "connect", "publish", "start", "returned", "cleanup", "threw"},
     connected : BOOLEAN, disconnecting : BOOLEAN, room : BOOLEAN, track : BOOLEAN,
     stream : BOOLEAN, news : BOOLEAN, failed : BOOLEAN,
     answer : {"none", "refused", "200", "500"}]

\* The calls, the agents' transports and the room have their shape.
RoomTypeOK ==
    /\ roomWiring \in Wirings
    /\ roomCall \in [Requested -> {"none", "waiting", "failed", "gave up", "completed"}]
    /\ roomAgent \in [Requested -> AgentStates]
    /\ roomPresent \subseteq Requested
    /\ roomGuest \in BOOLEAN

\* The connected flag of a transport, which decides whether speech is published
\* and whether disconnect() leaves the room, tells the truth: who is connected is
\* in the room, or is on the way out, or has the event of its loss still to come;
\* and who is in the room is connected, unless connect() forgot the room because
\* its track could not be published.  "Reset - transport is not usable after
\* failed initPublish" (livekit.ts:120).
FlagTellsTheRoom ==
    \A d \in Requested : LET a == roomAgent[d] IN
        /\ a.connected => a.room /\ (d \in roomPresent \/ a.disconnecting \/ a.news)
        /\ d \in roomPresent /\ a.room => a.connected
=============================================================================
