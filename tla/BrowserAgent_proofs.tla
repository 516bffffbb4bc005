------------------------ MODULE BrowserAgent_proofs -------------------------
(***************************************************************************)
(* Theorems about the components of the browser agent, for every value of  *)
(* their constants: segments of speech are delimited, the connected flag   *)
(* tells the room, a call speaks its own text, the prompt has the end of   *)
(* what was heard, a repeated question is noticed, one Chromium is in use, *)
(* and the worker hears of a posting once.                                 *)
(***************************************************************************)
EXTENDS VAD, VoiceRoom, SpeechDaemon, Brain, Scraping,
        FiniteSetTheorems, SequenceTheorems, TLAPS

-----------------------------------------------------------------------------
\* Voice activity detection: VAD.tla.

\* Between segments the onset counter is the loud run, and both the end of the
\* last segment and the last quiet chunk lie before that run.
BetweenSegments ==
    /\ vadAbove = vadLoudRun /\ vadAbove < Onset
    /\ vadEnd = vadLoudEnd
    /\ vadEnd <= vadNow - vadAbove /\ vadQuietEnd <= vadNow - vadAbove

\* In a segment the silence counter is the time since the last talk.
InSegment ==
    /\ vadAbove = 0
    /\ vadBelow = vadNow - vadLoudEnd /\ vadBelow < Silence
    /\ vadEnd <= vadStart /\ vadQuietEnd <= vadStart /\ vadStart <= vadLoudEnd
    /\ vadLoudEnd <= vadNow /\ vadLoudEnd - vadStart < MaxSpeech

VADNumbers ==
    /\ vadSpeaking \in BOOLEAN
    /\ vadNow \in Nat /\ vadStart \in Nat /\ vadAbove \in Nat /\ vadBelow \in Nat
    /\ vadEnd \in Nat /\ vadLoudEnd \in Nat /\ vadQuietEnd \in Nat /\ vadLoudRun \in Nat

VADInv ==
    /\ VADNumbers
    /\ ~vadSpeaking => BetweenSegments
    /\ vadSpeaking => InSegment

\* The invariant holds of a detector that has heard nothing.
LEMMA VADInitEstablishes == VADInit => VADInv
<1> SUFFICES ASSUME VADInit PROVE VADInv
  OBVIOUS
<1>1. vadSpeaking \in BOOLEAN /\ ~vadSpeaking
  BY DEF VADInit
<1>2. VADNumbers
  BY <1>1 DEF VADInit, VADNumbers
<1>3. BetweenSegments
  BY VADAssumption DEF VADAssumption, VADInit, BetweenSegments
<1> QED
  BY <1>1, <1>2, <1>3 DEF VADInv

\* What the branches of isSpeaking do to the history variables.
chunkOf(n, loud) ==
    /\ vadNow' = vadNow + n
    /\ vadLoudEnd' = IF loud /\ (vadSpeaking \/ vadSpeaking') THEN vadNow' ELSE vadLoudEnd
    /\ vadQuietEnd' = IF loud \/ vadSpeaking THEN vadQuietEnd ELSE vadNow'
    /\ vadLoudRun' = IF loud /\ vadEnd' = vadEnd THEN vadLoudRun + n ELSE 0

\* A loud chunk of an open segment that stays short enough.
LEMMA ContinuesKeeps ==
    ASSUME VADInv, NEW n \in ChunkLengths, Continues(n), chunkOf(n, TRUE)
    PROVE  VADInv'
BY VADAssumption DEF VADAssumption, VADInv, VADNumbers, BetweenSegments, InSegment, Continues, chunkOf

\* The hard maximum ends the segment at the chunk's end.
LEMMA CutOffKeeps ==
    ASSUME VADInv, NEW n \in ChunkLengths, CutOff(n), chunkOf(n, TRUE)
    PROVE  VADInv'
<1>1. vadSpeaking /\ vadSpeaking' \in BOOLEAN /\ ~vadSpeaking'
  BY DEF CutOff
<1>2. n \in Nat /\ n > 0 /\ InSegment /\ VADNumbers
  BY <1>1, VADAssumption DEF VADAssumption, VADInv
<1>3. vadEnd' = vadNow' /\ vadLoudEnd' = vadNow' /\ vadAbove' = 0 /\ vadQuietEnd' = vadQuietEnd
  BY <1>1, <1>2 DEF CutOff, chunkOf, InSegment
<1>4. vadLoudRun' = 0
  BY <1>2, <1>3 DEF chunkOf, InSegment, VADNumbers
<1>5. VADNumbers'
  BY <1>1, <1>2, <1>3, <1>4 DEF VADNumbers, CutOff, chunkOf
<1>6. BetweenSegments'
  BY <1>2, <1>3, <1>4, VADAssumption
     DEF VADAssumption, VADNumbers, BetweenSegments, InSegment, chunkOf
<1> QED
  BY <1>1, <1>5, <1>6 DEF VADInv

\* A quiet chunk of an open segment: a pause, or the silence that ends it.
LEMMA PausesKeeps ==
    ASSUME VADInv, NEW n \in ChunkLengths, Pauses(n), chunkOf(n, FALSE)
    PROVE  VADInv'
<1>1. n \in Nat /\ n > 0
  BY VADAssumption DEF VADAssumption
<1>2. vadBelow' = vadNow' - vadLoudEnd /\ vadLoudEnd' = vadLoudEnd /\ vadLoudRun' = 0
  BY <1>1 DEF VADInv, VADNumbers, InSegment, Pauses, chunkOf
<1>3. CASE vadBelow' >= Silence
  <2>1. vadSpeaking /\ vadSpeaking' \in BOOLEAN /\ ~vadSpeaking'
    BY <1>3 DEF Pauses
  <2>2. VADNumbers'
    BY <1>1, <1>2, <1>3, <2>1 DEF VADInv, VADNumbers, InSegment, Pauses, chunkOf
  <2>3. BetweenSegments'
    BY <1>1, <1>2, <1>3, <2>1, VADAssumption
       DEF VADAssumption, VADInv, VADNumbers, BetweenSegments, InSegment, Pauses, chunkOf
  <2> QED
    BY <2>1, <2>2, <2>3 DEF VADInv
<1>4. CASE ~(vadBelow' >= Silence)
  BY <1>1, <1>2, <1>4, VADAssumption DEF VADAssumption, VADInv, VADNumbers, BetweenSegments, InSegment, Pauses, chunkOf
<1> QED
  BY <1>3, <1>4

\* A loud chunk between segments: the onset grows, or a segment opens.
LEMMA RisesKeeps ==
    ASSUME VADInv, NEW n \in ChunkLengths, Rises(n), chunkOf(n, TRUE)
    PROVE  VADInv'
<1>1. n \in Nat /\ n > 0 /\ Onset + n <= MaxSpeech
  BY VADAssumption DEF VADAssumption
<1>2. CASE vadAbove + n >= Onset
  BY <1>1, <1>2, VADAssumption DEF VADAssumption, VADInv, VADNumbers, BetweenSegments, InSegment, Rises, chunkOf
<1>3. CASE ~(vadAbove + n >= Onset)
  BY <1>1, <1>3, VADAssumption DEF VADAssumption, VADInv, VADNumbers, BetweenSegments, InSegment, Rises, chunkOf
<1> QED
  BY <1>2, <1>3

\* A quiet chunk between segments starts the onset over.
LEMMA StaysQuietKeeps ==
    ASSUME VADInv, NEW n \in ChunkLengths, StaysQuiet, chunkOf(n, FALSE)
    PROVE  VADInv'
BY VADAssumption DEF VADAssumption, VADInv, VADNumbers, BetweenSegments, InSegment, StaysQuiet, chunkOf

\* Every step of the detector keeps the invariant.
LEMMA VADNextKeeps == VADInv /\ [VADNext]_vadVars => VADInv'
<1> SUFFICES ASSUME VADInv, [VADNext]_vadVars PROVE VADInv'
  OBVIOUS
<1>1. ASSUME NEW n \in ChunkLengths, NEW loud \in BOOLEAN, HandleIncomingAudio(n, loud)
      PROVE  VADInv'
  <2>1. chunkOf(n, loud)
    BY <1>1 DEF HandleIncomingAudio, chunkOf
  <2>2. CASE loud = TRUE
    BY <1>1, <2>1, <2>2, ContinuesKeeps, CutOffKeeps, RisesKeeps DEF HandleIncomingAudio
  <2>3. CASE loud = FALSE
    BY <1>1, <2>1, <2>3, PausesKeeps, StaysQuietKeeps DEF HandleIncomingAudio
  <2> QED
    BY <2>2, <2>3
<1>2. CASE DestroyVAD
  <2>1. vadSpeaking' \in BOOLEAN /\ ~vadSpeaking'
    BY <1>2 DEF DestroyVAD
  <2>2. VADNumbers' /\ BetweenSegments'
    BY <1>2, <2>1, VADAssumption DEF VADAssumption, DestroyVAD, VADNumbers, BetweenSegments
  <2> QED
    BY <2>1, <2>2 DEF VADInv
<1>3. ASSUME UNCHANGED detectorVars PROVE VADInv'
  BY <1>3 DEF detectorVars, VADInv, VADNumbers, BetweenSegments, InSegment
<1>4. CASE UNCHANGED vadVars
  BY <1>3, <1>4 DEF vadVars, detectorVars
<1> QED
  BY <1>1, <1>2, <1>3, <1>4 DEF VADNext, AudioReceived

\* Nothing the detector counts or remembers lies beyond the samples it has seen.
Seen ==
    /\ vadNow <= MaxSamples
    /\ vadStart <= vadNow /\ vadAbove <= vadNow /\ vadBelow <= vadNow
    /\ vadEnd <= vadNow /\ vadLoudEnd <= vadNow /\ vadQuietEnd <= vadNow /\ vadLoudRun <= vadNow

\* A chunk moves the end of the recording by as much as any counter.
LEMMA ChunkIsSeen ==
    ASSUME VADInv, VADInv', Seen, NEW n \in ChunkLengths, NEW loud \in BOOLEAN,
           vadNow + n <= MaxSamples, chunkOf(n, loud),
           IF loud THEN Continues(n) \/ CutOff(n) \/ Rises(n) ELSE Pauses(n) \/ StaysQuiet
    PROVE  Seen'
<1>1. n \in Nat /\ n > 0
  BY VADAssumption DEF VADAssumption
<1>2. /\ vadNow' = vadNow + n /\ vadNow' \in Nat
      /\ vadLoudEnd' \in {vadNow', vadLoudEnd} /\ vadQuietEnd' \in {vadNow', vadQuietEnd}
      /\ vadLoudRun' \in {vadLoudRun + n, 0}
  BY <1>1 DEF chunkOf, VADInv, VADNumbers
<1>3. /\ vadStart' \in {vadStart, vadNow - vadAbove} /\ vadBelow' \in {vadBelow, vadBelow + n, 0}
      /\ vadAbove' \in {vadAbove, vadAbove + n, 0}
  BY DEF Continues, CutOff, Rises, Pauses, StaysQuiet
<1>4. vadEnd' \in {vadEnd, vadNow + n, vadNow + n - vadBelow'}
  BY DEF Continues, CutOff, Rises, Pauses, StaysQuiet
<1>5. VADNumbers /\ VADNumbers'
  BY DEF VADInv
<1>6. vadStart' <= vadNow' /\ vadAbove' <= vadNow' /\ vadBelow' <= vadNow'
  <2>1. n \in Nat /\ n > 0 /\ vadNow' = vadNow + n
    BY <1>1, <1>2
  <2>2. vadStart' <= vadNow'
    BY <1>3, <1>5, <2>1 DEF Seen, VADNumbers
  <2>3. vadAbove' <= vadNow'
    BY <1>3, <1>5, <2>1 DEF Seen, VADNumbers
  <2>4. vadBelow' <= vadNow'
    BY <1>3, <1>5, <2>1 DEF Seen, VADNumbers
  <2>5. QED
    BY <2>2, <2>3, <2>4
<1>7. vadEnd' <= vadNow'
  <2>1. /\ n \in Nat /\ vadNow \in Nat /\ vadEnd \in Nat /\ vadBelow' \in Nat
        /\ vadEnd <= vadNow /\ vadNow' = vadNow + n
    BY <1>1, <1>2, <1>5 DEF VADNumbers, Seen
  <2>2. CASE vadEnd' = vadEnd
    BY <2>1, <2>2
  <2>3. CASE vadEnd' = vadNow + n
    BY <2>1, <2>3
  <2>4. CASE vadEnd' = vadNow + n - vadBelow'
    <3>1. PICK below \in Nat : below = vadBelow'
      BY <2>1
    <3>2. n - vadBelow' = n - below
      BY <3>1
    <3>3. vadEnd' = vadNow + n - below
      BY <2>4, <3>2, Zenon
    <3>4. QED
      BY <2>1, <3>3
  <2>5. QED
    BY <1>4, <2>2, <2>3, <2>4
<1>8. vadLoudEnd' <= vadNow' /\ vadQuietEnd' <= vadNow' /\ vadLoudRun' <= vadNow'
  BY <1>1, <1>2, <1>5 DEF Seen, VADNumbers
<1>9. QED
  BY <1>2, <1>6, <1>7, <1>8 DEF Seen

\* The detector's counters stay within the recording, and the buffer is of segments
\* that began in it.
THEOREM VADTypeCorrect == VADSpec => []VADTypeOK
<1> DEFINE TypeInv == /\ VADInv /\ Seen
                      /\ vadInterviewer \in Participants \cup {Nobody}
                      /\ vadBuffer \subseteq Samples
<1>1. VADInit => TypeInv
  BY VADAssumption, VADInitEstablishes DEF VADAssumption, VADInit, Seen
<1>2. TypeInv /\ [VADNext]_vadVars => TypeInv'
  <2> SUFFICES ASSUME TypeInv, [VADNext]_vadVars PROVE TypeInv'
    OBVIOUS
  <2>1. VADInv'
    BY VADNextKeeps
  <2>2. ASSUME NEW p \in Participants, NEW n \in ChunkLengths, NEW loud \in BOOLEAN,
               AudioReceived(p, n, loud)
        PROVE  TypeInv'
    <3>1. vadInterviewer' \in Participants \cup {Nobody}
      BY <2>2 DEF AudioReceived
    <3>2. CASE HandleIncomingAudio(n, loud)
      <4>1. Seen'
        BY <2>1, <2>2, <3>2, ChunkIsSeen DEF AudioReceived, HandleIncomingAudio, chunkOf
      <4>2. vadStart' \in Samples
        BY <2>1, <4>1, VADAssumption DEF VADAssumption, VADInv, VADNumbers, Seen, Samples
      <4>3. vadBuffer' \subseteq Samples
        BY <3>2, <4>2 DEF HandleIncomingAudio, bufferOrFlush
      <4>4. QED
        BY <2>1, <3>1, <4>1, <4>3
    <3>3. CASE UNCHANGED detectorVars
      BY <2>1, <3>1, <3>3 DEF detectorVars, Seen
    <3>4. QED
      BY <2>2, <3>2, <3>3 DEF AudioReceived
  <2>3. CASE DestroyVAD
    BY <2>1, <2>3, VADAssumption DEF VADAssumption, DestroyVAD, Seen
  <2>4. CASE UNCHANGED vadVars
    BY <2>1, <2>4 DEF vadVars, Seen
  <2>5. QED
    BY <2>2, <2>3, <2>4 DEF VADNext
<1>3. TypeInv => VADTypeOK
  BY VADAssumption DEF VADAssumption, VADInv, VADNumbers, Seen, Samples, VADTypeOK
<1>4. QED
  BY <1>1, <1>2, <1>3, PTL DEF VADSpec

\* Speech is delimited: what the interviewer says is reported as stretches that
\* do not overlap, are closed by a true silence or the maximum, and are not missed.
THEOREM SpeechIsDelimitedAlways == VADSpec => []SpeechIsDelimited
<1>1. VADInv => SpeechIsDelimited
  BY DEF VADInv, VADNumbers, BetweenSegments, InSegment, SpeechIsDelimited
<1> QED
  BY <1>1, VADInitEstablishes, VADNextKeeps, PTL DEF VADSpec

-----------------------------------------------------------------------------
\* An open segment keeps its start.
LEMMA StartIsKept ==
    ASSUME VADInv, NEW n \in ChunkLengths, NEW loud \in BOOLEAN, HandleIncomingAudio(n, loud)
    PROVE  vadSpeaking => vadStart' = vadStart
BY DEF VADInv, VADNumbers, HandleIncomingAudio, Continues, CutOff, Rises, Pauses, StaysQuiet

\* What is transcribed as one utterance was said in one segment.
THEOREM UtteranceIsOneSegmentAlways == VADSpec => []UtteranceIsOneSegment
<1> DEFINE BufferInv == VADInv /\ UtteranceIsOneSegment
<1>1. VADInit => BufferInv
  <2>1. VADInit => UtteranceIsOneSegment
    BY DEF VADInit, UtteranceIsOneSegment
  <2> QED
    BY <2>1, VADInitEstablishes
<1>2. BufferInv /\ [VADNext]_vadVars => BufferInv'
  <2> SUFFICES ASSUME BufferInv, [VADNext]_vadVars PROVE BufferInv'
    OBVIOUS
  <2>1. VADInv'
    BY VADNextKeeps
  <2>2. ASSUME NEW n \in ChunkLengths, NEW loud \in BOOLEAN, HandleIncomingAudio(n, loud)
        PROVE  UtteranceIsOneSegment'
    <3>1. vadSpeaking => vadStart' = vadStart
      BY <2>2, StartIsKept
    <3>2. vadBuffer' = IF vadSpeaking' THEN vadBuffer \cup {vadStart'} ELSE {}
      BY <2>2 DEF HandleIncomingAudio, bufferOrFlush
    <3> QED
      BY <3>1, <3>2 DEF UtteranceIsOneSegment
  <2>3. ASSUME DestroyVAD PROVE UtteranceIsOneSegment'
    BY <2>3 DEF DestroyVAD, UtteranceIsOneSegment
  <2>4. ASSUME UNCHANGED detectorVars PROVE UtteranceIsOneSegment'
    BY <2>4 DEF detectorVars, UtteranceIsOneSegment
  <2>5. ASSUME UNCHANGED vadVars PROVE UtteranceIsOneSegment'
    BY <2>4, <2>5 DEF vadVars, detectorVars
  <2>6. UtteranceIsOneSegment'
    BY <2>2, <2>3, <2>4, <2>5 DEF VADNext, AudioReceived
  <2> QED
    BY <2>1, <2>6
<1>3. BufferInv => UtteranceIsOneSegment
  OBVIOUS
<1> QED
  BY <1>1, <1>2, <1>3, PTL DEF VADSpec

-----------------------------------------------------------------------------
\* The voice room: VoiceRoom.tla.

AgentSound(a, here) ==
    /\ a.connected => a.room /\ (here \/ a.disconnecting \/ a.news)
    /\ here /\ a.room => a.connected
    /\ a.at \in {"none", "connect"} => ~here /\ ~a.connected /\ ~a.news
    /\ a.at \in {"connect", "publish", "start", "cleanup"} => a.room
    /\ a.at = "cleanup" => a.connected
    /\ a.disconnecting <=> a.at = "cleanup"
    /\ a.news => a.room /\ ~here

RoomInv == RoomTypeOK /\ \A d \in Requested : AgentSound(roomAgent[d], d \in roomPresent)

\* The flags of all agents agree with the room if those of each do.
LEMMA SoundTellsTheRoom == RoomInv => FlagTellsTheRoom
BY DEF RoomInv, FlagTellsTheRoom, AgentSound

\* A step of one agent that leaves the room as it is keeps the invariant if the
\* agent is sound afterwards.
LEMMA OneAgentKeeps ==
    ASSUME RoomInv, NEW d \in Requested, NEW a \in AgentStates, AgentBecomes(d, a),
           UNCHANGED <<roomWiring, roomPresent, roomGuest>>,
           roomCall' = roomCall, AgentSound(a, d \in roomPresent)
    PROVE  RoomInv'
<1>1. RoomTypeOK'
  BY DEF RoomInv, RoomTypeOK, AgentBecomes
<1>2. \A e \in Requested : AgentSound(roomAgent'[e], e \in roomPresent')
  <2> SUFFICES ASSUME NEW e \in Requested
               PROVE  AgentSound(roomAgent'[e], e \in roomPresent)
    OBVIOUS
  <2>1. roomAgent'[e] = IF e = d THEN a ELSE roomAgent[e]
    BY DEF RoomInv, RoomTypeOK, AgentBecomes
  <2> QED
    BY <2>1 DEF RoomInv
<1> QED
  BY <1>1, <1>2 DEF RoomInv

\* In the first state nobody is in the room and no transport says it is.
LEMMA RoomInitInv == RoomInit => RoomInv
<1> SUFFICES ASSUME RoomInit PROVE RoomInv
  OBVIOUS
<1>1. NewAgent \in AgentStates
  BY DEF NewAgent, AgentStates
<1>2. RoomTypeOK
  BY <1>1 DEF RoomInit, RoomTypeOK
<1>3. ASSUME NEW d \in Requested PROVE AgentSound(roomAgent[d], d \in roomPresent)
  <2>1. roomAgent[d] = NewAgent /\ d \notin roomPresent
    BY DEF RoomInit
  <2> QED
    BY <2>1 DEF AgentSound, NewAgent
<1> QED
  BY <1>2, <1>3 DEF RoomInv

\* start() that throws leaves its agent sound, connected or not.
LEMMA CleanupIsSound ==
    ASSUME NEW a \in AgentStates, NEW here \in BOOLEAN,
           a.connected => a.room /\ (here \/ a.news), here /\ a.room => a.connected,
           a.news => a.room /\ ~here, ~a.disconnecting
    PROVE  cleanupFrom(a) \in AgentStates /\ AgentSound(cleanupFrom(a), here)
<1>1. CASE a.connected /\ a.room
  BY <1>1 DEF cleanupFrom, closeStream, AgentStates, AgentSound
<1>2. CASE ~(a.connected /\ a.room)
  BY <1>2 DEF cleanupFrom, closeStream, AgentStates, AgentSound
<1> QED
  BY <1>1, <1>2

\* LiveKit drops the participants in gone and keeps those in here: whoever still
\* listens will be told.
LEMMA ToldIsSound ==
    ASSUME NEW f \in [Requested -> AgentStates], NEW gone, NEW here \in SUBSET Requested,
           RoomTypeOK,
           \A e \in Requested : e \in gone => e \notin here /\ AgentSound(f[e], TRUE),
           \A e \in Requested : e \notin gone => AgentSound(f[e], e \in here),
           roomAgent' = toldOf(f, gone), roomPresent' = here,
           UNCHANGED <<roomWiring, roomCall, roomGuest>>
    PROVE  RoomInv'
<1>1. roomAgent' \in [Requested -> AgentStates]
  <2>1. ASSUME NEW b \in AgentStates PROVE [b EXCEPT !.news = TRUE] \in AgentStates
    BY DEF AgentStates
  <2> HIDE DEF AgentStates
  <2>2. roomAgent' = [e \in Requested |-> toldOf(f, gone)[e]] /\ \A e \in Requested :
            toldOf(f, gone)[e] = IF e \in gone /\ f[e].room THEN [f[e] EXCEPT !.news = TRUE] ELSE f[e]
    BY DEF toldOf
  <2>3. \A e \in Requested : toldOf(f, gone)[e] \in AgentStates
    BY <2>1, <2>2
  <2> QED
    BY <2>2, <2>3
<1>2. ASSUME NEW e \in Requested PROVE AgentSound(roomAgent'[e], e \in roomPresent')
  <2> DEFINE b == f[e]
  <2>1. b \in AgentStates
    OBVIOUS
  <2>2. CASE e \in gone /\ b.room
    <3>1. roomAgent'[e] = [b EXCEPT !.news = TRUE] /\ e \notin roomPresent'
      BY <2>2 DEF toldOf
    <3>2. AgentSound(b, TRUE)
      BY <2>2
    <3>3. AgentSound([b EXCEPT !.news = TRUE], FALSE)
      BY <2>1, <2>2, <3>2 DEF AgentSound, AgentStates
    <3> QED
      BY <3>1, <3>3 DEF AgentSound
  <2>3. CASE e \in gone /\ ~b.room
    <3>1. roomAgent'[e] = b /\ e \notin roomPresent'
      BY <2>3 DEF toldOf
    <3>2. AgentSound(b, TRUE)
      BY <2>3
    <3> QED
      BY <2>3, <3>1, <3>2 DEF AgentSound
  <2>4. CASE e \notin gone
    <3>1. roomAgent'[e] = b /\ AgentSound(b, e \in here)
      BY <2>4 DEF toldOf
    <3> QED
      BY <3>1
  <2> QED
    BY <2>2, <2>3, <2>4
<1> QED
  BY <1>1, <1>2 DEF RoomInv, RoomTypeOK

-----------------------------------------------------------------------------
\* Every step keeps the invariant.
LEMMA RoomNextKeeps == RoomInv /\ [RoomNext]_roomVars => RoomInv'
<1> SUFFICES ASSUME RoomInv, [RoomNext]_roomVars PROVE RoomInv'
  OBVIOUS
<1> USE DEF RoomInv
<1>1. CASE UNCHANGED roomVars
  BY <1>1 DEF roomVars, RoomTypeOK
<1>2. CASE GuestMoves
  BY <1>2 DEF GuestMoves, RoomTypeOK
<1>3. ASSUME NEW d \in Requested, StartVoiceSession(d) \/ GivesUp(d) \/ HearsAnswer(d)
      PROVE  RoomInv'
  BY <1>3 DEF StartVoiceSession, GivesUp, HearsAnswer, RoomTypeOK
<1>4. ASSUME NEW d \in Requested PROVE roomAgent[d] \in AgentStates
                                      /\ AgentSound(roomAgent[d], d \in roomPresent)
  BY DEF RoomTypeOK
<1>5. ASSUME NEW d \in Requested, startInterview(d) PROVE RoomInv'
  <2> DEFINE refused == [NewAgent EXCEPT !.at = "threw", !.answer = "refused"]
             joining == [NewAgent EXCEPT !.at = "connect", !.room = TRUE]
  <2>1. d \notin roomPresent
    BY <1>4, <1>5 DEF startInterview, AgentAt, AgentSound
  <2>2. refused \in AgentStates /\ joining \in AgentStates
    BY DEF NewAgent, AgentStates
  <2>3. AgentSound(refused, d \in roomPresent) /\ AgentSound(joining, d \in roomPresent)
    BY <2>1 DEF AgentSound, NewAgent
  <2>4. AgentBecomes(d, refused) \/ AgentBecomes(d, joining)
    BY <1>5 DEF startInterview
  <2> HIDE DEF refused, joining
  <2> QED
    BY <1>5, <2>2, <2>3, <2>4, OneAgentKeeps DEF startInterview
<1>6. ASSUME NEW d \in Requested, RoomConnect(d) PROVE RoomInv'
  <2> DEFINE b == roomAgent[d]
             joined == [b EXCEPT !.at = "publish", !.connected = TRUE]
             gaveUp == [b EXCEPT !.room = FALSE]
  <2>1. /\ b \in AgentStates /\ b.at = "connect" /\ d \notin roomPresent
        /\ b.room /\ ~b.connected /\ ~b.news /\ ~b.disconnecting
    BY <1>4, <1>6 DEF RoomConnect, AgentAt, AgentSound
  <2>2. CASE /\ roomPresent' = {d}
             /\ roomAgent' = toldOf([roomAgent EXCEPT ![d].at = "publish",
                                                      ![d].connected = TRUE], roomPresent)
    <3> DEFINE f == [roomAgent EXCEPT ![d] = joined]
    <3>1. joined \in AgentStates /\ AgentSound(joined, TRUE)
      BY <2>1 DEF AgentStates, AgentSound
    <3>2. f \in [Requested -> AgentStates] /\ f[d] = joined
      BY <3>1 DEF RoomTypeOK
    <3>3. \A e \in Requested : e # d => f[e] = roomAgent[e]
      BY DEF RoomTypeOK
    <3>4. roomAgent' = toldOf(f, roomPresent)
      BY <2>2 DEF RoomTypeOK, AgentStates
    <3>5. \A e \in Requested : e \in roomPresent => e \notin {d} /\ AgentSound(f[e], TRUE)
      BY <2>1, <3>3 DEF AgentSound
    <3>6. ASSUME NEW e \in Requested, e \notin roomPresent PROVE AgentSound(f[e], e \in {d})
      <4>1. CASE e = d
        BY <3>1, <3>2, <4>1 DEF AgentSound
      <4>2. CASE e # d
        BY <1>4, <3>3, <3>6, <4>2 DEF AgentSound
      <4> QED
        BY <4>1, <4>2
    <3>7. RoomTypeOK /\ {d} \in SUBSET Requested /\ roomPresent' = {d}
          /\ UNCHANGED <<roomWiring, roomCall, roomGuest>>
      BY <1>6, <2>2 DEF RoomConnect
    <3> HIDE DEF f, RoomInv
    <3> QED
      BY <3>2, <3>4, <3>5, <3>6, <3>7, ToldIsSound
  <2>3. CASE AgentBecomes(d, cleanupFrom(gaveUp)) /\ UNCHANGED roomPresent
    <3>1. gaveUp \in AgentStates
      BY <2>1 DEF AgentStates
    <3>2. cleanupFrom(gaveUp) \in AgentStates /\ AgentSound(cleanupFrom(gaveUp), d \in roomPresent)
      BY <2>1, <3>1, CleanupIsSound DEF AgentStates
    <3> QED
      BY <1>6, <2>3, <3>2, OneAgentKeeps DEF RoomConnect
  <2> QED
    BY <1>6, <2>2, <2>3 DEF RoomConnect
<1>7. ASSUME NEW d \in Requested, InitPublish(d) PROVE RoomInv'
  <2> DEFINE b == roomAgent[d]
             published == [b EXCEPT !.at = "start", !.track = TRUE]
             forgot == [b EXCEPT !.room = FALSE, !.connected = FALSE, !.news = FALSE]
  <2>1. b \in AgentStates /\ b.at = "publish" /\ AgentSound(b, d \in roomPresent)
    BY <1>4, <1>7 DEF InitPublish, AgentAt
  <2>2. published \in AgentStates /\ forgot \in AgentStates
    BY <2>1 DEF AgentStates
  <2>3. AgentSound(published, d \in roomPresent)
    BY <2>1 DEF AgentSound, AgentStates
  <2>4. cleanupFrom(forgot) \in AgentStates /\ AgentSound(cleanupFrom(forgot), d \in roomPresent)
    <3>1. ~forgot.connected /\ ~forgot.room /\ ~forgot.news /\ ~forgot.disconnecting
      BY <2>1 DEF AgentSound, AgentStates
    <3>2. (d \in roomPresent) \in BOOLEAN
      OBVIOUS
    <3> HIDE DEF forgot
    <3> QED
      BY <2>2, <3>1, <3>2, CleanupIsSound
  <2>5. AgentBecomes(d, published) \/ AgentBecomes(d, cleanupFrom(forgot))
    BY <1>7 DEF InitPublish, forgetRoom
  <2> HIDE DEF published, forgot
  <2> QED
    BY <1>7, <2>2, <2>3, <2>4, <2>5, OneAgentKeeps DEF InitPublish
<1>8. ASSUME NEW a \in AgentStates, NEW here \in BOOLEAN, AgentSound(a, here)
      PROVE  answered(a) \in AgentStates /\ AgentSound(answered(a), here)
  BY <1>8 DEF answered, AgentSound, AgentStates
<1>9. ASSUME NEW d \in Requested, StartProviders(d) PROVE RoomInv'
  <2> DEFINE b == roomAgent[d]
             returned == [b EXCEPT !.at = "returned"]
             failed == [b EXCEPT !.failed = TRUE]
  <2>1. b \in AgentStates /\ b.at = "start" /\ AgentSound(b, d \in roomPresent)
    BY <1>4, <1>9 DEF StartProviders, AgentAt
  <2>2. returned \in AgentStates /\ failed \in AgentStates
    BY <2>1 DEF AgentStates
  <2>3. AgentSound(returned, d \in roomPresent)
    BY <2>1 DEF AgentSound, AgentStates
  <2>4. cleanupFrom(failed) \in AgentStates /\ AgentSound(cleanupFrom(failed), d \in roomPresent)
    BY <2>1, <2>2, CleanupIsSound DEF AgentSound, AgentStates
  <2>5. AgentBecomes(d, answered(returned)) \/ AgentBecomes(d, cleanupFrom(failed))
    BY <1>9 DEF StartProviders
  <2> HIDE DEF returned, failed
  <2>6. answered(returned) \in AgentStates /\ AgentSound(answered(returned), d \in roomPresent)
    <3>1. (d \in roomPresent) \in BOOLEAN
      OBVIOUS
    <3> QED
      BY <1>8, <2>2, <2>3, <3>1
  <2> QED
    BY <1>9, <2>4, <2>5, <2>6, OneAgentKeeps DEF StartProviders
<1>10. ASSUME NEW d \in Requested, SessionFails(d) \/ SpeakInRoom(d) PROVE RoomInv'
  <2> DEFINE b == roomAgent[d]
             failed == [b EXCEPT !.failed = TRUE]
  <2>1. b \in AgentStates /\ AgentSound(b, d \in roomPresent)
    BY <1>4
  <2>2. failed \in AgentStates /\ AgentSound(failed, d \in roomPresent)
    BY <2>1 DEF AgentSound, AgentStates
  <2>3. AgentBecomes(d, answered(failed))
    BY <1>10 DEF SessionFails, SpeakInRoom
  <2> HIDE DEF failed
  <2>4. answered(failed) \in AgentStates /\ AgentSound(answered(failed), d \in roomPresent)
    <3>1. (d \in roomPresent) \in BOOLEAN
      OBVIOUS
    <3> QED
      BY <1>8, <2>2, <3>1
  <2> QED
    BY <1>10, <2>3, <2>4, OneAgentKeeps DEF SessionFails, SpeakInRoom
<1>11. ASSUME NEW d \in Requested, RoomLeave(d) PROVE RoomInv'
  <2>1. roomAgent[d] \in AgentStates /\ roomAgent[d].at = "cleanup"
        /\ AgentSound(roomAgent[d], d \in roomPresent)
    BY <1>4, <1>11 DEF RoomLeave, AgentAt
  <2>2. AgentSound(roomAgent[d], FALSE)
    BY <1>11, <2>1 DEF RoomLeave, AgentSound
  <2>3. \A e \in Requested : AgentSound(roomAgent'[e], e \in roomPresent')
    BY <1>4, <1>11, <2>2 DEF RoomLeave, AgentSound
  <2>4. RoomTypeOK'
    BY <1>11 DEF RoomLeave, RoomTypeOK
  <2> QED
    BY <2>3, <2>4
<1>12. ASSUME NEW d \in Requested, RoomLeft(d) PROVE RoomInv'
  <2> DEFINE b == roomAgent[d]
             left == [b EXCEPT !.at = "threw", !.answer = "500", !.room = FALSE,
                               !.connected = FALSE, !.disconnecting = FALSE, !.news = FALSE]
  <2>1. b \in AgentStates /\ d \notin roomPresent
    BY <1>4, <1>12 DEF RoomLeft
  <2>2. left \in AgentStates /\ AgentSound(left, d \in roomPresent)
    BY <2>1 DEF AgentSound, AgentStates
  <2>3. AgentBecomes(d, left)
    BY <1>12 DEF RoomLeft
  <2> HIDE DEF left
  <2> QED
    BY <1>12, <2>2, <2>3, OneAgentKeeps DEF RoomLeft
<1>13. ASSUME NEW d \in Requested, RoomLost(d) PROVE RoomInv'
  <2>1. \A e \in Requested : e \in {d} => e \notin roomPresent \ {d} /\ AgentSound(roomAgent[e], TRUE)
    BY <1>4, <1>13 DEF RoomLost, AgentSound
  <2>2. \A e \in Requested : e \notin {d} => AgentSound(roomAgent[e], e \in roomPresent \ {d})
    BY <1>4 DEF AgentSound
  <2> QED
    BY <1>13, <2>1, <2>2, ToldIsSound DEF RoomLost, RoomTypeOK
<1>14. ASSUME NEW d \in Requested, RoomDisconnected(d) PROVE RoomInv'
  <2> DEFINE b == roomAgent[d]
             told == [b EXCEPT !.news = FALSE, !.connected = @ /\ b.disconnecting]
  <2>1. b \in AgentStates /\ b.news /\ AgentSound(b, d \in roomPresent)
    BY <1>4, <1>14 DEF RoomDisconnected
  <2>2. told \in AgentStates /\ AgentSound(told, d \in roomPresent)
    BY <2>1 DEF AgentSound, AgentStates
  <2>3. AgentBecomes(d, told)
    BY <1>14 DEF RoomDisconnected
  <2> HIDE DEF told
  <2> QED
    BY <1>14, <2>2, <2>3, OneAgentKeeps DEF RoomDisconnected
<1>15. ASSUME NEW d \in Requested, TrackSubscribed(d) \/ TrackUnsubscribed(d) PROVE RoomInv'
  <2> DEFINE b == roomAgent[d]
             opened == [b EXCEPT !.stream = TRUE]
             closed == [b EXCEPT !.stream = FALSE]
  <2>1. b \in AgentStates /\ AgentSound(b, d \in roomPresent)
    BY <1>4
  <2>2. opened \in AgentStates /\ AgentSound(opened, d \in roomPresent)
    BY <2>1 DEF AgentSound, AgentStates
  <2>3. closed \in AgentStates /\ AgentSound(closed, d \in roomPresent)
    BY <2>1 DEF AgentSound, AgentStates
  <2>4. AgentBecomes(d, opened) \/ AgentBecomes(d, closed)
    BY <1>15 DEF TrackSubscribed, TrackUnsubscribed, closeStream
  <2> HIDE DEF opened, closed
  <2> QED
    BY <1>15, <2>2, <2>3, <2>4, OneAgentKeeps DEF TrackSubscribed, TrackUnsubscribed
<1> QED
  BY <1>1, <1>2, <1>3, <1>5, <1>6, <1>7, <1>9, <1>10, <1>11, <1>12, <1>13, <1>14, <1>15
     DEF RoomNext

\* The calls, the agents' transports and the room have their shape.
THEOREM RoomType == RoomSpec => []RoomTypeOK
<1>1. RoomInv => RoomTypeOK
  BY DEF RoomInv
<1> QED
  BY RoomInitInv, RoomNextKeeps, <1>1, PTL DEF RoomSpec

\* connect(), its failures, disconnect() and the room's events keep the connected
\* flag of every transport true, however often the task is delivered.
THEOREM FlagsTellTheRoom == RoomSpec => []FlagTellsTheRoom
BY RoomInitInv, RoomNextKeeps, SoundTellsTheRoom, PTL DEF RoomSpec

-----------------------------------------------------------------------------
\* The speech daemon: SpeechDaemon.tla.

\* An answer's last frame is no audio.  Its two parts end the pipe; once its length is
\* read what is left of it is all that is in the pipe.
LastFrameEnds ==
    /\ \A i \in 1..Len(ttsStdout) : ttsStdout[i].kind # "audio" =>
          ttsStdout[i].part \in {0, 1} /\ Len(ttsStdout) = i + 1 - ttsStdout[i].part
    /\ ttsRead.at = "payload" /\ ttsRead.kind # "audio" =>
          ttsRead.got \in {0, 1} /\ Len(ttsStdout) = 1 - ttsRead.got

\* While the process has something to do it has not written that frame.
OnlyAudioYet ==
    /\ \A i \in 1..Len(ttsStdout) : ttsStdout[i].kind = "audio"
    /\ ttsRead.at = "payload" => ttsRead.kind = "audio"

\* All there is is the current call's.
AllIsOf(c) ==
    /\ \A i \in 1..Len(ttsStdin) : ttsStdin[i] = c
    /\ \A i \in 1..Len(ttsStdout) : ttsStdout[i].of = c
    /\ ttsWork.at = "speaking" => ttsWork.of = c
    /\ ttsWork.at = "loading" => c = Startup
    /\ ttsRead.at = "payload" => ttsRead.of = c

SpeechInv ==
    /\ SpeechTypeOK
    /\ ~ttsDaemon => ttsWork.at = "gone"
    /\ ttsRead # NotReading => ttsCall.pc \in {"initialize", "synthesize"}
    /\ ~ttsAbandoned =>
          /\ ~ttsForeign
          /\ ttsWork.at \in {"speaking", "loading"} => ttsStdin = <<>>
          /\ Len(ttsStdin) <= 1
          /\ ttsCall = NoCall /\ ttsDaemon =>
                ttsStdin = <<>> /\ ttsStdout = <<>> /\ ttsWork.at \in {"waiting", "gone"}
          /\ ttsCall # NoCall =>
                /\ AllIsOf(ttsCall.of) /\ LastFrameEnds
                /\ ttsWork.at \in {"speaking", "loading"} \/ ttsStdin # <<>> => OnlyAudioYet

-----------------------------------------------------------------------------
\* A frame is a sequence of its length and the parts of its payload.
LEMMA FrameIsSequence ==
    ASSUME ttsUnbuffered \in BOOLEAN, NEW of \in CallIds, NEW kind \in FrameKinds
    PROVE  /\ frame(of, kind) \in Seq(FrameParts)
           /\ Len(frame(of, kind)) = (IF kind = "audio" THEN 3 ELSE 2)
           /\ \A i \in 1..Len(frame(of, kind)) :
                 LET p == frame(of, kind)[i] IN p.of = of /\ p.kind = kind /\ p.part = i - 1
<1>1. PICK n \in {2, 3} : n = parts(kind) + 1 /\ (n = 3 <=> kind = "audio")
  BY DEF parts
<1>2. \A i \in 1..n : frame(of, kind)[i] \in FrameParts /\
          frame(of, kind)[i].of = of /\ frame(of, kind)[i].kind = kind /\ frame(of, kind)[i].part = i - 1
  BY <1>1 DEF frame, FrameParts
<1>3. frame(of, kind) \in [1..n -> FrameParts]
  BY <1>1, <1>2 DEF frame
<1>4. frame(of, kind) \in Seq(FrameParts) /\ Len(frame(of, kind)) = n
  BY <1>3
<1>5. QED
  BY <1>1, <1>2, <1>4

\* What is left of the pipe when its first n parts have been read.
LEMMA PipeRead ==
    ASSUME NEW S, NEW s \in Seq(S), NEW n \in 1..Len(s)
    PROVE  /\ SubSeq(s, 1, n) \in Seq(S) /\ Len(SubSeq(s, 1, n)) = n
           /\ \A i \in 1..n : SubSeq(s, 1, n)[i] = s[i]
           /\ SubSeq(s, n + 1, Len(s)) \in Seq(S) /\ Len(SubSeq(s, n + 1, Len(s))) = Len(s) - n
           /\ \A i \in 1..(Len(s) - n) : SubSeq(s, n + 1, Len(s))[i] = s[i + n]
<1>1. Len(s) \in Nat /\ \A i \in 1..Len(s) : s[i] \in S
  BY LenProperties, ElementOfSeq
<1>2. QED
  BY <1>1, SubSeqProperties

\* What a read and a process hold, by where they are.
LEMMA SpeechShapes ==
    /\ \A r \in Reads : /\ r.at = "none" <=> r = NotReading
                        /\ r.at = "payload" => r.of \in CallIds /\ r.kind \in FrameKinds /\ r.got \in 0..2
                        /\ r.at \in {"none", "length", "misread", "payload"}
    /\ \A w \in DaemonWork : w.at = "speaking" => w.of \in 1..MaxCalls /\ w.sent \in 0..MaxAudio
    /\ \A c \in SpeechCalls : /\ c = NoCall <=> c.pc = "none"
                              /\ c.pc = "initialize" => c.of = Startup
                              /\ c.pc \in {"synthesize", "yield"} => c.of \in 1..MaxCalls
                              /\ c.pc \in {"none", "initialize", "synthesize", "yield"}
    /\ NotReading \in Reads /\ ReadLength \in Reads /\ Misread \in Reads
    /\ NotReading.at = "none" /\ ReadLength.at = "length" /\ Misread.at = "misread"
    /\ NoCall \in SpeechCalls /\ NoCall.pc = "none"
BY DEF Reads, NotReading, ReadLength, Misread, DaemonWork, SpeechCalls, NoCall

-----------------------------------------------------------------------------
\* Nothing is in the pipe and nobody reads it at first.
LEMMA SpeechInitInv == SpeechInit => SpeechInv
<1>1. SUFFICES ASSUME SpeechInit PROVE SpeechInv
  OBVIOUS
<1>2. SpeechTypeOK
  <2>1. <<>> \in Seq(1..MaxCalls) /\ <<>> \in Seq(FrameParts) /\ 0 \in 0..MaxCalls
    BY SpeechAssumption
  <2>2. [at |-> "gone"] \in DaemonWork
    BY DEF DaemonWork
  <2>3. QED
    BY <1>1, <2>1, <2>2, SpeechShapes DEF SpeechInit, SpeechTypeOK
<1>3. QED
  BY <1>1, <1>2, SpeechShapes DEF SpeechInit, SpeechInv

\* The process has written a frame of the current call, which had only audio so far.
LEMMA FrameWritten ==
    ASSUME SpeechTypeOK, NEW of \in CallIds, NEW kind \in FrameKinds, writes(of, kind)
    PROVE  /\ ttsStdout' \in Seq(FrameParts)
           /\ AllIsOf(of) /\ OnlyAudioYet /\ UNCHANGED ttsRead =>
                 /\ \A i \in 1..Len(ttsStdout') : ttsStdout'[i].of = of
                 /\ LastFrameEnds'
                 /\ kind = "audio" => OnlyAudioYet'
<1> DEFINE f == frame(of, kind)
           m == Len(ttsStdout)
<1>1. /\ f \in Seq(FrameParts) /\ Len(f) = (IF kind = "audio" THEN 3 ELSE 2)
      /\ \A i \in 1..Len(f) : f[i].of = of /\ f[i].kind = kind /\ f[i].part = i - 1
  BY FrameIsSequence DEF SpeechTypeOK
<1>2. ttsStdout \in Seq(FrameParts) /\ m \in Nat
  BY DEF SpeechTypeOK
<1>3. ttsStdout' = ttsStdout \o f
  BY DEF writes
<1> HIDE DEF f
<1>4. /\ ttsStdout' \in Seq(FrameParts) /\ Len(ttsStdout') = m + Len(f)
      /\ \A i \in 1..m : ttsStdout'[i] = ttsStdout[i]
      /\ \A i \in (m + 1)..(m + Len(f)) : ttsStdout'[i] = f[i - m]
  <2>1. /\ ttsStdout \o f \in Seq(FrameParts) /\ Len(ttsStdout \o f) = m + Len(f)
        /\ \A i \in 1..(m + Len(f)) : (ttsStdout \o f)[i] = IF i <= m THEN ttsStdout[i] ELSE f[i - m]
    BY <1>1, <1>2, ConcatProperties
  <2>2. m \in Nat /\ Len(f) \in {2, 3}
    BY <1>1, <1>2
  <2>3. QED
    BY <1>3, <2>1, <2>2
<1>5. ASSUME AllIsOf(of), OnlyAudioYet, UNCHANGED ttsRead
      PROVE  /\ \A i \in 1..Len(ttsStdout') : ttsStdout'[i].of = of
             /\ LastFrameEnds'
             /\ kind = "audio" => OnlyAudioYet'
  <2>1. \A i \in 1..m : ttsStdout'[i].kind = "audio" /\ ttsStdout'[i].of = of
    BY <1>4, <1>5 DEF AllIsOf, OnlyAudioYet
  <2>2. \A i \in (m + 1)..(m + Len(f)) :
            ttsStdout'[i].of = of /\ ttsStdout'[i].kind = kind /\ ttsStdout'[i].part = i - m - 1
    <3>1. ASSUME NEW i \in (m + 1)..(m + Len(f)) PROVE i - m \in 1..Len(f)
      BY <1>1, <1>2
    <3>2. QED
      BY <1>1, <1>4, <3>1
  <2>3. \A i \in 1..Len(ttsStdout') : i \in 1..m \/ i \in (m + 1)..(m + Len(f))
    BY <1>1, <1>2, <1>4
  <2>4. ttsRead'.at = "payload" => ttsRead'.kind = "audio"
    BY <1>5 DEF OnlyAudioYet
  <2>5. kind = "audio" => OnlyAudioYet'
    BY <2>1, <2>2, <2>3, <2>4 DEF OnlyAudioYet
  <2>6. ASSUME NEW i \in 1..Len(ttsStdout'), ttsStdout'[i].kind # "audio"
        PROVE  ttsStdout'[i].part \in {0, 1} /\ Len(ttsStdout') = i + 1 - ttsStdout'[i].part
    <3>1. i \in (m + 1)..(m + Len(f))
      BY <2>1, <2>3, <2>6
    <3>2. ttsStdout'[i].part = i - m - 1 /\ kind # "audio"
      BY <2>2, <2>6, <3>1
    <3>3. Len(f) = 2 /\ Len(ttsStdout') = m + 2
      BY <1>1, <1>4, <3>2
    <3>4. i = m + 1 \/ i = m + 2
      BY <1>2, <3>1, <3>3
    <3>5. QED
      BY <1>2, <3>2, <3>3, <3>4
  <2>7. QED
    BY <2>1, <2>2, <2>3, <2>4, <2>5, <2>6 DEF LastFrameEnds
<1>6. QED
  BY <1>4, <1>5

\* The process works for the call under way, and for nobody else.
LEMMA ProcessSteps ==
    ASSUME SpeechInv, DaemonStarts \/ DaemonTakesRequest \/ DaemonAnswers \/ DaemonDies
    PROVE  SpeechInv'
<1>0. /\ SpeechTypeOK
      /\ ttsWork.at # "gone" => ttsDaemon
      /\ ttsWork \in DaemonWork /\ ttsStdin \in Seq(1..MaxCalls) /\ MaxCalls \in Nat /\ MaxAudio \in Nat
  BY SpeechAssumption DEF SpeechInv, SpeechTypeOK
<1>1. ASSUME ~ttsAbandoned, ttsWork.at \in {"speaking", "loading"} \/ (ttsWork.at = "waiting" /\ ttsStdin # <<>>)
      PROVE  /\ ttsCall # NoCall /\ AllIsOf(ttsCall.of) /\ OnlyAudioYet
             /\ ttsWork.at \in {"speaking", "loading"} => ttsStdin = <<>>
             /\ Len(ttsStdin) <= 1
  BY <1>0, <1>1 DEF SpeechInv
<1>2. ASSUME NEW of \in CallIds, NEW kind \in FrameKinds, NEW work \in DaemonWork,
             writes(of, kind), ttsWork' = work, UNCHANGED ttsStdin, processUnchanged,
             ttsWork.at \in {"speaking", "loading"}, AllIsOf(ttsCall.of) => of = ttsCall.of,
             work.at \in {"waiting", "gone"} \/ (work.at = "speaking" /\ work.of = of /\ kind = "audio")
      PROVE  SpeechInv'
  <2>1. SpeechTypeOK'
    BY <1>0, <1>2, FrameWritten DEF SpeechTypeOK, processUnchanged
  <2>2. ASSUME ~ttsAbandoned
        PROVE  ttsCall # NoCall /\ ttsStdin = <<>> /\ AllIsOf(of)' /\ LastFrameEnds' /\ of = ttsCall.of
               /\ (work.at = "speaking" => OnlyAudioYet')
    <3>1. ttsCall # NoCall /\ AllIsOf(of) /\ of = ttsCall.of /\ OnlyAudioYet /\ ttsStdin = <<>>
      BY <1>1, <1>2, <2>2
    <3>2. /\ \A i \in 1..Len(ttsStdout') : ttsStdout'[i].of = of
          /\ LastFrameEnds'
          /\ kind = "audio" => OnlyAudioYet'
      BY <1>0, <1>2, <3>1, FrameWritten DEF processUnchanged
    <3>3. AllIsOf(of)'
      BY <1>2, <3>1, <3>2 DEF AllIsOf, processUnchanged
    <3>4. QED
      BY <1>2, <3>1, <3>2, <3>3
  <2>3. UNCHANGED <<ttsDaemon, ttsRead, ttsCall, ttsForeign, ttsAbandoned, ttsStdin>>
    BY <1>2 DEF processUnchanged
  <2>4. QED
    BY <1>0, <1>2, <2>1, <2>2, <2>3 DEF SpeechInv
<1>3. Startup \in CallIds /\ 1..MaxCalls \subseteq CallIds
  BY <1>0 DEF Startup, CallIds
<1>4. [at |-> "waiting"] \in DaemonWork /\ [at |-> "gone"] \in DaemonWork
  BY DEF DaemonWork
<1>5. CASE DaemonStarts
  <2>1. AllIsOf(ttsCall.of) => Startup = ttsCall.of
    BY <1>5 DEF DaemonStarts, AllIsOf
  <2>2. PICK kind \in {"ready", "error"}, work \in DaemonWork :
            writes(Startup, kind) /\ ttsWork' = work /\ work.at \in {"waiting", "gone"}
    BY <1>4, <1>5 DEF DaemonStarts
  <2>3. kind \in FrameKinds
    BY DEF FrameKinds
  <2>4. QED
    BY <1>2, <1>3, <1>5, <2>1, <2>2, <2>3 DEF DaemonStarts
<1>6. CASE DaemonTakesRequest
  <2>1. /\ Head(ttsStdin) \in 1..MaxCalls /\ Tail(ttsStdin) \in Seq(1..MaxCalls)
        /\ Len(Tail(ttsStdin)) = Len(ttsStdin) - 1 /\ Head(ttsStdin) = ttsStdin[1] /\ Len(ttsStdin) \in Nat \ {0}
    BY <1>0, <1>6, HeadTailProperties, EmptySeq DEF DaemonTakesRequest
  <2>2. [at |-> "speaking", of |-> Head(ttsStdin), sent |-> 0] \in DaemonWork
    BY <1>0, <2>1 DEF DaemonWork
  <2>3. SpeechTypeOK'
    BY <1>0, <1>6, <2>1, <2>2 DEF DaemonTakesRequest, processUnchanged, SpeechTypeOK
  <2>4. ASSUME ~ttsAbandoned
        PROVE  Tail(ttsStdin) = <<>> /\ ttsCall # NoCall /\ AllIsOf(ttsCall.of)' /\ LastFrameEnds' /\ OnlyAudioYet'
    <3>1. /\ ttsCall # NoCall /\ AllIsOf(ttsCall.of) /\ OnlyAudioYet /\ LastFrameEnds
          /\ Len(ttsStdin) <= 1
      BY <1>1, <1>6, <2>4 DEF DaemonTakesRequest, SpeechInv
    <3>2. Tail(ttsStdin) = <<>>
      BY <2>1, <3>1, EmptySeq
    <3>3. Head(ttsStdin) = ttsCall.of
      BY <2>1, <3>1 DEF AllIsOf
    <3>4. AllIsOf(ttsCall.of)'
      BY <1>6, <3>1, <3>2, <3>3 DEF AllIsOf, DaemonTakesRequest, processUnchanged
    <3>5. QED
      BY <1>6, <3>1, <3>2, <3>4 DEF DaemonTakesRequest, processUnchanged, LastFrameEnds, OnlyAudioYet
  <2>5. ttsWork'.at = "speaking" /\ ttsStdin' = Tail(ttsStdin) /\ ttsDaemon
        /\ UNCHANGED <<ttsDaemon, ttsRead, ttsCall, ttsForeign, ttsAbandoned>>
    BY <1>0, <1>6 DEF DaemonTakesRequest, processUnchanged
  <2>6. QED
    BY <2>3, <2>4, <2>5 DEF SpeechInv
<1>7. CASE DaemonAnswers
  <2>1. ttsWork.of \in 1..MaxCalls /\ ttsWork.sent \in 0..MaxAudio /\ ttsWork.of \in CallIds
    BY <1>0, <1>3, <1>7, SpeechShapes DEF DaemonAnswers
  <2>2. AllIsOf(ttsCall.of) => ttsWork.of = ttsCall.of
    BY <1>7 DEF DaemonAnswers, AllIsOf
  <2>3. CASE ttsWork.sent < MaxAudio /\ writes(ttsWork.of, "audio") /\ ttsWork' = [ttsWork EXCEPT !.sent = @ + 1]
    <3>1. PICK work \in DaemonWork : /\ work = [ttsWork EXCEPT !.sent = @ + 1]
                                     /\ work.at = "speaking" /\ work.of = ttsWork.of
      <4>1. ttsWork \in [at : {"speaking"}, of : 1..MaxCalls, sent : 0..MaxAudio]
        BY <1>0, <1>7 DEF DaemonAnswers, DaemonWork
      <4>2. ttsWork.sent + 1 \in 0..MaxAudio
        BY <1>0, <2>1, <2>3
      <4>3. [ttsWork EXCEPT !.sent = ttsWork.sent + 1] \in [at : {"speaking"}, of : 1..MaxCalls, sent : 0..MaxAudio]
        BY <4>1, <4>2
      <4>4. QED
        BY <4>1, <4>3 DEF DaemonWork
    <3>2. QED
      BY <1>2, <1>7, <2>1, <2>2, <2>3, <3>1 DEF DaemonAnswers, FrameKinds
  <2>4. CASE \E last \in {"done", "error"} : writes(ttsWork.of, last) /\ ttsWork' = [at |-> "waiting"]
    <3>1. PICK last \in {"done", "error"} : writes(ttsWork.of, last) /\ ttsWork' = [at |-> "waiting"]
      BY <2>4
    <3>2. last \in FrameKinds
      BY DEF FrameKinds
    <3>3. QED
      BY <1>2, <1>4, <1>7, <2>1, <2>2, <3>1, <3>2 DEF DaemonAnswers
  <2>5. QED
    BY <1>7, <2>3, <2>4 DEF DaemonAnswers
<1>8. CASE DaemonDies
  <2>1. SpeechTypeOK'
    BY <1>0, <1>4, <1>8 DEF DaemonDies, processUnchanged, SpeechTypeOK
  <2>2. ttsWork'.at = "gone" /\ UNCHANGED <<ttsDaemon, ttsRead, ttsCall, ttsForeign, ttsAbandoned, ttsStdin, ttsStdout>>
    BY <1>8 DEF DaemonDies, processUnchanged
  <2>3. QED
    BY <2>1, <2>2 DEF SpeechInv, AllIsOf, LastFrameEnds, OnlyAudioYet
<1>9. QED
  BY <1>5, <1>6, <1>7, <1>8

-----------------------------------------------------------------------------
\* A call begins with empty pipes, or puts the only request into them.
LEMMA CallsBegin ==
    ASSUME SpeechInv, Initialize \/ Synthesize
    PROVE  SpeechInv'
<1>0. SpeechTypeOK /\ MaxCalls \in Nat
  BY SpeechAssumption DEF SpeechInv
<1>1. CASE Initialize
  <2>1. /\ ttsDaemon' = TRUE /\ ttsWork' = [at |-> "loading"] /\ ttsStdin' = <<>> /\ ttsStdout' = <<>>
        /\ ttsCall' = [pc |-> "initialize", of |-> Startup] /\ ttsRead' = ReadLength /\ ttsArrived' = FALSE
        /\ UNCHANGED <<ttsUnbuffered, ttsReady, ttsDestroying, ttsCalls, ttsMissed, ttsForeign, ttsAbandoned>>
    BY <1>1 DEF Initialize, startRead
  <2>2. ttsWork' \in DaemonWork /\ ttsCall' \in SpeechCalls /\ ttsCall' # NoCall
    BY <2>1 DEF DaemonWork, SpeechCalls, NoCall
  <2>3. /\ <<>> \in Seq(1..MaxCalls) /\ <<>> \in Seq(FrameParts) /\ Len(<<>>) = 0
    BY EmptySeq
  <2>4. SpeechTypeOK'
    BY <1>0, <2>1, <2>2, <2>3, SpeechShapes DEF SpeechTypeOK
  <2>5. AllIsOf(ttsCall.of)' /\ LastFrameEnds' /\ OnlyAudioYet'
    BY <2>1, <2>3, SpeechShapes DEF AllIsOf, LastFrameEnds, OnlyAudioYet
  <2>6. QED
    BY <2>1, <2>2, <2>3, <2>4, <2>5 DEF SpeechInv
<1>2. CASE Synthesize
  <2>1. PICK n \in 1..MaxCalls : n = ttsCalls + 1
    BY <1>0, <1>2 DEF Synthesize, SpeechTypeOK
  <2>2. /\ ttsCalls' = n /\ ttsStdin' = Append(ttsStdin, n) /\ ttsCall' = [pc |-> "synthesize", of |-> n]
        /\ ttsCall = NoCall /\ ttsDaemon /\ ttsRead' = ReadLength /\ ttsArrived' = FALSE
        /\ UNCHANGED <<ttsUnbuffered, ttsDaemon, ttsReady, ttsDestroying, ttsWork, ttsStdout,
                       ttsMissed, ttsForeign, ttsAbandoned>>
    BY <1>2, <2>1 DEF Synthesize, startRead
  <2>3. ttsCall' \in SpeechCalls /\ ttsCall' # NoCall /\ Append(ttsStdin, n) \in Seq(1..MaxCalls)
    BY <1>0, <2>2, AppendProperties DEF SpeechCalls, NoCall, SpeechTypeOK
  <2>4. SpeechTypeOK'
    <3>1. n \in 0..MaxCalls
      BY <1>0
    <3>2. QED
      BY <1>0, <2>2, <2>3, <3>1, SpeechShapes DEF SpeechTypeOK
  <2>5. ASSUME ~ttsAbandoned
        PROVE  /\ Len(ttsStdin') = 1 /\ ttsWork.at \in {"waiting", "gone"}
               /\ AllIsOf(n)' /\ LastFrameEnds' /\ OnlyAudioYet'
    <3>1. ttsStdin = <<>> /\ ttsStdout = <<>> /\ ttsWork.at \in {"waiting", "gone"}
      BY <2>2, <2>5 DEF SpeechInv
    <3>2. Len(ttsStdin') = 1 /\ ttsStdin'[1] = n
      BY <2>2, <3>1
    <3>3. Len(ttsStdout') = 0
      BY <2>2, <3>1
    <3>4. QED
      BY <2>2, <3>1, <3>2, <3>3, SpeechShapes DEF AllIsOf, LastFrameEnds, OnlyAudioYet
  <2>6. QED
    BY <2>2, <2>3, <2>4, <2>5 DEF SpeechInv
<1>3. QED
  BY <1>1, <1>2

\* A call ends with the process, or goes on after its audio was published.
LEMMA CallsEnd ==
    ASSUME SpeechInv, Published \/ ReadTimesOut \/ Destroy
    PROVE  SpeechInv'
<1>0. /\ SpeechTypeOK
      /\ [at |-> "gone"] \in DaemonWork
  BY DEF SpeechInv, DaemonWork
<1>1. ASSUME endCall, killDaemon, ttsMissed' \in BOOLEAN,
             UNCHANGED <<ttsUnbuffered, ttsReady, ttsDestroying, ttsStdin, ttsStdout, ttsCalls, ttsForeign, ttsAbandoned>>
      PROVE  SpeechInv'
  <2>1. SpeechTypeOK'
    BY <1>0, <1>1, SpeechShapes DEF SpeechTypeOK, endCall, killDaemon
  <2>2. QED
    BY <1>1, <2>1 DEF SpeechInv, endCall, killDaemon
<1>2. CASE ReadTimesOut
  BY <1>0, <1>1, <1>2 DEF ReadTimesOut, SpeechTypeOK
<1>3. CASE Destroy
  <2>1. SpeechTypeOK'
    BY <1>0, <1>3 DEF Destroy, killDaemon, SpeechTypeOK
  <2>2. /\ ttsWork'.at = "gone" /\ ttsDaemon' = FALSE
        /\ UNCHANGED <<ttsStdin, ttsStdout, ttsRead, ttsCall, ttsForeign, ttsAbandoned>>
    BY <1>3 DEF Destroy, killDaemon
  <2>3. QED
    BY <2>1, <2>2 DEF SpeechInv, AllIsOf, LastFrameEnds, OnlyAudioYet
<1>4. CASE Published
  <2>1. CASE ttsDaemon /\ startRead /\ ttsCall' = [ttsCall EXCEPT !.pc = "synthesize"] /\ keepDaemon /\ UNCHANGED ttsAbandoned
    <3>1. ttsCall \in SpeechCalls /\ ttsCall.pc = "yield"
      BY <1>0, <1>4 DEF Published, SpeechTypeOK
    <3>2. ttsCall' \in SpeechCalls /\ ttsCall'.pc = "synthesize" /\ ttsCall'.of = ttsCall.of
      BY <2>1, <3>1 DEF SpeechCalls, NoCall
    <3>3. ttsCall # NoCall /\ ttsCall' # NoCall
      BY <3>1, <3>2, SpeechShapes
    <3>4. /\ ttsRead' = ReadLength /\ ttsArrived' = FALSE
          /\ UNCHANGED <<ttsUnbuffered, ttsDaemon, ttsReady, ttsDestroying, ttsWork, ttsStdin, ttsStdout,
                         ttsCalls, ttsMissed, ttsForeign, ttsAbandoned>>
      BY <1>4, <2>1 DEF Published, startRead, keepDaemon
    <3>5. SpeechTypeOK'
      BY <1>0, <3>2, <3>4, SpeechShapes DEF SpeechTypeOK
    <3>6. /\ AllIsOf(ttsCall.of) => AllIsOf(ttsCall.of)'
          /\ LastFrameEnds => LastFrameEnds'
          /\ OnlyAudioYet => OnlyAudioYet'
      BY <3>2, <3>4, SpeechShapes DEF AllIsOf, LastFrameEnds, OnlyAudioYet
    <3>7. QED
      BY <3>2, <3>3, <3>4, <3>5, <3>6 DEF SpeechInv
  <2>2. CASE endCall /\ killDaemon /\ UNCHANGED ttsAbandoned
    BY <1>0, <1>1, <1>4, <2>2 DEF Published, SpeechTypeOK
  <2>3. CASE endCall /\ keepDaemon /\ ttsAbandoned' = TRUE
    <3>1. /\ ttsRead' = NotReading /\ ttsArrived' = FALSE /\ ttsCall' = NoCall /\ ttsAbandoned' = TRUE
          /\ UNCHANGED <<ttsUnbuffered, ttsDaemon, ttsReady, ttsDestroying, ttsWork, ttsStdin, ttsStdout,
                         ttsCalls, ttsMissed, ttsForeign>>
      BY <1>4, <2>3 DEF Published, endCall, keepDaemon
    <3>2. SpeechTypeOK'
      BY <1>0, <3>1, SpeechShapes DEF SpeechTypeOK
    <3>3. QED
      BY <3>1, <3>2 DEF SpeechInv
  <2>4. QED
    BY <1>4, <2>1, <2>2, <2>3 DEF Published
<1>5. QED
  BY <1>2, <1>3, <1>4

-----------------------------------------------------------------------------
\* What is read next is a frame of the call, and if it is no audio it is the last.
ReadsOn(n) ==
    ttsRead'.at = "payload" /\ ~ttsAbandoned /\ ttsCall # NoCall =>
        /\ ttsRead'.of = ttsCall.of
        /\ OnlyAudioYet => ttsRead'.kind = "audio"
        /\ ttsRead'.kind # "audio" => ttsRead'.got \in {0, 1} /\ Len(ttsStdout) - n = 1 - ttsRead'.got

\* A chunk is taken out of the pipe and the call goes on with what it had or more.
LEMMA ChunkTaken ==
    ASSUME SpeechInv, NEW n \in 1..Len(ttsStdout),
           ttsStdout' = SubSeq(ttsStdout, n + 1, Len(ttsStdout)),
           ttsRead' \in Reads, ttsArrived' \in BOOLEAN, NEW call \in SpeechCalls, ttsCall' = call,
           call = ttsCall \/ (ttsCall # NoCall /\ call.pc = "yield" /\ call.of = ttsCall.of /\ ttsRead' = NotReading),
           ttsRead = NotReading => ttsRead' = NotReading,
           ReadsOn(n), ttsForeign' \in BOOLEAN, ~ttsAbandoned => ~ttsForeign',
           UNCHANGED <<ttsUnbuffered, ttsDaemon, ttsReady, ttsDestroying, ttsWork, ttsStdin, ttsCalls,
                       ttsMissed, ttsAbandoned>>
    PROVE  SpeechInv'
<1>0. /\ SpeechTypeOK
      /\ ttsStdout \in Seq(FrameParts) /\ Len(ttsStdout) \in Nat
  BY DEF SpeechInv, SpeechTypeOK
<1>1. /\ ttsStdout' \in Seq(FrameParts) /\ Len(ttsStdout') = Len(ttsStdout) - n
      /\ \A i \in 1..Len(ttsStdout') : ttsStdout'[i] = ttsStdout[i + n] /\ i + n \in 1..Len(ttsStdout)
  BY <1>0, PipeRead
<1>2. SpeechTypeOK'
  BY <1>0, <1>1 DEF SpeechTypeOK
<1>3. ttsRead' # NotReading => ttsCall'.pc \in {"initialize", "synthesize"}
  BY SpeechShapes DEF SpeechInv
<1>4. ASSUME ~ttsAbandoned
      PROVE  /\ ttsCall = NoCall => ~ttsDaemon
             /\ ttsCall # NoCall =>
                   /\ ttsCall' # NoCall /\ ttsCall'.of = ttsCall.of
                   /\ AllIsOf(ttsCall.of)' /\ LastFrameEnds' /\ (OnlyAudioYet => OnlyAudioYet')
  <2>1. ttsCall = NoCall => ~ttsDaemon
    <3>1. ttsStdout # <<>>
      BY <1>0
    <3>2. QED
      BY <1>4, <3>1 DEF SpeechInv
  <2>2. ASSUME ttsCall # NoCall
        PROVE  /\ ttsCall' # NoCall /\ ttsCall'.of = ttsCall.of
               /\ AllIsOf(ttsCall.of)' /\ LastFrameEnds' /\ (OnlyAudioYet => OnlyAudioYet')
    <3>1. AllIsOf(ttsCall.of) /\ LastFrameEnds
      BY <1>4, <2>2 DEF SpeechInv
    <3>2. ttsCall' # NoCall /\ ttsCall'.of = ttsCall.of
      BY <2>2, SpeechShapes
    <3>3. ttsRead'.at = "payload" =>
              /\ ttsRead'.of = ttsCall.of
              /\ OnlyAudioYet => ttsRead'.kind = "audio"
              /\ ttsRead'.kind # "audio" => ttsRead'.got \in {0, 1} /\ Len(ttsStdout') = 1 - ttsRead'.got
      BY <1>1, <1>4, <2>2 DEF ReadsOn
    <3>4. \A i \in 1..Len(ttsStdout') : ttsStdout'[i].of = ttsCall.of
      BY <1>1, <3>1 DEF AllIsOf
    <3>5. AllIsOf(ttsCall.of)'
      BY <3>1, <3>2, <3>3, <3>4 DEF AllIsOf
    <3>6. OnlyAudioYet => OnlyAudioYet'
      BY <1>1, <3>3 DEF OnlyAudioYet
    <3>7. ASSUME NEW i \in 1..Len(ttsStdout'), ttsStdout'[i].kind # "audio"
          PROVE  ttsStdout'[i].part \in {0, 1} /\ Len(ttsStdout') = i + 1 - ttsStdout'[i].part
      <4>1. ttsStdout[i + n].part \in {0, 1} /\ Len(ttsStdout) = i + n + 1 - ttsStdout[i + n].part
        BY <1>1, <3>1, <3>7 DEF LastFrameEnds
      <4>2. QED
        BY <1>0, <1>1, <4>1
    <3>8. LastFrameEnds'
      BY <3>3, <3>7 DEF LastFrameEnds
    <3>9. QED
      BY <3>2, <3>5, <3>6, <3>8
  <2>3. QED
    BY <2>1, <2>2
<1>5. QED
  BY <1>2, <1>3, <1>4 DEF SpeechInv

\* onData, chunk by chunk.
LEMMA ReadKeeps ==
    ASSUME SpeechInv, NEW n \in 1..Len(ttsStdout), ReadDaemonResponse(n)
    PROVE  SpeechInv'
<1> DEFINE chunk == SubSeq(ttsStdout, 1, n)
<1>0. /\ SpeechTypeOK
      /\ ttsStdout \in Seq(FrameParts) /\ Len(ttsStdout) \in Nat
      /\ ttsRead \in Reads /\ ttsCall \in SpeechCalls
  BY DEF SpeechInv, SpeechTypeOK
<1>1. Len(chunk) = n /\ chunk[1] = ttsStdout[1] /\ ttsStdout[1] \in FrameParts
  BY <1>0, PipeRead, ElementOfSeq
<1>2. /\ onData(chunk) /\ ttsStdout' = SubSeq(ttsStdout, n + 1, Len(ttsStdout))
      /\ UNCHANGED <<ttsUnbuffered, ttsDestroying, ttsStdin, ttsCalls, ttsMissed, ttsAbandoned>>
  BY DEF ReadDaemonResponse
<1> HIDE DEF chunk
<1>3. ASSUME waits, ttsRead' \in Reads, ttsArrived' \in BOOLEAN, ReadsOn(n),
             ttsRead = NotReading => ttsRead' = NotReading
      PROVE  SpeechInv'
  <2>1. ttsCall' = ttsCall /\ UNCHANGED <<ttsReady, ttsForeign, ttsDaemon, ttsWork>>
    BY <1>3 DEF waits, keepDaemon
  <2>2. ttsForeign' \in BOOLEAN /\ (~ttsAbandoned => ~ttsForeign')
    BY <1>0, <2>1 DEF SpeechInv, SpeechTypeOK
  <2>3. QED
    BY <1>0, <1>2, <1>3, <2>1, <2>2, ChunkTaken
<1>4. CASE ttsRead.at \in {"none", "misread"}
  <2>1. waits /\ UNCHANGED <<ttsRead, ttsArrived>>
    BY <1>2, <1>4 DEF onData
  <2>2. ReadsOn(n) /\ ttsArrived' \in BOOLEAN
    BY <1>0, <1>4, <2>1 DEF ReadsOn, SpeechTypeOK
  <2>3. QED
    BY <1>0, <1>3, <2>1, <2>2
<1>5. CASE ttsRead.at = "length"
  <2>1. PICK room \in {1, 2} : room = parts(ttsStdout[1].kind) /\ (ttsStdout[1].kind # "audio" => room = 1)
    BY DEF parts
  <2>2. PICK got \in 0..2 : got = IF n - 1 < room THEN n - 1 ELSE room
    BY <2>1
  <2>3. /\ waits /\ ttsArrived' = (ttsArrived \/ holdsFrame(chunk))
        /\ ttsRead' = IF ttsStdout[1].part # 0 THEN Misread
                      ELSE [at |-> "payload", of |-> ttsStdout[1].of, kind |-> ttsStdout[1].kind, got |-> got]
    BY <1>1, <1>2, <1>5, <2>1, <2>2 DEF onData
  <2>4. ttsArrived' \in BOOLEAN
    BY <1>0, <2>3 DEF SpeechTypeOK
  <2>5. ttsRead' \in Reads
    BY <1>1, <2>3, SpeechShapes DEF Reads, FrameParts
  <2>6. ReadsOn(n)
    <3>1. SUFFICES ASSUME ttsRead'.at = "payload", ~ttsAbandoned, ttsCall # NoCall
                   PROVE  /\ ttsRead'.of = ttsCall.of
                          /\ OnlyAudioYet => ttsRead'.kind = "audio"
                          /\ ttsRead'.kind # "audio" => ttsRead'.got \in {0, 1} /\ Len(ttsStdout) - n = 1 - ttsRead'.got
      BY DEF ReadsOn
    <3>2. /\ ttsStdout[1].part = 0 /\ ttsRead'.of = ttsStdout[1].of
          /\ ttsRead'.kind = ttsStdout[1].kind /\ ttsRead'.got = got
      BY <2>3, <3>1, SpeechShapes
    <3>3. AllIsOf(ttsCall.of) /\ LastFrameEnds /\ 1 \in 1..Len(ttsStdout)
      BY <1>0, <3>1 DEF SpeechInv
    <3>4. ttsStdout[1].kind # "audio" => Len(ttsStdout) = 2
      <4>1. ttsStdout[1].kind # "audio" => Len(ttsStdout) = 1 + 1 - ttsStdout[1].part
        BY <3>3 DEF LastFrameEnds
      <4>2. QED
        BY <3>2, <4>1
    <3>5. ttsStdout[1].kind # "audio" => got \in {0, 1} /\ Len(ttsStdout) - n = 1 - got
      <4>1. SUFFICES ASSUME Len(ttsStdout) = 2, room = 1 PROVE got \in {0, 1} /\ Len(ttsStdout) - n = 1 - got
        BY <2>1, <3>4
      <4>2. n = 1 \/ n = 2
        BY <4>1
      <4>3. QED
        BY <2>2, <4>1, <4>2
    <3>6. QED
      BY <3>2, <3>3, <3>5 DEF AllIsOf, OnlyAudioYet
  <2>7. ttsRead # NotReading
    BY <1>5, SpeechShapes
  <2>8. QED
    BY <1>3, <2>3, <2>4, <2>5, <2>6, <2>7
<1>6. CASE ttsRead.at = "payload"
  <2>0. /\ ttsRead.of \in CallIds /\ ttsRead.kind \in FrameKinds /\ ttsRead.got \in 0..2 /\ ttsRead # NotReading
        /\ ttsCall # NoCall /\ ttsCall.pc \in {"initialize", "synthesize"}
        /\ ~ttsAbandoned => /\ AllIsOf(ttsCall.of) /\ LastFrameEnds /\ ttsRead.of = ttsCall.of /\ ~ttsForeign
                            /\ ttsWork.at \in {"speaking", "loading"} \/ ttsStdin # <<>> => OnlyAudioYet
    <3>1. ttsRead.of \in CallIds /\ ttsRead.kind \in FrameKinds /\ ttsRead.got \in 0..2 /\ ttsRead # NotReading
      BY <1>0, <1>6, SpeechShapes
    <3>2. ttsCall # NoCall /\ ttsCall.pc \in {"initialize", "synthesize"}
      BY <3>1, SpeechShapes DEF SpeechInv
    <3>3. QED
      BY <1>6, <3>1, <3>2 DEF SpeechInv, AllIsOf
  <2>1. parts(ttsRead.kind) \in {1, 2} /\ (ttsRead.kind # "audio" => parts(ttsRead.kind) = 1)
    BY DEF parts
  <2>2. CASE ~(ttsRead.got + n >= parts(ttsRead.kind))
    <3>1. PICK got \in 0..2 : got = ttsRead.got + n
      BY <1>0, <2>0, <2>1, <2>2
    <3>2. waits /\ ttsRead' = [ttsRead EXCEPT !.got = got] /\ UNCHANGED ttsArrived
      BY <1>1, <1>2, <1>6, <2>2, <3>1 DEF onData
    <3>3. ttsRead' \in Reads /\ ttsRead'.of = ttsRead.of /\ ttsRead'.kind = ttsRead.kind /\ ttsRead'.at = "payload"
      BY <1>0, <1>6, <3>2 DEF Reads, NotReading, ReadLength, Misread
    <3>4. ttsRead.kind = "audio"
      BY <1>0, <2>0, <2>1, <2>2
    <3>5. ReadsOn(n)
      BY <2>0, <3>3, <3>4 DEF ReadsOn
    <3>6. QED
      BY <1>0, <1>3, <2>0, <3>2, <3>3, <3>5 DEF SpeechTypeOK
  <2>3. CASE ttsRead.got + n >= parts(ttsRead.kind)
    <3>1. resolve(ttsRead.of, ttsRead.kind)
      BY <1>1, <1>2, <1>6, <2>3 DEF onData
    <3>2. ttsForeign' \in BOOLEAN /\ (~ttsAbandoned => ~ttsForeign')
      BY <1>0, <2>0, <3>1 DEF resolve, SpeechTypeOK
    <3>3. ASSUME endCall, keepDaemon, ttsRead.kind # "audio", ttsReady' \in BOOLEAN PROVE SpeechInv'
      <4>1. /\ ttsStdout' \in Seq(FrameParts) /\ Len(ttsStdout') = Len(ttsStdout) - n
        BY <1>0, <1>2, PipeRead
      <4>2. SpeechTypeOK'
        BY <1>0, <1>2, <3>2, <3>3, <4>1, SpeechShapes DEF SpeechTypeOK, endCall, keepDaemon
      <4>3. ~ttsAbandoned => ttsStdout' = <<>> /\ ttsStdin = <<>> /\ ttsWork.at \notin {"speaking", "loading"}
        <5>1. SUFFICES ASSUME ~ttsAbandoned
                       PROVE  ttsStdout' = <<>> /\ ttsStdin = <<>> /\ ttsWork.at \notin {"speaking", "loading"}
          OBVIOUS
        <5>2. ttsRead.got \in {0, 1} /\ Len(ttsStdout) = 1 - ttsRead.got
          BY <1>6, <2>0, <3>3, <5>1 DEF LastFrameEnds
        <5>3. Len(ttsStdout') = 0
          BY <1>0, <4>1, <5>2
        <5>4. ~OnlyAudioYet
          BY <1>6, <3>3 DEF OnlyAudioYet
        <5>5. QED
          BY <2>0, <4>1, <5>1, <5>3, <5>4, EmptySeq
      <4>4. ttsWork \in DaemonWork => ttsWork.at \in {"gone", "loading", "waiting", "speaking"}
        BY DEF DaemonWork
      <4>5. /\ ttsCall' = NoCall /\ ttsRead' = NotReading
            /\ UNCHANGED <<ttsDaemon, ttsWork, ttsStdin, ttsAbandoned>>
        BY <1>2, <3>3 DEF endCall, keepDaemon
      <4>6. QED
        BY <1>0, <3>2, <4>2, <4>3, <4>4, <4>5 DEF SpeechInv, SpeechTypeOK
    <3>4. CASE ttsCall.pc = "initialize"
      <4>1. CASE ttsRead.kind = "ready"
        BY <3>1, <3>3, <3>4, <4>1 DEF resolve
      <4>2. CASE ttsRead.kind # "ready"
        <5>1. /\ ttsRead' = NotReading /\ ttsArrived' = FALSE /\ ttsCall' = NoCall /\ ttsDaemon' = FALSE
              /\ ttsWork' = [at |-> "gone"] /\ UNCHANGED ttsReady
          BY <3>1, <3>4, <4>2 DEF resolve, endCall, killDaemon
        <5>2. [at |-> "gone"] \in DaemonWork /\ ttsStdout' \in Seq(FrameParts)
          BY <1>0, <1>2, PipeRead DEF DaemonWork
        <5>3. SpeechTypeOK'
          BY <1>0, <1>2, <3>2, <5>1, <5>2, SpeechShapes DEF SpeechTypeOK
        <5>4. QED
          BY <1>2, <3>2, <5>1, <5>3 DEF SpeechInv
      <4>3. QED
        BY <4>1, <4>2
    <3>5. CASE ttsCall.pc = "synthesize"
      <4>1. CASE ttsRead.kind = "audio"
        <5>1. /\ ttsRead' = NotReading /\ ttsArrived' = FALSE /\ ttsCall' = [ttsCall EXCEPT !.pc = "yield"]
              /\ UNCHANGED <<ttsReady, ttsDaemon, ttsWork>>
          BY <3>1, <3>5, <4>1 DEF resolve, keepDaemon
        <5>2. PICK call \in SpeechCalls :
                  call = [ttsCall EXCEPT !.pc = "yield"] /\ call.pc = "yield" /\ call.of = ttsCall.of
          <6>1. ttsCall \in [pc : {"synthesize", "yield"}, of : 1..MaxCalls]
            BY <1>0, <3>5 DEF SpeechCalls, NoCall
          <6>2. [ttsCall EXCEPT !.pc = "yield"] \in [pc : {"synthesize", "yield"}, of : 1..MaxCalls]
            BY <6>1
          <6>3. QED
            BY <6>1, <6>2 DEF SpeechCalls
        <5>3. ReadsOn(n)
          BY <5>1, SpeechShapes DEF ReadsOn
        <5>4. QED
          BY <1>2, <2>0, <3>2, <5>1, <5>2, <5>3, SpeechShapes, ChunkTaken
      <4>2. CASE ttsRead.kind # "audio"
        BY <1>0, <3>1, <3>3, <3>5, <4>2 DEF resolve, SpeechTypeOK
      <4>3. QED
        BY <4>1, <4>2
    <3>6. QED
      BY <2>0, <3>4, <3>5
  <2>4. QED
    BY <2>2, <2>3
<1>7. QED
  BY <1>0, <1>4, <1>5, <1>6, SpeechShapes

\* Every step keeps the invariant of the pipe.
LEMMA SpeechNextKeeps == SpeechInv /\ [SpeechNext]_ttsVars => SpeechInv'
<1>1. ASSUME SpeechInv, UNCHANGED ttsVars PROVE SpeechInv'
  BY <1>1 DEF ttsVars, SpeechInv, SpeechTypeOK, AllIsOf, LastFrameEnds, OnlyAudioYet
<1>2. ASSUME SpeechInv, SpeechNext PROVE SpeechInv'
  BY <1>2, ProcessSteps, CallsBegin, CallsEnd, ReadKeeps DEF SpeechNext
<1>3. QED
  BY <1>1, <1>2

-----------------------------------------------------------------------------
\* The pipes and both ends of them keep their types.
THEOREM SpeechType == SpeechSpec => []SpeechTypeOK
<1>1. SpeechInv => SpeechTypeOK
  BY DEF SpeechInv
<1>2. QED
  BY <1>1, SpeechInitInv, SpeechNextKeeps, PTL DEF SpeechSpec

\* No call of synthesize speaks the answer to another, however the daemon's writes are
\* cut into chunks and whatever dies or times out, unless an earlier call was given up
\* while the daemon went on.
THEOREM CallsSpeakTheirOwn == SpeechSpec => []SpeechIsOwn
<1>1. SpeechInv => SpeechIsOwn
  BY DEF SpeechInv, SpeechIsOwn
<1>2. QED
  BY <1>1, SpeechInitInv, SpeechNextKeeps, PTL DEF SpeechSpec

-----------------------------------------------------------------------------
\* The brain: Brain.tla.

\* The window is the end of what was heard: all of it, or enough of it.
WindowSound ==
    /\ brnWindow \in Seq(Nat) /\ Len(brnWindow) <= 2 * max_recent_segments
    /\ Len(brnWindow) >= max_recent_segments \/ Len(brnWindow) = brnHeard
    /\ Len(brnWindow) <= brnHeard
    /\ \A i \in 1..Len(brnWindow) : brnWindow[i] = brnHeard - Len(brnWindow) + i

\* A question is where the questions recorded since have moved it.
QuestionsSound ==
    /\ brnQuestions \in Seq(Texts) /\ brnTopics \in Seq(Texts)
    /\ Len(brnQuestions) <= max_accumulated_items
    /\ \A t \in Texts : brnSince[t] < max_accumulated_items =>
          /\ brnSince[t] < Len(brnQuestions)
          /\ brnQuestions[Len(brnQuestions) - brnSince[t]] = t

BrainInv == BrainTypeOK /\ WindowSound /\ QuestionsSound /\ RepetitionIsNoticed

-----------------------------------------------------------------------------
\* What is in a sequence are its elements.
LEMMA ElementsOfSeq ==
    ASSUME NEW S, NEW s \in Seq(S)
    PROVE  elements(s) \subseteq S /\ \A i \in 1..Len(s) : s[i] \in elements(s)
BY DEF elements

\* addItem keeps the newest n entries: each moves one place away from the end.
LEMMA ItemsMove ==
    ASSUME NEW S, NEW list \in Seq(S), NEW item \in S, NEW n \in Nat \ {0}, Len(list) <= n
    PROVE  LET added == addItem(list, item, n)
           IN /\ added \in Seq(S) /\ Len(added) <= n /\ Len(added) > 0
              /\ added[Len(added)] = item
              /\ \A k \in Nat : k < Len(list) /\ k + 1 < n =>
                    /\ k + 1 < Len(added)
                    /\ added[Len(added) - (k + 1)] = list[Len(list) - k]
<1>1. CASE Len(list) >= n
  <2>1. /\ Tail(list) \in Seq(S) /\ Len(Tail(list)) = Len(list) - 1
        /\ \A i \in 1..Len(list) - 1 : Tail(list)[i] = list[i + 1]
    BY <1>1, HeadTailProperties
  <2>2. /\ Append(Tail(list), item) \in Seq(S) /\ Len(Append(Tail(list), item)) = Len(list)
        /\ Append(Tail(list), item)[Len(list)] = item
        /\ \A i \in 1..Len(list) - 1 : Append(Tail(list), item)[i] = list[i + 1]
    BY <2>1, AppendProperties
  <2>3. addItem(list, item, n) = Append(Tail(list), item) /\ Len(list) = n
    BY <1>1 DEF addItem
  <2>4. ASSUME NEW k \in Nat, k < Len(list), k + 1 < n
        PROVE  Append(Tail(list), item)[Len(list) - (k + 1)] = list[Len(list) - k]
    <3>1. Len(list) - (k + 1) \in 1..Len(list) - 1
      BY <2>3, <2>4
    <3>2. (Len(list) - (k + 1)) + 1 = Len(list) - k
      BY <2>4
    <3>3. QED
      BY <2>2, <3>1, <3>2
  <2>5. QED
    BY <2>2, <2>3, <2>4
<1>2. CASE Len(list) < n
  <2>1. addItem(list, item, n) = Append(list, item)
    BY <1>2 DEF addItem
  <2>2. /\ Append(list, item) \in Seq(S) /\ Len(Append(list, item)) = Len(list) + 1
        /\ Append(list, item)[Len(list) + 1] = item
        /\ \A i \in 1..Len(list) : Append(list, item)[i] = list[i]
    BY AppendProperties
  <2>3. ASSUME NEW k \in Nat, k < Len(list)
        PROVE  Append(list, item)[Len(list) + 1 - (k + 1)] = list[Len(list) - k]
    <3>1. Len(list) + 1 - (k + 1) = Len(list) - k /\ Len(list) - k \in 1..Len(list)
      BY <2>3
    <3>2. QED
      BY <2>2, <3>1
  <2>4. QED
    BY <1>2, <2>1, <2>2, <2>3
<1>3. QED
  BY <1>1, <1>2

\* A text with a content word repeats itself.
LEMMA RepeatsItself ==
    ASSUME NEW t \in Texts, Words[t] # {}
    PROVE  keywordOverlap(Words[t], Words[t])
<1>1. Cardinality(Words[t]) \in Nat
  BY BrainAssumption, FS_CardinalityType
<1>2. Words[t] \cap Words[t] = Words[t] /\ Words[t] \cup Words[t] = Words[t]
  OBVIOUS
<1>3. /\ Cardinality(Words[t] \cap Words[t]) = Cardinality(Words[t])
      /\ Cardinality(Words[t] \cup Words[t]) = Cardinality(Words[t])
  BY <1>2, Zenon
<1>4. 2 * Cardinality(Words[t] \cap Words[t]) >= Cardinality(Words[t] \cup Words[t])
  BY <1>1, <1>3
<1>5. QED
  BY <1>4 DEF keywordOverlap

\* What is planned for a text is a plan, afresh only if it is not a repetition.
LEMMA PlansOfTexts ==
    ASSUME NEW t \in Texts, Kind[t] # "noise"
    PROVE  /\ planResponse(t) \in Plans
           /\ planResponse(t) \in {"answer", "reference"} => ~isDuplicateQuestion(t)
<1>1. CASE Kind[t] = "sensitive"
  BY <1>1 DEF planResponse, Plans
<1>2. CASE Kind[t] = "clarification"
  BY <1>2 DEF planResponse, Plans
<1>3. CASE Kind[t] = "plain"
  <2>1. planResponse(t) = IF isDuplicateQuestion(t) THEN "repeated"
                          ELSE IF isCoveredTopic(t) THEN "reference" ELSE "answer"
    BY <1>3 DEF planResponse
  <2>2. QED
    BY <2>1 DEF Plans
<1>4. QED
  BY <1>1, <1>2, <1>3, BrainAssumption

\* addSegment keeps the end of what was heard.
LEMMA WindowMoves ==
    ASSUME WindowSound, brnHeard \in Nat, brnHeard' = brnHeard + 1,
           brnWindow' = addSegment(brnWindow, brnHeard + 1)
    PROVE  WindowSound'
<1> DEFINE pushed == Append(brnWindow, brnHeard + 1)
           n == Len(brnWindow)
<1>0. brnWindow \in Seq(Nat) /\ n \in Nat /\ max_recent_segments \in Nat \ {0}
  BY BrainAssumption DEF WindowSound
<1>1. /\ pushed \in Seq(Nat) /\ Len(pushed) = n + 1
      /\ \A i \in 1..n + 1 : pushed[i] = (brnHeard + 1) - (n + 1) + i
  <2>1. /\ pushed \in Seq(Nat) /\ Len(pushed) = n + 1 /\ pushed[n + 1] = brnHeard + 1
        /\ \A i \in 1..n : pushed[i] = brnWindow[i]
    BY <1>0, AppendProperties
  <2>2. \A i \in 1..n : brnWindow[i] = brnHeard - n + i
    BY DEF WindowSound
  <2> HIDE DEF pushed
  <2>3. ASSUME NEW i \in 1..n + 1 PROVE pushed[i] = (brnHeard + 1) - (n + 1) + i
    <3>1. CASE i = n + 1
      BY <1>0, <2>1, <3>1
    <3>2. CASE i \in 1..n
      <4>1. pushed[i] = brnHeard - n + i
        BY <2>1, <2>2, <3>2
      <4>2. QED
        BY <1>0, <4>1
    <3>3. QED
      BY <1>0, <3>1, <3>2
  <2>4. QED
    BY <2>1, <2>3
<1> HIDE DEF pushed
<1>2. CASE Len(pushed) > 2 * max_recent_segments
  <2> DEFINE from == Len(pushed) - max_recent_segments + 1
             cut == SubSeq(pushed, from, Len(pushed))
  <2>1. brnWindow' = cut
    BY <1>2 DEF addSegment, pushed
  <2>2. from \in 1..Len(pushed) /\ Len(pushed) \in Nat
    BY <1>0, <1>1, <1>2
  <2>3. /\ cut \in Seq(Nat) /\ Len(cut) = max_recent_segments
        /\ \A i \in 1..max_recent_segments : cut[i] = pushed[from + i - 1]
    <3>1. \A i \in from..Len(pushed) : i \in 1..Len(pushed)
      BY <2>2
    <3>2. \A i \in from..Len(pushed) : pushed[i] \in Nat
      BY <1>1, <3>1
    <3>3. /\ cut \in Seq(Nat) /\ Len(cut) = Len(pushed) - from + 1
          /\ \A i \in 1..Len(pushed) - from + 1 : cut[i] = pushed[from + i - 1]
      BY <2>2, <3>2, SubSeqProperties
    <3>4. Len(pushed) - from + 1 = max_recent_segments
      BY <1>0, <1>1
    <3>5. QED
      BY <3>3, <3>4
  <2>4. ASSUME NEW i \in 1..max_recent_segments
        PROVE  cut[i] = brnHeard + 1 - max_recent_segments + i
    <3>1. from + i - 1 = n + 1 - max_recent_segments + i /\ from + i - 1 \in 1..n + 1
      BY <1>0, <1>1, <1>2
    <3>2. pushed[from + i - 1] = (brnHeard + 1) - (n + 1) + (from + i - 1)
      BY <1>1, <3>1
    <3>3. cut[i] = pushed[from + i - 1]
      BY <2>3
    <3> HIDE DEF cut, from
    <3>4. QED
      BY <1>0, <3>1, <3>2, <3>3
  <2> HIDE DEF cut
  <2>5. Len(brnWindow') = max_recent_segments /\ max_recent_segments <= brnHeard + 1
    BY <1>0, <1>1, <1>2, <2>1, <2>3 DEF WindowSound
  <2>6. /\ brnWindow' \in Seq(Nat) /\ Len(brnWindow') <= 2 * max_recent_segments
        /\ Len(brnWindow') >= max_recent_segments /\ Len(brnWindow') <= brnHeard'
    BY <1>0, <2>1, <2>3, <2>5
  <2>7. \A i \in 1..Len(brnWindow') : brnWindow'[i] = brnHeard' - Len(brnWindow') + i
    <3>1. \A i \in 1..max_recent_segments : brnWindow'[i] = brnHeard + 1 - max_recent_segments + i
      BY <2>1, <2>4
    <3>2. Len(brnWindow') = max_recent_segments
      BY <2>5
    <3>3. QED
      BY <3>1, <3>2
  <2>8. QED
    BY <2>6, <2>7 DEF WindowSound
<1>3. CASE Len(pushed) <= 2 * max_recent_segments
  <2>1. brnWindow' = pushed
    BY <1>0, <1>1, <1>3 DEF addSegment, pushed
  <2>2. /\ brnWindow' \in Seq(Nat) /\ Len(brnWindow') <= 2 * max_recent_segments
        /\ Len(brnWindow') = n + 1 /\ n <= brnHeard
        /\ n >= max_recent_segments \/ n = brnHeard
    BY <1>1, <1>3, <2>1 DEF WindowSound
  <2>3. \A i \in 1..Len(brnWindow') : brnWindow'[i] = brnHeard' - Len(brnWindow') + i
    BY <1>1, <2>1, <2>2
  <2>4. /\ Len(brnWindow') <= brnHeard'
        /\ Len(brnWindow') >= max_recent_segments \/ Len(brnWindow') = brnHeard'
    BY <1>0, <2>2
  <2>5. QED
    BY <2>2, <2>3, <2>4 DEF WindowSound
<1>4. QED
  BY <1>0, <1>1, <1>2, <1>3

-----------------------------------------------------------------------------
\* Nothing has been heard at first.
LEMMA BrainInitInv == BrainInit => BrainInv
<1>1. SUFFICES ASSUME BrainInit PROVE BrainInv
  OBVIOUS
<1>2. BrainTypeOK
  <2>1. elements(brnWindow) = {} /\ elements(brnQuestions) = {} /\ elements(brnTopics) = {}
    BY <1>1 DEF BrainInit, elements
  <2>2. brnTurn \in [Turns -> BrainTurns]
    BY <1>1 DEF BrainInit, BrainTurns
  <2>3. brnHeard \in 0..MaxHeard /\ brnSince \in [Texts -> 0..max_accumulated_items]
    BY <1>1, BrainAssumption DEF BrainInit
  <2>4. QED
    BY <1>1, <2>1, <2>2, <2>3 DEF BrainInit, BrainTypeOK
<1>3. WindowSound /\ QuestionsSound /\ RepetitionIsNoticed
  BY <1>1, BrainAssumption DEF BrainInit, WindowSound, QuestionsSound, RepetitionIsNoticed
<1>4. QED
  BY <1>2, <1>3 DEF BrainInv

\* What is heard is appended to the window, and the plan made for the model.
LEMMA RespondKeeps ==
    ASSUME BrainInv, NEW c \in Turns, NEW text \in Texts, Respond(c, text)
    PROVE  BrainInv'
<1>0. /\ BrainTypeOK /\ WindowSound /\ QuestionsSound /\ RepetitionIsNoticed
      /\ brnHeard \in Nat /\ brnHeard < MaxHeard /\ brnTurn \in [Turns -> BrainTurns]
      /\ brnSince \in [Texts -> 0..max_accumulated_items] /\ brnAgain \subseteq Texts
      /\ UNCHANGED <<brnReady, brnQuestions, brnTopics, brnSince>>
  BY BrainAssumption DEF BrainInv, BrainTypeOK, Respond
<1>1. WindowSound'
  BY <1>0, WindowMoves DEF Respond
<1>2. brnHeard' \in 0..MaxHeard /\ elements(brnWindow') \subseteq 1..MaxHeard
  <2>1. brnHeard' = brnHeard + 1 /\ brnHeard' \in 0..MaxHeard
    BY <1>0, BrainAssumption DEF Respond
  <2>2. ASSUME NEW i \in 1..Len(brnWindow')
        PROVE  brnWindow'[i] \in 1..MaxHeard
    <3>1. /\ Len(brnWindow') \in Nat /\ Len(brnWindow') <= brnHeard'
          /\ brnWindow'[i] = brnHeard' - Len(brnWindow') + i
      BY <1>1 DEF WindowSound
    <3>2. QED
      BY <2>1, <3>1, BrainAssumption
  <2>3. SUFFICES ASSUME NEW e \in elements(brnWindow') PROVE e \in 1..MaxHeard
    BY <2>1
  <2>4. PICK i \in DOMAIN brnWindow' : e = brnWindow'[i]
    BY DEF elements
  <2>5. i \in 1..Len(brnWindow')
    BY <1>1 DEF WindowSound
  <2>6. QED
    BY <2>2, <2>4, <2>5
<1>3. QuestionsSound'
  BY <1>0 DEF QuestionsSound
<1>4. brnTurn' \in [Turns -> BrainTurns] /\ brnAgain' \subseteq Texts /\ RepetitionIsNoticed'
  <2>1. CASE Kind[text] = "noise"
    BY <1>0, <2>1 DEF Respond, RepetitionIsNoticed
  <2>2. CASE Kind[text] # "noise"
    <3>1. [plan |-> planResponse(text), text |-> text] \in BrainTurns
      BY <2>2, PlansOfTexts DEF BrainTurns
    <3>2. brnTurn' \in [Turns -> BrainTurns]
      BY <1>0, <2>2, <3>1 DEF Respond
    <3>3. CASE planResponse(text) \in {"answer", "reference"} /\ brnSince[text] < max_accumulated_items
      <4>1. ~isDuplicateQuestion(text)
        BY <2>2, <3>3, PlansOfTexts
      <4>2. text \in elements(brnQuestions)
        <5>1. /\ brnSince[text] \in Nat /\ brnSince[text] < Len(brnQuestions)
              /\ brnQuestions[Len(brnQuestions) - brnSince[text]] = text
          BY <1>0, <3>3, BrainAssumption DEF QuestionsSound
        <5>2. Len(brnQuestions) - brnSince[text] \in 1..Len(brnQuestions) /\ brnQuestions \in Seq(Texts)
          BY <1>0, <5>1 DEF QuestionsSound
        <5>3. QED
          BY <5>1, <5>2, ElementsOfSeq
      <4>3. Words[text] = {}
        BY <4>1, <4>2, RepeatsItself DEF isDuplicateQuestion
      <4>4. brnAgain' = brnAgain \cup {text}
        BY <2>2, <3>3 DEF Respond
      <4>5. QED
        BY <1>0, <3>2, <4>3, <4>4 DEF RepetitionIsNoticed
    <3>4. CASE ~(planResponse(text) \in {"answer", "reference"} /\ brnSince[text] < max_accumulated_items)
      <4>1. brnAgain' = brnAgain
        BY <2>2, <3>4 DEF Respond
      <4>2. QED
        BY <1>0, <3>2, <4>1 DEF RepetitionIsNoticed
    <3>5. QED
      BY <3>3, <3>4
  <2>3. QED
    BY <2>1, <2>2
<1>5. BrainTypeOK'
  BY <1>0, <1>2, <1>4 DEF BrainTypeOK
<1>6. QED
  BY <1>1, <1>3, <1>4, <1>5 DEF BrainInv

\* A reply is recorded with its question and topics, and the window may be cut.
LEMMA GeneratedKeeps ==
    ASSUME BrainInv, NEW c \in Turns, NEW reply \in Replies, Generated(c, reply)
    PROVE  BrainInv'
<1> DEFINE text == brnTurn[c].text
           m == max_accumulated_items
<1>0. /\ BrainTypeOK /\ WindowSound /\ QuestionsSound /\ RepetitionIsNoticed
      /\ brnTurn \in [Turns -> BrainTurns] /\ m \in Nat \ {0}
      /\ brnSince \in [Texts -> 0..m] /\ brnAgain \subseteq Texts
      /\ brnTurn[c] # TurnFree
      /\ UNCHANGED <<brnReady, brnHeard, brnWindow, brnAgain>>
  BY BrainAssumption DEF BrainInv, BrainTypeOK, Generated
<1>1. text \in Texts
  BY <1>0 DEF BrainTurns
<1> HIDE DEF text
<1>2. brnTurn' \in [Turns -> BrainTurns]
  <2>1. TurnFree \in BrainTurns
    BY DEF BrainTurns
  <2>2. QED
    BY <1>0, <2>1 DEF Generated
<1>3. brnTopics' \in Seq(Texts)
  <2>1. brnTopics \in Seq(Texts)
    BY <1>0 DEF QuestionsSound
  <2>2. addItem(brnTopics, text, m) \in Seq(Texts)
    BY <1>0, <1>1, <2>1, HeadTailProperties, AppendProperties DEF addItem
  <2>3. QED
    BY <2>1, <2>2 DEF Generated, text
<1>4. /\ brnQuestions' \in Seq(Texts) /\ Len(brnQuestions') <= m /\ Len(brnQuestions') > 0
      /\ brnQuestions'[Len(brnQuestions')] = text
      /\ \A k \in Nat : k < Len(brnQuestions) /\ k + 1 < m =>
            /\ k + 1 < Len(brnQuestions')
            /\ brnQuestions'[Len(brnQuestions') - (k + 1)] = brnQuestions[Len(brnQuestions) - k]
  <2>1. brnQuestions' = addItem(brnQuestions, text, m)
    BY DEF Generated, text
  <2>2. brnQuestions \in Seq(Texts) /\ Len(brnQuestions) <= m
    BY <1>0 DEF QuestionsSound
  <2>3. QED
    <3>1. m \in Nat \ {0}
      BY <1>0
    <3>2. LET added == addItem(brnQuestions, text, m)
          IN /\ added \in Seq(Texts) /\ Len(added) <= m /\ Len(added) > 0
             /\ added[Len(added)] = text
             /\ \A k \in Nat : k < Len(brnQuestions) /\ k + 1 < m =>
                   /\ k + 1 < Len(added)
                   /\ added[Len(added) - (k + 1)] = brnQuestions[Len(brnQuestions) - k]
      BY <1>1, <2>2, <3>1, ItemsMove
    <3>3. QED
      BY <2>1, <3>2
<1>5. /\ brnSince' \in [Texts -> 0..m]
      /\ \A t \in Texts : brnSince'[t] = IF t = text THEN 0
                                         ELSE IF brnSince[t] < m THEN brnSince[t] + 1 ELSE m
  <2>1. brnSince' = [t \in Texts |-> IF t = text THEN 0
                                     ELSE IF brnSince[t] < m THEN brnSince[t] + 1 ELSE m]
    BY DEF Generated, text
  <2>2. QED
    BY <1>0, <2>1
<1>6. ASSUME NEW t \in Texts, brnSince'[t] < m
      PROVE  /\ brnSince'[t] < Len(brnQuestions')
             /\ brnQuestions'[Len(brnQuestions') - brnSince'[t]] = t
  <2>1. CASE t = text
    <3>1. brnSince'[t] = 0 /\ Len(brnQuestions') \in Nat
      BY <1>4, <1>5, <2>1
    <3>2. Len(brnQuestions') - brnSince'[t] = Len(brnQuestions')
      BY <3>1
    <3>3. QED
      BY <1>4, <2>1, <3>1, <3>2
  <2>2. CASE t # text
    <3>1. brnSince[t] \in Nat /\ brnSince[t] < m /\ brnSince'[t] = brnSince[t] + 1
      BY <1>0, <1>5, <1>6, <2>2
    <3>2. brnSince[t] < Len(brnQuestions) /\ brnQuestions[Len(brnQuestions) - brnSince[t]] = t
      BY <1>0, <3>1 DEF QuestionsSound
    <3>3. brnSince[t] + 1 < m
      BY <1>6, <3>1
    <3>4. QED
      BY <1>4, <3>1, <3>2, <3>3
  <2>3. QED
    BY <2>1, <2>2
<1>7. BrainTypeOK'
  <2>1. elements(brnQuestions') \cup elements(brnTopics') \subseteq Texts
    BY <1>3, <1>4, ElementsOfSeq
  <2>2. QED
    BY <1>0, <1>2, <1>5, <2>1 DEF BrainTypeOK, elements
<1>8. WindowSound' /\ RepetitionIsNoticed'
  BY <1>0 DEF WindowSound, RepetitionIsNoticed
<1>9. QuestionsSound'
  BY <1>3, <1>4, <1>6 DEF QuestionsSound
<1>10. QED
  BY <1>7, <1>8, <1>9 DEF BrainInv

\* Every step keeps the invariant of the brain.
LEMMA BrainNextKeeps == BrainInv /\ [BrainNext]_brainVars => BrainInv'
<1>1. SUFFICES ASSUME BrainInv, [BrainNext]_brainVars PROVE BrainInv'
  OBVIOUS
<1>2. CASE BrainInitialize \/ BrainDestroy \/ UNCHANGED brainVars
  <2>1. /\ UNCHANGED <<brnHeard, brnWindow, brnQuestions, brnTopics, brnTurn, brnSince, brnAgain>>
        /\ brnReady' \in BOOLEAN
    BY <1>1, <1>2 DEF BrainInitialize, BrainDestroy, brainVars, BrainInv, BrainTypeOK
  <2>2. QED
    BY <1>1, <2>1 DEF BrainInv, BrainTypeOK, WindowSound, QuestionsSound, RepetitionIsNoticed, elements
<1>3. CASE \E c \in Turns, text \in Texts : Respond(c, text)
  BY <1>1, <1>3, RespondKeeps
<1>4. CASE \E c \in Turns, reply \in Replies : Generated(c, reply)
  BY <1>1, <1>4, GeneratedKeeps
<1>5. QED
  BY <1>1, <1>2, <1>3, <1>4 DEF BrainNext

\* The state of the brain has its types, for any memory and any length of the interview.
THEOREM BrainType == BrainSpec => []BrainTypeOK
<1>1. BrainInv => BrainTypeOK
  BY DEF BrainInv
<1>2. QED
  BY <1>1, BrainInitInv, BrainNextKeeps, PTL DEF BrainSpec

\* WindowIsRecent holds for any size of the memory and of the prompt and any length of the
\* interview: what the model is shown is the end of the conversation, without a gap.
THEOREM PromptsAreRecent == BrainSpec => []WindowIsRecent
<1>1. ASSUME BrainInv PROVE WindowIsRecent
  <2> DEFINE w == brnWindow
             l == Len(brnWindow)
             shown == truncateFromEnd(w, TranscriptLines)
  <2>0. /\ WindowSound /\ w \in Seq(Nat) /\ l \in Nat /\ brnHeard \in Nat
        /\ TranscriptLines \in Nat /\ max_recent_segments \in Nat
    BY <1>1, BrainAssumption DEF BrainInv, BrainTypeOK, WindowSound
  <2>1. CASE l <= TranscriptLines
    <3>1. shown = w
      BY <2>1 DEF truncateFromEnd
    <3>2. QED
      BY <2>0, <3>1 DEF WindowIsRecent, buildPrompt, WindowSound
  <2>2. CASE l > TranscriptLines
    <3> DEFINE from == l - TranscriptLines + 1
    <3>1. shown = SubSeq(w, from, l)
      BY <2>0, <2>2 DEF truncateFromEnd
    <3>2. /\ Len(shown) = TranscriptLines
          /\ \A i \in 1..TranscriptLines : shown[i] = w[from + i - 1]
      <4>1. \A i \in from..l : w[i] \in Nat
        BY <2>0, <2>2
      <4>2. /\ Len(SubSeq(w, from, l)) = IF from <= l THEN l - from + 1 ELSE 0
            /\ \A i \in 1..l - from + 1 : SubSeq(w, from, l)[i] = w[from + i - 1]
        BY <2>0, <2>2, <4>1, SubSeqProperties
      <4>3. l - from + 1 = TranscriptLines
        BY <2>0
      <4>4. QED
        BY <2>0, <3>1, <4>2, <4>3
    <3>3. ASSUME NEW i \in 1..TranscriptLines
          PROVE  shown[i] = brnHeard - TranscriptLines + i
      <4>1. from + i - 1 \in 1..l /\ from + i - 1 = l - TranscriptLines + i
        BY <2>0, <2>2
      <4>2. w[from + i - 1] = brnHeard - l + (from + i - 1)
        BY <2>0, <4>1 DEF WindowSound
      <4>3. QED
        BY <2>0, <3>2, <4>1, <4>2
    <3> HIDE DEF shown
    <3>4. buildPrompt.transcript = shown
      BY DEF buildPrompt, shown
    <3>5. QED
      BY <2>0, <3>2, <3>3, <3>4 DEF WindowIsRecent, WindowSound
  <2>3. QED
    BY <2>0, <2>1, <2>2
<1>2. QED
  BY <1>1, BrainInitInv, BrainNextKeeps, PTL DEF BrainSpec

\* RepetitionIsNoticed holds for any memory and any turns under way: a text that is
\* planned afresh while the memory holds it has no content word.
THEOREM RepetitionsAreNoticed == BrainSpec => []RepetitionIsNoticed
<1>1. BrainInv => RepetitionIsNoticed
  BY DEF BrainInv
<1>2. QED
  BY <1>1, BrainInitInv, BrainNextKeeps, PTL DEF BrainSpec

-----------------------------------------------------------------------------
\* The scrapers: Scraping.tla.

Places == {"idle", "init", "open", "context", "visit", "cards", "close", "fetch", "detect",
           "site", "llm", "done", "gone"}
ScrapeStates ==
    [at : Places, source : Sources, board : Sources, chromium : Nat, page : Nat,
     tries : 0..maxAttempts - 1, found : Seq(Postings), result : {"none", "jobs", "error"},
     aborted : BOOLEAN, answer : {"none", "error", "jobs"} \union Refusals]

\* A scrape that runs has not been answered with postings; those of Indeed are at places
\* of their own, and have no posting twice, nor has an answer of any board but Greenhouse.
ScrapeSound(s) ==
    /\ s \in ScrapeStates
    /\ s.at = "idle" => s.answer = "none"
    /\ s.at = "done" => s.answer # "none"
    /\ s.at # "done" => s.answer \in {"none", "error"}
    /\ s.source = "indeed" <=> s.board = "indeed"
    /\ s.at \in {"visit", "cards", "close"} => s.source = "indeed"
    /\ s.at \in {"detect", "site", "llm", "fetch"} => s.source # "indeed"
    /\ s.at = "close" => s.result \in {"jobs", "error"}
    /\ s.board = "indeed" => IsInjective(s.found)
    /\ s.answer = "jobs" /\ s.board # "greenhouse" => IsInjective(s.found)

\* How a scrape goes on: Indeed is done only after its contexts are closed.
ScrapeGoes(s, t) ==
    /\ ScrapeSound(t) /\ t.at # "idle" /\ t.source = s.source
    /\ t.at = "done" => s.at = "close" \/ s.source # "indeed"

ScrapesSound == scScrape \in [Scrapes -> ScrapeStates] /\ \A r \in Scrapes : ScrapeSound(scScrape[r])

\* The browser everybody knows is the one that runs, or one is being launched, or one
\* may yet be launched.
BrowserSound ==
    /\ scUp \in BOOLEAN /\ scShared \in Nat /\ scPromise \in Nat /\ scLaunched \in 1..MaxLaunches
    /\ scLive = {} \/ (scLive = {scShared} /\ scShared \in 1..scLaunched)
    /\ scPromise = None => scLaunching = {}
    /\ scPromise # None => scLaunching = {scPromise} /\ scPromise \in 1..scLaunched /\ scLive = {}
    /\ scUp /\ scLive = {} /\ scLaunching = {} => scLaunched < MaxLaunches

\* An open context is of the browser that runs and of a scrape that was begun; Indeed
\* leaves none.
ContextsSound ==
    /\ scContexts \subseteq Scrapes \X scLive
    /\ \A c \in scContexts : /\ scScrape[c[1]].at # "idle"
                             /\ scScrape[c[1]].source = "indeed" => scScrape[c[1]].at # "done"

ScrapingInv == ScrapesSound /\ BrowserSound /\ ContextsSound

-----------------------------------------------------------------------------
\* The postings at places of a list are postings of the list, one for each place; they
\* are distinct if those at the places are.
LEMMA PostingsAtPlaces ==
    ASSUME NEW jobs \in Seq(Postings), NEW places \in SUBSET DOMAIN jobs
    PROVE  /\ postingsAt(jobs, places) \in Seq(Postings)
           /\ (\A i, j \in places : jobs[i] = jobs[j] => i = j) => IsInjective(postingsAt(jobs, places))
<1> DEFINE below(i) == {j \in places : j <= i}
           n == Cardinality(places)
           rank == [i \in places |-> Cardinality(below(i))]
           place(k) == CHOOSE i \in places : Cardinality(below(i)) = k
<1>1. /\ places \subseteq 1..Len(jobs) /\ Len(jobs) \in Nat
      /\ IsFiniteSet(places) /\ n \in Nat
  <2>1. places \subseteq 1..Len(jobs) /\ Len(jobs) \in Nat
    OBVIOUS
  <2>2. IsFiniteSet(1..Len(jobs))
    BY <2>1, FS_Interval
  <2>3. QED
    BY <2>1, <2>2, FS_Subset, FS_CardinalityType
<1>2. ASSUME NEW i \in places
      PROVE  IsFiniteSet(below(i)) /\ Cardinality(below(i)) \in 1..n
  <2>1. below(i) \in SUBSET places /\ i \in below(i)
    BY <1>1
  <2>2. /\ IsFiniteSet(below(i)) /\ Cardinality(below(i)) <= n
        /\ Cardinality(below(i)) \in Nat
    BY <1>1, <2>1, FS_Subset, FS_CardinalityType
  <2>3. Cardinality(below(i)) # 0
    BY <2>1, <2>2, FS_EmptySet
  <2>4. QED
    BY <1>1, <2>2, <2>3
<1> HIDE DEF below
<1>3. ASSUME NEW i \in places, NEW j \in places, i < j
      PROVE  Cardinality(below(i)) < Cardinality(below(j))
  <2>1. below(i) \in SUBSET below(j) /\ j \in below(j) /\ j \notin below(i)
    BY <1>1, <1>3 DEF below
  <2>2. below(i) # below(j)
    BY <2>1
  <2>3. /\ IsFiniteSet(below(j))
        /\ Cardinality(below(i)) \in Int /\ Cardinality(below(j)) \in Int
    BY <1>2
  <2>4. /\ Cardinality(below(i)) <= Cardinality(below(j))
        /\ Cardinality(below(j)) = Cardinality(below(i)) => below(j) = below(i)
    BY <2>1, <2>3, FS_Subset
  <2>5. QED
    BY <2>2, <2>3, <2>4
<1>4. rank \in Injection(places, 1..n)
  <2>1. rank \in [places -> 1..n]
    BY <1>2
  <2>2. ASSUME NEW i \in places, NEW j \in places, Cardinality(below(i)) = Cardinality(below(j))
        PROVE  i = j
    <3>1. ~(i < j) /\ ~(j < i)
      BY <1>2, <1>3, <2>2
    <3>2. i \in Int /\ j \in Int
      BY <1>1
    <3>3. QED
      BY <3>1, <3>2
  <2>3. IsInjective(rank)
    BY <2>2 DEF IsInjective
  <2>4. QED
    BY <2>1, <2>3 DEF Injection
<1>5. ASSUME NEW k \in 1..n
      PROVE  place(k) \in places /\ Cardinality(below(place(k))) = k
  <2>1. IsFiniteSet(1..n) /\ Cardinality(1..n) = n
    BY <1>1, FS_Interval
  <2>2. rank \in Surjection(places, 1..n)
    BY <1>4, <2>1, FS_Injection
  <2>3. \E i \in places : rank[i] = k
    BY <2>2 DEF Surjection
  <2>4. \E i \in places : Cardinality(below(i)) = k
    BY <2>3
  <2>5. QED
    BY <2>4
<1> HIDE DEF place
<1>6. postingsAt(jobs, places) = [k \in 1..n |-> jobs[place(k)]]
  BY DEF postingsAt, place, below
<1>7. \A k \in 1..n : jobs[place(k)] \in Postings
  BY <1>1, <1>5
<1>8. postingsAt(jobs, places) \in Seq(Postings)
  BY <1>1, <1>6, <1>7, SeqDef
<1>9. ASSUME \A i, j \in places : jobs[i] = jobs[j] => i = j
      PROVE  IsInjective(postingsAt(jobs, places))
  <2>1. ASSUME NEW k \in 1..n, NEW l \in 1..n, jobs[place(k)] = jobs[place(l)]
        PROVE  k = l
    <3>1. place(k) = place(l)
      BY <1>5, <1>9, <2>1
    <3>2. QED
      BY <1>5, <3>1
  <2>2. QED
    BY <1>6, <2>1 DEF IsInjective
<1>10. QED
  BY <1>8, <1>9

\* What is left of a list without its repetitions has none, even if more is left out.
LEMMA DeduplicatesWell ==
    ASSUME NEW jobs \in Seq(Postings), NEW places \in SUBSET firsts(jobs)
    PROVE  /\ postingsAt(jobs, places) \in Seq(Postings) /\ IsInjective(postingsAt(jobs, places))
           /\ deduplicate(jobs) \in Seq(Postings) /\ IsInjective(deduplicate(jobs))
<1>1. ASSUME NEW i \in firsts(jobs), NEW j \in firsts(jobs), jobs[i] = jobs[j]
      PROVE  i = j
  <2>1. i \in 1..Len(jobs) /\ j \in 1..Len(jobs) /\ Len(jobs) \in Nat
    BY DEF firsts
  <2>2. ~(i \in 1..j - 1) /\ ~(j \in 1..i - 1)
    BY <1>1 DEF firsts
  <2>3. QED
    BY <2>1, <2>2
<1>2. firsts(jobs) \in SUBSET DOMAIN jobs /\ places \in SUBSET DOMAIN jobs
  BY DEF firsts
<1>3. QED
  BY <1>1, <1>2, PostingsAtPlaces DEF deduplicate

\* What a board lists is a list of postings, the empty one without repetition.
LEMMA ListingsAreLists == Listings \subseteq Seq(Postings) /\ <<>> \in Seq(Postings) /\ IsInjective(<<>>)
<1>1. ASSUME NEW n \in 0..2, NEW l \in [1..n -> Postings] PROVE l \in Seq(Postings)
  BY SeqDef
<1>2. QED
  BY <1>1 DEF Listings, IsInjective
-----------------------------------------------------------------------------
\* A scrape is sound where it begins: at the first place of its source, or refused.
LEMMA NewScrapeSound ==
    /\ NewScrape \in ScrapeStates /\ ScrapeSound(NewScrape)
    /\ \A s \in Sources : ScrapeSound([NewScrape EXCEPT !.at = scraperAt(s), !.source = s, !.board = s])
    /\ \A code \in Refusals : ScrapeSound([NewScrape EXCEPT !.at = "done", !.answer = code])
<1>1. NewScrape \in ScrapeStates /\ ScrapeSound(NewScrape)
  BY ListingsAreLists DEF NewScrape, ScrapeStates, ScrapeSound, Places, Sources, Boards, None, maxAttempts
<1>2. ASSUME NEW s \in Sources
      PROVE  ScrapeSound([NewScrape EXCEPT !.at = scraperAt(s), !.source = s, !.board = s])
  <2> DEFINE t == [NewScrape EXCEPT !.at = scraperAt(s), !.source = s, !.board = s]
  <2>1. /\ scraperAt(s) \in {"init", "open", "fetch"}
        /\ scraperAt(s) = "fetch" <=> s \in Boards
    BY DEF scraperAt, Sources, Boards
  <2>2. /\ t \in ScrapeStates /\ t.at = scraperAt(s) /\ t.source = s /\ t.board = s
        /\ t.answer = "none" /\ t.found = <<>>
    BY <1>1, <2>1 DEF ScrapeStates, Places, NewScrape
  <2> HIDE DEF t
  <2>3. ScrapeSound(t)
    BY <2>1, <2>2, ListingsAreLists DEF ScrapeSound, Boards
  <2>4. QED
    BY <2>3 DEF t
<1>3. ASSUME NEW code \in Refusals
      PROVE  ScrapeSound([NewScrape EXCEPT !.at = "done", !.answer = code])
  <2> DEFINE t == [NewScrape EXCEPT !.at = "done", !.answer = code]
  <2>1. code # "none" /\ code # "jobs"
    BY DEF Refusals, internalSecretAuth, scrapeJobsSchema, validateAllowedUrl
  <2>2. /\ t \in ScrapeStates /\ t.at = "done" /\ t.source = "custom" /\ t.board = "custom"
        /\ t.answer = code /\ t.found = <<>>
    BY <1>1 DEF ScrapeStates, Places, NewScrape
  <2> HIDE DEF t
  <2>3. ScrapeSound(t)
    BY <2>1, <2>2, ListingsAreLists DEF ScrapeSound
  <2>4. QED
    BY <2>3 DEF t
<1>4. QED
  BY <1>1, <1>2, <1>3

\* A scrape that ends without postings, or with such as Indeed's, Lever's, RemoteOK's and
\* its own are.
LEMMA EndsSoundly ==
    ASSUME NEW s, ScrapeSound(s), s.at \notin {"idle", "done"}, NEW result \in {"jobs", "error"},
           result = "jobs" => s.board = "greenhouse" \/ IsInjective(s.found)
    PROVE  ScrapeGoes(s, ended(s, result))
<1> DEFINE found == IF result = "jobs" /\ ~s.aborted THEN s.found ELSE <<>>
           t == [s EXCEPT !.result = result, !.found = found]
           answer == IF s.answer = "none" THEN result ELSE s.answer
<1>0. s \in ScrapeStates /\ s.answer \in {"none", "error"} /\ (s.source = "indeed" <=> s.board = "indeed")
  BY DEF ScrapeSound
<1>1. found \in Seq(Postings) /\ (s.board # "greenhouse" => IsInjective(found))
  <2>1. s.found \in Seq(Postings)
    BY <1>0 DEF ScrapeStates
  <2>2. QED
    BY <2>1, ListingsAreLists
<1>2. CASE s.source = "indeed" /\ s.at # "close"
  <2>1. ended(s, result) = [s EXCEPT !.result = result, !.found = found, !.at = "close"]
    <3>1. t \in ScrapeStates /\ [t EXCEPT !.at = "close"] =
              [s EXCEPT !.result = result, !.found = found, !.at = "close"]
      BY <1>0, <1>1 DEF ScrapeStates
    <3>2. ended(s, result) = [t EXCEPT !.at = "close"]
      BY <1>0, <1>2 DEF ended, ScrapeStates
    <3>3. QED
      BY <3>1, <3>2
  <2> HIDE DEF found
  <2> DEFINE u == [s EXCEPT !.result = result, !.found = found, !.at = "close"]
  <2>2. /\ u \in ScrapeStates /\ u.at = "close" /\ u.found = found /\ u.result = result
        /\ u.source = s.source /\ u.board = s.board /\ u.answer = s.answer
    BY <1>0, <1>1 DEF ScrapeStates, Places
  <2> HIDE DEF u
  <2>3. ScrapeGoes(s, u)
    BY <1>0, <1>1, <1>2, <2>2 DEF ScrapeGoes, ScrapeSound
  <2>4. QED
    BY <2>1, <2>3 DEF u
<1>3. CASE ~(s.source = "indeed" /\ s.at # "close")
  <2> DEFINE u == [NewScrape EXCEPT !.at = "done", !.source = s.source, !.board = s.board,
                                    !.found = found, !.answer = answer]
  <2>1. ended(s, result) = u
    <3>1. t.found = found
      BY <1>0 DEF ScrapeStates
    <3>2. ended(s, result) = [NewScrape EXCEPT !.at = "done", !.source = s.source, !.board = s.board,
                                               !.found = t.found, !.answer = answer]
      BY <1>3 DEF ended
    <3>3. QED
      BY <3>1, <3>2
  <2> HIDE DEF found
  <2>2. answer \in {"error", "jobs"}
    BY <1>0
  <2> HIDE DEF answer
  <2>3. /\ u \in ScrapeStates /\ u.at = "done" /\ u.found = found
        /\ u.source = s.source /\ u.board = s.board /\ u.answer = answer
    BY <1>0, <1>1, <2>2, NewScrapeSound DEF ScrapeStates, Places
  <2> HIDE DEF u
  <2>4. ScrapeGoes(s, u)
    BY <1>0, <1>1, <1>3, <2>2, <2>3 DEF ScrapeGoes, ScrapeSound
  <2>5. QED
    BY <2>1, <2>4
<1>4. QED
  BY <1>2, <1>3

\* A scrape stays where it is, and what it has found, its page and its tries may change.
LEMMA ScrapeStaysSound ==
    ASSUME NEW s, ScrapeSound(s), s.at # "done", NEW t \in ScrapeStates,
           t.at = s.at, t.source = s.source, t.board = s.board, t.result = s.result,
           t.answer = s.answer, s.board = "indeed" => IsInjective(t.found)
    PROVE  ScrapeSound(t)
BY DEF ScrapeSound

\* Another attempt, or what comes after the last one.
LEMMA RetriesSoundly ==
    ASSUME NEW s, ScrapeSound(s), s.at \notin {"idle", "done"}, NEW last, ScrapeGoes(s, last)
    PROVE  ScrapeGoes(s, retry(s, last))
<1>1. CASE s.tries + 1 < maxAttempts
  <2> DEFINE t == [s EXCEPT !.tries = s.tries + 1]
  <2>1. s \in ScrapeStates /\ s.at # "done" /\ (s.board = "indeed" => IsInjective(s.found))
    BY DEF ScrapeSound
  <2>2. /\ t \in ScrapeStates /\ t.at = s.at /\ t.source = s.source /\ t.board = s.board
        /\ t.result = s.result /\ t.answer = s.answer /\ t.found = s.found
    BY <1>1, <2>1 DEF ScrapeStates, maxAttempts
  <2>3. retry(s, last) = t
    BY <1>1 DEF retry
  <2> HIDE DEF t
  <2>4. ScrapeSound(t)
    BY <2>1, <2>2, ScrapeStaysSound
  <2>5. QED
    BY <2>2, <2>3, <2>4 DEF ScrapeGoes
<1>2. CASE ~(s.tries + 1 < maxAttempts)
  BY <1>2 DEF retry
<1>3. QED
  BY <1>1, <1>2

\* An error ends the scrape, or sends the custom scraper on to the site.
LEMMA ThrowsSoundly ==
    ASSUME NEW s, ScrapeSound(s), s.at \notin {"idle", "done"}
    PROVE  ScrapeGoes(s, thrown(s))
<1>0. s \in ScrapeStates /\ (s.source = "indeed" <=> s.board = "indeed")
  BY DEF ScrapeSound
<1>1. CASE s.board = "custom" /\ s.at \in {"detect", "site", "llm"}
  <2> DEFINE t == [s EXCEPT !.found = <<>>]
  <2>1. thrown(s) = ended(t, "jobs")
    BY <1>1 DEF thrown, endedEmpty
  <2>2. /\ t \in ScrapeStates /\ t.at = s.at /\ t.source = s.source /\ t.board = s.board
        /\ t.result = s.result /\ t.answer = s.answer /\ t.found = <<>>
    BY <1>0, ListingsAreLists DEF ScrapeStates
  <2> HIDE DEF t
  <2>3. s.at # "done"
    OBVIOUS
  <2>4. ScrapeSound(t)
    BY <2>2, <2>3, ListingsAreLists, ScrapeStaysSound
  <2>5. ScrapeGoes(t, ended(t, "jobs"))
    BY <2>2, <2>4, ListingsAreLists, EndsSoundly
  <2>6. QED
    BY <2>1, <2>2, <2>5 DEF ScrapeGoes
<1>2. CASE /\ ~(s.board = "custom" /\ s.at \in {"detect", "site", "llm"})
           /\ s.source = "custom" /\ s.board # "custom"
  <2> DEFINE t == [s EXCEPT !.at = "site", !.board = "custom", !.tries = 0, !.found = <<>>]
  <2>1. thrown(s) = t
    BY <1>2 DEF thrown
  <2>2. /\ t \in ScrapeStates /\ t.at = "site" /\ t.board = "custom" /\ t.source = s.source
        /\ t.found = <<>> /\ t.answer = s.answer
    <3>1. "site" \in Places /\ "custom" \in Sources /\ 0 \in 0..maxAttempts - 1
      BY DEF Places, Sources, maxAttempts
    <3>2. QED
      BY <1>0, <3>1, ListingsAreLists DEF ScrapeStates
  <2> HIDE DEF t
  <2>3. ScrapeSound(t)
    BY <1>2, <2>2, ListingsAreLists DEF ScrapeSound
  <2>4. QED
    BY <2>1, <2>2, <2>3 DEF ScrapeGoes
<1>3. CASE /\ ~(s.board = "custom" /\ s.at \in {"detect", "site", "llm"})
           /\ ~(s.source = "custom" /\ s.board # "custom")
  <2>1. thrown(s) = ended(s, "error")
    BY <1>3 DEF thrown
  <2>2. QED
    BY <2>1, EndsSoundly
<1>4. QED
  BY <1>1, <1>2, <1>3

-----------------------------------------------------------------------------
\* No scrape runs and no browser is up at first.
LEMMA ScrapingInitInv == ScrapingInit => ScrapingInv
<1>1. SUFFICES ASSUME ScrapingInit PROVE ScrapingInv
  OBVIOUS
<1>2. ScrapesSound
  BY <1>1, NewScrapeSound DEF ScrapingInit, ScrapesSound
<1>3. BrowserSound
  BY <1>1, ScrapingAssumption DEF ScrapingInit, BrowserSound, None
<1>4. ContextsSound
  BY <1>1 DEF ScrapingInit, ContextsSound
<1>5. QED
  BY <1>2, <1>3, <1>4 DEF ScrapingInv

\* Where a scrape that is not over may go.
LEMMA GoesSoundly ==
    ASSUME NEW s, NEW t \in ScrapeStates, t.at \notin {"idle", "done"}, t.source = s.source,
           t.answer \in {"none", "error"}, t.source = "indeed" <=> t.board = "indeed",
           t.at \in {"visit", "cards", "close"} => t.source = "indeed",
           t.at \in {"detect", "site", "llm", "fetch"} => t.source # "indeed",
           t.at = "close" => t.result \in {"jobs", "error"},
           t.board = "indeed" => IsInjective(t.found)
    PROVE  ScrapeGoes(s, t)
BY DEF ScrapeGoes, ScrapeSound

\* Scrapes go on, none of Indeed ends, and contexts may be opened for such as do.
LEMMA ScrapesMove ==
    ASSUME ScrapingInv, scScrape' \in [Scrapes -> ScrapeStates],
           \A q \in Scrapes : \/ scScrape'[q] = scScrape[q]
                              \/ /\ ScrapeGoes(scScrape[q], scScrape'[q])
                                 /\ scScrape'[q].at = "done" => scScrape'[q].source # "indeed",
           NEW opened \in SUBSET (Scrapes \X scLive), scContexts' \subseteq scContexts \union opened,
           \A c \in opened : ScrapeGoes(scScrape[c[1]], scScrape'[c[1]]),
           scLive \subseteq scLive'
    PROVE  ScrapesSound' /\ ContextsSound'
<1>0. (\A q \in Scrapes : ScrapeSound(scScrape[q])) /\ ContextsSound
  BY DEF ScrapingInv, ScrapesSound
<1>1. ScrapesSound'
  BY <1>0 DEF ScrapesSound, ScrapeGoes
<1>2. ASSUME NEW c \in scContexts'
      PROVE  /\ c \in Scrapes \X scLive'
             /\ scScrape'[c[1]].at # "idle"
             /\ scScrape'[c[1]].source = "indeed" => scScrape'[c[1]].at # "done"
  <2>1. CASE c \in scContexts
    <3>1. /\ c \in Scrapes \X scLive' /\ c[1] \in Scrapes /\ scScrape[c[1]].at # "idle"
          /\ scScrape[c[1]].source = "indeed" => scScrape[c[1]].at # "done"
      BY <1>0, <2>1 DEF ContextsSound
    <3>2. QED
      BY <3>1 DEF ScrapeGoes
  <2>2. CASE c \in opened
    <3>1. c \in Scrapes \X scLive' /\ c[1] \in Scrapes
      BY <2>2
    <3>2. scScrape'[c[1]].at # "idle" /\ scScrape'[c[1]].source = scScrape[c[1]].source
      BY <2>2 DEF ScrapeGoes
    <3>3. \/ scScrape'[c[1]] = scScrape[c[1]]
          \/ scScrape'[c[1]].at = "done" => scScrape'[c[1]].source # "indeed"
      BY <3>1
    <3>4. QED
      BY <2>2, <3>1, <3>2, <3>3 DEF ScrapeGoes, ScrapeSound
  <2>3. QED
    BY <2>1, <2>2
<1>3. ContextsSound'
  BY <1>2 DEF ContextsSound
<1>4. QED
  BY <1>1, <1>3

\* One scrape goes on, and nothing else happens.
LEMMA ScrapeGoesOn ==
    ASSUME ScrapingInv, NEW r \in Scrapes, NEW t, Become(r, t), ScrapeGoes(scScrape[r], t),
           t.at = "done" => t.source # "indeed", UNCHANGED <<scBrowserVars, scUp>>
    PROVE  ScrapingInv'
<1>0. scScrape \in [Scrapes -> ScrapeStates] /\ t \in ScrapeStates
  BY DEF ScrapingInv, ScrapesSound, ScrapeGoes, ScrapeSound
<1>1. /\ scScrape' \in [Scrapes -> ScrapeStates]
      /\ \A q \in Scrapes : scScrape'[q] = IF q = r THEN t ELSE scScrape[q]
  BY <1>0 DEF Become
<1>2. ScrapesSound' /\ ContextsSound'
  <2>1. \A q \in Scrapes : \/ scScrape'[q] = scScrape[q]
                           \/ /\ ScrapeGoes(scScrape[q], scScrape'[q])
                              /\ scScrape'[q].at = "done" => scScrape'[q].source # "indeed"
    BY <1>1
  <2>2. {} \in SUBSET (Scrapes \X scLive) /\ scContexts' \subseteq scContexts \union {}
        /\ scLive \subseteq scLive'
    BY DEF scBrowserVars
  <2>3. QED
    BY <1>1, <2>1, <2>2, ScrapesMove
<1>3. BrowserSound'
  BY DEF ScrapingInv, BrowserSound, scBrowserVars
<1>4. QED
  BY <1>2, <1>3 DEF ScrapingInv

\* What a scrape that runs is like.
LEMMA RunningScrape ==
    ASSUME ScrapingInv, NEW r \in Scrapes
    PROVE  /\ ScrapeSound(scScrape[r]) /\ scScrape[r] \in ScrapeStates
           /\ Running(r) => /\ scScrape[r].at \notin {"idle", "done"}
                            /\ scScrape[r].answer \in {"none", "error"}
BY DEF ScrapingInv, ScrapesSound, ScrapeSound, Running

-----------------------------------------------------------------------------
\* A request is accepted, refused, or given up by the one who waits for it.
LEMMA RequestsKeep ==
    ASSUME ScrapingInv, NEW r \in Scrapes, Accept(r) \/ Refuse(r) \/ TimeOut(r)
    PROVE  ScrapingInv'
<1> DEFINE s == scScrape[r]
<1>0. scScrape \in [Scrapes -> ScrapeStates] /\ s \in ScrapeStates /\ ScrapeSound(s)
  BY DEF ScrapingInv, ScrapesSound
<1>1. CASE Accept(r) \/ Refuse(r)
  <2>1. PICK t : Become(r, t) /\ ScrapeSound(t)
    BY <1>1, NewScrapeSound DEF Accept, Refuse
  <2>2. s.at = "idle" /\ UNCHANGED <<scBrowserVars, scUp>>
    BY <1>1 DEF Accept, Refuse, At
  <2>3. /\ scScrape' \in [Scrapes -> ScrapeStates]
        /\ \A q \in Scrapes : scScrape'[q] = IF q = r THEN t ELSE scScrape[q]
    BY <1>0, <2>1 DEF Become, ScrapeSound
  <2>4. ScrapesSound'
    BY <2>1, <2>3 DEF ScrapingInv, ScrapesSound
  <2>5. \A c \in scContexts : c[1] \in Scrapes /\ c[1] # r
    BY <2>2 DEF ScrapingInv, ContextsSound
  <2>6. ContextsSound'
    BY <2>2, <2>3, <2>5 DEF ScrapingInv, ContextsSound, scBrowserVars
  <2>7. BrowserSound'
    BY <2>2 DEF ScrapingInv, BrowserSound, scBrowserVars
  <2>8. QED
    BY <2>4, <2>6, <2>7 DEF ScrapingInv
<1>2. CASE TimeOut(r)
  <2> DEFINE t == [s EXCEPT !.aborted = TRUE, !.answer = "error"]
  <2>1. s.at \notin {"idle", "done"}
    BY <1>2 DEF TimeOut, Running
  <2>2. /\ t \in ScrapeStates /\ t.at = s.at /\ t.source = s.source /\ t.board = s.board
        /\ t.result = s.result /\ t.found = s.found /\ t.answer = "error"
    BY <1>0 DEF ScrapeStates
  <2>3. Become(r, t) /\ UNCHANGED <<scBrowserVars, scUp>>
    BY <1>0, <1>2 DEF TimeOut, Become
  <2> HIDE DEF t
  <2>4. ScrapeGoes(s, t)
    BY <1>0, <2>1, <2>2, GoesSoundly DEF ScrapeSound
  <2>5. QED
    BY <2>1, <2>2, <2>3, <2>4, ScrapeGoesOn
<1>3. QED
  BY <1>1, <1>2

\* Who has waited for a browser has it.
LEMMA AfterLaunch ==
    ASSUME NEW s, ScrapeSound(s), s.at \in {"init", "open"}, NEW b \in Nat
    PROVE  /\ ScrapeGoes(s, afterLaunch(s, b)) /\ afterLaunch(s, b).at # "done"
           /\ ScrapeGoes(s, [s EXCEPT !.chromium = b]) /\ [s EXCEPT !.chromium = b].at # "done"
<1>0. s \in ScrapeStates
  BY DEF ScrapeSound
<1>1. ASSUME NEW at \in {"init", "open", "context"}, NEW c \in Nat
      PROVE  /\ ScrapeGoes(s, [s EXCEPT !.at = at, !.chromium = c])
             /\ [s EXCEPT !.at = at, !.chromium = c].at # "done"
  <2> DEFINE t == [s EXCEPT !.at = at, !.chromium = c]
  <2>1. /\ t \in ScrapeStates /\ t.at = at /\ t.source = s.source /\ t.board = s.board
        /\ t.found = s.found /\ t.answer = s.answer
    BY <1>0 DEF ScrapeStates, Places
  <2> HIDE DEF t
  <2>2. ScrapeGoes(s, t)
    BY <2>1, GoesSoundly DEF ScrapeSound
  <2>3. t.at # "done"
    BY <2>1
  <2>4. QED
    BY <2>2, <2>3 DEF t
<1>2. [s EXCEPT !.chromium = b] = [s EXCEPT !.at = s.at, !.chromium = b]
  BY <1>0 DEF ScrapeStates
<1>3. \/ afterLaunch(s, b) = [s EXCEPT !.at = "open", !.chromium = None]
      \/ afterLaunch(s, b) = [s EXCEPT !.at = "context", !.chromium = b]
  BY DEF afterLaunch
<1>4. None \in Nat
  BY DEF None
<1>5. QED
  BY <1>1, <1>2, <1>3, <1>4

\* A scrape that needs the browser takes the shared one, joins its launch or launches it.
LEMMA getBrowserKeeps ==
    ASSUME ScrapingInv, NEW r \in Scrapes, getBrowser(r)
    PROVE  ScrapingInv'
<1> DEFINE s == scScrape[r]
<1>0. /\ scScrape \in [Scrapes -> ScrapeStates] /\ ScrapeSound(s) /\ s.at \in {"init", "open"}
      /\ BrowserSound /\ UNCHANGED <<scLive, scContexts, scUp>> /\ scUp
  BY DEF ScrapingInv, ScrapesSound, getBrowser
<1>1. /\ BrowserSound'
      /\ \E t : scScrape' = [scScrape EXCEPT ![r] = t] /\ ScrapeGoes(s, t) /\ t.at # "done"
  <2>1. CASE scShared \in scLive
    <3>1. /\ Become(r, afterLaunch(s, scShared))
          /\ UNCHANGED <<scShared, scPromise, scLaunching, scLaunched>>
      BY <2>1 DEF getBrowser
    <3>2. QED
      BY <1>0, <3>1, AfterLaunch DEF Become, BrowserSound
  <2>2. CASE scShared \notin scLive /\ scPromise # None
    <3>1. /\ scScrape' = [scScrape EXCEPT ![r].chromium = scPromise] /\ scShared' = None
          /\ UNCHANGED <<scPromise, scLaunching, scLaunched>>
      BY <2>2 DEF getBrowser, launchBrowser, launchIfNone
    <3>2. scScrape' = [scScrape EXCEPT ![r] = [s EXCEPT !.chromium = scPromise]]
      BY <3>1
    <3>3. BrowserSound'
      BY <1>0, <2>2, <3>1 DEF BrowserSound, None
    <3>4. scPromise \in Nat
      BY <1>0 DEF BrowserSound
    <3>5. QED
      BY <1>0, <3>2, <3>3, <3>4, AfterLaunch
  <2>3. CASE scShared \notin scLive /\ scPromise = None
    <3>1. /\ scScrape' = [scScrape EXCEPT ![r].chromium = scLaunched + 1] /\ scShared' = None
          /\ scPromise' = scLaunched + 1 /\ scLaunching' = scLaunching \union {scLaunched + 1}
          /\ scLaunched' = scLaunched + 1
      BY <2>3 DEF getBrowser, launchBrowser, launchIfNone
    <3>2. scScrape' = [scScrape EXCEPT ![r] = [s EXCEPT !.chromium = scLaunched + 1]]
      BY <3>1
    <3>3. /\ scLive = {} /\ scLaunching = {} /\ scLaunched < MaxLaunches
          /\ scLaunched \in Nat /\ scLaunched + 1 \in Nat
      BY <1>0, <2>3, ScrapingAssumption DEF BrowserSound
    <3>4. BrowserSound'
      BY <1>0, <3>1, <3>3, ScrapingAssumption DEF BrowserSound, None
    <3>5. QED
      BY <1>0, <3>2, <3>3, <3>4, AfterLaunch
  <2>4. QED
    BY <2>1, <2>2, <2>3
<1>2. PICK t : scScrape' = [scScrape EXCEPT ![r] = t] /\ ScrapeGoes(s, t) /\ t.at # "done"
  BY <1>1
<1>3. /\ scScrape' \in [Scrapes -> ScrapeStates]
      /\ \A q \in Scrapes : scScrape'[q] = IF q = r THEN t ELSE scScrape[q]
  BY <1>0, <1>2 DEF ScrapeGoes, ScrapeSound
<1>4. ScrapesSound' /\ ContextsSound'
  <2>1. \A q \in Scrapes : \/ scScrape'[q] = scScrape[q]
                           \/ /\ ScrapeGoes(scScrape[q], scScrape'[q])
                              /\ scScrape'[q].at = "done" => scScrape'[q].source # "indeed"
    BY <1>2, <1>3
  <2>2. /\ {} \in SUBSET (Scrapes \X scLive) /\ scContexts' \subseteq scContexts \union {}
        /\ scLive \subseteq scLive'
    BY <1>0
  <2>3. QED
    BY <1>3, <2>1, <2>2, ScrapesMove
<1>5. QED
  BY <1>1, <1>4 DEF ScrapingInv

\* A launch puts its browser into the shared variable, or leaves it empty.
LEMMA LaunchKeeps ==
    ASSUME ScrapingInv, NEW b \in 1..MaxLaunches, Launched(b) \/ LaunchFails(b)
    PROVE  ScrapingInv'
<1>0. /\ scScrape \in [Scrapes -> ScrapeStates] /\ \A q \in Scrapes : ScrapeSound(scScrape[q])
      /\ BrowserSound /\ UNCHANGED <<scLaunched, scContexts, scUp>>
      /\ b \in scLaunching /\ scPromise' = None /\ scLaunching' = scLaunching \ {b}
  BY DEF ScrapingInv, ScrapesSound, Launched, LaunchFails
<1>1. scLive = {} /\ scLaunching = {b} /\ scPromise = b /\ b \in 1..scLaunched /\ b \in Nat
  BY <1>0, ScrapingAssumption DEF BrowserSound
<1>2. /\ \A q \in Scrapes : \/ scScrape'[q] = scScrape[q]
                            \/ /\ ScrapeGoes(scScrape[q], scScrape'[q])
                               /\ scScrape'[q].at = "done" => scScrape'[q].source # "indeed"
      /\ scScrape' \in [Scrapes -> ScrapeStates]
  <2>1. CASE Launched(b)
    <3>1. scScrape' = [q \in Scrapes |-> IF Waits(q, b) THEN afterLaunch(scScrape[q], b) ELSE scScrape[q]]
      BY <2>1 DEF Launched
    <3>2. \A q \in Scrapes : Waits(q, b) => /\ ScrapeGoes(scScrape[q], afterLaunch(scScrape[q], b))
                                            /\ afterLaunch(scScrape[q], b).at # "done"
      BY <1>0, <1>1, AfterLaunch DEF Waits
    <3>3. \A q \in Scrapes : scScrape'[q] \in ScrapeStates
      BY <1>0, <3>1, <3>2 DEF ScrapeGoes, ScrapeSound
    <3>4. QED
      BY <3>1, <3>2, <3>3
  <2>2. CASE LaunchFails(b)
    <3>1. scScrape' = [q \in Scrapes |-> IF Waits(q, b) THEN thrown(scScrape[q]) ELSE scScrape[q]]
      BY <2>2 DEF LaunchFails
    <3>2. ASSUME NEW q \in Scrapes, Waits(q, b)
          PROVE  /\ ScrapeGoes(scScrape[q], thrown(scScrape[q]))
                 /\ thrown(scScrape[q]).at = "done" => thrown(scScrape[q]).source # "indeed"
      <4>1. scScrape[q].at \in {"init", "open"} /\ ScrapeSound(scScrape[q])
        BY <1>0, <3>2 DEF Waits
      <4>2. ScrapeGoes(scScrape[q], thrown(scScrape[q]))
        BY <4>1, ThrowsSoundly
      <4>3. QED
        BY <4>1, <4>2 DEF ScrapeGoes
    <3>3. \A q \in Scrapes : scScrape'[q] \in ScrapeStates
      BY <1>0, <3>1, <3>2 DEF ScrapeGoes, ScrapeSound
    <3>4. QED
      BY <3>1, <3>2, <3>3
  <2>3. QED
    BY <2>1, <2>2
<1>3. BrowserSound' /\ scLive \subseteq scLive'
  <2>1. CASE Launched(b)
    BY <1>0, <1>1, <2>1 DEF Launched, BrowserSound, None
  <2>2. CASE LaunchFails(b)
    BY <1>0, <1>1, <2>2 DEF LaunchFails, BrowserSound, None
  <2>3. QED
    BY <2>1, <2>2
<1>4. ScrapesSound' /\ ContextsSound'
  <2>1. {} \in SUBSET (Scrapes \X scLive) /\ scContexts' \subseteq scContexts \union {}
    BY <1>0
  <2>2. QED
    BY <1>2, <1>3, <2>1, ScrapesMove
<1>5. QED
  BY <1>3, <1>4 DEF ScrapingInv

\* A browser that dies takes its contexts with it.
LEMMA BrowserDiesKeeps ==
    ASSUME ScrapingInv, NEW b \in 1..MaxLaunches, BrowserDies(b)
    PROVE  ScrapingInv'
<1>0. /\ BrowserSound /\ ContextsSound /\ b \in scLive /\ scLaunched < MaxLaunches
      /\ scLive' = scLive \ {b} /\ scContexts' = {c \in scContexts : c[2] # b}
      /\ UNCHANGED <<scScrape, scShared, scPromise, scLaunching, scLaunched, scUp>>
  BY DEF ScrapingInv, BrowserDies
<1>1. ScrapesSound'
  BY <1>0 DEF ScrapingInv, ScrapesSound
<1>2. BrowserSound'
  <2>1. scLive = {b} /\ scLive' = {} /\ scLaunching = {} /\ scPromise = None
    BY <1>0 DEF BrowserSound
  <2>2. QED
    BY <1>0, <2>1 DEF BrowserSound
<1>3. ContextsSound'
  BY <1>0 DEF ContextsSound
<1>4. QED
  BY <1>1, <1>2, <1>3 DEF ScrapingInv

\* A page is opened in a context of its own on the browser the scrape holds.
LEMMA newPageKeeps ==
    ASSUME ScrapingInv, NEW r \in Scrapes, newPage(r)
    PROVE  ScrapingInv'
<1> DEFINE s == scScrape[r]
           at == IF s.source = "indeed" THEN "visit" ELSE "detect"
<1>0. /\ scScrape \in [Scrapes -> ScrapeStates] /\ ScrapeSound(s) /\ s \in ScrapeStates
      /\ s.at = "context" /\ BrowserSound
      /\ UNCHANGED <<scShared, scPromise, scLaunching, scLive, scLaunched, scUp>>
  BY DEF ScrapingInv, ScrapesSound, newPage, At
<1>1. ScrapeGoes(s, [s EXCEPT !.at = at])
  <2> DEFINE t == [s EXCEPT !.at = at]
  <2>1. at \in {"visit", "detect"} /\ (at = "visit" <=> s.source = "indeed")
    OBVIOUS
  <2> HIDE DEF at
  <2>2. /\ t \in ScrapeStates /\ t.at = at /\ t.source = s.source /\ t.board = s.board
        /\ t.found = s.found /\ t.answer = s.answer
    BY <1>0, <2>1 DEF ScrapeStates, Places
  <2> HIDE DEF t
  <2>3. ScrapeGoes(s, t)
    BY <1>0, <2>1, <2>2, GoesSoundly DEF ScrapeSound
  <2>4. QED
    BY <2>3 DEF t
<1>2. ScrapeGoes(s, thrown(s))
  BY <1>0, ThrowsSoundly
<1>3. PICK t : Become(r, t) /\ ScrapeGoes(s, t)
  <2>1. Become(r, [s EXCEPT !.at = at]) \/ Become(r, thrown(s))
    BY DEF newPage
  <2>2. QED
    BY <1>1, <1>2, <2>1
<1>4. /\ scScrape' \in [Scrapes -> ScrapeStates]
      /\ \A q \in Scrapes : scScrape'[q] = IF q = r THEN t ELSE scScrape[q]
  BY <1>0, <1>3 DEF Become, ScrapeGoes, ScrapeSound
<1>5. ScrapesSound' /\ ContextsSound'
  <2> DEFINE opened == {r} \X scLive
  <2>1. \A q \in Scrapes : \/ scScrape'[q] = scScrape[q]
                           \/ /\ ScrapeGoes(scScrape[q], scScrape'[q])
                              /\ scScrape'[q].at = "done" => scScrape'[q].source # "indeed"
    BY <1>0, <1>3, <1>4 DEF ScrapeGoes
  <2>2. /\ opened \in SUBSET (Scrapes \X scLive) /\ scContexts' \subseteq scContexts \union opened
    BY DEF newPage, PageWorks
  <2>3. /\ \A c \in opened : ScrapeGoes(scScrape[c[1]], scScrape'[c[1]])
        /\ scLive \subseteq scLive'
    BY <1>0, <1>3, <1>4
  <2> HIDE DEF opened
  <2>4. QED
    BY <1>4, <2>1, <2>2, <2>3, ScrapesMove
<1>6. BrowserSound'
  BY <1>0 DEF BrowserSound
<1>7. QED
  BY <1>5, <1>6 DEF ScrapingInv

-----------------------------------------------------------------------------
\* An answer with what has been found, and no posting twice in it.
LEMMA EndsWith ==
    ASSUME NEW s, ScrapeSound(s), s.at \notin {"idle", "done"}, NEW t \in ScrapeStates,
           t.at = s.at, t.source = s.source, t.board = s.board, t.result = s.result,
           t.answer = s.answer, s.board = "greenhouse" \/ IsInjective(t.found)
    PROVE  ScrapeGoes(s, ended(t, "jobs"))
<1>1. s.at # "done" /\ (s.board = "indeed" => IsInjective(t.found))
  OBVIOUS
<1>2. ScrapeSound(t)
  BY <1>1, ScrapeStaysSound
<1>3. t.at \notin {"idle", "done"} /\ ("jobs" = "jobs" => t.board = "greenhouse" \/ IsInjective(t.found))
  OBVIOUS
<1>4. ScrapeGoes(t, ended(t, "jobs"))
  BY <1>2, <1>3, EndsSoundly
<1>5. QED
  BY <1>4 DEF ScrapeGoes

\* Indeed is visited and its cards are read, page after page.
LEMMA ResultPagesKeep ==
    ASSUME ScrapingInv, NEW r \in Scrapes, VisitResults(r) \/ ReadCards(r)
    PROVE  ScrapingInv'
<1> DEFINE s == scScrape[r]
<1>0. /\ ScrapeSound(s) /\ s \in ScrapeStates /\ s.at \in {"visit", "cards"} /\ s.at \notin {"idle", "done"}
      /\ s.source = "indeed" /\ s.board = "indeed" /\ IsInjective(s.found)
      /\ s.answer \in {"none", "error"} /\ UNCHANGED <<scBrowserVars, scUp>>
  <2>1. s.at \in {"visit", "cards"} /\ UNCHANGED <<scBrowserVars, scUp>>
    BY DEF VisitResults, ReadCards, At
  <2>2. ScrapeSound(s)
    BY RunningScrape
  <2>3. QED
    BY <2>1, <2>2 DEF ScrapeSound
<1>1. ScrapeGoes(s, thrown(s)) /\ ScrapeGoes(s, ended(s, "jobs"))
  BY <1>0, ThrowsSoundly, EndsSoundly
<1>2. \E t : Become(r, t) /\ ScrapeGoes(s, t)
  <2>1. CASE VisitResults(r)
    <3> DEFINE u == [s EXCEPT !.at = "cards"]
    <3>1. Become(r, thrown(s)) \/ Become(r, ended(s, "jobs")) \/ Become(r, u)
      BY <2>1 DEF VisitResults
    <3>2. /\ u \in ScrapeStates /\ u.at = "cards" /\ u.source = s.source /\ u.board = s.board
          /\ u.found = s.found /\ u.answer = s.answer
      BY <1>0 DEF ScrapeStates, Places
    <3> HIDE DEF u
    <3>3. ScrapeGoes(s, u)
      BY <1>0, <3>2, GoesSoundly
    <3>4. QED
      BY <1>1, <3>1, <3>3
  <2>2. CASE ReadCards(r) /\ s.aborted
    BY <1>1, <2>2 DEF ReadCards
  <2>3. CASE ReadCards(r) /\ ~s.aborted
    <3>1. PICK listing \in Listings :
              LET t == [s EXCEPT !.found = addCards(s.found, listing), !.page = s.page + 1]
              IN Become(r, ended(t, "jobs")) \/ Become(r, [t EXCEPT !.at = "visit"])
      BY <2>3 DEF ReadCards
    <3> DEFINE f == addCards(s.found, listing)
               t == [s EXCEPT !.found = f, !.page = s.page + 1]
               u == [t EXCEPT !.at = "visit"]
    <3>2. f \in Seq(Postings) /\ IsInjective(f)
      <4>1. s.found \in Seq(Postings) /\ listing \in Seq(Postings)
        BY <1>0, ListingsAreLists DEF ScrapeStates
      <4>2. s.found \o listing \in Seq(Postings) /\ {} \in SUBSET firsts(s.found \o listing)
        BY <4>1, ConcatProperties
      <4>3. QED
        BY <4>2, DeduplicatesWell DEF addCards, collected
    <3> HIDE DEF f
    <3>3. /\ t \in ScrapeStates /\ t.at = s.at /\ t.source = s.source /\ t.board = s.board
          /\ t.result = s.result /\ t.found = f /\ t.answer = s.answer
      <4>1. s.page + 1 \in Nat
        BY <1>0 DEF ScrapeStates
      <4>2. QED
        BY <1>0, <3>2, <4>1 DEF ScrapeStates
    <3>4. Become(r, ended(t, "jobs")) \/ Become(r, u)
      BY <3>1 DEF f
    <3> HIDE DEF t
    <3>5. ScrapeGoes(s, ended(t, "jobs"))
      BY <1>0, <3>2, <3>3, EndsWith
    <3>6. /\ u \in ScrapeStates /\ u.at = "visit" /\ u.source = s.source /\ u.board = s.board
          /\ u.found = f /\ u.answer = s.answer
      BY <3>3 DEF ScrapeStates, Places
    <3> HIDE DEF u
    <3>7. ScrapeGoes(s, u)
      BY <1>0, <3>2, <3>6, GoesSoundly
    <3>8. QED
      BY <3>4, <3>5, <3>7
  <2>4. QED
    BY <2>1, <2>2, <2>3
<1>3. PICK t : Become(r, t) /\ ScrapeGoes(s, t)
  BY <1>2
<1>4. t.at = "done" => t.source # "indeed"
  BY <1>0, <1>3 DEF ScrapeGoes
<1>5. QED
  BY <1>0, <1>3, <1>4, ScrapeGoesOn

\* A scraper closes its context, and its postings are the answer.
LEMMA CloseScraperKeeps ==
    ASSUME ScrapingInv, NEW r \in Scrapes, CloseScraper(r)
    PROVE  ScrapingInv'
<1> DEFINE s == scScrape[r]
           t == ended(s, s.result)
<1>0. /\ scScrape \in [Scrapes -> ScrapeStates] /\ ScrapeSound(s) /\ s.at = "close"
      /\ ContextsSound /\ s.result \in {"jobs", "error"} /\ IsInjective(s.found)
      /\ scContexts' = {c \in scContexts : c[1] # r} /\ Become(r, t)
      /\ UNCHANGED <<scShared, scPromise, scLaunching, scLive, scLaunched, scUp>>
  BY DEF ScrapingInv, ScrapesSound, CloseScraper, At, closeContexts, ScrapeSound
<1>1. ScrapeGoes(s, t)
  BY <1>0, EndsSoundly
<1> HIDE DEF t
<1>2. /\ scScrape' \in [Scrapes -> ScrapeStates]
      /\ \A q \in Scrapes : scScrape'[q] = IF q = r THEN t ELSE scScrape[q]
  BY <1>0, <1>1 DEF Become, ScrapeGoes, ScrapeSound
<1>3. ScrapesSound'
  BY <1>1, <1>2 DEF ScrapingInv, ScrapesSound, ScrapeGoes
<1>4. ContextsSound'
  BY <1>0, <1>2 DEF ContextsSound
<1>5. BrowserSound'
  BY <1>0 DEF ScrapingInv, BrowserSound
<1>6. QED
  BY <1>3, <1>4, <1>5 DEF ScrapingInv

\* The boards with an interface are fetched and their answers deduplicated.
LEMMA BoardsKeep ==
    ASSUME ScrapingInv, NEW r \in Scrapes, scrapeGreenhouse(r) \/ scrapeLever(r) \/ scrapeRemoteOK(r)
    PROVE  ScrapingInv'
<1> DEFINE s == scScrape[r]
<1>0. /\ ScrapeSound(s) /\ s \in ScrapeStates /\ s.at = "fetch" /\ s.at \notin {"idle", "done"}
      /\ s.source # "indeed" /\ s.board # "indeed" /\ s.answer \in {"none", "error"}
      /\ s.found \in Seq(Postings) /\ s.page \in Nat /\ UNCHANGED <<scBrowserVars, scUp>>
  <2>1. s.at = "fetch" /\ UNCHANGED <<scBrowserVars, scUp>>
    BY DEF scrapeGreenhouse, scrapeLever, scrapeRemoteOK, Board, At
  <2>2. ScrapeSound(s) /\ s \in ScrapeStates
    BY RunningScrape
  <2>3. QED
    BY <2>1, <2>2 DEF ScrapeSound, ScrapeStates
<1>1. ScrapeGoes(s, thrown(s)) /\ ScrapeGoes(s, retry(s, thrown(s)))
  BY <1>0, ThrowsSoundly, RetriesSoundly
<1>2. ASSUME NEW f \in Seq(Postings), s.board = "greenhouse" \/ IsInjective(f)
      PROVE  ScrapeGoes(s, ended([s EXCEPT !.found = f], "jobs"))
  <2> DEFINE t == [s EXCEPT !.found = f]
  <2>1. /\ t \in ScrapeStates /\ t.at = s.at /\ t.source = s.source /\ t.board = s.board
        /\ t.result = s.result /\ t.found = f /\ t.answer = s.answer
    BY <1>0 DEF ScrapeStates
  <2> HIDE DEF t
  <2>2. ScrapeGoes(s, ended(t, "jobs"))
    BY <1>0, <1>2, <2>1, EndsWith
  <2>3. QED
    BY <2>2 DEF t
<1>3. \E t : Become(r, t) /\ ScrapeGoes(s, t)
  <2>1. CASE scrapeGreenhouse(r)
    <3>0. s.board = "greenhouse"
      BY <2>1 DEF scrapeGreenhouse, Board
    <3>1. CASE Become(r, thrown(s))
      BY <1>1, <3>1
    <3>2. CASE Become(r, retry(s, ended(s, "jobs")))
      <4>1. ScrapeGoes(s, ended(s, "jobs"))
        BY <1>0, <3>0, EndsSoundly
      <4>2. QED
        BY <1>0, <3>2, <4>1, RetriesSoundly
    <3>3. ASSUME NEW listing \in Listings
          PROVE  LET t == [s EXCEPT !.found = s.found \o listing, !.page = s.page + 1, !.tries = 0]
                 IN Become(r, ended(t, "jobs")) \/ Become(r, t) => \E u : Become(r, u) /\ ScrapeGoes(s, u)
      <4> DEFINE f == s.found \o listing
                 t == [s EXCEPT !.found = f, !.page = s.page + 1, !.tries = 0]
      <4>1. f \in Seq(Postings)
        BY <1>0, <3>3, ListingsAreLists, ConcatProperties
      <4> HIDE DEF f
      <4>2. /\ t \in ScrapeStates /\ t.at = s.at /\ t.source = s.source /\ t.board = s.board
            /\ t.result = s.result /\ t.found = f /\ t.answer = s.answer
        <5>1. s.page + 1 \in Nat /\ 0 \in 0..maxAttempts - 1
          BY <1>0 DEF maxAttempts
        <5>2. QED
          BY <1>0, <4>1, <5>1 DEF ScrapeStates
      <4> HIDE DEF t
      <4>3. ScrapeGoes(s, ended(t, "jobs"))
        BY <1>0, <3>0, <4>2, EndsWith
      <4>4. ScrapeGoes(s, t)
        BY <1>0, <4>2, GoesSoundly
      <4>5. Become(r, ended(t, "jobs")) \/ Become(r, t) => \E u : Become(r, u) /\ ScrapeGoes(s, u)
        BY <4>3, <4>4
      <4>6. QED
        BY <4>5 DEF t, f
    <3>4. \/ Become(r, thrown(s)) \/ Become(r, retry(s, ended(s, "jobs")))
          \/ \E listing \in Listings :
                LET t == [s EXCEPT !.found = s.found \o listing, !.page = s.page + 1, !.tries = 0]
                IN Become(r, ended(t, "jobs")) \/ Become(r, t)
      BY <2>1 DEF scrapeGreenhouse
    <3>5. QED
      BY <3>1, <3>2, <3>3, <3>4
  <2>2. CASE scrapeLever(r)
    <3>1. ASSUME NEW listing \in Listings
          PROVE  ScrapeGoes(s, ended([s EXCEPT !.found = deduplicate(listing)], "jobs"))
      <4>1. listing \in Seq(Postings) /\ {} \in SUBSET firsts(listing)
        BY ListingsAreLists
      <4>2. deduplicate(listing) \in Seq(Postings) /\ IsInjective(deduplicate(listing))
        BY <4>1, DeduplicatesWell
      <4>3. QED
        BY <1>2, <4>2
    <3>2. \/ Become(r, thrown(s)) \/ Become(r, retry(s, thrown(s)))
          \/ \E listing \in Listings : Become(r, ended([s EXCEPT !.found = deduplicate(listing)], "jobs"))
      BY <2>2 DEF scrapeLever
    <3>3. QED
      BY <1>1, <3>1, <3>2
  <2>3. CASE scrapeRemoteOK(r)
    <3>1. ASSUME NEW listing \in Listings, NEW kept \in SUBSET firsts(listing)
          PROVE  ScrapeGoes(s, ended([s EXCEPT !.found = postingsAt(listing, kept)], "jobs"))
      <4>1. listing \in Seq(Postings)
        BY ListingsAreLists
      <4>2. postingsAt(listing, kept) \in Seq(Postings) /\ IsInjective(postingsAt(listing, kept))
        BY <4>1, DeduplicatesWell
      <4>3. QED
        BY <1>2, <4>2
    <3>2. \/ Become(r, thrown(s)) \/ Become(r, retry(s, thrown(s)))
          \/ \E listing \in Listings : \E kept \in SUBSET firsts(listing) :
                Become(r, ended([s EXCEPT !.found = postingsAt(listing, kept)], "jobs"))
      BY <2>3 DEF scrapeRemoteOK
    <3>3. QED
      BY <1>1, <3>1, <3>2
  <2>4. QED
    BY <2>1, <2>2, <2>3
<1>4. PICK t : Become(r, t) /\ ScrapeGoes(s, t)
  BY <1>3
<1>5. t.at = "done" => t.source # "indeed"
  BY <1>0, <1>4 DEF ScrapeGoes
<1>6. QED
  BY <1>0, <1>4, <1>5, ScrapeGoesOn

\* Any other site is scraped by what it looks like, or by the model.
LEMMA SitesKeep ==
    ASSUME ScrapingInv, NEW r \in Scrapes, DetectATS(r) \/ ReadSite(r) \/ llmFallback(r)
    PROVE  ScrapingInv'
<1> DEFINE s == scScrape[r]
<1>0. /\ ScrapeSound(s) /\ s \in ScrapeStates /\ s.at \in {"detect", "site", "llm"}
      /\ s.at \notin {"idle", "done"}
      /\ s.source # "indeed" /\ s.board # "indeed" /\ s.answer \in {"none", "error"}
      /\ s.found \in Seq(Postings) /\ UNCHANGED <<scBrowserVars, scUp>>
  <2>1. s.at \in {"detect", "site", "llm"} /\ UNCHANGED <<scBrowserVars, scUp>>
    BY DEF DetectATS, ReadSite, llmFallback, At
  <2>2. ScrapeSound(s) /\ s \in ScrapeStates
    BY RunningScrape
  <2>3. QED
    BY <2>1, <2>2 DEF ScrapeSound, ScrapeStates
<1>1. ScrapeGoes(s, thrown(s)) /\ ScrapeGoes(s, retry(s, thrown(s)))
  BY <1>0, ThrowsSoundly, RetriesSoundly
<1>2. ASSUME NEW jobs \in Seq(Postings)
      PROVE  ScrapeGoes(s, ended([s EXCEPT !.found = deduplicate(jobs)], "jobs"))
  <2> DEFINE t == [s EXCEPT !.found = deduplicate(jobs)]
  <2>1. deduplicate(jobs) \in Seq(Postings) /\ IsInjective(deduplicate(jobs))
    <3>1. {} \in SUBSET firsts(jobs)
      OBVIOUS
    <3>2. QED
      BY <1>2, <3>1, DeduplicatesWell
  <2>2. /\ t \in ScrapeStates /\ t.at = s.at /\ t.source = s.source /\ t.board = s.board
        /\ t.result = s.result /\ t.found = deduplicate(jobs) /\ t.answer = s.answer
    BY <1>0, <2>1 DEF ScrapeStates
  <2> HIDE DEF t
  <2>3. ScrapeGoes(s, ended(t, "jobs"))
    BY <1>0, <2>1, <2>2, EndsWith
  <2>4. QED
    BY <2>3 DEF t
<1>3. \E t : Become(r, t) /\ ScrapeGoes(s, t)
  <2>1. CASE DetectATS(r)
    <3>1. PICK at \in {"site", "fetch"}, b \in Sources :
              /\ Become(r, [s EXCEPT !.at = at, !.board = b]) /\ b # "indeed"
      <4>1. CASE Become(r, [s EXCEPT !.at = "site"])
        <5>1. [s EXCEPT !.at = "site"] = [s EXCEPT !.at = "site", !.board = s.board] /\ s.board \in Sources
          BY <1>0 DEF ScrapeStates
        <5>2. QED
          BY <1>0, <4>1, <5>1
      <4>2. CASE \E b \in {"greenhouse", "lever"} : Become(r, [s EXCEPT !.at = "fetch", !.board = b])
        BY <4>2 DEF Sources, Boards
      <4>3. QED
        BY <2>1, <4>1, <4>2 DEF DetectATS
    <3> DEFINE t == [s EXCEPT !.at = at, !.board = b]
    <3>2. /\ t \in ScrapeStates /\ t.at = at /\ t.source = s.source /\ t.board = b
          /\ t.found = s.found /\ t.answer = s.answer
      BY <1>0, <3>1 DEF ScrapeStates, Places
    <3>3. Become(r, t)
      BY <3>1
    <3> HIDE DEF t
    <3>4. ScrapeGoes(s, t)
      BY <1>0, <3>1, <3>2, GoesSoundly
    <3>5. QED
      BY <3>3, <3>4
  <2>2. CASE ReadSite(r)
    <3>1. ASSUME NEW listing \in Listings
          PROVE  /\ ScrapeGoes(s, ended([[s EXCEPT !.found = listing] EXCEPT !.found = deduplicate(listing)], "jobs"))
                 /\ ScrapeGoes(s, [[s EXCEPT !.found = listing] EXCEPT !.at = "llm"])
      <4> DEFINE t == [[s EXCEPT !.found = listing] EXCEPT !.at = "llm"]
      <4>1. listing \in Seq(Postings)
        BY ListingsAreLists
      <4>2. [[s EXCEPT !.found = listing] EXCEPT !.found = deduplicate(listing)]
                = [s EXCEPT !.found = deduplicate(listing)]
        BY <1>0 DEF ScrapeStates
      <4>3. /\ t \in ScrapeStates /\ t.at = "llm" /\ t.source = s.source /\ t.board = s.board
            /\ t.found = listing /\ t.answer = s.answer
        BY <1>0, <4>1 DEF ScrapeStates, Places
      <4> HIDE DEF t
      <4>4. ScrapeGoes(s, t)
        BY <1>0, <4>3, GoesSoundly
      <4>5. QED
        BY <1>2, <4>1, <4>2, <4>4 DEF t
    <3>2. \/ Become(r, thrown(s))
          \/ \E listing \in Listings :
                \/ Become(r, ended([[s EXCEPT !.found = listing] EXCEPT !.found = deduplicate(listing)], "jobs"))
                \/ Become(r, [[s EXCEPT !.found = listing] EXCEPT !.at = "llm"])
      <4>1. CASE Become(r, thrown(s))
        BY <4>1
      <4>2. ASSUME NEW listing \in extractJsonLd,
                   LET t == [s EXCEPT !.found = listing]
                   IN  IF Len(listing) >= JSONLD_MIN_THRESHOLD
                       THEN Become(r, ended([t EXCEPT !.found = deduplicate(t.found)], "jobs"))
                       ELSE discoverWithPagination = {} /\ Become(r, [t EXCEPT !.at = "llm"])
            PROVE  \/ Become(r, ended([[s EXCEPT !.found = listing] EXCEPT !.found = deduplicate(listing)], "jobs"))
                   \/ Become(r, [[s EXCEPT !.found = listing] EXCEPT !.at = "llm"])
        <5>1. [s EXCEPT !.found = listing].found = listing
          BY <1>0 DEF ScrapeStates
        <5>2. QED
          BY <4>2, <5>1
      <4>3. QED
        BY <2>2, <4>2 DEF ReadSite, extractJsonLd
    <3>3. QED
      BY <1>1, <3>1, <3>2
  <2>3. CASE llmFallback(r)
    <3>1. ASSUME NEW t \in extractJobData(s)
          PROVE  ScrapeGoes(s, t)
      <4>1. ASSUME NEW p \in Postings, t = ended([s EXCEPT !.found = deduplicate(Append(s.found, p))], "jobs")
            PROVE  ScrapeGoes(s, t)
        <5>1. Append(s.found, p) \in Seq(Postings)
          BY <1>0, AppendProperties
        <5>2. QED
          BY <1>2, <4>1, <5>1
      <4>2. QED
        BY <1>1, <4>1 DEF extractJobData
    <3>2. \/ Become(r, thrown(s)) \/ \E t \in extractJobData(s) : Become(r, t)
          \/ Become(r, ended([s EXCEPT !.found = deduplicate(s.found)], "jobs"))
      BY <2>3 DEF llmFallback
    <3>3. QED
      BY <1>0, <1>1, <1>2, <3>1, <3>2
  <2>4. QED
    BY <2>1, <2>2, <2>3
<1>4. PICK t : Become(r, t) /\ ScrapeGoes(s, t)
  BY <1>3
<1>5. t.at = "done" => t.source # "indeed"
  BY <1>0, <1>4 DEF ScrapeGoes
<1>6. QED
  BY <1>0, <1>4, <1>5, ScrapeGoesOn

\* A shutdown closes the shared browser.
LEMMA ShutdownKeeps == ASSUME ScrapingInv, Shutdown PROVE ScrapingInv'
<1> DEFINE gone(r) == [NewScrape EXCEPT !.at = "gone", !.answer = scScrape[r].answer]
<1>1. ASSUME NEW r \in Scrapes, Running(r)
      PROVE  ScrapeSound(gone(r)) /\ gone(r) \in ScrapeStates
  <2>1. scScrape[r].answer \in {"none", "error"}
    BY <1>1, RunningScrape
  <2>2. /\ gone(r) \in ScrapeStates /\ gone(r).at = "gone" /\ gone(r).source = "custom"
        /\ gone(r).board = "custom" /\ gone(r).answer = scScrape[r].answer
    BY <2>1, NewScrapeSound DEF ScrapeStates, Places, NewScrape
  <2> HIDE DEF gone
  <2>3. QED
    BY <2>1, <2>2 DEF ScrapeSound
<1>2. scScrape' = [r \in Scrapes |-> IF Running(r) THEN gone(r) ELSE scScrape[r]]
  BY DEF Shutdown
<1> HIDE DEF gone
<1>3. ScrapesSound'
  BY <1>1, <1>2 DEF ScrapingInv, ScrapesSound
<1>4. BrowserSound' /\ ContextsSound'
  BY DEF Shutdown, ScrapingInv, BrowserSound, ContextsSound, None
<1>5. QED
  BY <1>3, <1>4 DEF ScrapingInv

\* Every step keeps the invariant of the scrapes and the browser.
LEMMA ScrapingNextKeeps == ScrapingInv /\ [ScrapingNext]_scrapingVars => ScrapingInv'
<1>1. SUFFICES ASSUME ScrapingInv, [ScrapingNext]_scrapingVars PROVE ScrapingInv'
  OBVIOUS
<1>2. CASE UNCHANGED scrapingVars
  BY <1>1, <1>2 DEF scrapingVars, scBrowserVars, ScrapingInv, ScrapesSound, BrowserSound, ContextsSound
<1>3. ASSUME NEW r \in Scrapes,
             \/ Accept(r) \/ Refuse(r) \/ TimeOut(r) \/ getBrowser(r) \/ newPage(r)
             \/ VisitResults(r) \/ ReadCards(r) \/ CloseScraper(r)
             \/ scrapeGreenhouse(r) \/ scrapeLever(r) \/ scrapeRemoteOK(r)
             \/ DetectATS(r) \/ ReadSite(r) \/ llmFallback(r)
      PROVE  ScrapingInv'
  <2>1. CASE \/ Accept(r) \/ Refuse(r) \/ TimeOut(r) \/ getBrowser(r) \/ newPage(r)
             \/ VisitResults(r) \/ ReadCards(r) \/ CloseScraper(r)
    BY <1>1, <2>1, RequestsKeep, getBrowserKeeps, newPageKeeps, ResultPagesKeep, CloseScraperKeeps
  <2>2. CASE \/ scrapeGreenhouse(r) \/ scrapeLever(r) \/ scrapeRemoteOK(r)
             \/ DetectATS(r) \/ ReadSite(r) \/ llmFallback(r)
    BY <1>1, <2>2, BoardsKeep, SitesKeep
  <2>3. QED
    BY <1>3, <2>1, <2>2
<1>4. ASSUME NEW b \in 1..MaxLaunches, Launched(b) \/ LaunchFails(b) \/ BrowserDies(b)
      PROVE  ScrapingInv'
  BY <1>1, <1>4, LaunchKeeps, BrowserDiesKeeps
<1>5. CASE Shutdown
  BY <1>1, <1>5, ShutdownKeeps
<1>6. QED
  BY <1>1, <1>2, <1>3, <1>4, <1>5 DEF ScrapingNext

\* The scrapes, the browser and its contexts have their types, for any requests and postings.
THEOREM ScrapingType == ScrapingSpec => []ScrapingTypeOK
<1>1. ASSUME ScrapingInv PROVE ScrapingTypeOK
  <2>1. ASSUME NEW r \in Scrapes
        PROVE  /\ scScrape[r].source \in Sources /\ scScrape[r].tries \in 0..maxAttempts - 1
               /\ scScrape[r].answer \in {"none", "error", "jobs"} \union Refusals
               /\ \A i \in DOMAIN scScrape[r].found : scScrape[r].found[i] \in Postings
               /\ scScrape[r].at = "done" => scScrape[r].answer # "none"
    <3>1. ScrapeSound(scScrape[r]) /\ scScrape[r] \in ScrapeStates
      BY <1>1, RunningScrape
    <3>2. scScrape[r].found \in Seq(Postings)
      BY <3>1 DEF ScrapeStates
    <3>3. \A i \in DOMAIN scScrape[r].found : scScrape[r].found[i] \in Postings
      BY <3>2
    <3>4. QED
      BY <3>1, <3>3 DEF ScrapeStates, ScrapeSound
  <2>2. scLaunching \subseteq 1..MaxLaunches /\ scLive \subseteq 1..MaxLaunches
    BY <1>1, ScrapingAssumption DEF ScrapingInv, BrowserSound
  <2>3. scContexts \subseteq Scrapes \X scLive
    BY <1>1 DEF ScrapingInv, ContextsSound
  <2>4. QED
    BY <2>1, <2>2, <2>3 DEF ScrapingTypeOK
<1>2. QED
  BY <1>1, ScrapingInitInv, ScrapingNextKeeps, PTL DEF ScrapingSpec

\* ChromiumIsContained holds for any number of scrapes at once and of crashes: they share
\* one browser, and Indeed's scraper leaves nothing open in it.
THEOREM OneChromium == ScrapingSpec => []ChromiumIsContained
<1>1. ASSUME ScrapingInv PROVE ChromiumIsContained
  <2>1. scLive \union scLaunching = {} \/ \E b : scLive \union scLaunching = {b}
    BY <1>1 DEF ScrapingInv, BrowserSound
  <2>2. Cardinality(scLive \union scLaunching) <= 1
    <3>1. CASE scLive \union scLaunching = {}
      <4>1. Cardinality(scLive \union scLaunching) = 0
        BY <3>1, FS_EmptySet, Zenon
      <4>2. QED
        BY <4>1
    <3>2. ASSUME NEW b, scLive \union scLaunching = {b}
          PROVE  Cardinality(scLive \union scLaunching) <= 1
      <4>1. Cardinality({b}) = 1
        BY FS_Singleton
      <4>2. Cardinality(scLive \union scLaunching) = 1
        BY <3>2, <4>1, Zenon
      <4>3. QED
        BY <4>2
    <3>3. QED
      BY <2>1, <3>1, <3>2
  <2>3. QED
    BY <1>1, <2>2 DEF ChromiumIsContained, ScrapingInv, ContextsSound
<1>2. QED
  BY <1>1, ScrapingInitInv, ScrapingNextKeeps, PTL DEF ScrapingSpec

\* PostingsAreDistinct holds for any postings, pages and interleavings of scrapes.
THEOREM WorkersHearOfPostingsOnce == ScrapingSpec => []PostingsAreDistinct
<1>1. ASSUME ScrapingInv PROVE PostingsAreDistinct
  <2>1. ASSUME NEW r \in Scrapes, scScrape[r].board # "greenhouse"
        PROVE  IsInjective(ScrapeJobs(r).jobs)
    <3>1. ScrapeSound(scScrape[r])
      BY <1>1, RunningScrape
    <3>2. ScrapeJobs(r).jobs = IF scScrape[r].answer = "jobs" THEN scScrape[r].found ELSE <<>>
      BY DEF ScrapeJobs
    <3>3. QED
      BY <2>1, <3>1, <3>2, ListingsAreLists DEF ScrapeSound
  <2>2. QED
    BY <2>1 DEF PostingsAreDistinct
<1>2. QED
  BY <1>1, ScrapingInitInv, ScrapingNextKeeps, PTL DEF ScrapingSpec
=============================================================================
