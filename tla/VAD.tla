-------------------------------- MODULE VAD --------------------------------
(***************************************************************************)
(* Voice activity detection, browser-agent/src/voice/vad.ts, and the       *)
(* buffers of session.ts it steers: which audio becomes one utterance.     *)
(* Time is the count of samples processed, in a coarse unit; how a chunk's *)
(* energy compares with the adaptive threshold is its loudness.  The room  *)
(* may hold several participants; the detector hears the interviewer only. *)
(***************************************************************************)
EXTENDS Integers, FiniteSets

CONSTANTS Participants, ChunkLengths,  \* who can be heard, the agent excepted
          Onset, Silence, MaxSpeech,   \* 0.2, 0.7 and 30 seconds
          MaxSamples                   \* bound: the end of the recording

ASSUME VADAssumption ==
    /\ Onset \in Nat \ {0} /\ Silence \in Nat \ {0} /\ MaxSpeech \in Nat /\ MaxSamples \in Nat
    /\ ChunkLengths \subseteq Nat \ {0}
    /\ \A n \in ChunkLengths : Onset + n <= MaxSpeech

VARIABLES vadSpeaking, vadNow, vadStart, vadAbove, vadBelow,
          vadInterviewer,      \* interviewerParticipantId
          vadBuffer,           \* the segments the interviewer's buffer has audio of
          vadEnd,              \* history: where the last reported segment ended
          vadLoudEnd,          \* history: the end of the last loud chunk in a segment
          vadQuietEnd,         \* history: the end of the last quiet chunk outside one
          vadLoudRun           \* history: loud samples in a row since the last report
detectorVars == <<vadSpeaking, vadNow, vadStart, vadAbove, vadBelow, vadBuffer,
                  vadEnd, vadLoudEnd, vadQuietEnd, vadLoudRun>>
vadVars == <<vadSpeaking, vadNow, vadStart, vadAbove, vadBelow, vadInterviewer, vadBuffer,
             vadEnd, vadLoudEnd, vadQuietEnd, vadLoudRun>>

Nobody == "none"

VADInit ==
    /\ vadSpeaking = FALSE /\ vadNow = 0 /\ vadStart = 0 /\ vadAbove = 0 /\ vadBelow = 0
    /\ vadInterviewer = Nobody /\ vadBuffer = {}
    /\ vadEnd = 0 /\ vadLoudEnd = 0 /\ vadQuietEnd = 0 /\ vadLoudRun = 0

-----------------------------------------------------------------------------
ContinuesUnreset(n) ==                     \* the silence so far is not forgotten
    /\ vadSpeaking /\ vadNow + n - vadStart < MaxSpeech
    /\ UNCHANGED <<vadSpeaking, vadStart, vadAbove, vadBelow, vadEnd>>
\* isSpeaking on a chunk of n samples.  A loud chunk of an open segment ends it
\* when the segment is too long by then, a quiet one when the silence is.
Continues(n) ==
    /\ vadSpeaking /\ vadNow + n - vadStart < MaxSpeech
    /\ vadBelow' = 0
    /\ UNCHANGED <<vadSpeaking, vadStart, vadAbove, vadEnd>>

CutOff(n) ==
    /\ vadSpeaking /\ vadNow + n - vadStart >= MaxSpeech
    /\ vadBelow' = 0
    /\ vadSpeaking' = FALSE /\ vadEnd' = vadNow + n
    /\ UNCHANGED <<vadStart, vadAbove>>

Pauses(n) ==
    /\ vadSpeaking
    /\ vadBelow' = vadBelow + n
    /\ IF vadBelow' >= Silence
       THEN vadSpeaking' = FALSE /\ vadEnd' = vadNow + n - vadBelow'
       ELSE UNCHANGED <<vadSpeaking, vadEnd>>
    /\ UNCHANGED <<vadStart, vadAbove>>

\* Loudness that lasts opens a segment, dated back to where the loudness began.
Rises(n) ==
    /\ ~vadSpeaking
    /\ IF vadAbove + n >= Onset
       THEN /\ vadSpeaking' = TRUE /\ vadStart' = vadNow - vadAbove
            /\ vadAbove' = 0 /\ vadBelow' = 0
       ELSE vadAbove' = vadAbove + n /\ UNCHANGED <<vadSpeaking, vadStart, vadBelow>>
    /\ UNCHANGED vadEnd

StaysQuiet ==
    /\ ~vadSpeaking
    /\ vadAbove' = 0
    /\ UNCHANGED <<vadSpeaking, vadStart, vadBelow, vadEnd>>

\* The answer is no on the chunk that ends a segment: it is not buffered.
bufferOrFlush == vadBuffer' = IF vadSpeaking' THEN vadBuffer \cup {vadStart'} ELSE {}

\* handleIncomingAudio, while the session listens or speaks.
HandleIncomingAudio(n, loud) ==
    /\ IF loud THEN Continues(n) \/ CutOff(n) \/ Rises(n) ELSE Pauses(n) \/ StaysQuiet
    /\ vadNow' = vadNow + n
    /\ vadLoudEnd' = IF loud /\ (vadSpeaking \/ vadSpeaking') THEN vadNow' ELSE vadLoudEnd
    /\ vadQuietEnd' = IF loud \/ vadSpeaking THEN vadQuietEnd ELSE vadNow'
    /\ vadLoudRun' = IF loud /\ vadEnd' = vadEnd THEN vadLoudRun + n ELSE 0
    /\ bufferOrFlush

\* 'audioReceived': whoever is heard first is the interviewer (no event of the
\* transport is of the kind "local"), and the others are not listened to; nor is
\* the interviewer while the session neither listens nor speaks.
AudioReceived(p, n, loud) ==
    /\ vadNow + n <= MaxSamples
    /\ vadInterviewer' = IF vadInterviewer = Nobody THEN p ELSE vadInterviewer
    /\ \/ p = vadInterviewer' /\ HandleIncomingAudio(n, loud)
       \/ UNCHANGED detectorVars

\* cleanup: destroy(), the buffers and the interviewer.
DestroyVAD ==
    /\ vadInterviewer # Nobody
    /\ vadSpeaking' = FALSE /\ vadNow' = 0 /\ vadStart' = 0 /\ vadAbove' = 0 /\ vadBelow' = 0
    /\ vadInterviewer' = Nobody /\ vadBuffer' = {}
    /\ vadEnd' = 0 /\ vadLoudEnd' = 0 /\ vadQuietEnd' = 0 /\ vadLoudRun' = 0

VADNext ==
    \/ \E p \in Participants, n \in ChunkLengths, loud \in BOOLEAN : AudioReceived(p, n, loud)
    \/ DestroyVAD

VADSpec == VADInit /\ [][VADNext]_vadVars

-----------------------------------------------------------------------------
Samples == 0..MaxSamples
VADTypeOK ==
    /\ vadSpeaking \in BOOLEAN
    /\ vadNow \in Samples /\ vadStart \in Samples /\ vadAbove \in Samples /\ vadBelow \in Samples
    /\ vadInterviewer \in Participants \cup {Nobody} /\ vadBuffer \subseteq Samples
    /\ vadEnd \in Samples /\ vadLoudEnd \in Samples /\ vadQuietEnd \in Samples /\ vadLoudRun \in Samples

\* Speech is reported when there is some and as one stretch, whatever came before.
\* Loudness that lasts as long as the onset is inside a segment; a segment dated
\* back reaches neither into the one before nor into the quiet between; its talk
\* stays under the maximum; it is kept open by every pause too short to end it and
\* by no longer one, and a segment that has ended is reported with its last talk.
SpeechIsDelimited ==
    /\ ~vadSpeaking => vadLoudRun < Onset /\ vadEnd = vadLoudEnd
    /\ vadSpeaking => /\ vadEnd <= vadStart /\ vadQuietEnd <= vadStart
                      /\ vadLoudEnd - vadStart < MaxSpeech
                      /\ vadNow - vadLoudEnd < Silence

\* The buffer becomes one utterance for the transcriber.  It holds audio of the
\* open segment only, and none is kept once the segment has ended, whoever else
\* talks in between.
UtteranceIsOneSegment ==
    vadBuffer \subseteq (IF vadSpeaking THEN {vadStart} ELSE {})
=============================================================================
