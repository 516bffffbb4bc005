---------------------------- MODULE SpeechDaemon ----------------------------
(***************************************************************************)
(* The local speech synthesis of voice/providers/local-kokoro.ts and its   *)
(* Python daemon, scripts/kokoro_stream.py: frames of a length and a JSON  *)
(* payload through pipes.  What Python writes at once arrives at once, or  *)
(* together with what it writes next.  A session speaks one text at a time.*)
(***************************************************************************)
EXTENDS Integers, Sequences

CONSTANTS MaxCalls,            \* bound: calls of synthesize
          MaxAudio             \* bound: audio frames of an answer

ASSUME SpeechAssumption == MaxCalls \in Nat /\ MaxAudio \in Nat

VARIABLES ttsUnbuffered,       \* PYTHONUNBUFFERED is set for the service
          ttsDaemon, ttsReady, ttsDestroying,
          ttsWork,             \* what the process is doing
          ttsStdin, ttsStdout, \* the pipes: requests, parts of frames
          ttsRead,             \* readDaemonResponse
          ttsCall,             \* the call of the provider under way
          ttsCalls,            \* calls of synthesize so far
          ttsArrived,          \* history: this read was given a whole frame at once
          ttsMissed,           \* history: a read timed out although it was
          ttsForeign,          \* history: a call was given the answer to another
          ttsAbandoned         \* history: a call was given up and its answer left
ttsVars == <<ttsUnbuffered, ttsDaemon, ttsReady, ttsDestroying, ttsWork, ttsStdin, ttsStdout,
             ttsRead, ttsCall, ttsCalls, ttsArrived, ttsMissed, ttsForeign, ttsAbandoned>>

-----------------------------------------------------------------------------
Startup == 0                               \* the call a "ready" answers
CallIds == Startup..MaxCalls
FrameKinds == {"ready", "audio", "done", "error"}
\* Part 0 of a frame is its length.  A part that is joined cannot arrive without
\* the part before it.
FrameParts == [of : CallIds, kind : FrameKinds, part : 0..2, joined : BOOLEAN]
parts(kind) == IF kind = "audio" THEN 2 ELSE 1
\* A buffered write of a large payload flushes the length first.
frame(of, kind) ==
    [i \in 1..parts(kind) + 1 |->
        [of |-> of, kind |-> kind, part |-> i - 1,
         joined |-> i > 1 /\ kind # "audio" /\ ~ttsUnbuffered]]

NotReading == [at |-> "none"]
ReadLength == [at |-> "length"]
Misread == [at |-> "misread"]              \* payload taken for a length, half a gigabyte at least
Reads == {NotReading, ReadLength, Misread}
   \cup [at : {"payload"}, of : CallIds, kind : FrameKinds, got : 0..2]

NoCall == [pc |-> "none"]
SpeechCalls == {NoCall} \cup [pc : {"initialize"}, of : {Startup}]
                        \cup [pc : {"synthesize", "yield"}, of : 1..MaxCalls]
DaemonWork == {[at |-> "gone"], [at |-> "loading"], [at |-> "waiting"]}
   \cup [at : {"speaking"}, of : 1..MaxCalls, sent : 0..MaxAudio]

SpeechInit ==
    /\ ttsUnbuffered \in BOOLEAN
    /\ ttsDaemon = FALSE /\ ttsReady = FALSE /\ ttsDestroying = FALSE
    /\ ttsWork = [at |-> "gone"] /\ ttsStdin = <<>> /\ ttsStdout = <<>>
    /\ ttsRead = NotReading /\ ttsCall = NoCall /\ ttsCalls = 0
    /\ ttsArrived = FALSE /\ ttsMissed = FALSE /\ ttsForeign = FALSE /\ ttsAbandoned = FALSE

-----------------------------------------------------------------------------
\* The daemon.  It writes without waiting for a reader, and may die at any time.
writes(of, kind) == ttsStdout' = ttsStdout \o frame(of, kind)
processUnchanged == UNCHANGED <<ttsUnbuffered, ttsDaemon, ttsReady, ttsDestroying, ttsRead, ttsCall,
                                ttsCalls, ttsArrived, ttsMissed, ttsForeign, ttsAbandoned>>

DaemonStarts ==
    /\ ttsWork.at = "loading"
    /\ \/ writes(Startup, "ready") /\ ttsWork' = [at |-> "waiting"]
       \/ writes(Startup, "error") /\ ttsWork' = [at |-> "gone"]
    /\ UNCHANGED ttsStdin /\ processUnchanged

DaemonTakesRequest ==
    /\ ttsWork.at = "waiting" /\ ttsStdin # <<>>
    /\ ttsWork' = [at |-> "speaking", of |-> Head(ttsStdin), sent |-> 0]
    /\ ttsStdin' = Tail(ttsStdin)
    /\ UNCHANGED ttsStdout /\ processUnchanged

DaemonAnswers ==
    /\ ttsWork.at = "speaking"
    /\ \/ /\ ttsWork.sent < MaxAudio
          /\ writes(ttsWork.of, "audio") /\ ttsWork' = [ttsWork EXCEPT !.sent = @ + 1]
       \/ \E last \in {"done", "error"} : writes(ttsWork.of, last) /\ ttsWork' = [at |-> "waiting"]
    /\ UNCHANGED ttsStdin /\ processUnchanged

DaemonDies ==
    /\ ttsWork.at # "gone" /\ ttsWork' = [at |-> "gone"]
    /\ UNCHANGED <<ttsStdin, ttsStdout>> /\ processUnchanged

-----------------------------------------------------------------------------
startRead == ttsRead' = ReadLength /\ ttsArrived' = FALSE
endCall == ttsRead' = NotReading /\ ttsArrived' = FALSE /\ ttsCall' = NoCall

keepDaemon == UNCHANGED <<ttsDaemon, ttsWork>>
\* The handle is dropped at once; the process follows within five seconds.
killDaemon == ttsDaemon' = FALSE /\ ttsWork' = [at |-> "gone"]

Initialize ==
    /\ ttsCall = NoCall /\ ~ttsReady /\ ~ttsDestroying
    /\ ttsDaemon' = TRUE /\ ttsWork' = [at |-> "loading"]
    /\ ttsStdin' = <<>> /\ ttsStdout' = <<>>
    /\ ttsCall' = [pc |-> "initialize", of |-> Startup] /\ startRead
    /\ UNCHANGED <<ttsUnbuffered, ttsReady, ttsDestroying, ttsCalls, ttsMissed, ttsForeign, ttsAbandoned>>

Synthesize ==
    /\ ttsCall = NoCall /\ ttsReady /\ ttsDaemon /\ ~ttsDestroying
    /\ ttsCalls < MaxCalls /\ ttsCalls' = ttsCalls + 1
    /\ ttsStdin' = Append(ttsStdin, ttsCalls')
    /\ ttsCall' = [pc |-> "synthesize", of |-> ttsCalls'] /\ startRead
    /\ UNCHANGED <<ttsUnbuffered, ttsDaemon, ttsReady, ttsDestroying, ttsWork, ttsStdout,
                   ttsMissed, ttsForeign, ttsAbandoned>>

\* The read resolves with a frame and the call goes on.
resolve(of, kind) ==
    /\ ttsForeign' = (ttsForeign \/ of # ttsCall.of)
    /\ IF ttsCall.pc = "initialize"
       THEN /\ endCall
            /\ IF kind = "ready" THEN ttsReady' = TRUE /\ keepDaemon ELSE UNCHANGED ttsReady /\ killDaemon
       ELSE /\ UNCHANGED ttsReady /\ keepDaemon
            /\ IF kind = "audio"
               THEN ttsRead' = NotReading /\ ttsArrived' = FALSE /\ ttsCall' = [ttsCall EXCEPT !.pc = "yield"]
               ELSE endCall

waits == UNCHANGED <<ttsReady, ttsCall, ttsForeign>> /\ keepDaemon

holdsFrame(chunk) ==                       \* begins with a length and holds its payload
    chunk[1].part = 0 /\ Len(chunk) > parts(chunk[1].kind)

\* onData.  A chunk in which a length is found resolves nothing, even if it holds
\* the payload; what follows a payload in its chunk, and what arrives while nobody
\* reads, is dropped.
onData(chunk) ==
    CASE ttsRead.at = "none"    -> waits /\ UNCHANGED <<ttsRead, ttsArrived>>
      [] ttsRead.at = "misread" -> waits /\ UNCHANGED <<ttsRead, ttsArrived>>
      [] ttsRead.at = "length"  ->
            /\ waits
            /\ ttsArrived' = (ttsArrived \/ holdsFrame(chunk))
            /\ LET first == chunk[1]
                   room == parts(first.kind)
               IN ttsRead' = IF first.part # 0 THEN Misread
                             ELSE [at |-> "payload", of |-> first.of, kind |-> first.kind,
                                   got |-> IF Len(chunk) - 1 < room THEN Len(chunk) - 1 ELSE room]
      [] ttsRead.at = "payload" ->
            IF ttsRead.got + Len(chunk) >= parts(ttsRead.kind)
            THEN resolve(ttsRead.of, ttsRead.kind)
            ELSE waits /\ ttsRead' = [ttsRead EXCEPT !.got = @ + Len(chunk)] /\ UNCHANGED ttsArrived

ReadDaemonResponse(n) ==
    /\ n <= Len(ttsStdout)
    /\ n < Len(ttsStdout) => ~ttsStdout[n + 1].joined
    /\ onData(SubSeq(ttsStdout, 1, n))
    /\ ttsStdout' = SubSeq(ttsStdout, n + 1, Len(ttsStdout))
    /\ UNCHANGED <<ttsUnbuffered, ttsDestroying, ttsStdin, ttsCalls, ttsMissed, ttsAbandoned>>

ReadTimesOutLeaving ==                     \* the late answer is still to come
    /\ ttsRead # NotReading
    /\ ttsMissed' = (ttsMissed \/ ttsArrived)
    /\ endCall /\ keepDaemon
    /\ UNCHANGED <<ttsUnbuffered, ttsReady, ttsDestroying, ttsStdin, ttsStdout, ttsCalls,
                   ttsForeign, ttsAbandoned>>
\* The read's timer; a request's own timer is never later than its last read's,
\* so that the daemon is killed in either case.
ReadTimesOut ==
    /\ ttsRead # NotReading
    /\ ttsMissed' = (ttsMissed \/ ttsArrived)
    /\ endCall /\ killDaemon
    /\ UNCHANGED <<ttsUnbuffered, ttsReady, ttsDestroying, ttsStdin, ttsStdout, ttsCalls,
                   ttsForeign, ttsAbandoned>>

\* The audio was published: the next read, the request's timer, or a consumer
\* whose transport has gone.
Published ==
    /\ ttsCall.pc = "yield"
    /\ \/ ttsDaemon /\ startRead /\ ttsCall' = [ttsCall EXCEPT !.pc = "synthesize"]
          /\ keepDaemon /\ UNCHANGED ttsAbandoned
       \/ endCall /\ killDaemon /\ UNCHANGED ttsAbandoned
       \/ endCall /\ keepDaemon /\ ttsAbandoned' = TRUE
    /\ UNCHANGED <<ttsUnbuffered, ttsReady, ttsDestroying, ttsStdin, ttsStdout, ttsCalls,
                   ttsMissed, ttsForeign>>

Destroy ==
    /\ ~ttsDestroying /\ ttsDestroying' = TRUE
    /\ ttsReady' = FALSE /\ killDaemon
    /\ UNCHANGED <<ttsUnbuffered, ttsStdin, ttsStdout, ttsRead, ttsCall, ttsCalls, ttsArrived,
                   ttsMissed, ttsForeign, ttsAbandoned>>

SpeechNext ==
    \/ DaemonStarts \/ DaemonTakesRequest \/ DaemonAnswers \/ DaemonDies
    \/ Initialize \/ Synthesize \/ Published \/ ReadTimesOut \/ Destroy
    \/ \E n \in 1..Len(ttsStdout) : ReadDaemonResponse(n)

SpeechSpec == SpeechInit /\ [][SpeechNext]_ttsVars

-----------------------------------------------------------------------------
SpeechTypeOK ==
    /\ ttsUnbuffered \in BOOLEAN /\ ttsDaemon \in BOOLEAN
    /\ ttsReady \in BOOLEAN /\ ttsDestroying \in BOOLEAN
    /\ ttsArrived \in BOOLEAN /\ ttsMissed \in BOOLEAN
    /\ ttsForeign \in BOOLEAN /\ ttsAbandoned \in BOOLEAN
    /\ ttsWork \in DaemonWork
    /\ ttsStdin \in Seq(1..MaxCalls) /\ ttsStdout \in Seq(FrameParts)
    /\ ttsRead \in Reads /\ ttsCall \in SpeechCalls /\ ttsCalls \in 0..MaxCalls

\* A text is spoken with its own audio.  A call that timed out, failed or lost part
\* of its answer between two reads leaves nothing a later call could take for its
\* own; only a call given up half way does, because the daemon goes on answering it.
SpeechIsOwn == ttsForeign => ttsAbandoned

\* "Reads exactly 4 bytes for length, then reads that many bytes for payload", says
\* readDaemonResponse.  A frame that arrives in one piece is not read: the chunk
\* with the length resolves nothing, and the wait for another one times out.
FramesAreRead == ~ttsMissed
=============================================================================
