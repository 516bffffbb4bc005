------------------------- MODULE VoiceSession_proofs -------------------------
(***************************************************************************)
(* Theorems about VoiceSession, for any number of utterances.              *)
(***************************************************************************)
EXTENDS VoiceSession, TLAPS

-----------------------------------------------------------------------------
\* A segment between its turn and its end.
Active(s) == stage[s] \in {"stt", "brain", "speak"}
Over(s)   == stage[s] \in {"done", "dropped"}

\* stop() is called once before start() and once after it.
StopsInv ==
    /\ ~stopping => stops <= 1
    /\ state = "idle" => stops <= 1 /\ (~stopping => stops = 0)

\* The session is idle until start() is called, and never again.
IdleInv == /\ state \in {"idle", "listening", "speaking", "connecting", "error", "ended"}
           /\ state = "idle" <=> starting = "none"

\* The audio queue holds the queued segments in the order they were heard.
QueueInv ==
    /\ \A i \in 1 .. Len(queue) : stage[queue[i]] = "queued"
    /\ \A s \in Segments : stage[s] = "queued" => \E i \in 1 .. Len(queue) : queue[i] = s
    /\ \A i, j \in 1 .. Len(queue) : i < j => queue[i] < queue[j]

\* It is empty while it is not processing, once the session was stopped and
\* when a provider feeds the brain.
EmptyInv == realtime \/ ~processing \/ state = "ended" => queue = <<>>

\* With separate speech-to-text nothing is heard before start() has returned.
HeardInv ==
    /\ starting # "returned" => state \notin {"listening", "speaking"}
    /\ starting = "returned" => state # "connecting"
    /\ \A s \in Segments : stage[s] # "new" => starting = "returned"

\* One segment has its turn, and only while the queue is processing or the
\* session is over.
TurnInv ==
    /\ \A s \in Segments : Active(s) => processing \/ state = "ended"
    /\ \A s, t \in Segments : Active(s) /\ Active(t) => s = t
    /\ \A s, t \in Segments : s < t /\ stage[t] # "new" => stage[s] # "new"

OrderInv == \A s, t \in Segments : s < t /\ (Active(t) \/ stage[t] = "done") => Over(s)

FloorInv == /\ state = "speaking" => \E s \in Segments : stage[s] = "speak"
            /\ \A s \in Segments : stage[s] = "speak" => state \in {"speaking", "error", "ended"}

SttInv == HeardInv /\ TurnInv /\ OrderInv /\ FloorInv

IInv == /\ TypeOK /\ StopsInv /\ IdleInv /\ QueueInv /\ EmptyInv
        /\ ~realtime => SttInv

-----------------------------------------------------------------------------
\* What processNext leaves of the queue.
LEMMA QueueTypes ==
    ASSUME NEW q \in Seq(Segments), NEW st \in [Segments -> Stages], ProcessNext(q, st)
    PROVE  queue' \in Seq(Segments) /\ processing' \in BOOLEAN /\ stage' \in [Segments -> Stages]
<1>1. CASE q = <<>>
  BY <1>1 DEF ProcessNext
<1>2. CASE q # <<>>
  <2>1. Head(q) \in Segments /\ Tail(q) \in Seq(Segments)  BY <1>2
  <2> QED BY <1>2, <2>1 DEF ProcessNext, Stages
<1> QED BY <1>1, <1>2

\* What a transition and a disconnection leave of the state.
LEMMA StateTypes ==
    ASSUME TypeOK
    PROVE  /\ \A to \in SessionState : After(to) \in SessionState
           /\ Disconnect => state' \in SessionState /\ connected' = FALSE
<1>1. \A to \in SessionState : After(to) \in SessionState
  BY DEF TypeOK, After, SessionState, SessionTransitions
<1>2. ASSUME Disconnect PROVE state' \in {state, After("error")} /\ connected' = FALSE
  BY <1>2 DEF Disconnect
<1> QED BY <1>1, <1>2 DEF TypeOK, SessionState

\* A step keeps the types: every blocked transition leaves a state of the table.
LEMMA TypeStep ==
    ASSUME TypeOK, StopsInv, [Next]_vars
    PROVE  TypeOK'
<1> USE SegmentsAssumption DEF TypeOK, StopsInv, SessionState, SessionTransitions, After, SetState,
       Resolve, Fail, StartPcs
<1>1. CASE Start
  BY <1>1 DEF Start, audioVars, lifeVars
<1>2. CASE StartContinues
  BY <1>2 DEF StartContinues, audioVars, lifeVars
<1>3. CASE StartFails
  BY <1>3 DEF StartFails, audioVars, lifeVars
<1>4. CASE StartThrows
  <2>1. state' \in SessionState /\ connected' \in BOOLEAN  BY <1>4, StateTypes DEF StartThrows
  <2> QED BY <2>1, <1>4 DEF StartThrows, audioVars
<1>5. CASE Stop
  <2>1. stage' \in [Segments -> Stages]  BY <1>5 DEF Stop, Stages
  <2>2. stops' \in 0 .. 2 /\ queue' \in Seq(Segments)  BY <1>5 DEF Stop
  <2>3. state' \in SessionState  BY <1>5 DEF Stop
  <2> QED BY <1>5, <2>1, <2>2, <2>3 DEF Stop
<1>6. CASE StopReturns
  <2>1. state' \in SessionState /\ connected' \in BOOLEAN  BY <1>6, StateTypes DEF StopReturns
  <2> QED BY <2>1, <1>6 DEF StopReturns, audioVars
<1>7. CASE Disconnected
  <2>1. state' \in SessionState /\ connected' \in BOOLEAN  BY <1>7, StateTypes DEF Disconnected
  <2> QED BY <2>1, <1>7 DEF Disconnected, audioVars
<1>8. CASE TransportError
  BY <1>8 DEF TransportError, audioVars, lifeVars
<1>9. CASE RealtimeError
  BY <1>9 DEF RealtimeError, audioVars, lifeVars
<1>10. CASE \E s \in Segments : Hear(s)
  <2> PICK s \in Segments : Hear(s)  BY <1>10
  <2>1. queue' \in Seq(Segments) /\ processing' \in BOOLEAN /\ stage' \in [Segments -> Stages]
    <3>1. Append(queue, s) \in Seq(Segments) /\ [stage EXCEPT ![s] = "queued"] \in [Segments -> Stages]
      BY DEF Stages
    <3>2. CASE processing  BY <3>1, <3>2 DEF Hear
    <3>3. CASE ~processing  BY <3>1, <3>3, QueueTypes DEF Hear
    <3> QED BY <3>2, <3>3
  <2> QED BY <2>1 DEF Hear, lifeVars
<1>11. CASE \E s \in Segments : HearRealtime(s)
  BY <1>11 DEF HearRealtime, Stages, lifeVars
<1>12. CASE \E s \in Segments : Transcribed(s)
  <2> PICK s \in Segments : Transcribed(s)  BY <1>12
  <2>1. state' \in SessionState /\ outcome' \in {"pending", "failed", "ended"}
    BY DEF Transcribed, audioVars, lifeVars
  <2>2. queue' \in Seq(Segments) /\ processing' \in BOOLEAN /\ stage' \in [Segments -> Stages]
    BY QueueTypes DEF Transcribed, Finish, Stages
  <2> QED BY <2>1, <2>2 DEF Transcribed, lifeVars
<1>13. CASE \E s \in Segments : Responded(s)
  <2> PICK s \in Segments : Responded(s)  BY <1>13
  <2>1. state' \in SessionState /\ outcome' \in {"pending", "failed", "ended"}
    BY DEF Responded, audioVars, lifeVars
  <2>2. queue' \in Seq(Segments) /\ processing' \in BOOLEAN /\ stage' \in [Segments -> Stages]
    BY QueueTypes DEF Responded, Finish, Stages
  <2> QED BY <2>1, <2>2 DEF Responded, lifeVars
<1>14. CASE \E s \in Segments : Spoken(s)
  <2> PICK s \in Segments : Spoken(s)  BY <1>14
  <2>1. state' \in SessionState /\ outcome' \in {"pending", "failed", "ended"}
    BY DEF Spoken, audioVars, lifeVars
  <2>2. queue' \in Seq(Segments) /\ processing' \in BOOLEAN /\ stage' \in [Segments -> Stages]
    BY QueueTypes DEF Spoken, Finish, Stages
  <2> QED BY <2>1, <2>2 DEF Spoken, lifeVars
<1>15. CASE UNCHANGED vars
  BY <1>15 DEF vars, lifeVars, audioVars, audioVars, lifeVars
<1> QED BY <1>1, <1>2, <1>3, <1>4, <1>5, <1>6, <1>7, <1>8,
           <1>9, <1>10, <1>11, <1>12, <1>13, <1>14, <1>15
        DEF Next

\* A step keeps the count of the running cleanups.
LEMMA StopsStep ==
    ASSUME TypeOK, StopsInv, IdleInv, [Next]_vars
    PROVE  StopsInv'
<1> USE DEF TypeOK, StopsInv, IdleInv, SessionState, SessionTransitions, After, SetState,
       Fail, Disconnect
<1>1. CASE Start
  BY <1>1 DEF Start, lifeVars
<1>2. CASE StartContinues
  BY <1>2 DEF StartContinues, lifeVars
<1>3. CASE StartFails
  BY <1>3 DEF StartFails, lifeVars
<1>4. CASE StartThrows
  BY <1>4 DEF StartThrows, lifeVars
<1>5. CASE Stop
  BY <1>5 DEF Stop, lifeVars
<1>6. CASE StopReturns
  BY <1>6 DEF StopReturns, lifeVars
<1>7. CASE Disconnected
  BY <1>7 DEF Disconnected, lifeVars
<1>8. CASE TransportError
  BY <1>8 DEF TransportError, lifeVars
<1>9. CASE RealtimeError
  BY <1>9 DEF RealtimeError, lifeVars
<1>10. CASE \E s \in Segments : Hear(s)
  BY <1>10 DEF Hear, lifeVars
<1>11. CASE \E s \in Segments : HearRealtime(s)
  BY <1>11 DEF HearRealtime, lifeVars
<1>12. CASE \E s \in Segments : Transcribed(s)
  BY <1>12 DEF Transcribed, lifeVars
<1>13. CASE \E s \in Segments : Responded(s)
  BY <1>13 DEF Responded, lifeVars
<1>14. CASE \E s \in Segments : Spoken(s)
  BY <1>14 DEF Spoken, lifeVars
<1>15. CASE UNCHANGED vars
  BY <1>15 DEF vars, lifeVars, audioVars, lifeVars
<1> QED BY <1>1, <1>2, <1>3, <1>4, <1>5, <1>6, <1>7, <1>8,
           <1>9, <1>10, <1>11, <1>12, <1>13, <1>14, <1>15
        DEF Next

\* A step leaves the idle state only by start().
LEMMA IdleStep ==
    ASSUME TypeOK, StopsInv, IdleInv, [Next]_vars
    PROVE  IdleInv'
<1> USE DEF TypeOK, IdleInv, SessionState, SessionTransitions, After, SetState,
       Fail, Disconnect, Wired, Live, ProviderWired, StartPcs
<1>1. CASE Start
  BY <1>1 DEF Start, lifeVars
<1>2. CASE StartContinues
  BY <1>2 DEF StartContinues, lifeVars
<1>3. CASE StartFails
  BY <1>3 DEF StartFails, lifeVars
<1>4. CASE StartThrows
  BY <1>4 DEF StartThrows, lifeVars
<1>5. CASE Stop
  BY <1>5 DEF Stop, lifeVars
<1>6. CASE StopReturns
  BY <1>6 DEF StopReturns, lifeVars
<1>7. CASE Disconnected
  BY <1>7 DEF Disconnected, lifeVars
<1>8. CASE TransportError
  BY <1>8 DEF TransportError, lifeVars
<1>9. CASE RealtimeError
  BY <1>9 DEF RealtimeError, lifeVars
<1>10. CASE \E s \in Segments : Hear(s)
  BY <1>10 DEF Hear, lifeVars
<1>11. CASE \E s \in Segments : HearRealtime(s)
  BY <1>11 DEF HearRealtime, lifeVars
<1>12. CASE \E s \in Segments : Transcribed(s)
  BY <1>12 DEF Transcribed, lifeVars
<1>13. CASE \E s \in Segments : Responded(s)
  BY <1>13 DEF Responded, lifeVars
<1>14. CASE \E s \in Segments : Spoken(s)
  BY <1>14 DEF Spoken, lifeVars
<1>15. CASE UNCHANGED vars
  BY <1>15 DEF vars, lifeVars, audioVars, lifeVars
<1> QED BY <1>1, <1>2, <1>3, <1>4, <1>5, <1>6, <1>7, <1>8,
           <1>9, <1>10, <1>11, <1>12, <1>13, <1>14, <1>15
        DEF Next

-----------------------------------------------------------------------------
\* The steps that move segments: stop(), an utterance, and the segment whose
\* turn it is, which goes on or finishes.
Turn(s) == Transcribed(s) \/ Responded(s) \/ Spoken(s)
GoesOn(s) == /\ UNCHANGED <<queue, processing>>
             /\ \E to \in {"brain", "speak"} : stage' = [stage EXCEPT ![s] = to]

\* What moves utterances: stop(), something heard, a turn of the queue.
LEMMA AudioSteps ==
    ASSUME [Next]_vars
    PROVE  \/ UNCHANGED audioVars
           \/ Stop
           \/ \E s \in Segments : Hear(s) \/ HearRealtime(s) \/ Turn(s)
BY DEF Next, vars, audioVars, Turn, Start, StartContinues, StartFails, StartThrows,
       StopReturns, Disconnected, TransportError, RealtimeError

\* A turn carries its utterance on or finishes it.
LEMMA Turns ==
    ASSUME NEW s \in Segments, Turn(s)
    PROVE  Active(s) /\ UNCHANGED realtime /\ (GoesOn(s) \/ Finish(s))
BY DEF Turn, Transcribed, Responded, Spoken, Active, GoesOn, lifeVars

\* No step but stop() ends the session, and none revives it.
LEMMA EndIsFinal ==
    ASSUME TypeOK, IdleInv, [Next]_vars
    PROVE  /\ state = "ended" => state' = "ended"
           /\ state' = "ended" => state = "ended" \/ Stop
           /\ realtime' = realtime
<1> USE DEF TypeOK, IdleInv, SessionTransitions, SessionState, SetState, After, Fail, Disconnect, Live
<1>1. CASE Start
  BY <1>1 DEF Start
<1>2. CASE StartContinues
  BY <1>2 DEF StartContinues
<1>3. CASE StartFails
  BY <1>3 DEF StartFails
<1>4. CASE StartThrows
  BY <1>4 DEF StartThrows
<1>5. CASE Stop
  BY <1>5 DEF Stop
<1>6. CASE StopReturns
  BY <1>6 DEF StopReturns
<1>7. CASE Disconnected
  BY <1>7 DEF Disconnected
<1>8. CASE TransportError
  BY <1>8 DEF TransportError
<1>9. CASE RealtimeError
  BY <1>9 DEF RealtimeError
<1>10. CASE \E s \in Segments : Hear(s)
  BY <1>10 DEF Hear
<1>11. CASE \E s \in Segments : HearRealtime(s)
  BY <1>11 DEF HearRealtime
<1>12. CASE \E s \in Segments : Transcribed(s)
  BY <1>12 DEF Transcribed
<1>13. CASE \E s \in Segments : Responded(s)
  BY <1>13 DEF Responded
<1>14. CASE \E s \in Segments : Spoken(s)
  BY <1>14 DEF Spoken
<1>15. CASE UNCHANGED vars
  BY <1>15 DEF vars, lifeVars, audioVars
<1> QED BY <1>1, <1>2, <1>3, <1>4, <1>5, <1>6, <1>7, <1>8,
           <1>9, <1>10, <1>11, <1>12, <1>13, <1>14, <1>15
        DEF Next

\* A turn does not end the session.
LEMMA TurnEndsNothing ==
    ASSUME TypeOK, NEW s \in Segments, Turn(s)
    PROVE  state' = "ended" => state = "ended"
BY DEF Turn, Transcribed, Responded, Spoken, TypeOK, SessionTransitions, SessionState,
       SetState, After, Fail

\* What the end of a segment does to the queue: the next one has its turn.
LEMMA FinishEffect ==
    ASSUME TypeOK, QueueInv, EmptyInv, NEW s \in Segments, Active(s), Finish(s)
    PROVE  \/ /\ queue = <<>> /\ queue' = <<>> /\ (~realtime => ~processing')
              /\ stage' = [stage EXCEPT ![s] = "done"]
           \/ /\ queue # <<>> /\ ~realtime /\ processing'
              /\ Head(queue) \in Segments \ {s} /\ stage[Head(queue)] = "queued"
              /\ queue' = Tail(queue)
              /\ stage' = [stage EXCEPT ![s] = "done", ![Head(queue)] = "stt"]
<1>1. CASE realtime
  BY <1>1 DEF Finish, EmptyInv
<1>2. CASE ~realtime /\ queue = <<>>
  BY <1>2 DEF Finish, ProcessNext
<1>3. CASE ~realtime /\ queue # <<>>
  <2>1. Head(queue) = queue[1] /\ 1 \in 1 .. Len(queue) /\ Head(queue) \in Segments
    BY <1>3 DEF TypeOK
  <2>2. stage[Head(queue)] = "queued"  BY <2>1 DEF QueueInv
  <2>3. Head(queue) # s  BY <2>2 DEF Active
  <2> QED BY <1>3, <2>1, <2>2, <2>3 DEF Finish, ProcessNext
<1> QED BY <1>1, <1>2, <1>3

\* An utterance waits its turn, or has it at once.
LEMMA HearEffect ==
    ASSUME TypeOK, EmptyInv, NEW s \in Segments, Hear(s)
    PROVE  /\ ~realtime /\ stage[s] = "new" /\ state \in {"listening", "speaking"}
           /\ \A t \in Segments : t < s => stage[t] # "new"
           /\ \/ /\ processing /\ processing' /\ queue' = Append(queue, s)
                 /\ stage' = [stage EXCEPT ![s] = "queued"]
              \/ /\ ~processing /\ processing' /\ queue = <<>> /\ queue' = <<>>
                 /\ stage' = [stage EXCEPT ![s] = "stt"]
<1>1. /\ ~realtime /\ stage[s] = "new" /\ state \in {"listening", "speaking"}
      /\ \A t \in Segments : t < s => stage[t] # "new"
  BY DEF Hear, Upcoming
<1>2. CASE processing
  BY <1>1, <1>2 DEF Hear
<1>3. CASE ~processing
  <2>1. queue = <<>>  BY <1>3 DEF EmptyInv
  <2>2. Append(queue, s) = <<s>>  BY <2>1
  <2>3. Head(<<s>>) = s /\ Tail(<<s>>) = <<>> /\ <<s>> # <<>>  OBVIOUS
  <2>4. /\ processing' = TRUE /\ queue' = <<>>
        /\ stage' = [[stage EXCEPT ![s] = "queued"] EXCEPT ![s] = "stt"]
    BY <1>3, <2>2, <2>3 DEF Hear, ProcessNext
  <2>5. stage' = [stage EXCEPT ![s] = "stt"]  BY <2>4 DEF TypeOK
  <2> QED BY <1>1, <1>3, <2>1, <2>4, <2>5
<1> QED BY <1>2, <1>3

\* A step keeps the queue empty when it has to be.
LEMMA EmptyStep ==
    ASSUME TypeOK, IdleInv, QueueInv, EmptyInv, [Next]_vars
    PROVE  EmptyInv'
<1>1. CASE UNCHANGED audioVars /\ ~Stop
  BY <1>1, EndIsFinal DEF EmptyInv, audioVars
<1>2. CASE Stop
  BY <1>2 DEF Stop, EmptyInv
<1>3. CASE \E s \in Segments : Hear(s)
  BY <1>3, HearEffect DEF Hear, EmptyInv
<1>4. CASE \E s \in Segments : HearRealtime(s)
  BY <1>4 DEF HearRealtime, EmptyInv
<1>5. CASE \E s \in Segments : Turn(s)
  <2> PICK s \in Segments : Turn(s)  BY <1>5
  <2>1. state' = "ended" => state = "ended"
    BY TurnEndsNothing
  <2>2. CASE GoesOn(s)  BY <2>1, <2>2, EndIsFinal DEF GoesOn, EmptyInv
  <2>3. CASE Finish(s)
    <3>1. CASE queue = <<>>  BY <2>3, <3>1, Turns, FinishEffect DEF EmptyInv
    <3>2. CASE queue # <<>>
      BY <2>1, <2>3, <3>2, Turns, FinishEffect DEF EmptyInv
    <3> QED BY <3>1, <3>2
  <2> QED BY <2>2, <2>3, Turns
<1> QED BY <1>1, <1>2, <1>3, <1>4, <1>5, AudioSteps

\* A step keeps the queue in the order of the utterances.
LEMMA QueueStep ==
    ASSUME TypeOK, QueueInv, EmptyInv, ~realtime => SttInv, [Next]_vars
    PROVE  QueueInv'
<1>1. CASE UNCHANGED audioVars
  BY <1>1 DEF QueueInv, audioVars
<1>2. CASE Stop
  <2>1. queue' = <<>> /\ \A s \in Segments : stage'[s] # "queued"
    BY <1>2 DEF Stop, TypeOK
  <2> QED BY <2>1 DEF QueueInv
<1>3. CASE \E s \in Segments : Hear(s)
  <2> PICK s \in Segments : Hear(s)  BY <1>3
  <2>1. CASE processing
    <3>1. /\ queue' = Append(queue, s) /\ stage' = [stage EXCEPT ![s] = "queued"]
          /\ stage[s] = "new" /\ ~realtime
      BY <2>1, HearEffect
    <3>2. /\ Len(queue) \in Nat /\ Len(queue') = Len(queue) + 1 /\ queue'[Len(queue) + 1] = s
          /\ \A i \in 1 .. Len(queue) : queue'[i] = queue[i] /\ queue[i] \in Segments
      BY <3>1 DEF TypeOK
    <3>3. \A i \in 1 .. Len(queue) : stage[queue[i]] = "queued" /\ queue[i] # s
      BY <3>1, <3>2 DEF QueueInv
    <3>4. \A i \in 1 .. Len(queue) : queue[i] < s
      <4> TAKE i \in 1 .. Len(queue)
      <4>1. ~(s < queue[i])  BY <3>1, <3>2, <3>3 DEF SttInv, TurnInv
      <4> QED BY <3>2, <3>3, <4>1, SegmentsAssumption DEF Segments
    <3>5. \A i \in 1 .. Len(queue') : stage'[queue'[i]] = "queued"
      BY <3>1, <3>2, <3>3 DEF TypeOK
    <3>6. \A t \in Segments : stage'[t] = "queued" => \E i \in 1 .. Len(queue') : queue'[i] = t
      <4> SUFFICES ASSUME NEW t \in Segments, stage'[t] = "queued"
                   PROVE  \E i \in 1 .. Len(queue') : queue'[i] = t
        OBVIOUS
      <4>1. CASE t = s  BY <3>2, <4>1
      <4>2. CASE t # s
        <5>1. PICK i \in 1 .. Len(queue) : queue[i] = t
          BY <3>1, <4>2 DEF QueueInv, TypeOK
        <5> QED BY <3>2, <5>1
      <4> QED BY <4>1, <4>2
    <3>7. \A i, j \in 1 .. Len(queue') : i < j => queue'[i] < queue'[j]
      <4> SUFFICES ASSUME NEW i \in 1 .. Len(queue'), NEW j \in 1 .. Len(queue'), i < j
                   PROVE  queue'[i] < queue'[j]
        OBVIOUS
      <4>1. CASE j = Len(queue) + 1  BY <3>2, <3>4, <4>1
      <4>2. CASE j \in 1 .. Len(queue)  BY <3>2, <4>2 DEF QueueInv
      <4> QED BY <3>2, <4>1, <4>2
    <3> QED BY <3>5, <3>6, <3>7 DEF QueueInv
  <2>2. CASE ~processing
    BY <2>2, HearEffect DEF QueueInv, TypeOK
  <2> QED BY <2>1, <2>2
<1>4. CASE \E s \in Segments : HearRealtime(s)
  <2> PICK s \in Segments : HearRealtime(s)  BY <1>4
  <2>1. queue = <<>> /\ queue' = <<>>  BY DEF HearRealtime, EmptyInv
  <2>2. \A t \in Segments : stage'[t] = "queued" => stage[t] = "queued"
    BY DEF HearRealtime, TypeOK
  <2> QED BY <2>1, <2>2 DEF QueueInv
<1>5. CASE \E s \in Segments : Turn(s)
  <2> PICK s \in Segments : Turn(s)  BY <1>5
  <2>1. CASE GoesOn(s)
    <3>1. \A t \in Segments : stage'[t] = "queued" <=> stage[t] = "queued"
      BY <2>1, Turns DEF GoesOn, Active, TypeOK
    <3>2. queue' = queue /\ \A i \in 1 .. Len(queue) : queue[i] \in Segments
      BY <2>1 DEF GoesOn, TypeOK
    <3> QED BY <3>1, <3>2 DEF QueueInv
  <2>2. CASE Finish(s) /\ queue = <<>>
    <3>1. queue' = <<>> /\ stage' = [stage EXCEPT ![s] = "done"]
      BY <2>2, Turns, FinishEffect
    <3>2. \A t \in Segments : stage'[t] = "queued" => stage[t] = "queued"
      BY <3>1 DEF TypeOK
    <3> QED BY <2>2, <3>1, <3>2 DEF QueueInv
  <2>3. CASE Finish(s) /\ queue # <<>>
    <3>1. /\ queue' = Tail(queue) /\ Head(queue) \in Segments
          /\ stage' = [stage EXCEPT ![s] = "done", ![Head(queue)] = "stt"]
      BY <2>3, Turns, FinishEffect
    <3>2. /\ Len(queue) \in Nat \ {0} /\ Len(queue') = Len(queue) - 1 /\ Head(queue) = queue[1]
          /\ \A i \in 1 .. Len(queue') : queue'[i] = queue[i + 1]
          /\ \A i \in 1 .. Len(queue) : queue[i] \in Segments
      BY <2>3, <3>1 DEF TypeOK
    <3>3. \A t \in Segments : stage'[t] = "queued" <=> stage[t] = "queued" /\ t # Head(queue)
      BY <3>1, Turns DEF Active, TypeOK
    <3>4. \A i \in 2 .. Len(queue) : queue[1] < queue[i]
      BY <3>2 DEF QueueInv
    <3>5. \A i \in 1 .. Len(queue') : stage'[queue'[i]] = "queued"
      <4> TAKE i \in 1 .. Len(queue')
      <4>1. i + 1 \in 2 .. Len(queue) /\ queue'[i] = queue[i + 1] /\ queue[i + 1] \in Segments
        BY <3>2
      <4>2. queue[i + 1] # Head(queue)
        BY <3>2, <3>4, <4>1, SegmentsAssumption DEF Segments
      <4>3. stage[queue[i + 1]] = "queued"  BY <4>1 DEF QueueInv
      <4> QED BY <3>3, <4>1, <4>2, <4>3
    <3>6. \A t \in Segments : stage'[t] = "queued" => \E i \in 1 .. Len(queue') : queue'[i] = t
      <4> SUFFICES ASSUME NEW t \in Segments, stage'[t] = "queued"
                   PROVE  \E i \in 1 .. Len(queue') : queue'[i] = t
        OBVIOUS
      <4>1. PICK k \in 1 .. Len(queue) : queue[k] = t  BY <3>3 DEF QueueInv
      <4>2. k # 1 /\ k - 1 \in 1 .. Len(queue') /\ queue'[k - 1] = t  BY <3>2, <3>3, <4>1
      <4> QED BY <4>2
    <3>7. \A i, j \in 1 .. Len(queue') : i < j => queue'[i] < queue'[j]
      <4> SUFFICES ASSUME NEW i \in 1 .. Len(queue'), NEW j \in 1 .. Len(queue'), i < j
                   PROVE  queue'[i] < queue'[j]
        OBVIOUS
      <4>1. i + 1 \in 1 .. Len(queue) /\ j + 1 \in 1 .. Len(queue) /\ i + 1 < j + 1
        BY <3>2
      <4>2. queue[i + 1] < queue[j + 1]  BY <4>1 DEF QueueInv
      <4> QED BY <3>2, <4>2
    <3> QED BY <3>5, <3>6, <3>7 DEF QueueInv
  <2> QED BY <2>1, <2>2, <2>3, Turns
<1> QED BY <1>1, <1>2, <1>3, <1>4, <1>5, AudioSteps

\* A step keeps the segments behind start().
LEMMA HeardStep ==
    ASSUME TypeOK, IdleInv, ~realtime, SttInv, [Next]_vars
    PROVE  HeardInv'
<1> USE DEF TypeOK, IdleInv, SttInv, HeardInv, SessionState, SessionTransitions, After, SetState,
       Fail, Disconnect, Wired, Live, ProviderWired, StartPcs
<1>1. CASE Start
  BY <1>1 DEF Start, lifeVars, audioVars
<1>2. CASE StartContinues
  BY <1>2 DEF StartContinues, lifeVars, audioVars
<1>3. CASE StartFails
  BY <1>3 DEF StartFails, lifeVars, audioVars
<1>4. CASE StartThrows
  BY <1>4 DEF StartThrows, lifeVars, audioVars
<1>5. CASE Stop
  BY <1>5 DEF Stop, lifeVars, audioVars
<1>6. CASE StopReturns
  BY <1>6 DEF StopReturns, lifeVars, audioVars
<1>7. CASE Disconnected
  BY <1>7 DEF Disconnected, lifeVars, audioVars
<1>8. CASE TransportError
  BY <1>8 DEF TransportError, lifeVars, audioVars
<1>9. CASE RealtimeError
  BY <1>9 DEF RealtimeError, lifeVars, audioVars
<1>10. CASE \E s \in Segments : Hear(s)
  BY <1>10 DEF Hear, lifeVars, audioVars
<1>11. CASE \E s \in Segments : HearRealtime(s)
  BY <1>11 DEF HearRealtime, lifeVars, audioVars
<1>12. CASE \E s \in Segments : Transcribed(s)
  BY <1>12 DEF Transcribed, lifeVars, audioVars
<1>13. CASE \E s \in Segments : Responded(s)
  BY <1>13 DEF Responded, lifeVars, audioVars
<1>14. CASE \E s \in Segments : Spoken(s)
  BY <1>14 DEF Spoken, lifeVars, audioVars
<1>15. CASE UNCHANGED vars
  BY <1>15 DEF vars, lifeVars, audioVars, lifeVars, audioVars
<1> QED BY <1>1, <1>2, <1>3, <1>4, <1>5, <1>6, <1>7, <1>8,
           <1>9, <1>10, <1>11, <1>12, <1>13, <1>14, <1>15
        DEF Next

\* What happens to the other segments when one finishes.
LEMMA FinishOthers ==
    ASSUME TypeOK, QueueInv, EmptyInv, ~realtime, NEW s \in Segments, Active(s), Finish(s)
    PROVE  /\ stage'[s] = "done"
           /\ \A t \in Segments \ {s} :
                 \/ stage'[t] = stage[t]
                 \/ /\ stage[t] = "queued" /\ stage'[t] = "stt" /\ processing'
                    /\ queue # <<>> /\ t = Head(queue)
<1>1. CASE queue = <<>>
  BY <1>1, FinishEffect DEF TypeOK
<1>2. CASE queue # <<>>
  BY <1>2, FinishEffect DEF TypeOK
<1> QED BY <1>1, <1>2

\* A step keeps the segments in turn.
LEMMA TurnStep ==
    ASSUME TypeOK, IdleInv, QueueInv, EmptyInv, ~realtime, SttInv, [Next]_vars
    PROVE  TurnInv'
<1> USE DEF SttInv, TurnInv, Active
<1>1. CASE UNCHANGED audioVars
  BY <1>1, EndIsFinal DEF audioVars
<1>2. CASE Stop
  <2>1. \A s \in Segments : /\ Active(s)' <=> Active(s)
                            /\ stage'[s] = "new" <=> stage[s] = "new"
    BY <1>2 DEF Stop
  <2>2. \A s \in Segments : Active(s) => state \notin {"idle", "connecting"}
    BY DEF HeardInv, IdleInv
  <2>3. \A s \in Segments : Active(s) => state' = "ended"
    BY <1>2, <2>2 DEF Stop, SetState, After, SessionTransitions, IdleInv
  <2> QED BY <2>1, <2>3
<1>3. CASE \E s \in Segments : Hear(s)
  <2> PICK s \in Segments : Hear(s)  BY <1>3
  <2>1. /\ stage[s] = "new" /\ processing' /\ state \in {"listening", "speaking"}
        /\ \A t \in Segments : t < s => stage[t] # "new"
        /\ \A t \in Segments \ {s} : stage'[t] = stage[t]
        /\ \/ processing /\ stage'[s] = "queued"
           \/ ~processing /\ stage'[s] = "stt"
    BY HearEffect DEF TypeOK
  <2>2. ~processing => \A t \in Segments : ~Active(t)
    BY <2>1
  <2>3. \A t, u \in Segments : Active(t)' /\ Active(u)' => t = u
    BY <2>1, <2>2
  <2>4. \A t, u \in Segments : t < u /\ stage'[u] # "new" => stage'[t] # "new"
    BY <2>1
  <2> QED BY <2>1, <2>3, <2>4
<1>4. CASE \E s \in Segments : HearRealtime(s)
  BY <1>4 DEF HearRealtime
<1>5. CASE \E s \in Segments : Turn(s)
  <2> PICK s \in Segments : Turn(s)  BY <1>5
  <2>0. Active(s) /\ (state = "ended" => state' = "ended")
    BY Turns, EndIsFinal
  <2>1. CASE GoesOn(s)
    <3>1. \A t \in Segments : /\ Active(t)' <=> Active(t)
                              /\ stage'[t] = "new" <=> stage[t] = "new"
      BY <2>0, <2>1 DEF GoesOn, TypeOK
    <3> QED BY <2>0, <2>1, <3>1 DEF GoesOn
  <2>2. CASE Finish(s)
    <3>1. \A t \in Segments : Active(t)' => processing' /\ queue # <<>> /\ t = Head(queue)
      BY <2>0, <2>2, FinishOthers
    <3>2. \A t \in Segments : stage'[t] = "new" <=> stage[t] = "new"
      BY <2>0, <2>2, FinishOthers
    <3> QED BY <3>1, <3>2
  <2> QED BY <2>1, <2>2, Turns
<1> QED BY <1>1, <1>2, <1>3, <1>4, <1>5, AudioSteps

\* A step keeps the order: the segment whose turn comes finds the ones before it over.
LEMMA OrderStep ==
    ASSUME TypeOK, IdleInv, QueueInv, EmptyInv, ~realtime, SttInv, [Next]_vars
    PROVE  OrderInv'
<1> USE DEF SttInv, OrderInv, Over, Active
<1>1. CASE UNCHANGED audioVars
  BY <1>1 DEF audioVars
<1>2. CASE Stop
  BY <1>2 DEF Stop
<1>3. CASE \E s \in Segments : Hear(s)
  <2> PICK s \in Segments : Hear(s)  BY <1>3
  <2>1. /\ stage[s] = "new" /\ state \in {"listening", "speaking"}
        /\ \A t \in Segments : t < s => stage[t] # "new"
        /\ \A t \in Segments \ {s} : stage'[t] = stage[t]
        /\ \/ processing /\ stage'[s] = "queued"
           \/ ~processing /\ queue = <<>> /\ stage'[s] = "stt"
    BY HearEffect DEF TypeOK
  <2>2. ASSUME ~processing, NEW t \in Segments, t < s
        PROVE  Over(t)
    <3>1. stage[t] # "new" /\ ~Active(t)  BY <2>1, <2>2 DEF TurnInv
    <3>2. stage[t] # "queued"  BY <2>1, <2>2 DEF QueueInv
    <3> QED BY <3>1, <3>2 DEF TypeOK, Stages
  <2>3. \A t \in Segments : ~(s < s)  BY SegmentsAssumption DEF Segments
  <2>4. ASSUME NEW t \in Segments, NEW u \in Segments, t < u, Active(u)' \/ stage'[u] = "done"
        PROVE  Over(t)'
    <3>1. CASE u = s
      <4>1. ~processing /\ t # s  BY <2>1, <2>3, <2>4, <3>1
      <4>2. Over(t)  BY <2>2, <2>4, <3>1, <4>1
      <4> QED BY <2>1, <4>1, <4>2
    <3>2. CASE u # s
      <4>1. Over(t)  BY <2>1, <2>4, <3>2
      <4>2. t # s  BY <2>1, <4>1
      <4> QED BY <2>1, <4>1, <4>2
    <3> QED BY <3>1, <3>2
  <2> QED BY <2>4
<1>4. CASE \E s \in Segments : HearRealtime(s)
  BY <1>4 DEF HearRealtime
<1>5. CASE \E s \in Segments : Turn(s)
  <2> PICK s \in Segments : Turn(s)  BY <1>5
  <2>0. Active(s)  BY Turns
  <2>1. CASE GoesOn(s)
    <3>1. \A t \in Segments : /\ Active(t)' <=> Active(t)
                              /\ Over(t)' <=> Over(t)
                              /\ stage'[t] = "done" <=> stage[t] = "done"
      BY <2>0, <2>1 DEF GoesOn, TypeOK
    <3> HIDE DEF Over, Active
    <3> QED BY <3>1
  <2>2. CASE Finish(s)
    <3>1. ASSUME NEW t \in Segments, NEW u \in Segments, t < u, Active(u)' \/ stage'[u] = "done"
          PROVE  Over(t)'
      <4>1. Over(t) => Over(t)'
        BY <2>0, <2>2, FinishOthers
      <4>2. CASE u = s
        BY <2>0, <4>2, <3>1, <4>1
      <4>3. CASE u # s /\ stage'[u] = stage[u]
        BY <4>3, <3>1, <4>1
      <4>4. CASE u # s /\ stage'[u] # stage[u]
        <5>1. queue # <<>> /\ u = Head(queue) /\ stage[u] = "queued"
          BY <2>0, <2>2, <4>4, FinishOthers
        <5>2. Len(queue) \in Nat \ {0} /\ Head(queue) = queue[1]
              /\ \A i \in 1 .. Len(queue) : queue[i] \in Nat
          BY <5>1, SegmentsAssumption DEF TypeOK, Segments
        <5>3. stage[t] # "new"  BY <3>1, <5>1 DEF TurnInv
        <5>4. stage[t] # "queued"
          <6> SUFFICES ASSUME stage[t] = "queued" PROVE FALSE  OBVIOUS
          <6>1. PICK k \in 1 .. Len(queue) : queue[k] = t  BY DEF QueueInv
          <6>2. k # 1 => queue[1] < t  BY <5>2, <6>1 DEF QueueInv
          <6> QED BY <3>1, <5>1, <5>2, <6>1, <6>2
        <5>5. Active(t) => t = s  BY <2>0 DEF TurnInv
        <5>6. Active(t) => Over(t)'  BY <5>5, <2>0, <2>2, FinishOthers, <4>4, <5>1
        <5> QED BY <4>1, <5>3, <5>4, <5>6 DEF TypeOK, Stages
      <4> QED BY <4>2, <4>3, <4>4
    <3> QED BY <3>1
  <2> QED BY <2>1, <2>2, Turns
<1> QED BY <1>1, <1>2, <1>3, <1>4, <1>5, AudioSteps

\* A step keeps the floor: speaking is entered with an answer and left with it.
LEMMA FloorStep ==
    ASSUME TypeOK, IdleInv, QueueInv, EmptyInv, ~realtime, SttInv, [Next]_vars
    PROVE  FloorInv'
<1> USE DEF TypeOK, SttInv, FloorInv, SessionState, SessionTransitions, After, SetState,
       Fail, Disconnect, Live
<1>1. CASE Start
  <2>1. \A t \in Segments : stage[t] # "speak"  BY <1>1 DEF Start, HeardInv, IdleInv
  <2>2. state' # "speaking" /\ stage' = stage  BY <1>1 DEF Start, HeardInv, audioVars
  <2> QED BY <2>1, <2>2
<1>2. CASE StartContinues
  <2>1. \A t \in Segments : stage[t] # "speak"  BY <1>2 DEF StartContinues, HeardInv, IdleInv
  <2>2. state' # "speaking" /\ stage' = stage  BY <1>2 DEF StartContinues, HeardInv, audioVars
  <2> QED BY <2>1, <2>2
<1>3. CASE StartFails
  <2>1. \A t \in Segments : stage[t] # "speak"  BY <1>3 DEF StartFails, HeardInv, IdleInv
  <2>2. state' # "speaking" /\ stage' = stage  BY <1>3 DEF StartFails, HeardInv, audioVars
  <2> QED BY <2>1, <2>2
<1>4. CASE StartThrows
  BY <1>4 DEF StartThrows, audioVars
<1>5. CASE Stop
  BY <1>5 DEF Stop, audioVars
<1>6. CASE StopReturns
  BY <1>6 DEF StopReturns, audioVars
<1>7. CASE Disconnected
  BY <1>7 DEF Disconnected, audioVars
<1>8. CASE TransportError
  BY <1>8 DEF TransportError, audioVars
<1>9. CASE RealtimeError
  BY <1>9 DEF RealtimeError, audioVars
<1>10. CASE \E s \in Segments : Hear(s)
  <2>1. \A t \in Segments : stage'[t] = "speak" <=> stage[t] = "speak"
    BY <1>10, HearEffect
  <2> QED BY <1>10, <2>1 DEF Hear
<1>11. CASE \E s \in Segments : HearRealtime(s)
  BY <1>11 DEF HearRealtime, audioVars
<1>12. CASE \E s \in Segments : Transcribed(s)
  <2> PICK s \in Segments : Transcribed(s)  BY <1>12
  <2>1. \A t \in Segments : stage'[t] = "speak" <=> stage[t] = "speak"
    <3>1. Active(s) /\ (GoesOn(s) \/ Finish(s))  BY Turns DEF Turn
    <3>2. CASE Finish(s)  BY <3>1, <3>2, FinishOthers DEF Transcribed
    <3>3. CASE stage' = [stage EXCEPT ![s] = "brain"]  BY <3>3 DEF Transcribed
    <3> QED BY <3>2, <3>3 DEF Transcribed
  <2> QED BY <2>1 DEF Transcribed
<1>13. CASE \E s \in Segments : Responded(s)
  <2> PICK s \in Segments : Responded(s)  BY <1>13
  <2>1. Active(s) /\ stage[s] = "brain"  BY DEF Responded, Active
  <2>2. \A t \in Segments : stage[t] # "speak"  BY <2>1 DEF TurnInv, Active
  <2>3. state \in {"listening", "error", "ended"}  BY <2>1, <2>2 DEF IdleInv, HeardInv
  <2>4. CASE Finish(s)
    <3>1. \A t \in Segments : stage'[t] # "speak"  BY <2>1, <2>2, <2>4, FinishOthers
    <3>2. state' # "speaking" \/ SetState("speaking")  BY <2>3 DEF Responded
    <3>3. CASE state' # "speaking"  BY <3>1, <3>3
    <3>4. CASE SetState("speaking") /\ stage' = [stage EXCEPT ![s] = "speak"]
      BY <3>1, <3>4
    <3> QED BY <2>3, <3>1, <3>3, <3>4 DEF Responded
  <2>5. CASE Live /\ SetState("speaking") /\ stage' = [stage EXCEPT ![s] = "speak"]
    BY <2>2, <2>3, <2>5
  <2> QED BY <2>4, <2>5 DEF Responded
<1>14. CASE \E s \in Segments : Spoken(s)
  <2> PICK s \in Segments : Spoken(s)  BY <1>14
  <2>1. Active(s) /\ stage[s] = "speak" /\ Finish(s)  BY DEF Spoken, Active
  <2>2. \A t \in Segments \ {s} : stage[t] # "speak"  BY <2>1 DEF TurnInv, Active
  <2>3. \A t \in Segments : stage'[t] # "speak"  BY <2>1, <2>2, FinishOthers
  <2>4. state' # "speaking"  BY <2>1 DEF Spoken
  <2> QED BY <2>3, <2>4
<1>15. CASE UNCHANGED vars
  BY <1>15 DEF vars, lifeVars, audioVars, audioVars
<1> QED BY <1>1, <1>2, <1>3, <1>4, <1>5, <1>6, <1>7, <1>8,
           <1>9, <1>10, <1>11, <1>12, <1>13, <1>14, <1>15
        DEF Next

-----------------------------------------------------------------------------
\* Every reachable state satisfies the inductive invariant.
THEOREM Inductive == Spec => []IInv
<1>1. Init => IInv
  <2> SUFFICES ASSUME Init PROVE IInv  OBVIOUS
  <2>1. TypeOK
    <3>1. queue \in Seq(Segments)  BY DEF Init
    <3>2. stage \in [Segments -> Stages]  BY DEF Init, Stages
    <3>3. /\ realtime \in BOOLEAN /\ stopping \in BOOLEAN
          /\ connected \in BOOLEAN /\ processing \in BOOLEAN
      BY Zenon DEF Init
    <3>4. /\ state \in SessionState /\ starting \in StartPcs /\ stops \in 0 .. 2
          /\ outcome \in {"pending", "failed", "ended"}
      BY DEF Init, SessionState, StartPcs
    <3> QED BY Zenon, <3>1, <3>2, <3>3, <3>4 DEF TypeOK
  <2>2. StopsInv /\ IdleInv /\ EmptyInv
    BY DEF Init, StopsInv, IdleInv, EmptyInv
  <2>3. QueueInv
    BY DEF Init, QueueInv
  <2>4. SttInv
    BY DEF Init, SttInv, HeardInv, TurnInv, OrderInv, FloorInv, Active
  <2> QED BY <2>1, <2>2, <2>3, <2>4 DEF IInv
<1>2. ASSUME IInv, [Next]_vars PROVE IInv'
  <2>1. TypeOK' /\ StopsInv' /\ IdleInv' /\ QueueInv' /\ EmptyInv'
    BY <1>2, TypeStep, StopsStep, IdleStep, QueueStep, EmptyStep DEF IInv
  <2>2. realtime' = realtime  BY <1>2, EndIsFinal DEF IInv
  <2>3. ASSUME ~realtime PROVE SttInv'
    BY <1>2, <2>3, HeardStep, TurnStep, OrderStep, FloorStep DEF IInv, SttInv
  <2> QED BY <2>1, <2>2, <2>3 DEF IInv
<1> QED BY <1>1, <1>2, PTL DEF Spec

\* Every blocked transition leaves a state of the table, and stop() is inside its
\* cleanup at most twice.
THEOREM TypeCorrect == Spec => []TypeOK
<1>1. IInv => TypeOK  BY DEF IInv
<1> QED BY <1>1, Inductive, PTL

\* The audio queue completes each segment before the next one starts, for any
\* number of utterances and any failures in between.
THEOREM FirstInFirstOut == Spec => []InOrder
<1>1. IInv => InOrder
  BY DEF IInv, SttInv, OrderInv, InOrder, Active, Over
<1> QED BY <1>1, Inductive, PTL

\* The state tells truly whether an answer is being spoken.
THEOREM TrueFloor == Spec => []FloorIsTrue
<1>1. IInv => FloorIsTrue
  BY DEF IInv, SttInv, FloorInv, FloorIsTrue
<1> QED BY <1>1, Inductive, PTL

\* After stop() a segment can only finish.
THEOREM QuietEnd == Spec => NothingAfterEnd
<1>1. ASSUME IInv, [Next]_vars, state = "ended", NEW s \in Segments, stage'[s] # stage[s]
      PROVE  stage'[s] = "done"
  <2> USE DEF IInv
  <2>1. ~UNCHANGED audioVars /\ ~Stop /\ \A t \in Segments : ~Hear(t)
    BY <1>1 DEF audioVars, Stop, Hear
  <2>2. CASE \E t \in Segments : HearRealtime(t)
    BY <1>1, <2>2 DEF HearRealtime, Live, TypeOK
  <2>3. CASE \E t \in Segments : Turn(t)
    <3> PICK t \in Segments : Turn(t)  BY <2>3
    <3>1. Active(t) /\ Finish(t)
      BY <1>1, Turns DEF Turn, Transcribed, Responded, Spoken, Live
    <3>2. queue = <<>>  BY <1>1 DEF EmptyInv
    <3>3. stage' = [stage EXCEPT ![t] = "done"]
      BY <1>1, <3>1, <3>2, FinishEffect
    <3> QED BY <1>1, <3>3 DEF TypeOK
  <2> QED BY <1>1, <2>1, <2>2, <2>3, AudioSteps
<1>2. IInv /\ [Next]_vars
        => [state = "ended" => \A s \in Segments : stage'[s] # stage[s] => stage'[s] = "done"]_vars
  BY <1>1
<1> QED BY <1>2, Inductive, PTL DEF Spec, NothingAfterEnd
==============================================================================
